------------------------------ MODULE BusStream ------------------------------
(***************************************************************************)
(* The live event bus of src/src/tools/trichat_bus.ts: events are rows     *)
(* with a rising event_seq, and every server process pushes what it        *)
(* publishes itself to the subscribers of its Unix socket.  A subscriber   *)
(* that lost its connection comes back with the last event_seq it saw and  *)
(* gets the events since then replayed, the newest ones up to a limit.     *)
(*                                                                         *)
(* All processes use one socket path: whoever starts or stops the bus      *)
(* unlinks it, whosever it is.  Each client has one subscription at a      *)
(* time, for the event types it wants, none meaning all.                   *)
(***************************************************************************)
EXTENDS Naturals, FiniteSets, Sequences

CONSTANTS
    Procs,        \* server processes
    Clients,      \* subscribers
    Types,        \* event types
    Wants,        \* Wants[c]: the event types client c subscribes to
    ReplayLimit,  \* replay_limit of the clients
    MaxEvents,    \* bound on the events ever stored
    NoFile,       \* nothing at the socket path
    NoLink        \* the client is not connected

ASSUME WantsAssumption == Wants \in [Clients -> SUBSET Types]

ASSUME ProcsAssumption == IsFiniteSet(Procs)

ASSUME MaxEventsAssumption == MaxEvents \in Nat

VARIABLES
    events,       \* the rows of table trichat_bus_events in the order of event_seq
    path,         \* the process whose socket file is at the path
    bus,          \* bus[p]: the bus in the memory of process p
    link,         \* link[c]: the connection of client c
    received,     \* received[c]: the event_seqs client c has read, in order
    cut,          \* cut[c]: events a replay left out because of its limit
    foreign,      \* foreign[c]: events stored by another process than the one c listened to
    unsent        \* events whose publish call failed after the row was stored

busVars == <<events, path, bus, link, received, cut, foreign, unsent>>

EventSeqs == 1 .. MaxEvents

Bus == [at : {"down", "idle", "unlinked", "running"}, bound : BOOLEAN]

Link == [to : Procs, subscribed : BOOLEAN, since : 0 .. MaxEvents, wire : Seq(EventSeqs)]

ASSUME NoLinkAssumption == NoLink \notin Link

BusTypeOK ==
    /\ events \in Seq([type : Types, by : Procs]) /\ Len(events) <= MaxEvents
    /\ path \in Procs \cup {NoFile}
    /\ bus \in [Procs -> Bus]
    /\ link \in [Clients -> Link \cup {NoLink}]
    /\ \A c \in Clients : link[c] # NoLink => bus[link[c].to].bound
    /\ received \in [Clients -> Seq(EventSeqs)]
    /\ cut \in [Clients -> SUBSET EventSeqs] /\ foreign \in [Clients -> SUBSET EventSeqs]
    /\ unsent \subseteq EventSeqs

BusInit ==
    /\ events = <<>> /\ path = NoFile
    /\ bus = [p \in Procs |-> [at |-> "down", bound |-> FALSE]]
    /\ link = [c \in Clients |-> NoLink]
    /\ received = [c \in Clients |-> <<>>]
    /\ cut = [c \in Clients |-> {}] /\ foreign = [c \in Clients |-> {}] /\ unsent = {}

-----------------------------------------------------------------------------
(* The socket. *)

\* Some of what is on the wire still arrives, the rest is lost with the connection.
Arrived(cs) ==
    \E n \in [cs -> 0 .. MaxEvents] :
        /\ \A c \in cs : n[c] <= Len(link[c].wire)
        /\ received' = [c \in Clients |->
               IF c \in cs THEN received[c] \o SubSeq(link[c].wire, 1, n[c]) ELSE received[c]]

Drop(cs) ==
    /\ Arrived(cs)
    /\ link' = [c \in Clients |-> IF c \in cs THEN NoLink ELSE link[c]]

ClientsOf(p) == {c \in Clients : link[c] # NoLink /\ link[c].to = p}

\* initialize, when the process comes up.
Initialize(p) ==
    /\ bus[p].at = "down"
    /\ \/ bus' = [bus EXCEPT ![p].at = "unlinked"] /\ path' = NoFile
       \/ bus' = [bus EXCEPT ![p].at = "idle"] /\ UNCHANGED path
    /\ UNCHANGED <<events, link, received, cut, foreign, unsent>>

\* start: nothing when it runs, else unlink whatever is at the path.
StartBus(p) ==
    /\ bus[p].at = "idle"
    /\ bus' = [bus EXCEPT ![p].at = "unlinked"] /\ path' = NoFile
    /\ UNCHANGED <<events, link, received, cut, foreign, unsent>>

\* server.listen: if another process bound the path in between, an error is noted and the
\* bus counts as running all the same.
Listen(p) ==
    /\ bus[p].at = "unlinked"
    /\ bus' = [bus EXCEPT ![p] = [at |-> "running", bound |-> path = NoFile]]
    /\ path' = IF path = NoFile THEN p ELSE path
    /\ UNCHANGED <<events, link, received, cut, foreign, unsent>>

\* Variant: stop leaves the connections alone.
StopListening(p) ==
    /\ bus[p].at \in {"idle", "running"}
    /\ bus' = [bus EXCEPT ![p] = [at |-> "idle", bound |-> FALSE]]
    /\ path' = NoFile
    /\ UNCHANGED <<events, link, received, cut, foreign, unsent>>

\* stop, also of a bus that does not run: connections end and the path is unlinked.
StopBus(p) ==
    /\ bus[p].at \in {"idle", "running"}
    /\ bus' = [bus EXCEPT ![p] = [at |-> "idle", bound |-> FALSE]]
    /\ path' = NoFile
    /\ Drop(ClientsOf(p))
    /\ UNCHANGED <<events, cut, foreign, unsent>>

\* A process that dies leaves its socket file behind.
BusCrash(p) ==
    /\ bus' = [bus EXCEPT ![p] = [at |-> "down", bound |-> FALSE]]
    /\ Drop(ClientsOf(p))
    /\ UNCHANGED <<events, path, cut, foreign>>

-----------------------------------------------------------------------------
(* Subscribers. *)

\* The client's own since_seq: the greatest event_seq it has read.
Cursor(c) ==
    IF received[c] = <<>> THEN 0
    ELSE CHOOSE s \in {received[c][i] : i \in DOMAIN received[c]} :
            \A i \in DOMAIN received[c] : received[c][i] <= s

SubscriptionMatches(c, e) == Wants[c] = {} \/ events[e].type \in Wants[c]

\* handleConnection.
Connect(c) ==
    /\ link[c] = NoLink /\ path # NoFile /\ bus[path].bound
    /\ link' = [link EXCEPT ![c] = [to |-> path, subscribed |-> FALSE, since |-> 0, wire |-> <<>>]]
    /\ UNCHANGED <<events, path, bus, received, cut, foreign, unsent>>

\* listTriChatBusEvents: the newest rows after since, in the order of event_seq.
Newer(c, since) == {e \in 1 .. Len(events) : e > since /\ SubscriptionMatches(c, e)}

ReplayOf(c, since) == {e \in Newer(c, since) : Cardinality({f \in Newer(c, since) : f > e}) < ReplayLimit}

InOrder(es) == [i \in 1 .. Cardinality(es) |-> CHOOSE e \in es : Cardinality({f \in es : f < e}) = i - 1]

\* The subscribe command, with the client's cursor, and the replay that answers it.
Subscribe(c) ==
    /\ link[c] # NoLink /\ ~link[c].subscribed
    /\ LET since == Cursor(c)
           replay == ReplayOf(c, since)
           last == IF replay = {} THEN since ELSE CHOOSE e \in replay : \A f \in replay : f <= e
       IN
       /\ link' = [link EXCEPT ![c].subscribed = TRUE, ![c].since = last, ![c].wire = InOrder(replay)]
       /\ cut' = [cut EXCEPT ![c] = @ \cup (Newer(c, since) \ replay)]
    /\ UNCHANGED <<events, path, bus, received, foreign, unsent>>

\* The client reads the next frame.
ReadFrame(c) ==
    /\ link[c] # NoLink /\ link[c].wire # <<>>
    /\ received' = [received EXCEPT ![c] = Append(@, Head(link[c].wire))]
    /\ link' = [link EXCEPT ![c].wire = Tail(@)]
    /\ UNCHANGED <<events, path, bus, cut, foreign, unsent>>

\* The connection breaks.
Disconnect(c) ==
    /\ link[c] # NoLink
    /\ Drop({c})
    /\ UNCHANGED <<events, path, bus, cut, foreign, unsent>>

-----------------------------------------------------------------------------
(* Publishing. *)

\* appendTriChatBusEvent.
AppendEvent(p, type) ==
    LET e == Len(events) + 1 IN
    /\ e <= MaxEvents
    /\ events' = Append(events, [type |-> type, by |-> p])
    /\ foreign' = [c \in Clients |->
           IF link[c] # NoLink /\ link[c].to # p /\ link[c].subscribed
           THEN foreign[c] \cup {e} ELSE foreign[c]]
    /\ UNCHANGED <<path, bus, link, received, cut, unsent>>

\* Variant: an event is pushed to every connection, subscribed or not.
BroadcastToAll(p, e) ==
    /\ link' = [c \in Clients |->
           IF c \in ClientsOf(p) /\ SubscriptionMatches(c, e)
           THEN [link[c] EXCEPT !.wire = Append(@, e)] ELSE link[c]]
    /\ UNCHANGED <<events, path, bus, received, cut, foreign, unsent>>

\* broadcastEvent, to the matching subscriptions of this process.
BroadcastEvent(p, e) ==
    /\ link' = [c \in Clients |->
           IF c \in ClientsOf(p) /\ link[c].subscribed /\ SubscriptionMatches(c, e) /\ e > link[c].since
           THEN [link[c] EXCEPT !.wire = Append(@, e), !.since = e] ELSE link[c]]
    /\ UNCHANGED <<events, path, bus, received, cut, foreign, unsent>>

-----------------------------------------------------------------------------

Excused(c) == cut[c] \cup foreign[c] \cup unsent

\* What a subscriber has read rises, so nothing comes twice, and it has read every event it
\* wants up to there: through crashes, broken connections, a stolen socket path and events
\* that were stored while it was away.  Left out are what the limit of a replay cut off,
\* what another process published while it listened to one that did not, and events whose
\* publish call failed halfway.
SubscribersMissNothing ==
    \A c \in Clients :
        /\ \A i, j \in DOMAIN received[c] : i < j => received[c][i] < received[c][j]
        /\ \A e \in 1 .. Len(events) :
              e <= Cursor(c) /\ SubscriptionMatches(c, e) /\ e \notin Excused(c) =>
                  \E i \in DOMAIN received[c] : received[c][i] = e
=============================================================================
