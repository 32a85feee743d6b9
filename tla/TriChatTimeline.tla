--------------------------- MODULE TriChatTimeline ---------------------------
(***************************************************************************)
(* What server processes do with a TriChat thread and the event bus:       *)
(* trichat.message_post with its consensus checks and alert, trichat.bus,  *)
(* the events of turns, and retention, at the grain of their statements.   *)
(* Composes BusStream and ThreadConsensus as src/src/server.ts does.       *)
(*                                                                         *)
(* A call runs to its end before its process does anything else; other     *)
(* processes run in between.  A second call under the same mutation key is *)
(* answered by the journal and reaches none of this.                       *)
(***************************************************************************)
EXTENDS BusStream, ThreadConsensus

CONSTANTS
    Budgets,      \* bounds on calls and mishaps, and the processes and clients there are
    NoCall

ASSUME TypesAssumption == Types = {"trichat.message_post", "consensus.alert", "trichat.turn", "adapter"}

ASSUME BudgetsAssumption ==
    Budgets \subseteq [procs : SUBSET Procs, clients : SUBSET Clients, posts : Nat, publishes : Nat,
                       controls : Nat, prunes : Nat, mishaps : Nat, turns : BOOLEAN]

VARIABLES
    call,         \* call[p]: the call process p is in
    flips,        \* messages of message_post that brought the thread into disagreement
    otherFlips,   \* messages persisted by a bus event that did
    started,      \* the processes that were ever started
    budget,       \* the bounds of this behaviour
    used,         \* calls so far
    mishaps       \* crashes, broken connections and failed statements so far

callVars == <<call, flips, otherFlips, started, budget, used, mishaps>>

vars == <<busVars, threadVars, callVars>>

Turn == [user : 0 .. MaxMessages, status : {"none", "incomplete", "consensus", "disagreement"}]

\* event is the event_seq of the row the call stored last, or 0.
Call ==
    [tool : {"post", "publish"}, at : {"append", "store", "send", "check", "alert", "send_alert", "persist"},
     message : Message, type : Types, persist : {"no", "yes", "invalid"}, event : 0 .. MaxEvents, before : Turn]

ASSUME NoCallAssumption == NoCall \notin Call

TypeOK ==
    /\ BusTypeOK /\ ThreadTypeOK
    /\ call \in [Procs -> Call \cup {NoCall}]
    /\ \A p \in Procs : call[p] # NoCall => bus[p].at \in {"idle", "running"}
    /\ flips \in 0 .. MaxMessages /\ otherFlips \in 0 .. MaxMessages
    /\ started \subseteq Procs /\ budget \in Budgets
    /\ \A k \in DOMAIN used : used[k] \in 0 .. budget[k]
    /\ mishaps \in 0 .. budget.mishaps

Init ==
    /\ BusInit /\ ThreadInit
    /\ call = [p \in Procs |-> NoCall]
    /\ flips = 0 /\ otherFlips = 0 /\ started = {}
    /\ budget \in Budgets
    /\ used = [posts |-> 0, publishes |-> 0, controls |-> 0, prunes |-> 0]
    /\ mishaps = 0

-----------------------------------------------------------------------------

Ready(p) == bus[p].at \in {"idle", "running"} /\ call[p] = NoCall

Spend(k) == used[k] < budget[k] /\ used' = [used EXCEPT ![k] = @ + 1]

Mishap == mishaps < budget.mishaps /\ mishaps' = mishaps + 1

InCall(p, at) == call[p] # NoCall /\ call[p].at = at

Go(p, at) == call' = [call EXCEPT ![p].at = at]

Done(p) == call' = [call EXCEPT ![p] = NoCall]

AfterSend(p) == IF call[p].tool = "post" /\ call[p].at = "send" THEN Go(p, "check") ELSE Done(p)

Latest == LatestTurn(messages, pruned)

Flips(m) == ~Flagged(messages, pruned) /\ Flagged(Append(messages, m), pruned)

\* trichat.message_post reads the consensus before anything else; a check that fails is
\* only noted.
MessagePost(p) ==
    /\ Ready(p) /\ Spend("posts")
    /\ \E m \in Postable, failed \in BOOLEAN :
          /\ budget.turns \/ m.role = "system"
          /\ call' = [call EXCEPT ![p] =
                [tool |-> "post", at |-> "append", message |-> m, type |-> "trichat.message_post",
                 persist |-> "no", event |-> 0, before |-> IF failed THEN NoTurn ELSE Latest]]
          /\ IF failed THEN Mishap ELSE UNCHANGED mishaps
    /\ UNCHANGED <<busVars, threadVars, flips, otherFlips, started, budget>>

\* The message is committed; when that fails so does the call.
PostMessage(p) ==
    /\ InCall(p, "append")
    /\ \/ /\ AppendMessage(call[p].message)
          /\ flips' = flips + (IF Flips(call[p].message) THEN 1 ELSE 0)
          /\ Go(p, "store") /\ UNCHANGED mishaps
       \/ Mishap /\ Done(p) /\ UNCHANGED <<threadVars, flips>>
    /\ UNCHANGED <<busVars, otherFlips, started, budget, used>>

\* publish stores the event.  A post whose event fails goes on to its second check.
StoreEvent(p) ==
    /\ InCall(p, "store")
    /\ \/ /\ AppendEvent(p, call[p].type)
          /\ call' = [call EXCEPT ![p].event = Len(events) + 1,
                                  ![p].at = IF call[p].persist = "no" THEN "send" ELSE "persist"]
          /\ UNCHANGED mishaps
       \/ /\ Mishap /\ UNCHANGED busVars
          /\ IF call[p].tool = "post" THEN Go(p, "check") ELSE Done(p)
    /\ UNCHANGED <<threadVars, flips, otherFlips, started, budget, used>>

\* The message a bus event may carry.  Without role, agent or content, or when the statement
\* fails, the call ends here, and the event that is stored is pushed to nobody.
PersistMessage(p) ==
    LET fails == Done(p) /\ unsent' = unsent \cup {call[p].event} /\ UNCHANGED <<threadVars, otherFlips>> IN
    /\ InCall(p, "persist")
    /\ \/ /\ call[p].persist = "yes"
          /\ AppendMessage(call[p].message)
          /\ otherFlips' = otherFlips + (IF Flips(call[p].message) THEN 1 ELSE 0)
          /\ Go(p, "send") /\ UNCHANGED <<unsent, mishaps>>
       \/ call[p].persist = "invalid" /\ fails /\ UNCHANGED mishaps
       \/ call[p].persist = "yes" /\ fails /\ Mishap
    /\ UNCHANGED <<events, path, bus, link, received, cut, foreign, flips, started, budget, used>>

SendEvent(p) ==
    /\ InCall(p, "send") \/ InCall(p, "send_alert")
    /\ BroadcastEvent(p, call[p].event)
    /\ AfterSend(p)
    /\ UNCHANGED <<threadVars, flips, otherFlips, started, budget, used, mishaps>>

\* The second check, which may fail and is then only noted.
CheckConsensus(p) ==
    /\ InCall(p, "check")
    /\ \/ /\ IF ShouldEmitAlert(call[p].before, Latest) THEN Go(p, "alert") ELSE Done(p)
          /\ UNCHANGED mishaps
       \/ Mishap /\ Done(p)
    /\ UNCHANGED <<busVars, threadVars, flips, otherFlips, started, budget, used>>

PublishAlert(p) ==
    /\ InCall(p, "alert")
    /\ \/ /\ AppendEvent(p, "consensus.alert")
          /\ call' = [call EXCEPT ![p].event = Len(events) + 1, ![p].at = "send_alert"]
          /\ UNCHANGED mishaps
       \/ Mishap /\ Done(p) /\ UNCHANGED busVars
    /\ UNCHANGED <<threadVars, flips, otherFlips, started, budget, used>>

PublishCall(m, type, persist) ==
    [tool |-> "publish", at |-> "store", message |-> m, type |-> type, persist |-> persist,
     event |-> 0, before |-> NoTurn]

\* publish, of trichat.bus or of a socket client, which may ask to persist a message.
Publish(p) ==
    /\ Ready(p) /\ Spend("publishes")
    /\ \E m \in Postable, persist \in {"no", "yes", "invalid"} :
          /\ persist # "yes" \/ ~budget.turns => m.role = "system"
          /\ call' = [call EXCEPT ![p] = PublishCall(m, "adapter", persist)]
    /\ UNCHANGED <<busVars, threadVars, flips, otherFlips, started, budget, mishaps>>

\* The turn tools publish, without a message, once the turn is stored; what a turn is, is
\* the subject of TriChatTurn.
PublishTurnEvent(p) ==
    /\ Ready(p) /\ Spend("publishes")
    /\ call' = [call EXCEPT ![p] = PublishCall([role |-> "system"], "trichat.turn", "no")]
    /\ UNCHANGED <<busVars, threadVars, flips, otherFlips, started, budget, mishaps>>

\* trichat.bus start and stop.
TrichatBusControl(p) ==
    /\ Ready(p) /\ Spend("controls")
    /\ StartBus(p) \/ StopBus(p)
    /\ UNCHANGED <<threadVars, call, flips, otherFlips, started, budget, mishaps>>

\* trichat.retention and its daemon.
TrichatRetention(p) ==
    /\ Ready(p) /\ Spend("prunes")
    /\ \E n \in 1 .. MaxMessages : PruneMessages(n)
    /\ UNCHANGED <<busVars, call, flips, otherFlips, started, budget, mishaps>>

-----------------------------------------------------------------------------

Launch(p) ==
    /\ p \in budget.procs /\ Initialize(p)
    /\ started' = started \cup {p}
    /\ UNCHANGED <<threadVars, call, flips, otherFlips, budget, used, mishaps>>

BindSocket(p) == Listen(p) /\ UNCHANGED <<threadVars, callVars>>

Subscriber(c) ==
    /\ \/ c \in budget.clients /\ Connect(c)
       \/ link[c] # NoLink /\ call[link[c].to] = NoCall /\ Subscribe(c)
       \/ ReadFrame(c)
    /\ UNCHANGED <<threadVars, callVars>>

ConnectionBreaks(c) ==
    /\ Disconnect(c) /\ Mishap
    /\ UNCHANGED <<threadVars, call, flips, otherFlips, started, budget, used>>

\* An event whose call died before it was pushed is not excused: no client has moved past it
\* on this process, and on another one it was foreign.
Crash(p) ==
    /\ bus[p].at # "down" /\ Mishap
    /\ BusCrash(p) /\ UNCHANGED unsent
    /\ Done(p)
    /\ UNCHANGED <<threadVars, flips, otherFlips, started, budget, used>>

Next ==
    \/ \E p \in Procs :
          \/ MessagePost(p) \/ PostMessage(p) \/ StoreEvent(p) \/ SendEvent(p) \/ CheckConsensus(p)
          \/ PublishAlert(p) \/ Publish(p) \/ PublishTurnEvent(p) \/ PersistMessage(p)
          \/ TrichatBusControl(p) \/ TrichatRetention(p)
          \/ Launch(p) \/ BindSocket(p) \/ Crash(p)
    \/ \E c \in Clients : Subscriber(c) \/ ConnectionBreaks(c)

Spec == Init /\ [][Next]_vars

-----------------------------------------------------------------------------

Alerts == {e \in 1 .. Len(events) : events[e].type = "consensus.alert"}

\* One server process stores a consensus.alert for every message that trichat.message_post
\* adds and that brings the thread into disagreement, also when agents change their answers,
\* questions overlap and retention takes old messages away, and never more alerts than there
\* were such messages, however they came.  A message that a bus event persisted may bring
\* disagreement and go unannounced, although src/README.md:24 promises an alert whenever a
\* thread flips.  Two processes may both alert, or neither, but no alert comes without a flip.
AlertPerFlip ==
    /\ Cardinality(started) <= 1 /\ mishaps = 0 /\ (\A p \in Procs : call[p] = NoCall) =>
          flips <= Cardinality(Alerts) /\ Cardinality(Alerts) <= flips + otherFlips
    /\ Cardinality(Alerts) <= Cardinality(Procs) * (flips + otherFlips)
=============================================================================
