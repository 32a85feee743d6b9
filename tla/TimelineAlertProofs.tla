------------------------ MODULE TimelineAlertProofs ------------------------
(***************************************************************************)
(* The consensus alerts of a timeline, for any number of agents, answers   *)
(* and messages: one server process stores an alert for each message of    *)
(* message_post that brings disagreement, and however many processes there *)
(* are, no alert comes without a message that did.                         *)
(***************************************************************************)
EXTENDS TimelineStreamProofs

-----------------------------------------------------------------------------
(* What a message does to the latest turn *)

\* An answer comes after the message it answers.
AnswersBefore(m, n) == m.role = "assistant" => m.reply < n

Orderly(log) == \A i \in DOMAIN log : AnswersBefore(log[i], i)

\* Two threads in which a user message has the same answers agree about it.
LEMMA SameReplies ==
    ASSUME NEW log \in Seq(Message), NEW other \in Seq(Message), NEW gone, NEW less, NEW u,
           \A a \in Agents : Replies(log, gone, u, a) = Replies(other, less, u, a),
           \A a \in Agents : \A i \in Replies(log, gone, u, a) : log[i] = other[i]
    PROVE  /\ Responders(log, gone, u) = Responders(other, less, u)
           /\ EvaluateConsensusTurn(log, gone, u) = EvaluateConsensusTurn(other, less, u)
<1>1. Responders(log, gone, u) = Responders(other, less, u)
  BY DEF Responders
<1>2. \A a \in Responders(log, gone, u) : AnswerOf(log, gone, u, a) = AnswerOf(other, less, u, a)
  <2> SUFFICES ASSUME NEW a \in Responders(log, gone, u)
               PROVE  AnswerOf(log, gone, u, a) = AnswerOf(other, less, u, a)
    OBVIOUS
  <2>1. a \in Agents /\ Replies(log, gone, u, a) # {}
    BY DEF Responders
  <2> DEFINE rs == Replies(log, gone, u, a)
             last == CHOOSE i \in rs : \A j \in rs : j <= i
  <2>2. rs \in SUBSET (1 .. Len(log)) /\ Len(log) \in Nat
    BY LenProperties DEF Replies, Present
  <2>3. AnswerOf(log, gone, u, a) = log[last].answer /\ AnswerOf(other, less, u, a) = other[last].answer
    BY <2>1 DEF AnswerOf
  <2>4. last \in rs
    <3> HIDE DEF rs
    <3>1. IsFiniteSet(rs) /\ rs \in SUBSET Nat
      BY <2>2, IntervalSubset
    <3>2. \E i \in rs : \A j \in rs : j <= i
      BY <2>1, <3>1, GreatestExists DEF rs
    <3>3. QED BY <3>2
  <2> HIDE DEF last
  <2>5. QED BY <2>1, <2>3, <2>4
<1>3. {AnswerOf(log, gone, u, a) : a \in Responders(log, gone, u)}
          = {AnswerOf(other, less, u, a) : a \in Responders(other, less, u)}
  BY <1>1, <1>2
<1>4. QED BY <1>1, <1>3 DEF EvaluateConsensusTurn

\* The greatest answered message is the latest turn.
LEMMA LatestTurnOf ==
    ASSUME NEW log \in Seq(Message), NEW gone, NEW u \in Answered(log, gone),
           \A v \in Answered(log, gone) : v <= u
    PROVE  LatestTurn(log, gone) = [user |-> u, status |-> EvaluateConsensusTurn(log, gone, u)]
<1>1. Answered(log, gone) \subseteq 1 .. Len(log) /\ Len(log) \in Nat
  BY LatestTurnIs, LenProperties
<1>2. PICK w \in Answered(log, gone) :
        /\ \A v \in Answered(log, gone) : v <= w
        /\ LatestTurn(log, gone) = [user |-> w, status |-> EvaluateConsensusTurn(log, gone, w)]
  BY LatestTurnIs
<1>3. w <= u /\ u <= w /\ u \in Nat /\ w \in Nat
  BY <1>1, <1>2
<1>4. QED BY <1>2, <1>3

\* A disagreement has a turn.
LEMMA FlaggedTurn ==
    ASSUME NEW log \in Seq(Message), NEW gone, Flagged(log, gone)
    PROVE  \E u \in Answered(log, gone) :
              /\ \A v \in Answered(log, gone) : v <= u
              /\ LatestTurn(log, gone) = [user |-> u, status |-> EvaluateConsensusTurn(log, gone, u)]
              /\ EvaluateConsensusTurn(log, gone, u) = "disagreement"
<1>1. NoTurn.status # "disagreement"
  BY DEF NoTurn
<1>2. Answered(log, gone) # {}
  BY <1>1, LatestTurnIs DEF Flagged
<1>3. QED BY <1>2, LatestTurnIs DEF Flagged

\* Taking old messages away never brings a disagreement to light: the answers of a message
\* that is left are left.
LEMMA PruningFlagsNothing ==
    ASSUME NEW log \in Seq(Message), Orderly(log), NEW gone \in Nat, NEW n \in Nat, gone <= n,
           Flagged(log, n)
    PROVE  Flagged(log, gone)
<1>1. Len(log) \in Nat /\ DOMAIN log = 1 .. Len(log) /\ \A i \in 1 .. Len(log) : log[i] \in Message
  BY LenProperties, ElementOfSeq
<1>2. \A i \in 1 .. Len(log) : log[i].role = "assistant" => log[i].reply \in Nat
  BY <1>1, ThreadAssumption DEF Message
<1>3. \A u \in 1 .. Len(log), a \in Agents : u > n => Replies(log, n, u, a) = Replies(log, gone, u, a)
  <2> SUFFICES ASSUME NEW u \in 1 .. Len(log), NEW a \in Agents, u > n
               PROVE  Replies(log, n, u, a) = Replies(log, gone, u, a)
    OBVIOUS
  <2>1. \A i \in 1 .. Len(log) : log[i].role = "assistant" /\ log[i].reply = u => i > n /\ i > gone
    BY <1>1, <1>2 DEF Orderly, AnswersBefore
  <2>2. QED BY <1>1, <2>1 DEF Replies, Present
<1>4. \A u \in 1 .. Len(log) : u > n =>
          /\ Responders(log, n, u) = Responders(log, gone, u)
          /\ EvaluateConsensusTurn(log, n, u) = EvaluateConsensusTurn(log, gone, u)
  BY <1>3, SameReplies
<1>5. \A u \in 1 .. Len(log) : u \in Answered(log, n) <=> u > n /\ u \in Answered(log, gone)
  <2> TAKE u \in 1 .. Len(log)
  <2>1. u > n => u > gone
    BY <1>1
  <2>2. QED BY <1>1, <1>4, <2>1 DEF Answered, UserMessages, Present
<1>6. PICK u \in Answered(log, n) :
        /\ \A v \in Answered(log, n) : v <= u
        /\ EvaluateConsensusTurn(log, n, u) = "disagreement"
  BY FlaggedTurn
<1>7. Answered(log, n) \subseteq 1 .. Len(log) /\ Answered(log, gone) \subseteq 1 .. Len(log)
  BY LatestTurnIs
<1>8. u \in 1 .. Len(log) /\ u > n /\ u \in Answered(log, gone)
  BY <1>5, <1>6, <1>7
<1>9. \A v \in Answered(log, gone) : v <= u
  <2> TAKE v \in Answered(log, gone)
  <2>1. v \in 1 .. Len(log)
    BY <1>7
  <2>2. v > n => v <= u
    BY <1>5, <1>6, <2>1
  <2>3. QED BY <1>1, <1>8, <2>1, <2>2
<1>10. LatestTurn(log, gone).status = EvaluateConsensusTurn(log, gone, u)
  BY <1>8, <1>9, LatestTurnOf
<1>11. QED BY <1>4, <1>6, <1>8, <1>10 DEF Flagged

\* A message appended to a thread is one more answer to what it answers, and nothing else.
LEMMA AppendedReplies ==
    ASSUME NEW log \in Seq(Message), Orderly(log), NEW m \in Message, AnswersBefore(m, Len(log) + 1),
           NEW gone \in Nat, gone <= Len(log)
    PROVE  LET longer == Append(log, m)
               N == Len(log) + 1
           IN  /\ longer \in Seq(Message)
               /\ \A i \in 1 .. Len(log) : longer[i] = log[i]
               /\ Orderly(longer)
               /\ \A u \in 1 .. Len(log), a \in Agents :
                     Replies(longer, gone, u, a) =
                         Replies(log, gone, u, a) \cup
                             {i \in {N} : m.role = "assistant" /\ m.agent = a /\ m.reply = u}
               /\ \A u \in Answered(longer, gone) : u \in 1 .. Len(log) /\ u \in UserMessages(log, gone)
               /\ Answered(log, gone) \subseteq Answered(longer, gone)
<1> DEFINE longer == Append(log, m)
           N == Len(log) + 1
<1>1. Len(log) \in Nat /\ DOMAIN log = 1 .. Len(log) /\ \A i \in 1 .. Len(log) : log[i] \in Message
  BY LenProperties, ElementOfSeq
<1>2. /\ longer \in Seq(Message) /\ Len(longer) = N /\ DOMAIN longer = 1 .. N
      /\ longer[N] = m
      /\ \A i \in 1 .. Len(log) : longer[i] = log[i]
  OBVIOUS
<1> HIDE DEF longer
<1>3. \A i \in 1 .. N : i \in 1 .. Len(log) \/ i = N
  BY <1>1
<1>4. Orderly(longer)
  BY <1>2, <1>3, <1>1 DEF Orderly
<1>5. \A i \in 1 .. N : longer[i].role = "assistant" => longer[i].reply \in Nat /\ longer[i].reply < i
  <2> SUFFICES ASSUME NEW i \in 1 .. N, longer[i].role = "assistant"
               PROVE  longer[i].reply \in Nat /\ longer[i].reply < i
    OBVIOUS
  <2>1. longer[i] \in Message
    BY <1>1, <1>2, <1>3
  <2>2. QED BY <1>2, <1>4, <2>1, ThreadAssumption DEF Orderly, AnswersBefore, Message
<1>6. N \in 1 .. N /\ N > gone /\ N \notin 1 .. Len(log) /\ \A i \in 1 .. Len(log) : i \in 1 .. N
  BY <1>1
<1>7. \A u \in 1 .. Len(log), a \in Agents :
        Replies(longer, gone, u, a) =
            Replies(log, gone, u, a) \cup {i \in {N} : m.role = "assistant" /\ m.agent = a /\ m.reply = u}
  BY <1>1, <1>2, <1>3, <1>6 DEF Replies, Present
<1>8. \A u \in Answered(longer, gone) : u \in 1 .. Len(log) /\ u \in UserMessages(log, gone)
  <2> TAKE u \in Answered(longer, gone)
  <2>1. u \in 1 .. N /\ u > gone /\ longer[u].role = "user" /\ Responders(longer, gone, u) # {}
    BY <1>2 DEF Answered, UserMessages, Present
  <2>2. PICK i \in 1 .. N : longer[i].role = "assistant" /\ longer[i].reply = u
    BY <1>2, <2>1 DEF Responders, Replies, Present
  <2>3. u < i
    BY <1>5, <2>2
  <2>4. u # N
    BY <1>1, <2>2, <2>3
  <2>5. QED BY <1>1, <1>2, <1>3, <2>1, <2>4 DEF UserMessages, Present
<1>9. Answered(log, gone) \subseteq Answered(longer, gone)
  <2> SUFFICES ASSUME NEW u \in Answered(log, gone) PROVE u \in Answered(longer, gone)
    OBVIOUS
  <2>1. u \in 1 .. Len(log) /\ u \in UserMessages(longer, gone) /\ Responders(log, gone, u) # {}
    BY <1>1, <1>2, <1>6 DEF Answered, UserMessages, Present
  <2>2. Responders(log, gone, u) \subseteq Responders(longer, gone, u)
    BY <1>7, <2>1 DEF Responders
  <2>3. QED BY <2>1, <2>2 DEF Answered
<1>10. QED BY <1>2, <1>4, <1>7, <1>8, <1>9 DEF longer

\* A consensus takes two agents.
LEMMA OneIsIncomplete ==
    ASSUME NEW log, NEW gone, NEW u, NEW b, Responders(log, gone, u) \subseteq {b}
    PROVE  EvaluateConsensusTurn(log, gone, u) = "incomplete"
<1>1. Required \in Nat /\ Required >= 2
  <2>1. Cardinality(Agents) \in Nat
    BY ThreadAssumption, FS_CardinalityType
  <2>2. QED BY <2>1, ThreadAssumption DEF Required
<1>2. Cardinality(Responders(log, gone, u)) \in {0, 1}
  <2>1. Responders(log, gone, u) = {} \/ Responders(log, gone, u) = {b}
    OBVIOUS
  <2>2. QED BY <2>1, FS_EmptySet, FS_Singleton
<1>3. Cardinality(Responders(log, gone, u)) < Required
  BY <1>1, <1>2
<1>4. QED BY <1>3 DEF EvaluateConsensusTurn

\* A message that brings disagreement finds the turn it answers undecided or agreed, and
\* leaves it the latest: what the alert is decided on.
LEMMA FlipIsSeen ==
    ASSUME NEW log \in Seq(Message), Orderly(log), NEW m \in Message, AnswersBefore(m, Len(log) + 1),
           NEW gone \in Nat, gone <= Len(log)
    PROVE  ~Flagged(log, gone) /\ Flagged(Append(log, m), gone)
               <=> ShouldEmitAlert(LatestTurn(log, gone), LatestTurn(Append(log, m), gone))
<1> DEFINE longer == Append(log, m)
           N == Len(log) + 1
<1>1. ShouldEmitAlert(LatestTurn(log, gone), LatestTurn(longer, gone)) => ~Flagged(log, gone) /\ Flagged(longer, gone)
  BY DEF ShouldEmitAlert, Flagged
<1>2. /\ longer \in Seq(Message)
      /\ \A i \in 1 .. Len(log) : longer[i] = log[i]
      /\ \A u \in 1 .. Len(log), a \in Agents :
            Replies(longer, gone, u, a) =
                Replies(log, gone, u, a) \cup {i \in {N} : m.role = "assistant" /\ m.agent = a /\ m.reply = u}
      /\ \A u \in Answered(longer, gone) : u \in 1 .. Len(log) /\ u \in UserMessages(log, gone)
      /\ Answered(log, gone) \subseteq Answered(longer, gone)
  BY AppendedReplies
<1> HIDE DEF longer
<1>3. SUFFICES ASSUME ~Flagged(log, gone), Flagged(longer, gone)
               PROVE  ShouldEmitAlert(LatestTurn(log, gone), LatestTurn(longer, gone))
  BY <1>1 DEF longer
<1>4. PICK u \in Answered(longer, gone) :
        /\ \A v \in Answered(longer, gone) : v <= u
        /\ LatestTurn(longer, gone) = [user |-> u, status |-> EvaluateConsensusTurn(longer, gone, u)]
        /\ EvaluateConsensusTurn(longer, gone, u) = "disagreement"
  BY <1>2, <1>3, FlaggedTurn
<1>5. u \in 1 .. Len(log) /\ u \in UserMessages(log, gone)
  BY <1>2, <1>4
<1>6. DOMAIN log = 1 .. Len(log) /\ Len(log) \in Nat
  BY LenProperties
<1>7. \A a \in Agents : Replies(log, gone, u, a) \subseteq 1 .. Len(log)
  BY <1>6 DEF Replies, Present
<1>8. m.role = "assistant" /\ m.reply = u
  <2> SUFFICES ASSUME ~(m.role = "assistant" /\ m.reply = u) PROVE FALSE
    OBVIOUS
  <2>1. \A a \in Agents : Replies(log, gone, u, a) = Replies(longer, gone, u, a)
    <3> TAKE a \in Agents
    <3>1. Replies(longer, gone, u, a) =
              Replies(log, gone, u, a) \cup {i \in {N} : m.role = "assistant" /\ m.agent = a /\ m.reply = u}
      BY <1>2, <1>5
    <3>2. {i \in {N} : m.role = "assistant" /\ m.agent = a /\ m.reply = u} = {}
      OBVIOUS
    <3>3. QED BY <3>1, <3>2
  <2>2. \A a \in Agents : \A i \in Replies(log, gone, u, a) : log[i] = longer[i]
    BY <1>2, <1>7
  <2>3. /\ Responders(log, gone, u) = Responders(longer, gone, u)
        /\ EvaluateConsensusTurn(log, gone, u) = EvaluateConsensusTurn(longer, gone, u)
    BY <1>2, <2>1, <2>2, SameReplies
  <2>4. u \in Answered(log, gone)
    BY <1>4, <1>5, <2>3 DEF Answered
  <2>5. LatestTurn(log, gone).status = "disagreement"
    BY <1>2, <1>4, <2>3, <2>4, LatestTurnOf
  <2>6. QED BY <1>3, <2>5 DEF Flagged
<1>9. Responders(log, gone, u) # {}
  <2> SUFFICES ASSUME Responders(log, gone, u) = {} PROVE FALSE
    OBVIOUS
  <2>1. Responders(longer, gone, u) \subseteq {m.agent}
    BY <1>2, <1>5 DEF Responders
  <2>2. EvaluateConsensusTurn(longer, gone, u) = "incomplete"
    BY <2>1, OneIsIncomplete
  <2>3. QED BY <1>4, <2>2
<1>10. u \in Answered(log, gone) /\ \A v \in Answered(log, gone) : v <= u
  BY <1>2, <1>4, <1>5, <1>9 DEF Answered
<1>11. LatestTurn(log, gone) = [user |-> u, status |-> EvaluateConsensusTurn(log, gone, u)]
  BY <1>10, LatestTurnOf
<1>12. EvaluateConsensusTurn(log, gone, u) \notin {"none", "disagreement"}
  <2>1. EvaluateConsensusTurn(log, gone, u) # "none"
    BY DEF EvaluateConsensusTurn
  <2>2. QED BY <1>3, <1>11, <2>1 DEF Flagged
<1>13. QED BY <1>4, <1>11, <1>12 DEF ShouldEmitAlert

-----------------------------------------------------------------------------
(* The alerts of every process *)

AlertsOf(p) == {e \in Alerts : events[e].by = p}

\* Alerts are rows, and there are finitely many.
LEMMA AlertsFinite ==
    ASSUME BusTyped
    PROVE  /\ Len(events) \in Nat
           /\ Alerts \in SUBSET (1 .. Len(events)) /\ IsFiniteSet(Alerts) /\ Cardinality(Alerts) \in Nat
           /\ \A p : AlertsOf(p) \in SUBSET (1 .. Len(events)) /\ IsFiniteSet(AlertsOf(p))
           /\ \A p : Cardinality(AlertsOf(p)) \in Nat
<1>1. Len(events) \in Nat
  BY DEF BusTyped, BusTypeOK
<1>2. Alerts \in SUBSET (1 .. Len(events)) /\ \A p : AlertsOf(p) \in SUBSET (1 .. Len(events))
  BY DEF Alerts, AlertsOf
<1>3. \A es \in SUBSET (1 .. Len(events)) : IsFiniteSet(es)
  BY <1>1, IntervalSubset
<1>4. IsFiniteSet(Alerts) /\ \A p : IsFiniteSet(AlertsOf(p))
  BY <1>2, <1>3
<1>5. QED BY <1>1, <1>2, <1>4, FS_CardinalityType

\* A stored event is an alert of the process that stored it, or none.
LEMMA StoredAlerts ==
    ASSUME BusTyped, NEW p \in Procs, NEW type \in Types, AppendEvent(p, type)
    PROVE  /\ type # "consensus.alert" => Alerts' = Alerts /\ \A q : AlertsOf(q)' = AlertsOf(q)
           /\ type = "consensus.alert" =>
                 /\ Cardinality(Alerts') = Cardinality(Alerts) + 1
                 /\ Cardinality(AlertsOf(p)') = Cardinality(AlertsOf(p)) + 1
                 /\ \A q : q # p => AlertsOf(q)' = AlertsOf(q)
<1> DEFINE N == Len(events) + 1
           new == IF type = "consensus.alert" THEN {N} ELSE {}
<1>1. /\ events \in Seq([type : Types, by : Procs]) /\ Len(events) \in Nat
      /\ events' = Append(events, [type |-> type, by |-> p])
  BY DEF BusTyped, BusTypeOK, AppendEvent
<1>2. /\ Len(events') = N /\ events'[N] = [type |-> type, by |-> p]
      /\ \A e \in 1 .. Len(events) : events'[e] = events[e]
      /\ 1 .. N = (1 .. Len(events)) \cup {N} /\ N \notin 1 .. Len(events)
  BY <1>1
<1>3. Alerts' = Alerts \cup new
  BY <1>2 DEF Alerts
<1>4. \A q : AlertsOf(q)' = AlertsOf(q) \cup (IF q = p THEN new ELSE {})
  BY <1>2, <1>3 DEF AlertsOf, Alerts
<1>5. /\ IsFiniteSet(Alerts) /\ IsFiniteSet(AlertsOf(p))
      /\ N \notin Alerts /\ N \notin AlertsOf(p)
  BY <1>2, AlertsFinite
<1> HIDE DEF N
<1>6. CASE type = "consensus.alert"
  <2>1. Alerts' = Alerts \cup {N} /\ AlertsOf(p)' = AlertsOf(p) \cup {N}
    BY <1>3, <1>4, <1>6
  <2>2. \A q : q # p => AlertsOf(q)' = AlertsOf(q)
    BY <1>4
  <2>3. Cardinality(Alerts \cup {N}) = Cardinality(Alerts) + 1
    BY <1>5, FS_AddElement
  <2>4. Cardinality(AlertsOf(p) \cup {N}) = Cardinality(AlertsOf(p)) + 1
    BY <1>5, FS_AddElement
  <2>5. QED BY <1>6, <2>1, <2>2, <2>3, <2>4
<1>7. CASE type # "consensus.alert"
  BY <1>3, <1>4, <1>7
<1>8. QED BY <1>6, <1>7

-----------------------------------------------------------------------------
(* Calls and the thread they see *)

\* A call is a post or carries no first check, stores no alert as its event, and answers a
\* message that is there.
Shaped(x, n) ==
    /\ x.type # "consensus.alert"
    /\ x.tool = "post" => x.persist = "no"
    /\ x.tool # "post" \/ x.at = "persist" => x.before = NoTurn
    /\ AnswersBefore(x.message, n + 1)

ShapeInv ==
    /\ Orderly(messages)
    /\ \A p \in Procs : call[p] # NoCall => Shaped(call[p], Len(messages))

\* A call that moves keeps its shape, whatever is appended meanwhile.
LEMMA ShapeStep ==
    ASSUME TypeInv, ShapeInv, NEW p \in Procs, NEW x \in Call \cup {NoCall},
           call' = [call EXCEPT ![p] = x], x # NoCall => Shaped(x, Len(messages)),
           \/ UNCHANGED messages
           \/ \E m \in Message : AppendMessage(m) /\ AnswersBefore(m, Len(messages) + 1)
    PROVE  ShapeInv'
<1>1. messages \in Seq(Message) /\ Len(messages) \in Nat /\ call \in [Procs -> Call \cup {NoCall}]
  BY DEF TypeInv, ThreadTypeOK, CallTyped
<1>2. Orderly(messages')
  <2>1. ASSUME NEW m \in Message, messages' = Append(messages, m), AnswersBefore(m, Len(messages) + 1)
        PROVE  Orderly(messages')
    <3>1. 0 \in Nat /\ 0 <= Len(messages) /\ Orderly(messages)
      BY <1>1 DEF ShapeInv
    <3>2. QED BY <1>1, <2>1, <3>1, AppendedReplies
  <2>2. QED BY <2>1 DEF ShapeInv, AppendMessage
<1>3. Len(messages') \in Nat /\ Len(messages) <= Len(messages')
  BY <1>1 DEF AppendMessage
<1>4. \A y \in Call : Shaped(y, Len(messages)) => Shaped(y, Len(messages'))
  <2> SUFFICES ASSUME NEW y \in Call, Shaped(y, Len(messages)) PROVE Shaped(y, Len(messages'))
    OBVIOUS
  <2> DEFINE m == y.message
             r == m.reply
  <2>1. m \in Message
    BY DEF Call
  <2>2. m.role = "assistant" => r \in Nat
    BY <2>1, ThreadAssumption DEF Message
  <2>3. m.role = "assistant" => r < Len(messages) + 1
    BY DEF Shaped, AnswersBefore
  <2> HIDE DEF r
  <2>4. m.role = "assistant" => r < Len(messages') + 1
    BY <1>1, <1>3, <2>2, <2>3
  <2>5. AnswersBefore(y.message, Len(messages') + 1)
    BY <2>4 DEF AnswersBefore, r
  <2>6. QED BY <2>5 DEF Shaped
<1>5. \A q \in Procs : call'[q] # NoCall => call'[q] \in Call /\ Shaped(call'[q], Len(messages))
  BY <1>1 DEF ShapeInv
<1>6. QED BY <1>2, <1>4, <1>5 DEF ShapeInv

\* No call moves and no message comes.
LEMMA ShapeStill ==
    ASSUME ShapeInv, UNCHANGED <<call, messages>>
    PROVE  ShapeInv'
BY DEF ShapeInv

-----------------------------------------------------------------------------
(* The invariant *)

\* A post under way that may store an alert yet: it decided to, or its first check found a
\* turn undecided or agreed and now there is disagreement.
MayAlert(x, flagged) ==
    /\ x # NoCall
    /\ \/ x.at = "alert"
       \/ /\ x.at \in {"append", "store", "send", "check"}
          /\ x.before.status \notin {"none", "disagreement"} /\ flagged

Owed(x, flagged) == IF MayAlert(x, flagged) THEN 1 ELSE 0

\* The messages that brought disagreement.
Flipped == flips + otherFlips

\* Every process has stored, or may store, no more alerts than there are of these.
Covered(p) == Cardinality(AlertsOf(p)) + Owed(call[p], Flagged(messages, pruned)) <= Flipped

\* A post under way that will store an alert, while nobody else posts.
WillAlert(x, after) ==
    /\ x # NoCall
    /\ \/ x.at = "alert"
       \/ x.at \in {"store", "send", "check"} /\ ShouldEmitAlert(x.before, after)

\* With the alert that is to come, there is one for each of those of message_post.
Balanced(p) ==
    /\ Cardinality(Alerts) + (IF WillAlert(call[p], Latest) THEN 1 ELSE 0) = flips
    /\ call[p] # NoCall /\ call[p].at = "append" => call[p].before = Latest

Alone ==
    /\ \A p \in Procs : p \notin started => bus[p].at = "down"
    /\ started = {} => Alerts = {} /\ flips = 0
    /\ \A p \in Procs : started = {p} /\ mishaps = 0 => Balanced(p)

AlertInv == ShapeInv /\ (\A p \in Procs : Covered(p)) /\ Alone

\* At most one alert is owed, and there are finitely many flips.
LEMMA OwedIs ==
    /\ \A x, y, f, g : Owed(x, f) \in {0, 1} /\ ((MayAlert(x, f) => MayAlert(y, g)) => Owed(x, f) <= Owed(y, g))
    /\ TypeInv => Flipped \in Nat
<1>1. \A x, y, f, g : Owed(x, f) \in {0, 1} /\ ((MayAlert(x, f) => MayAlert(y, g)) => Owed(x, f) <= Owed(y, g))
  BY DEF Owed
<1>2. TypeInv => Flipped \in Nat
  BY DEF TypeInv, FlipsTyped, Flipped
<1>3. QED BY <1>1, <1>2

\* What covers the alerts of a process keeps covering them while it stores none.
LEMMA CoveredStep ==
    ASSUME TypeInv, NEW p \in Procs, Covered(p), AlertsOf(p)' = AlertsOf(p),
           \/ Flipped' = Flipped + 1
           \/ /\ Flipped' = Flipped
              /\ MayAlert(call[p], Flagged(messages, pruned))' => MayAlert(call[p], Flagged(messages, pruned))
    PROVE  Covered(p)'
<1> DEFINE n == Cardinality(AlertsOf(p))
           d == Owed(call[p], Flagged(messages, pruned))
<1>1. n \in Nat /\ Flipped \in Nat /\ d \in {0, 1} /\ d' \in {0, 1}
  BY AlertsFinite, OwedIs DEF TypeInv
<1>2. n + d <= Flipped
  BY DEF Covered
<1>3. n' = n
  OBVIOUS
<1>4. Flipped' = Flipped + 1 \/ (Flipped' = Flipped /\ d' <= d)
  BY OwedIs
<1> HIDE DEF n, d
<1>5. n' + d' <= Flipped'
  <2>1. d' = d \/ d' = 0 \/ d = 0
    BY <1>1
  <2>2. CASE Flipped' = Flipped + 1
    <3>1. \A i, j \in {0, 1} : n + i <= Flipped => n + j <= Flipped + 1
      BY <1>1
    <3>2. QED BY <1>1, <1>2, <1>3, <2>2, <3>1
  <2>3. CASE Flipped' = Flipped /\ d' <= d
    <3>1. \A i, j \in {0, 1} : n + i <= Flipped /\ j <= i => n + j <= Flipped
      BY <1>1
    <3>2. QED BY <1>1, <1>2, <1>3, <2>3, <3>1
  <2>4. QED BY <1>4, <2>2, <2>3
<1>6. QED BY <1>5 DEF Covered, n, d

\* What a process does in a call, or between its calls.
LEMMA AlertStep ==
    ASSUME TypeInv, TypeInv', AlertInv, ShapeInv', NEW p \in Procs, bus[p].at # "down",
           \A q \in Procs : q # p => /\ call'[q] = call[q] /\ bus'[q] = bus[q]
                                     /\ AlertsOf(q)' = AlertsOf(q),
           UNCHANGED started, Mishap \/ UNCHANGED mishaps,
           \/ Flipped' = Flipped + 1
           \/ /\ Flipped' = Flipped
              /\ Flagged(messages, pruned)' => Flagged(messages, pruned),
           Covered(p)',
           started = {p} /\ mishaps = 0 /\ Balanced(p) /\ UNCHANGED mishaps => Balanced(p)'
    PROVE  AlertInv'
<1>1. p \in started
  BY DEF AlertInv, Alone
<1>2. \A q \in Procs : Covered(q)'
  <2> SUFFICES ASSUME NEW q \in Procs, q # p PROVE Covered(q)'
    OBVIOUS
  <2>1. (Flagged(messages, pruned)' => Flagged(messages, pruned)) =>
            (MayAlert(call[q], Flagged(messages, pruned))' => MayAlert(call[q], Flagged(messages, pruned)))
    BY DEF MayAlert
  <2>2. Covered(q) /\ AlertsOf(q)' = AlertsOf(q)
    BY DEF AlertInv
  <2>3. QED BY <2>1, <2>2, CoveredStep
<1>3. mishaps' = 0 => mishaps = 0 /\ UNCHANGED mishaps
  <2>1. mishaps \in Nat
    BY BudgetsAssumption DEF TypeInv, BudgetTyped
  <2>2. QED BY <2>1 DEF Mishap
<1>4. \A q \in Procs : started' = {q} /\ mishaps' = 0 => Balanced(q)'
  <2> SUFFICES ASSUME NEW q \in Procs, started' = {q}, mishaps' = 0 PROVE Balanced(q)'
    OBVIOUS
  <2>1. q = p /\ started = {p} /\ mishaps = 0
    BY <1>1, <1>3
  <2>2. Balanced(p)
    BY <2>1 DEF AlertInv, Alone
  <2>3. QED BY <1>3, <2>1, <2>2
<1>5. \A q \in Procs : q \notin started' => bus'[q].at = "down"
  BY <1>1 DEF AlertInv, Alone
<1>6. started' # {}
  BY <1>1
<1>7. QED BY <1>2, <1>4, <1>5, <1>6 DEF AlertInv, Alone

\* A call that begins, moves or ends without a new message or alert.
LEMMA QuietAlertStep ==
    ASSUME TypeInv, TypeInv', AlertInv, NEW p \in Procs, NEW x \in Call \cup {NoCall}, bus[p].at # "down",
           call' = [call EXCEPT ![p] = x], x # NoCall => Shaped(x, Len(messages)),
           \A q \in Procs : q # p => bus'[q] = bus[q],
           Alerts' = Alerts, \A q \in Procs : AlertsOf(q)' = AlertsOf(q),
           UNCHANGED <<threadVars, flips, otherFlips, started>>, Mishap \/ UNCHANGED mishaps,
           MayAlert(x, Flagged(messages, pruned)) => MayAlert(call[p], Flagged(messages, pruned)),
           UNCHANGED mishaps => /\ WillAlert(x, Latest) <=> WillAlert(call[p], Latest)
                                /\ x # NoCall /\ x.at = "append" => x.before = Latest
    PROVE  AlertInv'
<1>1. UNCHANGED <<messages, pruned>>
  BY DEF threadVars
<1>2. call \in [Procs -> Call \cup {NoCall}]
  BY DEF TypeInv, CallTyped
<1>3. call'[p] = x /\ \A q \in Procs : q # p => call'[q] = call[q]
  BY <1>2
<1>4. ShapeInv'
  BY <1>1, ShapeStep DEF AlertInv
<1>5. Covered(p)'
  <2>1. MayAlert(call[p], Flagged(messages, pruned))' <=> MayAlert(x, Flagged(messages, pruned))
    BY <1>1, <1>3 DEF MayAlert
  <2>2. Flipped' = Flipped
    BY DEF Flipped
  <2>3. QED BY <2>1, <2>2, CoveredStep DEF AlertInv
<1>6. Balanced(p) /\ UNCHANGED mishaps => Balanced(p)'
  <2> SUFFICES ASSUME Balanced(p), UNCHANGED mishaps PROVE Balanced(p)'
    OBVIOUS
  <2>1. Latest' = Latest
    BY <1>1 DEF Latest
  <2>2. WillAlert(call[p], Latest)' <=> WillAlert(call[p], Latest)
    BY <1>3, <2>1
  <2>3. QED BY <1>3, <2>1, <2>2 DEF Balanced
<1>7. Flipped' = Flipped
  BY DEF Flipped
<1>8. Flagged(messages, pruned)' => Flagged(messages, pruned)
  BY <1>1
<1>9. QED BY <1>3, <1>4, <1>5, <1>6, <1>7, <1>8, AlertStep

-----------------------------------------------------------------------------
(* The steps *)

\* Nothing of alerts, the thread and the counts changes.
Idle(p) ==
    /\ \A q \in Procs : q # p => bus'[q] = bus[q]
    /\ Alerts' = Alerts /\ \A q \in Procs : AlertsOf(q)' = AlertsOf(q)
    /\ UNCHANGED <<threadVars, flips, otherFlips, started>>
    /\ Mishap \/ UNCHANGED mishaps

\* Without a new event there is no new alert.
LEMMA SameEventsSameAlerts ==
    ASSUME UNCHANGED events
    PROVE  Alerts' = Alerts /\ \A q : AlertsOf(q)' = AlertsOf(q)
BY DEF Alerts, AlertsOf

\* A call ends, and owes no alert unless something failed.
LEMMA CallEnds ==
    ASSUME TypeInv, TypeInv', AlertInv, NEW p \in Procs, bus[p].at # "down", Idle(p),
           call' = [call EXCEPT ![p] = NoCall],
           UNCHANGED mishaps => ~WillAlert(call[p], Latest)
    PROVE  AlertInv'
<1>1. ~MayAlert(NoCall, Flagged(messages, pruned)) /\ ~WillAlert(NoCall, Latest)
  BY DEF MayAlert, WillAlert
<1>2. NoCall \in Call \cup {NoCall}
  OBVIOUS
<1>3. UNCHANGED mishaps => (WillAlert(NoCall, Latest) <=> WillAlert(call[p], Latest))
  BY <1>1
<1>4. QED BY <1>1, <1>2, <1>3, QuietAlertStep DEF Idle

\* A call moves on, and owes an alert as before unless something failed.
LEMMA CallMoves ==
    ASSUME TypeInv, TypeInv', AlertInv, NEW p \in Procs, bus[p].at # "down", Idle(p),
           NEW x \in Call, call[p] \in Call, call' = [call EXCEPT ![p] = x],
           x.type = call[p].type, x.tool = call[p].tool, x.persist = call[p].persist,
           x.before = call[p].before, x.message = call[p].message, x.at # "append",
           x.at = "persist" => call[p].persist # "no",
           x.at = "alert" => /\ call[p].at = "check" /\ ShouldEmitAlert(call[p].before, Latest),
           x.at \in {"store", "send", "check"} => call[p].at \in {"store", "send", "check", "persist"},
           UNCHANGED mishaps => (WillAlert(x, Latest) <=> WillAlert(call[p], Latest))
    PROVE  AlertInv'
<1>1. call[p] # NoCall /\ x # NoCall
  BY NoCallAssumption
<1>2. Shaped(call[p], Len(messages))
  BY <1>1 DEF AlertInv, ShapeInv
<1>3. Shaped(x, Len(messages))
  <2>1. x.tool \in {"post", "publish"}
    BY DEF Call
  <2>2. QED BY <1>2, <2>1 DEF Shaped
<1>4. MayAlert(x, Flagged(messages, pruned)) => MayAlert(call[p], Flagged(messages, pruned))
  <2>1. ShouldEmitAlert(call[p].before, Latest) =>
            call[p].before.status \notin {"none", "disagreement"} /\ Flagged(messages, pruned)
    BY DEF ShouldEmitAlert, Flagged, Latest
  <2>2. call[p].at = "persist" => call[p].before.status = "none"
    BY <1>2 DEF Shaped, NoTurn
  <2>3. QED BY <1>1, <2>1, <2>2 DEF MayAlert
<1>5. QED BY <1>1, <1>3, <1>4, QuietAlertStep DEF Idle

\* A post looks at the consensus first; the other calls do not.
LEMMA StartCallAlerts ==
    ASSUME TypeInv, TypeInv', AlertInv, NEW p \in Procs, MessagePost(p) \/ Publish(p) \/ PublishTurnEvent(p)
    PROVE  AlertInv'
<1>1. call[p] = NoCall /\ bus[p].at # "down"
  BY DEF MessagePost, Publish, PublishTurnEvent, Ready
<1>2. UNCHANGED <<events, bus, threadVars, flips, otherFlips, started>> /\ (Mishap \/ UNCHANGED mishaps)
  BY DEF MessagePost, Publish, PublishTurnEvent, busVars
<1>3. Idle(p)
  BY <1>2, SameEventsSameAlerts DEF Idle
<1>4. \A m \in Postable : m \in Message /\ AnswersBefore(m, Len(messages) + 1)
  <2> TAKE m \in Postable
  <2>1. m \in Message
    BY PostableType DEF TypeInv
  <2>2. UserMessages(messages, pruned) \subseteq 1 .. Len(messages) /\ Len(messages) \in Nat
    BY DEF UserMessages, Present, TypeInv, ThreadTypeOK
  <2>3. ASSUME NEW a \in Agents, NEW u \in UserMessages(messages, pruned), NEW z \in Answers,
               m = [role |-> "assistant", agent |-> a, reply |-> u, answer |-> z]
        PROVE  AnswersBefore(m, Len(messages) + 1)
    <3>1. u \in 1 .. Len(messages)
      BY <2>2
    <3>2. u < Len(messages) + 1
      BY <2>2, <3>1
    <3>3. m.reply = u
      BY <2>3
    <3>4. QED BY <3>2, <3>3 DEF AnswersBefore
  <2>4. ASSUME m \in {[role |-> "user"], [role |-> "system"]}
        PROVE  AnswersBefore(m, Len(messages) + 1)
    <3>1. m.role # "assistant"
      BY <2>4
    <3>2. QED BY <3>1 DEF AnswersBefore
  <2>5. QED BY <2>1, <2>3, <2>4 DEF Postable
<1>5. ~WillAlert(call[p], Latest)
  BY <1>1 DEF WillAlert
<1>6. SUFFICES ASSUME NEW x \in Call, call' = [call EXCEPT ![p] = x], Shaped(x, Len(messages)),
                      ~MayAlert(x, Flagged(messages, pruned)), ~WillAlert(x, Latest),
                      UNCHANGED mishaps /\ x.at = "append" => x.before = Latest
               PROVE  AlertInv'
  <2>0. call' \in [Procs -> Call \cup {NoCall}]
    BY DEF TypeInv, CallTyped
  <2>1. CASE MessagePost(p)
    <3>1. PICK m \in Postable, failed \in BOOLEAN :
            /\ call' = [call EXCEPT ![p] =
                  [tool |-> "post", at |-> "append", message |-> m, type |-> "trichat.message_post",
                   persist |-> "no", event |-> 0, before |-> IF failed THEN NoTurn ELSE Latest]]
            /\ IF failed THEN Mishap ELSE UNCHANGED mishaps
      BY <2>1 DEF MessagePost
    <3> DEFINE before == IF failed THEN NoTurn ELSE Latest
               x == [tool |-> "post", at |-> "append", message |-> m, type |-> "trichat.message_post",
                     persist |-> "no", event |-> 0, before |-> before]
    <3>2. call' = [call EXCEPT ![p] = x]
      BY <3>1
    <3>3. UNCHANGED mishaps => before = Latest
      <4>1. mishaps \in Nat
        BY BudgetsAssumption DEF TypeInv, BudgetTyped
      <4>2. QED BY <3>1, <4>1 DEF Mishap
    <3>4. before = NoTurn \/ before = Latest
      OBVIOUS
    <3>5. ~(before.status \notin {"none", "disagreement"} /\ Flagged(messages, pruned))
      BY <3>4 DEF NoTurn, Latest, Flagged
    <3> HIDE DEF before
    <3>6. /\ x.tool = "post" /\ x.at = "append" /\ x.message = m /\ x.type = "trichat.message_post"
          /\ x.persist = "no" /\ x.before = before
      OBVIOUS
    <3>7. x \in Call
      <4>1. before \in Turn
        <5>1. NoTurn \in Turn
          BY ThreadAssumption DEF NoTurn, Turn
        <5>2. QED BY <3>4, <5>1, LatestTurnType DEF TypeInv
      <4>2. m \in Message /\ 0 \in 0 .. MaxEvents
        BY <1>4, MaxEventsAssumption
      <4>3. QED BY <4>1, <4>2, TypesAssumption DEF Call
    <3> HIDE DEF x
    <3>8. Shaped(x, Len(messages))
      BY <1>4, <3>6 DEF Shaped
    <3>9. ~MayAlert(x, Flagged(messages, pruned)) /\ ~WillAlert(x, Latest)
      BY <3>5, <3>6 DEF MayAlert, WillAlert
    <3>10. QED BY <1>6, <3>2, <3>3, <3>6, <3>7, <3>8, <3>9
  <2>2. CASE Publish(p) \/ PublishTurnEvent(p)
    <3>1. [role |-> "system"] \in Postable
      BY DEF Postable
    <3>2. PICK m \in Postable, type \in {"adapter", "trichat.turn"}, persist \in {"no", "yes", "invalid"} :
            call' = [call EXCEPT ![p] = PublishCall(m, type, persist)]
      BY <2>2, <3>1 DEF Publish, PublishTurnEvent
    <3> DEFINE x == PublishCall(m, type, persist)
    <3>3. /\ x.tool = "publish" /\ x.at = "store" /\ x.message = m /\ x.type = type /\ x.before = NoTurn
      BY DEF PublishCall
    <3>4. x \in Call
      <4>1. NoTurn \in Turn /\ m \in Message /\ 0 \in 0 .. MaxEvents /\ type \in Types
        BY <1>4, MaxEventsAssumption, ThreadAssumption, TypesAssumption DEF NoTurn, Turn
      <4>2. QED BY <4>1 DEF Call, PublishCall
    <3>5. call' = [call EXCEPT ![p] = x]
      BY <3>2
    <3> HIDE DEF x
    <3>6. Shaped(x, Len(messages))
      BY <1>4, <3>3 DEF Shaped
    <3>7. ~MayAlert(x, Flagged(messages, pruned)) /\ ~WillAlert(x, Latest)
      BY <3>3 DEF MayAlert, WillAlert, ShouldEmitAlert, NoTurn
    <3>8. x.at # "append"
      BY <3>3
    <3>9. QED BY <1>6, <3>4, <3>5, <3>6, <3>7, <3>8
  <2>3. QED BY <2>1, <2>2
<1>7. x # NoCall /\ x \in Call \cup {NoCall}
  BY NoCallAssumption
<1>8. UNCHANGED mishaps => /\ WillAlert(x, Latest) <=> WillAlert(call[p], Latest)
                           /\ x # NoCall /\ x.at = "append" => x.before = Latest
  BY <1>5, <1>6
<1>9. QED BY <1>1, <1>3, <1>6, <1>7, <1>8, QuietAlertStep DEF Idle

\* A failed statement leaves the alerts alone, and the counts of one process no longer bind.
LEMMA MishapCounts ==
    ASSUME TypeInv, Mishap
    PROVE  mishaps' # mishaps
<1>1. mishaps \in Nat
  BY BudgetsAssumption DEF TypeInv, BudgetTyped
<1>2. QED BY <1>1 DEF Mishap

\* The message of a post is committed: the first check saw what it changes.
LEMMA PostMessageAlerts ==
    ASSUME TypeInv, TypeInv', AlertInv, NEW p \in Procs, PostMessage(p)
    PROVE  AlertInv'
<1> DEFINE x == [call[p] EXCEPT !.at = "store"]
           m == call[p].message
<1>1. /\ call[p] \in Call /\ call[p] # NoCall /\ call[p].at = "append" /\ bus[p].at # "down"
      /\ m \in Message
  BY InCallFacts DEF PostMessage
<1>2. UNCHANGED <<events, bus, otherFlips, started>>
  BY DEF PostMessage, busVars
<1>3. Alerts' = Alerts /\ \A q : AlertsOf(q)' = AlertsOf(q)
  BY <1>2, SameEventsSameAlerts
<1>4. CASE Mishap /\ Done(p) /\ UNCHANGED <<threadVars, flips>>
  <2>1. Idle(p)
    BY <1>2, <1>3, <1>4 DEF Idle
  <2>2. mishaps' # mishaps
    BY <1>4, MishapCounts
  <2>3. call' = [call EXCEPT ![p] = NoCall]
    BY <1>4 DEF Done
  <2>4. QED BY <1>1, <2>1, <2>2, <2>3, CallEnds
<1>5. CASE /\ AppendMessage(m)
           /\ flips' = flips + (IF Flips(m) THEN 1 ELSE 0)
           /\ Go(p, "store") /\ UNCHANGED mishaps
  <2>1. Shaped(call[p], Len(messages)) /\ Orderly(messages)
    BY <1>1 DEF AlertInv, ShapeInv
  <2>2. /\ x \in Call /\ x.at = "store" /\ x.before = call[p].before /\ x.message = m
        /\ x.tool = call[p].tool /\ x.persist = call[p].persist /\ x.type = call[p].type
    BY <1>1 DEF Call
  <2>3. call' = [call EXCEPT ![p] = x]
    BY <1>5 DEF Go
  <2> HIDE DEF x
  <2>4. Shaped(x, Len(messages)) /\ x # NoCall
    BY <2>1, <2>2, NoCallAssumption DEF Shaped
  <2>5. AnswersBefore(m, Len(messages) + 1)
    BY <2>1 DEF Shaped
  <2>6. ShapeInv'
    BY <1>1, <1>5, <2>2, <2>3, <2>4, <2>5, ShapeStep DEF AlertInv
  <2>7. call'[p] = x /\ \A q \in Procs : q # p => call'[q] = call[q]
    BY <2>3 DEF TypeInv, CallTyped
  <2>8. messages' = Append(messages, m) /\ UNCHANGED pruned
    BY <1>5 DEF AppendMessage
  <2>9. Flips(m) <=> ~Flagged(messages, pruned) /\ Flagged(messages, pruned)'
    BY <2>8 DEF Flips
  <2>10. Flips(m) <=> ShouldEmitAlert(Latest, Latest')
    <3>1. messages \in Seq(Message) /\ pruned \in Nat /\ pruned <= Len(messages)
      BY DEF TypeInv, ThreadTypeOK
    <3>2. QED BY <1>1, <2>1, <2>5, <2>8, <3>1, FlipIsSeen DEF Flips, Latest
  <2>11. Flips(m) => flips' = flips + 1
    BY <1>5
  <2>12. ~Flips(m) => flips' = flips
    BY <1>5 DEF TypeInv, FlipsTyped
  <2>13. \/ Flipped' = Flipped + 1
         \/ Flipped' = Flipped /\ (Flagged(messages, pruned)' => Flagged(messages, pruned))
    <3>1. CASE Flips(m)
      BY <1>2, <2>11, <3>1 DEF Flipped, TypeInv, FlipsTyped
    <3>2. CASE ~Flips(m)
      BY <1>2, <2>9, <2>12, <3>2 DEF Flipped
    <3>3. QED BY <3>1, <3>2
  <2>14. MayAlert(call[p], Flagged(messages, pruned))' /\ Flagged(messages, pruned) =>
            MayAlert(call[p], Flagged(messages, pruned))
    BY <1>1, <2>2, <2>7 DEF MayAlert
  <2>15. MayAlert(call[p], Flagged(messages, pruned))' => Flagged(messages, pruned)'
    BY <2>2, <2>7 DEF MayAlert
  <2>16. Covered(p)'
    BY <1>3, <2>13, <2>14, <2>15, CoveredStep DEF AlertInv
  <2>17. Balanced(p) => Balanced(p)'
    <3> SUFFICES ASSUME Balanced(p) PROVE Balanced(p)'
      OBVIOUS
    <3>1. ~WillAlert(call[p], Latest) /\ call[p].before = Latest
      BY <1>1 DEF WillAlert, Balanced
    <3>2. WillAlert(call[p], Latest)' <=> Flips(m)
      BY <2>2, <2>4, <2>7, <2>10, <3>1 DEF WillAlert
    <3>3. Cardinality(Alerts) = flips /\ flips \in Nat
      BY <3>1, AlertsFinite DEF Balanced, TypeInv, FlipsTyped
    <3>4. Cardinality(Alerts') = flips
      BY <1>3, <3>3
    <3>5. Cardinality(Alerts') + (IF WillAlert(call[p], Latest)' THEN 1 ELSE 0) = flips'
      <4>1. CASE Flips(m)
        BY <2>11, <3>2, <3>4, <4>1
      <4>2. CASE ~Flips(m)
        BY <2>12, <3>2, <3>3, <3>4, <4>2
      <4>3. QED BY <4>1, <4>2
    <3>6. call'[p].at # "append"
      BY <2>2, <2>7
    <3>7. QED BY <3>5, <3>6 DEF Balanced
  <2>18. QED BY <1>1, <1>2, <1>3, <1>5, <2>6, <2>7, <2>13, <2>16, <2>17, AlertStep
<1>6. QED BY <1>4, <1>5 DEF PostMessage

\* The message of a bus event is committed, with no post of this process under way.
LEMMA PersistMessageAlerts ==
    ASSUME TypeInv, TypeInv', AlertInv, NEW p \in Procs, PersistMessage(p)
    PROVE  AlertInv'
<1> DEFINE x == [call[p] EXCEPT !.at = "send"]
           m == call[p].message
<1>1. /\ call[p] \in Call /\ call[p] # NoCall /\ call[p].at = "persist" /\ bus[p].at # "down"
      /\ m \in Message
  BY InCallFacts DEF PersistMessage
<1>2. UNCHANGED <<events, bus, flips, started>> /\ (Mishap \/ UNCHANGED mishaps)
  BY DEF PersistMessage
<1>3. Alerts' = Alerts /\ \A q : AlertsOf(q)' = AlertsOf(q)
  BY <1>2, SameEventsSameAlerts
<1>4. CASE Done(p) /\ UNCHANGED <<threadVars, otherFlips>>
  <2>1. Idle(p)
    BY <1>2, <1>3, <1>4 DEF Idle
  <2>2. ~WillAlert(call[p], Latest)
    BY <1>1 DEF WillAlert
  <2>3. call' = [call EXCEPT ![p] = NoCall]
    BY <1>4 DEF Done
  <2>4. QED BY <1>1, <2>1, <2>2, <2>3, CallEnds
<1>5. CASE /\ AppendMessage(m)
           /\ otherFlips' = otherFlips + (IF Flips(m) THEN 1 ELSE 0)
           /\ Go(p, "send") /\ UNCHANGED mishaps
  <2>1. Shaped(call[p], Len(messages))
    BY <1>1 DEF AlertInv, ShapeInv
  <2>2. /\ x \in Call /\ x.at = "send" /\ x.before = call[p].before /\ x.message = m
        /\ x.tool = call[p].tool /\ x.persist = call[p].persist /\ x.type = call[p].type
    BY <1>1 DEF Call
  <2>3. call' = [call EXCEPT ![p] = x]
    BY <1>5 DEF Go
  <2> HIDE DEF x
  <2>4. Shaped(x, Len(messages)) /\ x # NoCall
    BY <1>1, <2>1, <2>2, NoCallAssumption DEF Shaped
  <2>5. AnswersBefore(m, Len(messages) + 1)
    BY <2>1 DEF Shaped
  <2>6. ShapeInv'
    BY <1>1, <1>5, <2>2, <2>3, <2>4, <2>5, ShapeStep DEF AlertInv
  <2>7. call'[p] = x /\ \A q \in Procs : q # p => call'[q] = call[q]
    BY <2>3 DEF TypeInv, CallTyped
  <2>8. messages' = Append(messages, m) /\ UNCHANGED pruned
    BY <1>5 DEF AppendMessage
  <2>9. x.before = NoTurn
    BY <1>1, <2>1, <2>2 DEF Shaped
  <2>10. ~MayAlert(call[p], Flagged(messages, pruned))' /\ ~WillAlert(call[p], Latest)'
    BY <2>2, <2>7, <2>9 DEF MayAlert, WillAlert, ShouldEmitAlert, NoTurn
  <2>11. \/ Flipped' = Flipped + 1
         \/ Flipped' = Flipped /\ (Flagged(messages, pruned)' => Flagged(messages, pruned))
    <3>1. CASE Flips(m)
      <4>1. otherFlips' = otherFlips + 1
        BY <1>5, <3>1
      <4>2. QED BY <1>2, <4>1 DEF Flipped, TypeInv, FlipsTyped
    <3>2. CASE ~Flips(m)
      <4>1. otherFlips' = otherFlips
        BY <1>5, <3>2 DEF TypeInv, FlipsTyped
      <4>2. QED BY <1>2, <2>8, <3>2, <4>1 DEF Flipped, Flips
    <3>3. QED BY <3>1, <3>2
  <2>12. Covered(p)'
    BY <1>3, <2>10, <2>11, CoveredStep DEF AlertInv
  <2>13. Balanced(p) => Balanced(p)'
    <3>1. ~WillAlert(call[p], Latest) /\ call'[p].at # "append"
      BY <1>1, <2>2, <2>7 DEF WillAlert
    <3>2. QED BY <1>2, <1>3, <2>10, <3>1 DEF Balanced
  <2>14. QED BY <1>1, <1>2, <1>3, <1>5, <2>6, <2>7, <2>11, <2>12, <2>13, AlertStep
<1>6. QED BY <1>4, <1>5 DEF PersistMessage

\* A call moves on to its second check, or ends, and nothing is stored.
LEMMA GoAlerts ==
    ASSUME TypeInv, TypeInv', AlertInv, NEW p \in Procs, call[p] \in Call, bus[p].at # "down", Idle(p),
           NEW place \in {"check", "alert"}, Go(p, place),
           place = "check" => call[p].at \in {"store", "send"} \/ mishaps' # mishaps,
           place = "check" => call[p].at \in {"store", "send", "check", "persist"},
           place = "alert" => call[p].at = "check" /\ ShouldEmitAlert(call[p].before, Latest)
    PROVE  AlertInv'
<1> DEFINE x == [call[p] EXCEPT !.at = place]
<1>1. call[p] # NoCall
  BY NoCallAssumption
<1>2. /\ x \in Call /\ x.at = place /\ x.before = call[p].before /\ x.message = call[p].message
      /\ x.tool = call[p].tool /\ x.persist = call[p].persist /\ x.type = call[p].type
  BY DEF Call
<1>3. call' = [call EXCEPT ![p] = x]
  BY DEF Go
<1> HIDE DEF x
<1>4. x # NoCall
  BY <1>2, NoCallAssumption
<1>5. UNCHANGED mishaps => (WillAlert(x, Latest) <=> WillAlert(call[p], Latest))
  BY <1>1, <1>2, <1>4 DEF WillAlert
<1>6. QED BY <1>2, <1>3, <1>5, CallMoves

\* The second check.
LEMMA CheckConsensusAlerts ==
    ASSUME TypeInv, TypeInv', AlertInv, NEW p \in Procs, CheckConsensus(p)
    PROVE  AlertInv'
<1>1. call[p] \in Call /\ call[p] # NoCall /\ call[p].at = "check" /\ bus[p].at # "down"
  BY InCallFacts DEF CheckConsensus
<1>2. Idle(p)
  <2>1. UNCHANGED <<events, bus, threadVars, flips, otherFlips, started>> /\ (Mishap \/ UNCHANGED mishaps)
    BY DEF CheckConsensus, busVars
  <2>2. QED BY <2>1, SameEventsSameAlerts DEF Idle
<1>3. CASE ShouldEmitAlert(call[p].before, Latest) /\ Go(p, "alert")
  BY <1>1, <1>2, <1>3, GoAlerts
<1>4. CASE Done(p) /\ (ShouldEmitAlert(call[p].before, Latest) => mishaps' # mishaps)
  <2>1. call' = [call EXCEPT ![p] = NoCall]
    BY <1>4 DEF Done
  <2>2. UNCHANGED mishaps => ~WillAlert(call[p], Latest)
    BY <1>1, <1>4 DEF WillAlert
  <2>3. QED BY <1>1, <1>2, <2>1, <2>2, CallEnds
<1>5. QED BY <1>3, <1>4, MishapCounts DEF CheckConsensus

\* An event is pushed, and the post it is of goes on to its second check.
LEMMA SendEventAlerts ==
    ASSUME TypeInv, TypeInv', AlertInv, NEW p \in Procs, SendEvent(p)
    PROVE  AlertInv'
<1>1. call[p] \in Call /\ call[p] # NoCall /\ call[p].at \in {"send", "send_alert"} /\ bus[p].at # "down"
  BY InCallFacts DEF SendEvent
<1>2. Idle(p)
  <2>1. UNCHANGED <<events, bus, threadVars, flips, otherFlips, started, mishaps>>
    BY DEF SendEvent, BroadcastEvent
  <2>2. QED BY <2>1, SameEventsSameAlerts DEF Idle
<1>3. CASE call[p].tool = "post" /\ call[p].at = "send"
  <2>1. Go(p, "check")
    BY <1>3 DEF SendEvent, AfterSend
  <2>2. QED BY <1>1, <1>2, <1>3, <2>1, GoAlerts
<1>4. CASE ~(call[p].tool = "post" /\ call[p].at = "send")
  <2>1. call' = [call EXCEPT ![p] = NoCall]
    BY <1>4 DEF SendEvent, AfterSend, Done
  <2>2. Shaped(call[p], Len(messages))
    BY <1>1 DEF AlertInv, ShapeInv
  <2>3. ~WillAlert(call[p], Latest)
    BY <1>1, <1>4, <2>2 DEF Shaped, WillAlert, ShouldEmitAlert, NoTurn
  <2>4. QED BY <1>1, <1>2, <2>1, <2>3, CallEnds
<1>5. QED BY <1>3, <1>4

\* The event of a call is stored, which is no alert.
LEMMA StoreEventAlerts ==
    ASSUME TypeInv, TypeInv', AlertInv, NEW p \in Procs, StoreEvent(p)
    PROVE  AlertInv'
<1>1. /\ call[p] \in Call /\ call[p] # NoCall /\ call[p].at = "store" /\ bus[p].at # "down"
      /\ call[p].type \in Types /\ Len(events) \in Nat
  BY InCallFacts DEF StoreEvent
<1>2. Shaped(call[p], Len(messages))
  BY <1>1 DEF AlertInv, ShapeInv
<1>3. UNCHANGED <<threadVars, flips, otherFlips, started>>
  BY DEF StoreEvent
<1>4. CASE Mishap /\ UNCHANGED busVars /\ (Go(p, "check") \/ Done(p))
  <2>1. Idle(p) /\ mishaps' # mishaps
    <3>1. UNCHANGED <<events, bus>>
      BY <1>4 DEF busVars
    <3>2. QED BY <1>3, <1>4, <3>1, SameEventsSameAlerts, MishapCounts DEF Idle
  <2>2. CASE Go(p, "check")
    BY <1>1, <2>1, <2>2, GoAlerts
  <2>3. CASE Done(p)
    <3>1. call' = [call EXCEPT ![p] = NoCall]
      BY <2>3 DEF Done
    <3>2. QED BY <1>1, <2>1, <3>1, CallEnds
  <2>4. QED BY <1>4, <2>2, <2>3
<1>5. ASSUME NEW place \in {"send", "persist"}, place = "persist" => call[p].persist # "no",
             AppendEvent(p, call[p].type), UNCHANGED mishaps,
             call' = [call EXCEPT ![p].event = Len(events) + 1, ![p].at = place]
      PROVE  AlertInv'
  <2> DEFINE e == Len(events) + 1
             x == [call[p] EXCEPT !.event = e, !.at = place]
  <2>1. Alerts' = Alerts /\ \A q : AlertsOf(q)' = AlertsOf(q)
    BY <1>1, <1>2, <1>5, StoredAlerts DEF Shaped, TypeInv
  <2>2. Idle(p)
    BY <1>3, <1>5, <2>1 DEF Idle, AppendEvent
  <2>3. e \in 0 .. MaxEvents /\ call' = [call EXCEPT ![p] = x]
    <3>1. e \in 0 .. MaxEvents
      BY <1>1, <1>5 DEF AppendEvent
    <3>2. call' = [call EXCEPT ![p] = x]
      BY <1>5
    <3>3. QED BY <3>1, <3>2
  <2> HIDE DEF e
  <2>4. /\ x \in Call /\ x.at = place /\ x.before = call[p].before /\ x.message = call[p].message
        /\ x.tool = call[p].tool /\ x.persist = call[p].persist /\ x.type = call[p].type
    BY <1>1, <2>3 DEF Call
  <2> HIDE DEF x
  <2>5. x # NoCall
    BY <2>4, NoCallAssumption
  <2>6. x.at = "persist" => ~WillAlert(call[p], Latest)
    BY <1>1, <1>2, <1>5, <2>4 DEF Shaped, WillAlert, ShouldEmitAlert, NoTurn
  <2>7. WillAlert(x, Latest) <=> WillAlert(call[p], Latest)
    BY <1>1, <2>4, <2>5, <2>6 DEF WillAlert
  <2>8. /\ x.at # "append" /\ x.at # "alert" /\ (x.at = "persist" => call[p].persist # "no")
        /\ x.at \in {"store", "send", "check"} => call[p].at \in {"store", "send", "check", "persist"}
    BY <1>1, <1>5, <2>4
  <2>9. QED BY <1>1, <2>2, <2>3, <2>4, <2>7, <2>8, CallMoves
<1>6. CASE StoreEvent(p)
  <2> DEFINE place == IF call[p].persist = "no" THEN "send" ELSE "persist"
  <2>1. place \in {"send", "persist"} /\ (place = "persist" => call[p].persist # "no")
    OBVIOUS
  <2>2. \/ Mishap /\ UNCHANGED busVars /\ (Go(p, "check") \/ Done(p))
        \/ /\ AppendEvent(p, call[p].type) /\ UNCHANGED mishaps
           /\ call' = [call EXCEPT ![p].event = Len(events) + 1, ![p].at = place]
    BY DEF StoreEvent
  <2> HIDE DEF place
  <2>3. QED BY <1>4, <1>5, <2>1, <2>2
<1>7. QED BY <1>6

\* An alert is stored, which was counted as owed.
LEMMA PublishAlertAlerts ==
    ASSUME TypeInv, TypeInv', AlertInv, NEW p \in Procs, PublishAlert(p)
    PROVE  AlertInv'
<1>1. /\ call[p] \in Call /\ call[p] # NoCall /\ call[p].at = "alert" /\ bus[p].at # "down"
      /\ Len(events) \in Nat
  BY InCallFacts DEF PublishAlert
<1>2. Shaped(call[p], Len(messages))
  BY <1>1 DEF AlertInv, ShapeInv
<1>3. UNCHANGED <<threadVars, flips, otherFlips, started>>
  BY DEF PublishAlert
<1>4. CASE Mishap /\ Done(p) /\ UNCHANGED busVars
  <2>1. Idle(p) /\ mishaps' # mishaps
    <3>1. UNCHANGED <<events, bus>>
      BY <1>4 DEF busVars
    <3>2. QED BY <1>3, <1>4, <3>1, SameEventsSameAlerts, MishapCounts DEF Idle
  <2>2. call' = [call EXCEPT ![p] = NoCall]
    BY <1>4 DEF Done
  <2>3. QED BY <1>1, <2>1, <2>2, CallEnds
<1>5. CASE /\ AppendEvent(p, "consensus.alert") /\ UNCHANGED mishaps
           /\ call' = [call EXCEPT ![p].event = Len(events) + 1, ![p].at = "send_alert"]
  <2> DEFINE e == Len(events) + 1
             x == [call[p] EXCEPT !.event = e, !.at = "send_alert"]
  <2>1. "consensus.alert" \in Types
    BY TypesAssumption
  <2>2. /\ Cardinality(Alerts') = Cardinality(Alerts) + 1
        /\ Cardinality(AlertsOf(p)') = Cardinality(AlertsOf(p)) + 1
        /\ \A q : q # p => AlertsOf(q)' = AlertsOf(q)
    BY <1>5, <2>1, StoredAlerts DEF TypeInv
  <2>3. e \in 0 .. MaxEvents /\ call' = [call EXCEPT ![p] = x]
    <3>1. e \in 0 .. MaxEvents
      BY <1>1, <1>5 DEF AppendEvent
    <3>2. call' = [call EXCEPT ![p] = x]
      BY <1>5
    <3>3. QED BY <3>1, <3>2
  <2> HIDE DEF e
  <2>4. /\ x \in Call /\ x.at = "send_alert" /\ x.before = call[p].before /\ x.message = call[p].message
        /\ x.tool = call[p].tool /\ x.persist = call[p].persist /\ x.type = call[p].type
    BY <1>1, <2>3 DEF Call
  <2> HIDE DEF x
  <2>5. Shaped(x, Len(messages)) /\ x \in Call \cup {NoCall}
    BY <1>2, <1>1, <2>4 DEF Shaped
  <2>6. UNCHANGED <<messages, pruned, bus>>
    BY <1>3, <1>5 DEF threadVars, AppendEvent
  <2>7. ShapeInv'
    BY <2>3, <2>5, <2>6, ShapeStep DEF AlertInv
  <2>8. call'[p] = x /\ \A q \in Procs : q # p => call'[q] = call[q]
    BY <2>3 DEF TypeInv, CallTyped
  <2>9. ~MayAlert(x, Flagged(messages, pruned)) /\ ~WillAlert(x, Latest)
    BY <2>4 DEF MayAlert, WillAlert
  <2>10. MayAlert(call[p], Flagged(messages, pruned)) /\ WillAlert(call[p], Latest)
    BY <1>1 DEF MayAlert, WillAlert
  <2>11. Flipped' = Flipped /\ Latest' = Latest /\ Flagged(messages, pruned)' = Flagged(messages, pruned)
    BY <1>3, <2>6 DEF Flipped, Latest
  <2>12. Covered(p)'
    <3>1. Cardinality(AlertsOf(p)) + 1 <= Flipped
      BY <2>10 DEF Covered, Owed, AlertInv
    <3>2. Owed(call[p], Flagged(messages, pruned))' = 0
      BY <2>6, <2>8, <2>9 DEF Owed
    <3>3. Cardinality(AlertsOf(p)) \in Nat /\ Cardinality(AlertsOf(p)') + 0 = Cardinality(AlertsOf(p)) + 1
      BY <2>2, AlertsFinite DEF TypeInv
    <3>4. QED BY <2>11, <3>1, <3>2, <3>3 DEF Covered
  <2>13. Balanced(p) => Balanced(p)'
    <3> SUFFICES ASSUME Balanced(p) PROVE Balanced(p)'
      OBVIOUS
    <3>1. Cardinality(Alerts) + 1 = flips
      BY <2>10 DEF Balanced
    <3>2. ~WillAlert(call[p], Latest)'
      BY <2>8, <2>9, <2>11
    <3>3. Cardinality(Alerts') + 0 = flips'
      BY <1>3, <2>2, <3>1, AlertsFinite DEF TypeInv, FlipsTyped
    <3>4. call'[p].at # "append"
      BY <2>4, <2>8
    <3>5. QED BY <3>2, <3>3, <3>4 DEF Balanced
  <2>14. QED BY <1>1, <1>3, <1>5, <2>2, <2>6, <2>7, <2>8, <2>11, <2>12, <2>13, AlertStep
<1>6. QED BY <1>4, <1>5 DEF PublishAlert

\* Old messages are deleted, between calls of this process, which flags nothing.
LEMMA TrichatRetentionAlerts ==
    ASSUME TypeInv, TypeInv', AlertInv, NEW p \in Procs, TrichatRetention(p)
    PROVE  AlertInv'
<1>1. call[p] = NoCall /\ bus[p].at # "down"
  BY DEF TrichatRetention, Ready
<1>2. UNCHANGED <<events, bus, call, flips, otherFlips, started, mishaps>>
  BY DEF TrichatRetention, busVars
<1>3. Alerts' = Alerts /\ \A q : AlertsOf(q)' = AlertsOf(q)
  BY <1>2, SameEventsSameAlerts
<1>4. PICK n \in 1 .. MaxMessages : PruneMessages(n)
  BY DEF TrichatRetention
<1>5. UNCHANGED messages /\ pruned' = n /\ pruned <= n /\ n \in Nat /\ pruned \in Nat
  BY <1>4, ThreadAssumption DEF PruneMessages, Present, TypeInv, ThreadTypeOK
<1>6. ShapeInv'
  BY <1>2, <1>5, ShapeStill DEF AlertInv
<1>7. Flagged(messages, pruned)' => Flagged(messages, pruned)
  <2>1. messages \in Seq(Message) /\ Orderly(messages)
    BY DEF TypeInv, ThreadTypeOK, AlertInv, ShapeInv
  <2>2. QED BY <1>5, <2>1, PruningFlagsNothing
<1>8. Flipped' = Flipped
  BY <1>2 DEF Flipped
<1>9. ~MayAlert(call[p], Flagged(messages, pruned))' /\ ~WillAlert(call[p], Latest)' /\ ~WillAlert(call[p], Latest)
  BY <1>1, <1>2 DEF MayAlert, WillAlert
<1>10. Covered(p)'
  BY <1>3, <1>8, <1>9, CoveredStep DEF AlertInv
<1>11. Balanced(p) => Balanced(p)'
  BY <1>1, <1>2, <1>3, <1>9 DEF Balanced
<1>12. QED BY <1>1, <1>2, <1>3, <1>6, <1>7, <1>8, <1>10, <1>11, AlertStep

\* A bus starts, is bound or stops, between calls, or dies, which is a mishap.
LEMMA BusStepAlerts ==
    ASSUME TypeInv, TypeInv', AlertInv, NEW p \in Procs, TrichatBusControl(p) \/ BindSocket(p) \/ Crash(p)
    PROVE  AlertInv'
<1>1. StartBus(p) \/ Listen(p) \/ StopBus(p) \/ BusCrash(p)
  BY DEF TrichatBusControl, BindSocket, Crash
<1>2. UNCHANGED events /\ \A q \in Procs : q # p => bus'[q] = bus[q]
  BY <1>1 DEF StartBus, Listen, StopBus, BusCrash, TypeInv, BusTyped, BusTypeOK
<1>3. bus[p].at # "down"
  BY DEF TrichatBusControl, Ready, BindSocket, Listen, Crash
<1>4. UNCHANGED <<threadVars, flips, otherFlips, started>> /\ (Mishap \/ UNCHANGED mishaps)
  BY DEF TrichatBusControl, BindSocket, Crash, callVars
<1>5. Idle(p)
  BY <1>2, <1>4, SameEventsSameAlerts DEF Idle
<1>6. call \in [Procs -> Call \cup {NoCall}]
  BY DEF TypeInv, CallTyped
<1>7. CASE Crash(p)
  <2>1. call' = [call EXCEPT ![p] = NoCall] /\ mishaps' # mishaps
    BY <1>7, MishapCounts DEF Crash, Done
  <2>2. QED BY <1>3, <1>5, <2>1, CallEnds
<1>8. CASE TrichatBusControl(p) \/ BindSocket(p)
  <2>1. call[p] = NoCall /\ UNCHANGED call
    BY <1>8 DEF TrichatBusControl, Ready, BindSocket, Listen, callVars, TypeInv, CallTyped
  <2>2. call' = [call EXCEPT ![p] = NoCall]
    BY <1>6, <2>1
  <2>3. ~WillAlert(call[p], Latest)
    BY <2>1 DEF WillAlert
  <2>4. QED BY <1>3, <1>5, <2>2, <2>3, CallEnds
<1>9. QED BY <1>7, <1>8

\* Nothing here changes.
LEMMA AlertStill ==
    ASSUME TypeInv, AlertInv, UNCHANGED <<events, messages, pruned, call, flips, otherFlips>>
    PROVE  /\ ShapeInv' /\ \A p \in Procs : Covered(p)'
           /\ \A p \in Procs : Balanced(p) => Balanced(p)'
           /\ Alerts' = Alerts
<1>1. Alerts' = Alerts /\ \A q : AlertsOf(q)' = AlertsOf(q)
  BY SameEventsSameAlerts
<1>2. ShapeInv'
  BY ShapeStill DEF AlertInv
<1>3. \A p \in Procs : Covered(p)'
  BY <1>1 DEF AlertInv, Covered, Flipped
<1>4. Latest' = Latest
  BY DEF Latest
<1>5. \A p \in Procs : Balanced(p) => Balanced(p)'
  BY <1>1, <1>4 DEF Balanced
<1>6. QED BY <1>1, <1>2, <1>3, <1>5

\* The first process that comes up finds no alerts and no disagreement.
LEMMA LaunchAlerts ==
    ASSUME TypeInv, TypeInv', AlertInv, NEW p \in Procs, Launch(p)
    PROVE  AlertInv'
<1>1. /\ bus[p].at = "down" /\ UNCHANGED events /\ started' = started \cup {p}
      /\ \A q \in Procs : q # p => bus'[q] = bus[q]
  BY DEF Launch, Initialize, TypeInv, BusTyped, BusTypeOK
<1>2. UNCHANGED <<messages, pruned, call, flips, otherFlips, mishaps>>
  BY DEF Launch, threadVars
<1>3. /\ ShapeInv' /\ \A q \in Procs : Covered(q)'
      /\ \A q \in Procs : Balanced(q) => Balanced(q)'
  BY <1>1, <1>2, AlertStill
<1>4. \A q \in Procs : q \notin started' => bus'[q].at = "down"
  BY <1>1 DEF AlertInv, Alone
<1>5. \A q \in Procs : started' = {q} /\ mishaps' = 0 => Balanced(q)'
  <2> SUFFICES ASSUME NEW q \in Procs, started' = {q}, mishaps' = 0 PROVE Balanced(q)
    BY <1>3
  <2>1. q = p /\ (started = {} \/ started = {p}) /\ mishaps = 0
    BY <1>1, <1>2
  <2>2. CASE started = {p}
    BY <2>1, <2>2 DEF AlertInv, Alone
  <2>3. CASE started = {}
    <3>1. Alerts = {} /\ flips = 0
      BY <2>3 DEF AlertInv, Alone
    <3>2. call[p] = NoCall
      BY <1>1 DEF TypeInv, CallTyped
    <3>3. ~WillAlert(call[p], Latest)
      BY <3>2 DEF WillAlert
    <3>4. Cardinality(Alerts) = 0
      BY <3>1, FS_EmptySet
    <3>5. QED BY <2>1, <3>1, <3>2, <3>3, <3>4 DEF Balanced
  <2>4. QED BY <2>1, <2>2, <2>3
<1>6. QED BY <1>1, <1>3, <1>4, <1>5 DEF AlertInv, Alone

\* Subscribers come and go and read, or nothing happens.
LEMMA SubscriberAlerts ==
    ASSUME TypeInv, AlertInv,
           UNCHANGED vars \/ \E c \in Clients : Subscriber(c) \/ ConnectionBreaks(c)
    PROVE  AlertInv'
<1>1. /\ UNCHANGED <<events, bus, messages, pruned, call, flips, otherFlips, started>>
      /\ Mishap \/ UNCHANGED mishaps
  <2>1. CASE UNCHANGED vars
    BY <2>1 DEF vars, busVars, threadVars, callVars
  <2>2. ASSUME NEW c \in Clients, Subscriber(c) \/ ConnectionBreaks(c)
        PROVE  /\ UNCHANGED <<events, bus, messages, pruned, call, flips, otherFlips, started>>
               /\ Mishap \/ UNCHANGED mishaps
    BY <2>2 DEF Subscriber, ConnectionBreaks, Connect, Subscribe, ReadFrame, Disconnect, threadVars, callVars
  <2>3. QED BY <2>1, <2>2
<1>2. /\ ShapeInv' /\ \A p \in Procs : Covered(p)'
      /\ \A p \in Procs : Balanced(p) => Balanced(p)'
      /\ Alerts' = Alerts
  BY <1>1, AlertStill
<1>3. mishaps' = 0 => mishaps = 0
  <2>1. mishaps \in Nat
    BY BudgetsAssumption DEF TypeInv, BudgetTyped
  <2>2. QED BY <1>1, <2>1 DEF Mishap
<1>4. Alone'
  BY <1>1, <1>2, <1>3 DEF AlertInv, Alone
<1>5. QED BY <1>2, <1>4 DEF AlertInv

\* Every step keeps the count.
LEMMA AlertInvStep ==
    ASSUME TypeInv, AlertInv, [Next]_vars
    PROVE  AlertInv'
<1>1. TypeInv'
  BY TypeInvStep
<1>2. ASSUME NEW p \in Procs,
             \/ MessagePost(p) \/ PostMessage(p) \/ StoreEvent(p) \/ SendEvent(p) \/ CheckConsensus(p)
             \/ PublishAlert(p) \/ Publish(p) \/ PublishTurnEvent(p) \/ PersistMessage(p)
             \/ TrichatBusControl(p) \/ TrichatRetention(p)
             \/ Launch(p) \/ BindSocket(p) \/ Crash(p)
      PROVE  AlertInv'
  BY <1>1, <1>2, StartCallAlerts, PostMessageAlerts, StoreEventAlerts, SendEventAlerts, CheckConsensusAlerts,
     PublishAlertAlerts, PersistMessageAlerts, TrichatRetentionAlerts, LaunchAlerts, BusStepAlerts
<1>3. CASE UNCHANGED vars \/ \E c \in Clients : Subscriber(c) \/ ConnectionBreaks(c)
  BY <1>3, SubscriberAlerts
<1>4. QED BY <1>2, <1>3 DEF Next

\* It holds at the start.
LEMMA InitAlertInv ==
    ASSUME Init PROVE AlertInv
<1> USE DEF Init
<1>1. TypeInv
  BY InitTypeInv
<1>2. messages = <<>> /\ events = <<>> /\ DOMAIN <<>> = {} /\ Len(<<>>) = 0
  BY DEF ThreadInit, BusInit
<1>3. ShapeInv
  BY <1>2 DEF ShapeInv, Orderly
<1>4. Alerts = {} /\ \A p : AlertsOf(p) = {}
  BY <1>2 DEF Alerts, AlertsOf
<1>5. Cardinality(Alerts) = 0 /\ \A p : Cardinality(AlertsOf(p)) = 0
  BY <1>4, FS_EmptySet
<1>6. \A p \in Procs : Covered(p)
  BY <1>5 DEF Covered, Owed, MayAlert, Flipped
<1>7. \A p \in Procs : bus[p].at = "down"
  BY DEF BusInit
<1>8. Alone
  BY <1>4, <1>7 DEF Alone
<1>9. QED BY <1>3, <1>6, <1>8 DEF AlertInv

-----------------------------------------------------------------------------
(* Counting alerts by who stored them *)

\* Processes that store at most n alerts each store at most n times their number.
LEMMA AlertsAreCounted ==
    ASSUME TypeInv, NEW n \in Nat, \A p \in Procs : Cardinality(AlertsOf(p)) <= n
    PROVE  Cardinality(Alerts) <= Cardinality(Procs) * n
<1> DEFINE by(e) == events[e].by
           rank(e) == Cardinality({f \in AlertsOf(by(e)) : f < e})
           place == [e \in Alerts |-> <<by(e), rank(e)>>]
           places == Procs \X (0 .. n - 1)
<1>1. \A e \in Alerts : by(e) \in Procs /\ e \in AlertsOf(by(e)) /\ e \in Nat
  <2>1. events \in Seq([type : Types, by : Procs]) /\ Len(events) \in Nat
    BY DEF TypeInv, BusTyped, BusTypeOK
  <2>2. \A e \in 1 .. Len(events) : events[e] \in [type : Types, by : Procs]
    BY <2>1, ElementOfSeq
  <2>3. \A e \in 1 .. Len(events) : events[e].by \in Procs
    BY <2>2
  <2>4. \A e \in Alerts : e \in 1 .. Len(events) /\ e \in Nat
    BY <2>1 DEF Alerts
  <2>5. QED BY <2>3, <2>4 DEF AlertsOf
<1>2. \A p \in Procs : /\ \A e \in AlertsOf(p) : Cardinality({f \in AlertsOf(p) : f < e}) \in 0 .. n - 1
                       /\ \A e, g \in AlertsOf(p) : e < g =>
                             Cardinality({f \in AlertsOf(p) : f < e}) < Cardinality({f \in AlertsOf(p) : f < g})
  <2> TAKE p \in Procs
  <2> DEFINE es == AlertsOf(p)
  <2>1. IsFiniteSet(es) /\ es \in SUBSET Nat /\ Cardinality(es) <= n
    BY AlertsFinite DEF TypeInv
  <2> HIDE DEF es
  <2>2. /\ Cardinality(es) \in Nat
        /\ \A e \in es : Cardinality({f \in es : f < e}) \in 0 .. Cardinality(es) - 1
        /\ \A e, g \in es : e < g => Cardinality({f \in es : f < e}) < Cardinality({f \in es : f < g})
    BY <2>1, RankIsOnto
  <2>3. \A i \in 0 .. Cardinality(es) - 1 : i \in 0 .. n - 1
    BY <2>1, <2>2
  <2>4. QED BY <2>2, <2>3 DEF es
<1>3. \A e \in Alerts : rank(e) \in 0 .. n - 1
  BY <1>1, <1>2
<1>4. \A e, g \in Alerts : by(e) = by(g) /\ rank(e) = rank(g) => e = g
  <2> SUFFICES ASSUME NEW e \in Alerts, NEW g \in Alerts, by(e) = by(g), rank(e) = rank(g), e # g
               PROVE  FALSE
    OBVIOUS
  <2>1. (e < g => rank(e) < rank(g)) /\ (g < e => rank(g) < rank(e))
    BY <1>1, <1>2
  <2>2. e \in Nat /\ g \in Nat /\ rank(e) \in Nat
    BY <1>1, <1>3
  <2> HIDE DEF rank, by
  <2>3. QED BY <2>1, <2>2
<1> HIDE DEF by, rank
<1>5. place \in [Alerts -> places]
  BY <1>1, <1>3
<1>6. \A e, g \in Alerts : place[e] = place[g] => e = g
  BY <1>4
<1>7. place \in Injection(Alerts, places)
  BY <1>5, <1>6 DEF Injection, IsInjective
<1>8. IsFiniteSet(0 .. n - 1) /\ Cardinality(0 .. n - 1) = n
  <2>1. 0 \in Int /\ n - 1 \in Int
    OBVIOUS
  <2>2. IsFiniteSet(0 .. n - 1) /\ Cardinality(0 .. n - 1) = IF 0 > n - 1 THEN 0 ELSE n - 1 - 0 + 1
    BY <2>1, FS_Interval
  <2>3. QED BY <2>2
<1>9. IsFiniteSet(places) /\ Cardinality(places) = Cardinality(Procs) * n
  BY <1>8, ProcsAssumption, FS_Product
<1> HIDE DEF place, places
<1>10. Cardinality(Alerts) <= Cardinality(places)
  BY <1>7, <1>9, FS_Injection
<1>11. QED BY <1>9, <1>10

\* What the invariant says when no call is under way, and of all processes together.
LEMMA AlertInvSuffices ==
    ASSUME TypeInv, AlertInv PROVE AlertPerFlip
<1>1. ASSUME Cardinality(started) <= 1, mishaps = 0, \A p \in Procs : call[p] = NoCall
      PROVE  Cardinality(Alerts) = flips
  <2>1. CASE started = {}
    BY <2>1, FS_EmptySet DEF AlertInv, Alone
  <2>2. CASE started # {}
    <3>1. started \in SUBSET Procs
      BY DEF TypeInv, BudgetTyped
    <3>2. PICK p \in Procs : p \in started
      BY <2>2, <3>1
    <3>3. started = {p}
      <4>1. IsFiniteSet(started)
        BY <3>1, ProcsAssumption, FS_Subset
      <4>2. ASSUME NEW q \in started, q # p PROVE FALSE
        <5>1. IsFiniteSet({p, q}) /\ Cardinality({p, q}) = 2
          <6>1. IsFiniteSet({p}) /\ Cardinality({p}) = 1
            BY FS_Singleton
          <6>2. q \notin {p} /\ {p, q} = {p} \cup {q}
            BY <4>2
          <6>3. IsFiniteSet({p} \cup {q}) /\ Cardinality({p} \cup {q}) = 1 + 1
            BY <6>1, <6>2, FS_AddElement
          <6>4. QED BY <6>2, <6>3
        <5>2. {p, q} \in SUBSET started
          BY <3>2, <4>2
        <5>3. Cardinality({p, q}) <= Cardinality(started) /\ Cardinality(started) \in Nat
          BY <4>1, <5>2, FS_Subset, FS_CardinalityType
        <5>4. QED BY <1>1, <5>1, <5>3
      <4>3. QED BY <3>2, <4>2
    <3>4. Balanced(p)
      BY <1>1, <3>3 DEF AlertInv, Alone
    <3>5. ~WillAlert(call[p], Latest)
      BY <1>1 DEF WillAlert
    <3>6. QED BY <3>4, <3>5, AlertsFinite DEF Balanced, TypeInv
  <2>3. QED BY <2>1, <2>2
<1>2. Cardinality(Alerts) <= Cardinality(Procs) * (flips + otherFlips)
  <2>1. Flipped \in Nat
    BY OwedIs
  <2>2. \A p \in Procs : Cardinality(AlertsOf(p)) <= Flipped
    <3> TAKE p \in Procs
    <3>1. Cardinality(AlertsOf(p)) \in Nat
      BY AlertsFinite DEF TypeInv
    <3>2. Cardinality(AlertsOf(p)) + Owed(call[p], Flagged(messages, pruned)) <= Flipped
      BY DEF AlertInv, Covered
    <3>3. Owed(call[p], Flagged(messages, pruned)) \in {0, 1}
      BY OwedIs
    <3>4. QED BY <2>1, <3>1, <3>2, <3>3
  <2>3. QED BY <2>1, <2>2, AlertsAreCounted DEF Flipped
<1>3. flips \in Nat /\ otherFlips \in Nat
  BY DEF TypeInv, FlipsTyped
<1>4. ASSUME Cardinality(started) <= 1, mishaps = 0, \A p \in Procs : call[p] = NoCall
      PROVE  flips <= Cardinality(Alerts) /\ Cardinality(Alerts) <= flips + otherFlips
  BY <1>1, <1>3, <1>4
<1>5. QED BY <1>2, <1>4 DEF AlertPerFlip

\* One server process stores a consensus.alert for every message of trichat.message_post that
\* brings the thread into disagreement, whatever agents answer and retention deletes, if
\* nothing fails, and no more alerts than there were messages that did, those persisted by
\* bus events included, for which it need not store any; and each of any number of processes,
\* with crashes and failed statements, stores no more alerts than that.
THEOREM AlertsMatchFlips == Spec => []AlertPerFlip
<1>1. Init => TypeInv /\ AlertInv
  BY InitTypeInv, InitAlertInv
<1>2. TypeInv /\ AlertInv /\ [Next]_vars => (TypeInv /\ AlertInv)'
  BY TypeInvStep, AlertInvStep
<1>3. TypeInv /\ AlertInv => AlertPerFlip
  BY AlertInvSuffices
<1>4. QED BY <1>1, <1>2, <1>3, PTL DEF Spec

=============================================================================
