--------------------------- MODULE ThreadConsensus ---------------------------
(***************************************************************************)
(* The timeline of one TriChat thread and the consensus of its agents:     *)
(* trichatConsensus of src/src/tools/trichat.ts over the messages of       *)
(* src/src/storage.ts, and the rule by which src/src/server.ts decides     *)
(* that a message brought a disagreement.  An answer stands for its        *)
(* canonical form; what a thread keeps beside its messages is left out.    *)
(***************************************************************************)
EXTENDS Naturals, FiniteSets, Sequences

CONSTANTS
    Agents,       \* the agents whose answers count
    Answers,      \* canonical answers
    MinAgents,    \* min_agents of the caller
    MaxMessages   \* bound on the messages ever appended, below the 300 a check looks at

ASSUME ThreadAssumption == IsFiniteSet(Agents) /\ MinAgents \in Nat /\ MaxMessages \in Nat

VARIABLES
    messages,     \* the rows of table trichat_messages in the order of created_at
    pruned        \* how many of the oldest were deleted

threadVars == <<messages, pruned>>

\* A user message, an answer to one, or a message consensus does not look at.
Message ==
    [role : {"user"}]
    \cup [role : {"assistant"}, agent : Agents, reply : 1 .. MaxMessages, answer : Answers]
    \cup [role : {"system"}]

ThreadTypeOK ==
    /\ messages \in Seq(Message) /\ Len(messages) <= MaxMessages
    /\ pruned \in 0 .. Len(messages)

ThreadInit == messages = <<>> /\ pruned = 0

-----------------------------------------------------------------------------

\* min_agents within 2 and the number of agents.
Required ==
    LET n == Cardinality(Agents)
        least == IF MinAgents < n THEN MinAgents ELSE n
    IN  IF least < 2 THEN 2 ELSE least

NoTurn == [user |-> 0, status |-> "none"]

Present(log, gone) == {i \in DOMAIN log : i > gone}

UserMessages(log, gone) == {i \in Present(log, gone) : log[i].role = "user"}

Replies(log, gone, u, a) ==
    {i \in Present(log, gone) : log[i].role = "assistant" /\ log[i].agent = a /\ log[i].reply = u}

Responders(log, gone, u) == {a \in Agents : Replies(log, gone, u, a) # {}}

\* Of several answers of an agent to a message the last one counts.
AnswerOf(log, gone, u, a) ==
    log[CHOOSE i \in Replies(log, gone, u, a) : \A j \in Replies(log, gone, u, a) : j <= i].answer

EvaluateConsensusTurn(log, gone, u) ==
    LET answers == {AnswerOf(log, gone, u, a) : a \in Responders(log, gone, u)} IN
    IF Cardinality(Responders(log, gone, u)) < Required THEN "incomplete"
    ELSE IF Cardinality(answers) <= 1 THEN "consensus" ELSE "disagreement"

\* latest_turn of trichatConsensus: the newest user message that has an answer.
LatestTurn(log, gone) ==
    LET answered == {u \in UserMessages(log, gone) : Responders(log, gone, u) # {}} IN
    IF answered = {} THEN NoTurn
    ELSE LET u == CHOOSE u \in answered : \A v \in answered : v <= u
         IN  [user |-> u, status |-> EvaluateConsensusTurn(log, gone, u)]

Flagged(log, gone) == LatestTurn(log, gone).status = "disagreement"

\* Variant: whether the turn disagreed before is not looked at.
EmitOnDisagreement(before, after) == after.status = "disagreement"

\* shouldEmitConsensusDisagreementAlert; no turn before, or a failed check, is no flip.
ShouldEmitAlert(before, after) ==
    /\ after.status = "disagreement" /\ before.status \notin {"none", "disagreement"}
    /\ before.user = after.user

-----------------------------------------------------------------------------

\* appendTriChatMessage.
AppendMessage(m) ==
    /\ Len(messages) < MaxMessages
    /\ messages' = Append(messages, m)
    /\ UNCHANGED pruned

\* pruneTriChatMessages: the oldest messages up to a cutoff.
PruneMessages(n) ==
    /\ n \in Present(messages, pruned)
    /\ pruned' = n
    /\ UNCHANGED messages

\* What a client may post next: a question, an answer, or something else.
Postable ==
    {[role |-> "user"], [role |-> "system"]}
    \cup {[role |-> "assistant", agent |-> a, reply |-> u, answer |-> x] :
              a \in Agents, u \in UserMessages(messages, pruned), x \in Answers}
=============================================================================
