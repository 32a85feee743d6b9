---------------------------- MODULE AutopilotProofs ----------------------------
(***************************************************************************)
(* The autopilot for any number of processes, ticks, buckets, attempts and *)
(* mishaps: commands run once, ticks work one at a time as long as no      *)
(* lease is outlived or raced for, what a tick took it gives back unless a *)
(* statement about it fails, and runs and tasks agree.                     *)
(***************************************************************************)
EXTENDS Autopilot, FiniteSetTheorems, TLAPS

\* Two names that say no more than what they stand for.
USE DEF Acquiring, Mishap

\* The steps that begin a key, work, and complete it, one at a time.
BusyPlaces == {"claim", "ask", "command", "complete", "fail"}

\* A tick is a record, and half-way through a key only where keys are followed that far.
TicksShaped ==
    /\ DOMAIN tick = Ticks
    /\ \A t \in Ticks : Underway(t) =>
          /\ {"at", "busy", "session"} \subseteq DOMAIN tick[t]
          /\ tick[t].busy # "no" => tick[t].at \in BusyPlaces \cup {"release"}

JournalShaped == DOMAIN journal = Sessions /\ \A s \in Sessions : DOMAIN journal[s] = Labels

\* Who works holds the lock, within its lease, as long as nobody outlived one and no two
\* found the same one expired.
WorkersHoldLock ==
    overran \/ raced \/ \A t \in Ticks : Working(t) => tickLock # Free /\ tickLock.owner = t /\ ~tickLock.expired

\* Who is about to steal the lock is alone in this, and the lock is still to be had.
ThievesAlone ==
    \/ overran \/ raced
    \/ \A t \in Ticks : At(t, "steal") =>
          tickLock # Free /\ tickLock.expired /\ \A u \in Ticks : At(u, "steal") => u = t

\* What every step of a tick between its lock and its release does, but for RunCommand.
PlainMove(t) ==
    /\ DOMAIN tick' = Ticks /\ \A u \in Ticks : u # t => tick'[u] = tick[u]
    /\ tick[t].at \notin Acquiring /\ tick'[t].at \notin Acquiring
    /\ {"at", "busy", "session"} \subseteq DOMAIN tick'[t]
    /\ tick'[t].busy # "no" => tick'[t].at \in BusyPlaces \ {"command"}
    /\ JournalShaped' /\ \A s \in Sessions : journal'[s]["command"] = journal[s]["command"]
    /\ UNCHANGED <<tickLock, overran, raced, commands>>

\* One tick goes to a place, with a given part of the key done.
Moved(t, place, busy) ==
    /\ DOMAIN tick' = Ticks /\ \A u \in Ticks : u # t => tick'[u] = tick[u]
    /\ {"at", "busy", "session"} \subseteq DOMAIN tick'[t]
    /\ tick'[t].at = place /\ tick'[t].busy = busy

Shaped == TicksShaped /\ JournalShaped

-----------------------------------------------------------------------------

LEMMA GoMoves ==
    ASSUME Shaped, NEW t \in Ticks, Underway(t), NEW place, Go(t, place)
    PROVE  Moved(t, place, tick[t].busy) /\ tick'[t].session = tick[t].session
BY DEF Shaped, TicksShaped, Go, Moved

LEMMA AdvanceMoves ==
    ASSUME Shaped, NEW t \in Ticks, Underway(t), NEW place, Advance(t, place)
    PROVE  Moved(t, place, "no")
BY DEF Shaped, TicksShaped, Advance, Moved

LEMMA ThrowMoves ==
    ASSUME Shaped, NEW t \in Ticks, Underway(t), NEW reason, Throw(t, reason)
    PROVE  Moved(t, "panic", "no")
BY DEF Shaped, TicksShaped, Throw, Moved

LEMMA FailsMoves ==
    ASSUME Shaped, NEW t \in Ticks, Underway(t), NEW reason, Fails(t, reason)
    PROVE  Moved(t, "verify", "no")
<1> DEFINE failure == IF tick[t].failure = Sound THEN reason ELSE tick[t].failure
<1>1. tick' = [tick EXCEPT ![t].at = "verify", ![t].busy = "no", ![t].failure = failure]
  BY DEF Fails
<1> HIDE DEF failure
<1>2. QED BY <1>1 DEF Shaped, TicksShaped, Moved

LEMMA HeardMoves ==
    ASSUME Shaped, NEW t \in Ticks, Underway(t), NEW quorum, Heard(t, quorum)
    PROVE  Moved(t, "decide", "no")
BY DEF Shaped, TicksShaped, Heard, Moved

LEMMA ClaimedMoves ==
    ASSUME Shaped, NEW t \in Ticks, Underway(t), NEW a, Claimed(t, a)
    PROVE  Moved(t, "begin", "no")
<1> DEFINE session == IF a = 0 THEN tick[t].session ELSE <<"attempt", a>>
<1>1. tick' = [tick EXCEPT ![t].at = "begin", ![t].busy = "no", ![t].session = session]
  BY DEF Claimed
<1> HIDE DEF session
<1>2. QED BY <1>1 DEF Shaped, TicksShaped, Moved

LEMMA WorkMoves ==
    ASSUME Shaped, NEW t \in Ticks, NEW l, Works(t, l)
    PROVE  Moved(t, l, "record") /\ tick'[t].session = tick[t].session
BY DEF Shaped, TicksShaped, Works, At, Moved

\* A key that is not the commands'.
LEMMA PutElsewhere ==
    ASSUME Shaped, NEW t, NEW l \in Labels \ {"command"}, NEW r, PutRow(t, l, r)
    PROVE  JournalShaped' /\ \A s \in Sessions : journal'[s]["command"] = journal[s]["command"]
<1>1. journal' = [journal EXCEPT ![tick[t].session] = [journal[tick[t].session] EXCEPT ![l] = r]]
  BY DEF PutRow
<1>2. "command" \in Labels
  BY DEF Labels
<1>3. QED BY <1>1, <1>2 DEF Shaped, JournalShaped

LEMMA NothingPut ==
    ASSUME Shaped, UNCHANGED journal
    PROVE  JournalShaped' /\ \A s \in Sessions : journal'[s]["command"] = journal[s]["command"]
BY DEF Shaped, JournalShaped

LEMMA BeginKeyMoves ==
    ASSUME Shaped, NEW t \in Ticks, NEW l \in BusyPlaces \ {"command"}, NEW print, BeginKey(t, l, print)
    PROVE  PlainMove(t)
<1>1. Underway(t) /\ tick[t].at = l /\ UNCHANGED <<tickLock, overran, raced, commands>>
  BY DEF BeginKey, At, ghosts
<1>2. l \in Labels \ {"command"} /\ l \notin Acquiring
  BY DEF BusyPlaces, Labels
<1>3. CASE RowOf(t, l) = NoRow
  <2>1. tick' = [tick EXCEPT ![t].busy = "work"]
    BY <1>3 DEF BeginKey
  <2>2. Moved(t, l, "work")
    BY <1>1, <2>1 DEF Moved, Shaped, TicksShaped
  <2>3. JournalShaped' /\ \A s \in Sessions : journal'[s]["command"] = journal[s]["command"]
    BY <1>2, <1>3, PutElsewhere DEF BeginKey
  <2>4. QED BY <1>1, <1>2, <2>2, <2>3 DEF PlainMove, Moved
<1>4. CASE RowOf(t, l) # NoRow
  <2>1. Throw(t, Refusal(t, l, print)) /\ UNCHANGED journal
    BY <1>4 DEF BeginKey
  <2>2. QED BY <1>1, <1>2, <2>1, ThrowMoves, NothingPut DEF PlainMove, Moved
<1>5. QED BY <1>3, <1>4

LEMMA KeyedMoves ==
    ASSUME Shaped, NEW t \in Ticks, NEW l \in Labels \ BusyPlaces, NEW print, NEW outs, NEW place,
           place \notin Acquiring, Keyed(t, l, print, outs, place)
    PROVE  PlainMove(t)
<1>1. Underway(t) /\ tick[t].at = l /\ UNCHANGED <<tickLock, overran, raced, commands>>
  BY DEF Keyed, At, ghosts
<1>2. l \in Labels \ {"command"} /\ l \notin Acquiring /\ tick[t].busy = "no"
  BY <1>1 DEF BusyPlaces, Labels, Shaped, TicksShaped
<1>3. JournalShaped' /\ \A s \in Sessions : journal'[s]["command"] = journal[s]["command"]
  BY <1>2, PutElsewhere, NothingPut DEF Keyed
<1>4. Go(t, place) \/ \E reason : Throw(t, reason)
  BY DEF Keyed
<1>5. Moved(t, place, "no") \/ Moved(t, "panic", "no")
  BY <1>1, <1>2, <1>4, GoMoves, ThrowMoves
<1>6. QED BY <1>1, <1>2, <1>3, <1>5 DEF PlainMove, Moved

\* A step that moves the tick alone, or with a key that is not the commands'.
LEMMA MoveIsPlain ==
    ASSUME Shaped, NEW t \in Ticks, Underway(t), tick[t].at \notin Acquiring,
           NEW place, NEW busy, Moved(t, place, busy), place \notin Acquiring,
           busy # "no" => place \in BusyPlaces \ {"command"},
           UNCHANGED <<tickLock, overran, raced, commands>>,
           UNCHANGED journal \/ \E l \in Labels \ {"command"} : \E r : PutRow(t, l, r)
    PROVE  PlainMove(t)
<1>1. JournalShaped' /\ \A s \in Sessions : journal'[s]["command"] = journal[s]["command"]
  BY PutElsewhere, NothingPut
<1>2. QED BY <1>1 DEF PlainMove, Moved

LEMMA ClaimIsPlain ==
    ASSUME Shaped, NEW t \in Ticks, GoalClaim(t)
    PROVE  PlainMove(t)
<1>1. "claim" \in BusyPlaces \ {"command"} /\ "claim" \in Labels
  BY DEF BusyPlaces, Labels
<1>2. CASE BeginKey(t, "claim", Sound)
  BY <1>1, <1>2, BeginKeyMoves
<1>3. CASE Works(t, "claim") /\ UNCHANGED <<journal, outcome, commands, elsewhere>>
  <2>1. Moved(t, "claim", "record") /\ Underway(t) /\ tick[t].at \notin Acquiring
    BY <1>3, WorkMoves DEF Works, At
  <2>2. QED BY <1>1, <1>3, <2>1, MoveIsPlain DEF elsewhere, ghosts
<1>4. ASSUME NEW a, Claimed(t, a), At(t, "claim"), UNCHANGED <<commands, elsewhere>>,
             UNCHANGED journal \/ PutDone(t, "claim", "none")
      PROVE  PlainMove(t)
  <2>1. Moved(t, "begin", "no") /\ Underway(t) /\ tick[t].at \notin Acquiring
    BY <1>4, ClaimedMoves DEF At
  <2>2. UNCHANGED journal \/ \E l \in Labels \ {"command"} : \E r : PutRow(t, l, r)
    BY <1>1, <1>4 DEF PutDone
  <2>3. QED BY <1>4, <2>1, <2>2, MoveIsPlain DEF elsewhere, ghosts
<1>5. QED BY <1>2, <1>3, <1>4 DEF GoalClaim, storeVars

LEMMA CouncilIsPlain ==
    ASSUME Shaped, NEW t \in Ticks, Council(t)
    PROVE  PlainMove(t)
<1>1. /\ "ask" \in BusyPlaces \ {"command"} /\ "ask" \in Labels
      /\ "decide" \in Labels \ BusyPlaces
  BY DEF BusyPlaces, Labels
<1>2. CASE BridgeAsk(t)
  BY <1>1, <1>2, BeginKeyMoves DEF BridgeAsk
<1>3. CASE CouncilRound(t) \/ CouncilHeard(t)
  <2>1. PICK quorum : Heard(t, quorum)
    BY <1>3 DEF CouncilRound, CouncilHeard
  <2>2. Underway(t) /\ tick[t].at \notin Acquiring /\ UNCHANGED <<tickLock, overran, raced, commands>>
    BY <1>3 DEF CouncilRound, CouncilHeard, At, storeVars, elsewhere, ghosts
  <2>3. UNCHANGED journal \/ \E l \in Labels \ {"command"} : \E r : PutRow(t, l, r)
    BY <1>1, <1>3 DEF CouncilRound, CouncilHeard, PutDone, storeVars
  <2>4. QED BY <2>1, <2>2, <2>3, HeardMoves, MoveIsPlain
<1>4. CASE Keyed(t, "decide", Sound, {"direct", "fallback"}, "judge")
  BY <1>1, <1>4, KeyedMoves
<1>5. ASSUME NEW failure, NEW braked, At(t, "judge"), UNCHANGED <<storeVars, elsewhere>>,
             tick' = [tick EXCEPT ![t].at = "policy", ![t].failure = failure, ![t].braked = braked]
      PROVE  PlainMove(t)
  <2>1. Underway(t) /\ tick[t].at = "judge" /\ tick[t].busy = "no"
    BY <1>5 DEF At, Shaped, TicksShaped, BusyPlaces
  <2>2. Moved(t, "policy", "no")
    BY <1>5, <2>1 DEF Moved, Shaped, TicksShaped
  <2>3. QED BY <1>5, <2>1, <2>2, MoveIsPlain DEF storeVars, elsewhere, ghosts
<1>6. QED BY <1>2, <1>3, <1>4, <1>5 DEF Council

\* A tick goes on to another place, and the journal stays or gets a key that is not the
\* commands'.
LEMMA GoIsPlain ==
    ASSUME Shaped, NEW t \in Ticks, Underway(t), tick[t].at \notin BusyPlaces \cup Acquiring,
           NEW place, Go(t, place), place \notin Acquiring, UNCHANGED <<tickLock, overran, raced, commands>>,
           tick[t].at # "release",
           UNCHANGED journal \/ \E l \in Labels \ {"command"} : \E r : PutRow(t, l, r)
    PROVE  PlainMove(t)
<1>1. tick[t].busy = "no"
  BY DEF Shaped, TicksShaped
<1>2. Moved(t, place, "no")
  BY <1>1, GoMoves
<1>3. QED BY <1>2, MoveIsPlain

LEMMA ExecutionIsPlain ==
    ASSUME Shaped, NEW t \in Ticks, ChooseExecution(t) \/ CreateFollowUp(t)
    PROVE  PlainMove(t)
<1>1. "create_task" \in Labels \ BusyPlaces /\ "execute" \notin BusyPlaces
  BY DEF BusyPlaces, Labels
<1>2. CASE CreateFollowUp(t)
  BY <1>1, <1>2, KeyedMoves DEF CreateFollowUp
<1>3. CASE ChooseExecution(t)
  <2>1. /\ Underway(t) /\ tick[t].at = "execute"
        /\ UNCHANGED <<tickLock, overran, raced, commands, journal>>
    BY <1>3 DEF ChooseExecution, At, storeVars, elsewhere, ghosts
  <2>2. CASE Go(t, "create_task") \/ Go(t, "command")
    BY <1>1, <2>1, <2>2, GoIsPlain
  <2>3. CASE \E reason : Fails(t, reason)
    <3>1. Moved(t, "verify", "no")
      BY <2>1, <2>3, FailsMoves
    <3>2. QED BY <2>1, <3>1, MoveIsPlain
  <2>4. QED BY <1>3, <2>2, <2>3 DEF ChooseExecution
<1>4. QED BY <1>2, <1>3

LEMMA SettlingIsPlain ==
    ASSUME Shaped, NEW t \in Ticks,
           ChooseSettlement(t) \/ CompleteTask(t) \/ FailTask(t)
    PROVE  PlainMove(t)
<1>1. /\ {"complete", "fail"} \subseteq BusyPlaces \ {"command"} /\ "settle" \notin BusyPlaces
      /\ {"complete", "fail"} \subseteq Labels
  BY DEF BusyPlaces, Labels
<1>2. CASE ChooseSettlement(t)
  BY <1>1, <1>2, GoIsPlain DEF ChooseSettlement, At, storeVars, elsewhere, ghosts
<1>3. ASSUME NEW l \in {"complete", "fail"}, NEW status, Settle(t, l, status) PROVE PlainMove(t)
  <2>1. CASE BeginKey(t, l, Sound)
    BY <1>1, <2>1, BeginKeyMoves
  <2>2. CASE Works(t, l) /\ UNCHANGED <<journal, claimed, commands, elsewhere>>
    <3>1. Moved(t, l, "record") /\ Underway(t) /\ tick[t].at \notin Acquiring
      BY <2>2, WorkMoves DEF Works, At
    <3>2. QED BY <1>1, <2>2, <3>1, MoveIsPlain DEF elsewhere, ghosts
  <2>3. CASE At(t, l) /\ PutDone(t, l, "none") /\ Advance(t, "end") /\ UNCHANGED <<commands, elsewhere>>
    <3>1. Moved(t, "end", "no") /\ Underway(t) /\ tick[t].at \notin Acquiring
      BY <2>3, AdvanceMoves DEF At
    <3>2. UNCHANGED journal \/ \E m \in Labels \ {"command"} : \E r : PutRow(t, m, r)
      BY <1>1, <2>3 DEF PutDone
    <3>3. QED BY <2>3, <3>1, <3>2, MoveIsPlain DEF elsewhere, ghosts
  <2>4. CASE Skips(t, l, Sound, "end")
    <3>1. Underway(t) /\ tick[t].at \notin Acquiring /\ Go(t, "end") /\ tick[t].busy = "no"
      BY <2>4 DEF Skips, At
    <3>2. Moved(t, "end", "no")
      BY <3>1, GoMoves
    <3>3. QED BY <2>4, <3>1, <3>2, MoveIsPlain DEF Skips, storeVars, elsewhere, ghosts
  <2>5. QED BY <1>3, <2>1, <2>2, <2>3, <2>4 DEF Settle
<1>4. QED BY <1>2, <1>3 DEF CompleteTask, FailTask

LEMMA RecordsArePlain ==
    ASSUME Shaped, NEW t \in Ticks,
           \/ RunBegin(t) \/ GoalIntake(t) \/ SafetyGate(t) \/ VerifyFinalize(t) \/ Mentorship(t)
           \/ Governance(t) \/ OpenIncident(t) \/ RunEnd(t)
    PROVE  PlainMove(t)
<1>1. {"begin", "intake", "policy", "verify", "mentor", "adr", "incident", "end"} \subseteq Labels \ BusyPlaces
  BY DEF BusyPlaces, Labels
<1>2. CASE RunBegin(t) \/ GoalIntake(t) \/ SafetyGate(t) \/ VerifyFinalize(t) \/ Mentorship(t) \/ RunEnd(t)
  BY <1>1, <1>2, KeyedMoves DEF RunBegin, GoalIntake, SafetyGate, VerifyFinalize, Mentorship, RunEnd
<1>3. CASE Governance(t)
  <2>1. CASE Keyed(t, "adr", Sound, {"none"}, "incident")
    BY <1>1, <2>1, KeyedMoves
  <2>2. CASE At(t, "adr") /\ Go(t, "incident") /\ UNCHANGED <<storeVars, elsewhere>>
    BY <1>1, <2>2, GoIsPlain DEF At, storeVars, elsewhere, ghosts
  <2>3. QED BY <1>3, <2>1, <2>2 DEF Governance
<1>4. CASE OpenIncident(t)
  <2>1. CASE Keyed(t, "incident", tick[t].failure, {"none"}, "settle")
    BY <1>1, <2>1, KeyedMoves
  <2>2. CASE At(t, "incident") /\ Go(t, "settle") /\ UNCHANGED <<storeVars, elsewhere>>
    BY <1>1, <2>2, GoIsPlain DEF At, storeVars, elsewhere, ghosts
  <2>3. QED BY <1>4, <2>1, <2>2 DEF OpenIncident
<1>5. QED BY <1>2, <1>3, <1>4

LEMMA EndingIsPlain ==
    ASSUME Shaped, NEW t \in Ticks,
           Finish(t) \/ Panic(t) \/ PanicFailTask(t) \/ PanicIncident(t) \/ PanicPause(t)
    PROVE  PlainMove(t)
<1>1. /\ {"end_error", "panic_fail", "incident"} \subseteq Labels \ {"command"}
      /\ {"finish", "panic", "panic_fail", "panic_incident", "panic_pause"} \cap (BusyPlaces \cup Acquiring) = {}
  BY DEF BusyPlaces, Labels
<1>2. Underway(t) /\ tick[t].at \notin BusyPlaces \cup Acquiring /\ tick[t].at # "release"
  BY <1>1 DEF Finish, Panic, PanicFailTask, PanicIncident, PanicPause, At
<1>3. CASE Finish(t)
  <2>1. UNCHANGED <<tickLock, overran, raced, commands, journal>>
    BY <1>3 DEF Finish, storeVars, ghosts
  <2>2. CASE Go(t, "release")
    BY <1>2, <2>1, <2>2, GoIsPlain
  <2>3. CASE Throw(t, <<"threw", "end">>)
    BY <1>2, <2>1, <2>3, ThrowMoves, MoveIsPlain
  <2>4. QED BY <1>3, <2>2, <2>3 DEF Finish
<1>4. CASE Panic(t) \/ PanicFailTask(t)
  <2>1. PICK l, print, out : l \in Labels \ {"command"} /\ PanicKey(t, l, print, out)
    BY <1>1, <1>4 DEF Panic, PanicFailTask
  <2>2. UNCHANGED journal \/ \E r : PutRow(t, l, r)
    BY <2>1 DEF PanicKey
  <2>3. UNCHANGED <<overran, raced>>
    BY <2>1 DEF PanicKey, ghosts
  <2>4. UNCHANGED <<tickLock, commands>> /\ \E place : Go(t, place) /\ place \notin Acquiring
    BY <1>4 DEF Panic, PanicFailTask
  <2>5. QED BY <1>2, <2>1, <2>2, <2>3, <2>4, GoIsPlain
<1>5. CASE PanicIncident(t)
  <2>1. UNCHANGED <<tickLock, overran, raced, commands>>
    BY <1>5 DEF PanicIncident, ghosts
  <2>2. UNCHANGED journal \/ \E r : PutRow(t, "incident", r)
    BY <1>5 DEF PanicIncident
  <2>3. \E place : Go(t, place) /\ place \notin Acquiring
    BY <1>5 DEF PanicIncident
  <2>4. QED BY <1>1, <1>2, <2>1, <2>2, <2>3, GoIsPlain
<1>6. CASE PanicPause(t)
  <2>1. UNCHANGED <<tickLock, overran, raced, commands, journal>> /\ Go(t, "release")
    BY <1>6 DEF PanicPause, storeVars, ghosts
  <2>2. QED BY <1>2, <2>1, GoIsPlain
<1>7. QED BY <1>3, <1>4, <1>5, <1>6

LEMMA TickIsPlain ==
    ASSUME Shaped, NEW t \in Ticks, RunAutopilotTick(t)
    PROVE  AcquireTickLock(t) \/ Release(t) \/ RunCommand(t) \/ PlainMove(t)
BY ClaimIsPlain, CouncilIsPlain, ExecutionIsPlain, SettlingIsPlain, RecordsArePlain, EndingIsPlain
   DEF RunAutopilotTick, Execution

-----------------------------------------------------------------------------
(* The key of the commands *)

CommandRow == [status : {"in_progress", "done", "failed"}, print : {Sound}, out : Outs]

\* Tick t is half-way through the key of the commands of session s.
Commanding(t, s) ==
    Underway(t) /\ tick[t].at = "command" /\ tick[t].busy # "no" /\ tick[t].session = s

\* One tick at a time is half-way through a session's commands, none before there is a row,
\* and they have not run while it has yet to run them.
CommandInv ==
    /\ commands \in [Sessions -> Nat]
    /\ \A s \in Sessions :
          /\ journal[s]["command"] \in CommandRow \cup {NoRow}
          /\ commands[s] <= 1
          /\ journal[s]["command"] = NoRow => commands[s] = 0 /\ \A t \in Ticks : ~Commanding(t, s)
          /\ \A t, u \in Ticks : Commanding(t, s) /\ Commanding(u, s) => t = u
          /\ \A t \in Ticks : Commanding(t, s) /\ tick[t].busy = "work" => commands[s] = 0

LEMMA RowIsNotNull == \A r \in CommandRow : r # NoRow
<1>1. CommandRow \subseteq Row
  BY DEF CommandRow, Row, Prints, Reasons
<1>2. QED BY <1>1, NullAssumption

LEMMA PutCommand ==
    ASSUME Shaped, NEW t, NEW r, PutRow(t, "command", r)
    PROVE  /\ JournalShaped'
           /\ \A s \in Sessions :
                 journal'[s]["command"] = IF s = tick[t].session THEN r ELSE journal[s]["command"]
<1>1. journal' = [journal EXCEPT ![tick[t].session] = [journal[tick[t].session] EXCEPT !["command"] = r]]
  BY DEF PutRow
<1>2. "command" \in Labels
  BY DEF Labels
<1>3. QED BY <1>1, <1>2 DEF Shaped, JournalShaped

\* Nobody gets half-way through commands, and no row or count of them changes.
LEMMA QuietKeepsCommandInv ==
    ASSUME CommandInv, UNCHANGED commands,
           \A s \in Sessions : journal'[s]["command"] = journal[s]["command"],
           \A t \in Ticks, s \in Sessions : Commanding(t, s)' => tick'[t] = tick[t]
    PROVE  CommandInv'
<1>1. \A t \in Ticks, s \in Sessions :
          Commanding(t, s)' => Commanding(t, s) /\ tick'[t].busy = tick[t].busy
  BY DEF Commanding, Underway
<1>2. QED BY <1>1 DEF CommandInv

LEMMA PlainKeepsCommandInv ==
    ASSUME CommandInv, NEW t \in Ticks, PlainMove(t)
    PROVE  CommandInv'
<1>1. \A u \in Ticks, s \in Sessions : Commanding(u, s)' => tick'[u] = tick[u]
  BY DEF PlainMove, Commanding
<1>2. QED BY <1>1, QuietKeepsCommandInv DEF PlainMove

\* The tick leaves the commands, having put r in their row.
LEMMA LeaveKeepsCommandInv ==
    ASSUME Shaped, CommandInv, NEW t \in Ticks, UNCHANGED commands,
           NEW place, place # "command", Moved(t, place, "no"),
           NEW r \in CommandRow, PutRow(t, "command", r)
    PROVE  CommandInv'
<1>1. \A u \in Ticks, s \in Sessions :
          Commanding(u, s)' => Commanding(u, s) /\ tick'[u].busy = tick[u].busy
  BY DEF Moved, Commanding, Underway
<1>2. \A s \in Sessions :
          /\ journal'[s]["command"] \in CommandRow \cup {NoRow}
          /\ journal'[s]["command"] = NoRow => journal[s]["command"] = NoRow
  BY PutCommand, RowIsNotNull DEF CommandInv
<1>3. QED BY <1>1, <1>2 DEF CommandInv

LEMMA RunCommandEffect ==
    ASSUME Shaped, CommandInv, NEW t \in Ticks, RunCommand(t)
    PROVE  /\ CommandInv' /\ JournalShaped' /\ tick[t].at = "command"
           /\ UNCHANGED <<tickLock, overran, raced>>
           /\ \E place, busy : Moved(t, place, busy) /\ place \notin Acquiring /\ (busy # "no" => place = "command")
<1> DEFINE s0 == tick[t].session
<1>1. Underway(t) /\ tick[t].at = "command" /\ UNCHANGED <<tickLock, overran, raced>>
  BY DEF RunCommand, BeginKey, Works, At, elsewhere, ghosts
<1>2. CASE BeginKey(t, "command", Sound) /\ RowOf(t, "command") = NoRow
  <2>1. PutRow(t, "command", [status |-> "in_progress", print |-> Sound, out |-> "none"])
    BY <1>2 DEF BeginKey
  <2>2. tick' = [tick EXCEPT ![t].busy = "work"] /\ UNCHANGED commands
    BY <1>2 DEF BeginKey
  <2>3. Moved(t, "command", "work") /\ tick'[t].session = s0
    BY <1>1, <2>2 DEF Moved, Shaped, TicksShaped
  <2>4. [status |-> "in_progress", print |-> Sound, out |-> "none"] \in CommandRow
    BY DEF CommandRow, Outs
  <2>5. /\ JournalShaped'
        /\ \A s \in Sessions : s # s0 => journal'[s]["command"] = journal[s]["command"]
        /\ s0 \in Sessions => journal'[s0]["command"] \in CommandRow /\ journal'[s0]["command"] # NoRow
    BY <2>1, <2>4, PutCommand, RowIsNotNull
  <2>6. s0 \in Sessions => commands[s0] = 0 /\ \A u \in Ticks : ~Commanding(u, s0)
    BY <1>2 DEF CommandInv, RowOf
  <2>7. \A u \in Ticks : u # t => \A s \in Sessions :
            Commanding(u, s)' => Commanding(u, s) /\ tick'[u].busy = tick[u].busy
    BY <2>3 DEF Moved, Commanding, Underway
  <2>8. \A s \in Sessions : Commanding(t, s)' => s = s0
    BY <2>3 DEF Commanding
  <2>9. ASSUME NEW s \in Sessions
        PROVE  /\ journal'[s]["command"] \in CommandRow \cup {NoRow}
               /\ commands'[s] <= 1
               /\ journal'[s]["command"] = NoRow => commands'[s] = 0 /\ \A u \in Ticks : ~Commanding(u, s)'
               /\ \A u, v \in Ticks : Commanding(u, s)' /\ Commanding(v, s)' => u = v
               /\ \A u \in Ticks : Commanding(u, s)' /\ tick'[u].busy = "work" => commands'[s] = 0
    <3>1. CASE s = s0
      BY <3>1, <2>2, <2>5, <2>6, <2>7
    <3>2. CASE s # s0
      BY <3>2, <2>2, <2>5, <2>7, <2>8 DEF CommandInv
    <3>3. QED BY <3>1, <3>2
  <2>10. CommandInv'
    BY <2>2, <2>9 DEF CommandInv
  <2>11. QED BY <1>1, <2>3, <2>5, <2>10
<1>3. CASE BeginKey(t, "command", Sound) /\ RowOf(t, "command") # NoRow
  <2>1. Throw(t, Refusal(t, "command", Sound)) /\ UNCHANGED <<journal, commands>>
    BY <1>3 DEF BeginKey
  <2>2. Moved(t, "panic", "no")
    BY <1>1, <2>1, ThrowMoves
  <2>3. \A u \in Ticks, s \in Sessions : Commanding(u, s)' => tick'[u] = tick[u]
    BY <2>2 DEF Moved, Commanding
  <2>4. QED BY <1>1, <2>1, <2>2, <2>3, NothingPut, QuietKeepsCommandInv
<1>4. CASE Works(t, "command") /\ commands' = [commands EXCEPT ![s0] = commands[s0] + 1] /\ UNCHANGED journal
  <2>1. Moved(t, "command", "record") /\ tick'[t].session = s0
    BY <1>4, WorkMoves
  <2>2. tick[t].busy = "work"
    BY <1>4 DEF Works
  <2>3. s0 \in Sessions => Commanding(t, s0) /\ commands[s0] = 0
    BY <1>1, <2>2 DEF Commanding, CommandInv
  <2>4. \A u \in Ticks, s \in Sessions :
            /\ Commanding(u, s)' => Commanding(u, s)
            /\ Commanding(u, s)' /\ tick'[u].busy = "work" => u # t /\ tick[u].busy = "work"
    BY <1>1, <2>1, <2>2 DEF Moved, Commanding, Underway
  <2>5. /\ commands' \in [Sessions -> Nat]
        /\ \A s \in Sessions : commands'[s] = IF s = s0 THEN commands[s0] + 1 ELSE commands[s]
    <3>1. commands \in [Sessions -> Nat] /\ \A s \in Sessions : commands[s] + 1 \in Nat
      BY DEF CommandInv
    <3> HIDE DEF s0
    <3>2. QED BY <1>4, <3>1
  <2>6. ASSUME NEW s \in Sessions
        PROVE  /\ commands'[s] <= 1
               /\ journal[s]["command"] = NoRow => commands'[s] = 0
               /\ \A u \in Ticks : Commanding(u, s)' /\ tick'[u].busy = "work" => commands'[s] = 0
    <3>1. CASE s = s0
      BY <3>1, <2>3, <2>4, <2>5 DEF CommandInv
    <3>2. CASE s # s0
      BY <3>2, <2>4, <2>5 DEF CommandInv
    <3>3. QED BY <3>1, <3>2
  <2>7. CommandInv'
    BY <1>4, <2>4, <2>5, <2>6 DEF CommandInv
  <2>8. JournalShaped'
    BY <1>4 DEF Shaped, JournalShaped
  <2>9. QED BY <1>1, <2>1, <2>7, <2>8
<1>5. ASSUME NEW out \in {"yes", "no"}, tick[t].busy = "record", PutDone(t, "command", out),
             Ran(t, out = "yes"), UNCHANGED commands
      PROVE  /\ CommandInv' /\ JournalShaped' /\ Moved(t, "verify", "no")
  <2>1. Moved(t, "verify", "no")
    BY <1>1, <1>5, AdvanceMoves, FailsMoves DEF Ran
  <2>2. CASE s0 \in Sessions
    <3>1. Commanding(t, s0)
      BY <1>1, <1>5 DEF Commanding
    <3>2. RowOf(t, "command") \in CommandRow
      BY <2>2, <3>1 DEF CommandInv, RowOf
    <3>3. [RowOf(t, "command") EXCEPT !.status = "done", !.out = out] \in CommandRow
      BY <3>2 DEF CommandRow, Outs
    <3>4. QED BY <1>5, <2>1, <3>3, LeaveKeepsCommandInv, PutCommand DEF PutDone
  <2>3. CASE s0 \notin Sessions
    <3>1. JournalShaped' /\ \A s \in Sessions : journal'[s]["command"] = journal[s]["command"]
      BY <1>5, <2>3, PutCommand DEF PutDone
    <3>2. \A u \in Ticks, s \in Sessions : Commanding(u, s)' => tick'[u] = tick[u]
      BY <2>1 DEF Moved, Commanding
    <3>3. QED BY <1>5, <2>1, <3>1, <3>2, QuietKeepsCommandInv
  <2>4. QED BY <2>2, <2>3
<1>6. CASE Replays(t, "command", Sound) /\ Ran(t, RowOf(t, "command").out = "yes") /\ UNCHANGED <<storeVars, elsewhere>>
  <2>1. Moved(t, "verify", "no")
    BY <1>1, <1>6, AdvanceMoves, FailsMoves DEF Ran
  <2>2. \A u \in Ticks, s \in Sessions : Commanding(u, s)' => tick'[u] = tick[u]
    BY <2>1 DEF Moved, Commanding
  <2>3. QED BY <1>1, <1>6, <2>1, <2>2, NothingPut, QuietKeepsCommandInv DEF storeVars
<1>7. \/ BeginKey(t, "command", Sound)
      \/ Works(t, "command") /\ commands' = [commands EXCEPT ![s0] = commands[s0] + 1] /\ UNCHANGED journal
      \/ /\ tick[t].busy = "record" /\ UNCHANGED commands
         /\ \E out \in {"yes", "no"} : PutDone(t, "command", out) /\ Ran(t, out = "yes")
      \/ Replays(t, "command", Sound) /\ Ran(t, RowOf(t, "command").out = "yes") /\ UNCHANGED <<storeVars, elsewhere>>
  BY DEF RunCommand
<1>8. CASE \E out \in {"yes", "no"} : /\ tick[t].busy = "record" /\ UNCHANGED commands
                                     /\ PutDone(t, "command", out) /\ Ran(t, out = "yes")
  <2>1. CommandInv' /\ JournalShaped' /\ Moved(t, "verify", "no")
    BY <1>5, <1>8
  <2>2. QED BY <1>1, <2>1
<1>9. QED BY <1>2, <1>3, <1>4, <1>6, <1>7, <1>8

LEMMA StatementFailsEffect ==
    ASSUME Shaped, CommandInv, NEW t \in Ticks, StatementFails(t)
    PROVE  /\ CommandInv' /\ JournalShaped' /\ Moved(t, "panic", "no") /\ tick[t].at \notin Acquiring
           /\ UNCHANGED <<tickLock, overran, raced>>
<1> DEFINE l == tick[t].at
           s0 == tick[t].session
           r == [RowOf(t, l) EXCEPT !.status = "failed"]
<1>1. /\ Underway(t) /\ tick[t].busy # "no" /\ PutRow(t, l, r) /\ UNCHANGED <<tickLock, overran, raced, commands>>
      /\ Throw(t, <<"threw", l>>)
  BY DEF StatementFails
<1>2. Moved(t, "panic", "no") /\ l \in BusyPlaces
  BY <1>1, ThrowMoves DEF StatementFails, Shaped, TicksShaped
<1>3. l \notin Acquiring /\ BusyPlaces \subseteq Labels
  BY <1>2 DEF BusyPlaces, Labels
<1>4. \A u \in Ticks, s \in Sessions : Commanding(u, s)' => tick'[u] = tick[u]
  BY <1>2 DEF Moved, Commanding
<1>5. CASE l # "command"
  <2>1. JournalShaped' /\ \A s \in Sessions : journal'[s]["command"] = journal[s]["command"]
    BY <1>1, <1>2, <1>3, <1>5, PutElsewhere
  <2>2. QED BY <1>1, <1>2, <1>3, <1>4, <2>1, QuietKeepsCommandInv
<1>6. CASE l = "command"
  <2>1. PutRow(t, "command", r)
    BY <1>1, <1>6
  <2>2. CASE s0 \in Sessions
    <3>1. Commanding(t, s0)
      BY <1>1, <1>6 DEF Commanding
    <3>2. RowOf(t, l) \in CommandRow
      BY <1>6, <2>2, <3>1 DEF CommandInv, RowOf
    <3>3. r \in CommandRow
      BY <3>2 DEF CommandRow
    <3>4. QED BY <1>1, <1>2, <1>3, <2>1, <3>3, LeaveKeepsCommandInv, PutCommand
  <2>3. CASE s0 \notin Sessions
    <3>1. JournalShaped' /\ \A s \in Sessions : journal'[s]["command"] = journal[s]["command"]
      BY <2>1, <2>3, PutCommand
    <3>2. QED BY <1>1, <1>2, <1>3, <1>4, <3>1, QuietKeepsCommandInv
  <2>4. QED BY <2>2, <2>3
<1>7. QED BY <1>5, <1>6

-----------------------------------------------------------------------------
(* Single flight *)

LockShaped == tickLock # Free => {"owner", "expired"} \subseteq DOMAIN tickLock

AutopilotInv == Shaped /\ CommandInv /\ LockShaped /\ WorkersHoldLock /\ ThievesAlone

\* Tick t is over.
Over(t) == DOMAIN tick' = Ticks /\ (\A u \in Ticks : u # t => tick'[u] = tick[u]) /\ ~Underway(t)'

Taken(t) == [owner |-> t, expired |-> FALSE]

\* What the statements of acquireLock do to a tick and the lock: the tick reads,
Reads(t) ==
    /\ tick[t].at = "lock"
    /\ \E place \in {"insert", "steal"} : Moved(t, place, "no") /\ (place = "steal" <=> tickLock # Free)
    /\ tickLock # Free => tickLock.expired
    /\ ~raced' => ~raced /\ (tickLock # Free => \A u \in Ticks : ~At(u, "steal"))
    /\ UNCHANGED tickLock

\* writes what it decided,
Writes(t) ==
    /\ tickLock' = Taken(t)
    /\ \/ tick[t].at = "insert" /\ tickLock = Free
       \/ tick[t].at = "steal" /\ tickLock # Free

\* or ends without the lock, and goes to work if it was told that it has it.
AcquireEffect(t) ==
    \/ Reads(t)
    \/ UNCHANGED raced /\ Over(t) /\ (UNCHANGED tickLock \/ Writes(t))
    \/ /\ UNCHANGED raced /\ Moved(t, "claim", "no")
       /\ Writes(t) \/ (tick[t].at = "steal" /\ tickLock = Free /\ UNCHANGED tickLock)

\* And those of releaseLock.
ReleaseEffect(t) ==
    \/ Moved(t, "release", "work") /\ UNCHANGED tickLock
    \/ Over(t) /\ (UNCHANGED tickLock \/ tickLock' = Free)

LEMMA EndIsOver ==
    ASSUME Shaped, NEW t \in Ticks, NEW last \in {Ended, Stuck}, tick' = [tick EXCEPT ![t] = last]
    PROVE  Over(t)
BY DEF Shaped, TicksShaped, Over, Underway

LEMMA AcquireForm ==
    ASSUME Shaped, NEW t \in Ticks, Underway(t), AcquireTickLock(t)
    PROVE  /\ AcquireEffect(t) /\ tick[t].at \in Acquiring
           /\ UNCHANGED <<overran, commands, journal>>
<1>1. tick[t].at \in Acquiring /\ UNCHANGED <<overran, commands, journal>>
  BY DEF AcquireTickLock, ReadTickLock, OverlapSkip, InsertTickLock, StealTickLock, AcquireThrows, TakeOff,
         Rejects, At, storeVars, ghosts
<1>2. tick[t].busy = "no"
  BY <1>1 DEF Shaped, TicksShaped, BusyPlaces
<1>3. CASE ReadTickLock(t)
  <2>1. \E place \in {"insert", "steal"} : Moved(t, place, "no") /\ (place = "steal" <=> tickLock # Free)
    BY <1>2, <1>3, GoMoves DEF ReadTickLock
  <2>2. ~raced' => ~raced /\ (tickLock # Free => \A u \in Ticks : ~At(u, "steal"))
    BY <1>3, Zenon DEF ReadTickLock
  <2>3. QED BY <1>1, <1>3, <2>1, <2>2 DEF ReadTickLock, At, Reads, AcquireEffect
<1>4. CASE OverlapSkip(t)
  <2>1. Over(t)
    BY <1>4, EndIsOver DEF OverlapSkip
  <2>2. QED BY <1>1, <1>4, <2>1 DEF OverlapSkip, ghosts, AcquireEffect
<1>5. CASE InsertTickLock(t) /\ tickLock = Free
  <2>1. Moved(t, "claim", "no")
    BY <1>2, <1>5, GoMoves DEF InsertTickLock, TakeOff
  <2>2. Writes(t) /\ UNCHANGED raced
    BY <1>5 DEF InsertTickLock, TakeOff, At, Taken, Writes
  <2>3. QED BY <1>1, <2>1, <2>2 DEF AcquireEffect
<1>6. CASE InsertTickLock(t) /\ tickLock # Free
  <2>1. Over(t)
    BY <1>6, EndIsOver DEF InsertTickLock, Rejects
  <2>2. QED BY <1>1, <1>6, <2>1 DEF InsertTickLock, ghosts, AcquireEffect
<1>7. CASE StealTickLock(t)
  <2>1. Moved(t, "claim", "no")
    BY <1>2, <1>7, GoMoves DEF StealTickLock, TakeOff
  <2>2. QED BY <1>1, <1>7, <2>1 DEF StealTickLock, TakeOff, At, Taken, Writes, AcquireEffect
<1>8. CASE AcquireThrows(t)
  <2>1. Over(t)
    BY <1>8, EndIsOver DEF AcquireThrows, Rejects
  <2>2. UNCHANGED raced /\ (UNCHANGED tickLock \/ Writes(t))
    BY <1>8 DEF AcquireThrows, Taken, Writes
  <2>3. QED BY <1>1, <2>1, <2>2 DEF AcquireEffect
<1>9. QED BY <1>1, <1>3, <1>4, <1>5, <1>6, <1>7, <1>8 DEF AcquireTickLock

LEMMA ReleaseForm ==
    ASSUME Shaped, NEW t \in Ticks, Release(t)
    PROVE  /\ ReleaseEffect(t) /\ Underway(t) /\ tick[t].at = "release"
           /\ UNCHANGED <<overran, raced, commands, journal>>
<1>1. Underway(t) /\ tick[t].at = "release" /\ UNCHANGED <<overran, raced, commands, journal>>
  BY DEF Release, Ends, At, storeVars, ghosts
<1>2. CASE tick' = [tick EXCEPT ![t].busy = "work"] /\ UNCHANGED tickLock
  BY <1>1, <1>2 DEF Shaped, TicksShaped, Moved, ReleaseEffect
<1>3. ASSUME NEW last \in {Ended, Stuck}, tick' = [tick EXCEPT ![t] = last],
             UNCHANGED tickLock \/ tickLock' = Free
      PROVE  ReleaseEffect(t)
  BY <1>3, EndIsOver DEF ReleaseEffect
<1>4. QED BY <1>1, <1>2, <1>3 DEF Release, Ends

LEMMA InitAutopilotInv == Init => AutopilotInv
<1> SUFFICES ASSUME Init PROVE AutopilotInv
  OBVIOUS
<1>1. \A t \in Ticks : ~Underway(t)
  BY DEF Init, Underway
<1>2. DOMAIN tick = Ticks /\ tickLock = Free /\ JournalShaped /\ "command" \in Labels
  BY DEF Init, JournalShaped, Labels
<1>3. \A s \in Sessions : journal[s]["command"] = NoRow /\ commands[s] = 0
  BY <1>2 DEF Init
<1>4. commands \in [Sessions -> Nat]
  BY DEF Init
<1>5. CommandInv
  BY <1>1, <1>3, <1>4 DEF CommandInv, Commanding
<1>6. QED BY <1>1, <1>2, <1>5 DEF AutopilotInv, Shaped, TicksShaped, LockShaped, WorkersHoldLock, Working,
       ThievesAlone, At

\* A tick that works keeps working under the lock it has, or stops.
LEMMA WorkKeepsLock ==
    ASSUME AutopilotInv, NEW t \in Ticks, UNCHANGED <<tickLock, overran, raced>>, tick[t].at \notin Acquiring,
           Underway(t), \A u \in Ticks : u # t => tick'[u] = tick[u],
           tick'[t].at \notin Acquiring \/ ~Underway(t)'
    PROVE  WorkersHoldLock' /\ LockShaped' /\ ThievesAlone'
BY DEF AutopilotInv, WorkersHoldLock, LockShaped, ThievesAlone, At, Working, Underway

LEMMA MovedKeepsShape ==
    ASSUME Shaped, NEW t \in Ticks, NEW place, NEW busy, Moved(t, place, busy),
           busy # "no" => place \in BusyPlaces \cup {"release"}
    PROVE  TicksShaped'
BY DEF Shaped, TicksShaped, Moved, Underway

\* Whoever takes the lock finds nobody working, and nobody else about to steal it.
LEMMA AcquireKeepsLock ==
    ASSUME AutopilotInv, NEW t \in Ticks, Underway(t), AcquireTickLock(t)
    PROVE  LockShaped' /\ WorkersHoldLock' /\ ThievesAlone'
<1>1. AcquireEffect(t) /\ tick[t].at \in Acquiring /\ UNCHANGED overran
  BY AcquireForm DEF AutopilotInv
<1>2. Taken(t) # Free /\ Taken(t).owner = t /\ ~Taken(t).expired /\ {"owner", "expired"} \subseteq DOMAIN Taken(t)
  <2>1. Taken(t) \in [owner : Ticks, expired : BOOLEAN]
    BY DEF Taken
  <2>2. QED BY <2>1, NullAssumption DEF Taken
<1>3. LockShaped'
  BY <1>1, <1>2 DEF AutopilotInv, LockShaped, AcquireEffect, Reads, Writes
<1>4. SUFFICES ASSUME ~overran', ~raced' PROVE WorkersHoldLock' /\ ThievesAlone'
  BY <1>3 DEF WorkersHoldLock, ThievesAlone
<1>5. ~overran /\ ~raced
  BY <1>1, <1>4 DEF AcquireEffect, Reads
<1>6. /\ \A u \in Ticks : Working(u) => tickLock # Free /\ tickLock.owner = u /\ ~tickLock.expired
      /\ \A u \in Ticks : At(u, "steal") =>
            tickLock # Free /\ tickLock.expired /\ \A v \in Ticks : At(v, "steal") => v = u
  BY <1>5 DEF AutopilotInv, WorkersHoldLock, ThievesAlone
<1>7. \A u \in Ticks \ {t} : tick'[u] = tick[u]
  BY <1>1 DEF AcquireEffect, Reads, Moved, Over
<1>8. \A u \in Ticks \ {t} : (Working(u)' <=> Working(u)) /\ (At(u, "steal")' <=> At(u, "steal"))
  BY <1>7 DEF Working, At, Underway
<1>9. CASE Reads(t)
  <2>1. ~Working(t)' /\ (At(t, "steal")' => tickLock # Free)
    BY <1>9 DEF Reads, Moved, Working, At
  <2>2. UNCHANGED tickLock /\ (tickLock # Free => tickLock.expired /\ \A u \in Ticks : ~At(u, "steal"))
    BY <1>4, <1>9 DEF Reads
  <2>3. QED BY <1>6, <1>8, <2>1, <2>2 DEF WorkersHoldLock, ThievesAlone
<1>10. ASSUME Writes(t) PROVE \A u \in Ticks \ {t} : ~Working(u) /\ ~At(u, "steal")
  BY <1>6, <1>10 DEF Writes, At
<1>11. CASE Over(t) /\ (UNCHANGED tickLock \/ Writes(t))
  <2>1. ~Working(t)' /\ ~At(t, "steal")'
    BY <1>11 DEF Over, Working, At
  <2>2. QED BY <1>6, <1>8, <1>10, <1>11, <2>1 DEF WorkersHoldLock, ThievesAlone
<1>12. CASE Moved(t, "claim", "no") /\ Writes(t)
  <2>1. ~At(t, "steal")'
    BY <1>12 DEF Moved, At
  <2>2. QED BY <1>2, <1>8, <1>10, <1>12, <2>1 DEF Writes, WorkersHoldLock, ThievesAlone
<1>13. tick[t].at = "steal" => tickLock # Free
  BY <1>6 DEF At
<1>14. QED BY <1>1, <1>9, <1>11, <1>12, <1>13 DEF AcquireEffect

\* Whoever releases the lock is the only one that works.
LEMMA ReleaseKeepsLock ==
    ASSUME AutopilotInv, NEW t \in Ticks, Release(t)
    PROVE  LockShaped' /\ WorkersHoldLock' /\ ThievesAlone'
<1>1. ReleaseEffect(t) /\ Underway(t) /\ tick[t].at = "release" /\ UNCHANGED <<overran, raced>>
  BY ReleaseForm DEF AutopilotInv
<1>2. Working(t)
  BY <1>1 DEF Working
<1>3. CASE UNCHANGED tickLock
  BY <1>1, <1>3, WorkKeepsLock DEF ReleaseEffect, Moved, Over
<1>4. CASE Over(t) /\ tickLock' = Free
  <2>1. \A u \in Ticks \ {t} : (Working(u)' => Working(u)) /\ (At(u, "steal")' => At(u, "steal"))
    BY <1>4 DEF Over, Working, At, Underway
  <2>2. ~Working(t)' /\ ~At(t, "steal")'
    BY <1>4 DEF Over, Working, At
  <2>3. overran \/ raced \/ \A u \in Ticks \ {t} : ~Working(u) /\ ~At(u, "steal")
    BY <1>2 DEF AutopilotInv, WorkersHoldLock, ThievesAlone
  <2>4. QED BY <1>1, <1>4, <2>1, <2>2, <2>3 DEF LockShaped, WorkersHoldLock, ThievesAlone
<1>5. QED BY <1>1, <1>3, <1>4 DEF ReleaseEffect

LEMMA TickKeepsInv ==
    ASSUME AutopilotInv, NEW t \in Ticks, RunAutopilotTick(t)
    PROVE  AutopilotInv'
<1>1. Shaped /\ CommandInv /\ Underway(t)
  BY DEF AutopilotInv, RunAutopilotTick
<1>2. CASE PlainMove(t)
  <2>1. CommandInv' /\ JournalShaped'
    BY <1>1, <1>2, PlainKeepsCommandInv DEF PlainMove
  <2>2. TicksShaped'
    BY <1>1, <1>2 DEF Shaped, TicksShaped, PlainMove, Underway
  <2>3. WorkersHoldLock' /\ LockShaped' /\ ThievesAlone'
    BY <1>1, <1>2, WorkKeepsLock DEF PlainMove
  <2>4. QED BY <2>1, <2>2, <2>3 DEF AutopilotInv, Shaped
<1>3. CASE RunCommand(t)
  <2>1. /\ CommandInv' /\ JournalShaped' /\ tick[t].at = "command" /\ UNCHANGED <<tickLock, overran, raced>>
        /\ \E place, busy : Moved(t, place, busy) /\ place \notin Acquiring /\ (busy # "no" => place = "command")
    BY <1>1, <1>3, RunCommandEffect
  <2>2. PICK place, busy : Moved(t, place, busy) /\ place \notin Acquiring /\ (busy # "no" => place = "command")
    BY <2>1
  <2>3. TicksShaped'
    BY <1>1, <2>2, MovedKeepsShape DEF BusyPlaces
  <2>4. WorkersHoldLock' /\ LockShaped' /\ ThievesAlone'
    BY <1>1, <2>1, <2>2, WorkKeepsLock DEF Moved
  <2>5. QED BY <2>1, <2>3, <2>4 DEF AutopilotInv, Shaped
<1>4. CASE AcquireTickLock(t) \/ Release(t)
  <2>1. /\ UNCHANGED <<commands, journal>>
        /\ \/ Over(t)
           \/ \E place, busy : Moved(t, place, busy) /\ place # "command" /\ (busy # "no" => place = "release")
    BY <1>1, <1>4, AcquireForm, ReleaseForm DEF AcquireEffect, Reads, ReleaseEffect
  <2>2. TicksShaped'
    <3>1. CASE Over(t)
      BY <1>1, <3>1 DEF Shaped, TicksShaped, Over, Underway
    <3>2. QED BY <1>1, <2>1, <3>1, MovedKeepsShape
  <2>3. \A u \in Ticks, s \in Sessions : Commanding(u, s)' => tick'[u] = tick[u]
    BY <2>1 DEF Moved, Over, Commanding
  <2>4. CommandInv' /\ JournalShaped'
    BY <1>1, <2>1, <2>3, NothingPut, QuietKeepsCommandInv
  <2>5. LockShaped' /\ WorkersHoldLock' /\ ThievesAlone'
    BY <1>1, <1>4, AcquireKeepsLock, ReleaseKeepsLock
  <2>6. QED BY <2>2, <2>4, <2>5 DEF AutopilotInv, Shaped
<1>5. QED BY <1>1, <1>2, <1>3, <1>4, TickIsPlain

\* A process starts a tick, or only its settings change.
LEMMA NewTickKeepsInv ==
    ASSUME AutopilotInv, UNCHANGED <<tickLock, overran, raced, commands, journal>>,
           UNCHANGED tick \/ \E p, timer, strict : NewTick(p, timer, strict)
    PROVE  AutopilotInv'
<1>1. CASE UNCHANGED tick
  BY <1>1 DEF AutopilotInv, Shaped, TicksShaped, JournalShaped, CommandInv, Commanding, LockShaped,
     WorkersHoldLock, ThievesAlone, At, Working, Underway
<1>2. ASSUME NEW p, NEW timer, NEW strict, NewTick(p, timer, strict) PROVE AutopilotInv'
  <2> DEFINE fresh == {u \in Ticks : tick[u] = NoTick}
             t == CHOOSE u \in fresh : TRUE
             new == [proc |-> p, timer |-> timer, strict |-> strict, bucket |-> bucket,
                     session |-> <<"heartbeat", bucket>>, at |-> "lock", busy |-> "no",
                     quorum |-> FALSE, failure |-> Sound, braked |-> FALSE]
  <2>1. t \in Ticks /\ tick' = [tick EXCEPT ![t] = new]
    BY <1>2 DEF NewTick
  <2>2. {"at", "busy", "session"} \subseteq DOMAIN new /\ new.at = "lock" /\ new.busy = "no"
    OBVIOUS
  <2> HIDE DEF t, new
  <2>3. Moved(t, "lock", "no")
    BY <2>1, <2>2 DEF AutopilotInv, Shaped, TicksShaped, Moved
  <2>4. TicksShaped'
    BY <2>1, <2>3, MovedKeepsShape DEF AutopilotInv
  <2>5. \A u \in Ticks, s \in Sessions : Commanding(u, s)' => tick'[u] = tick[u]
    BY <2>1, <2>3 DEF Moved, Commanding
  <2>6. CommandInv' /\ JournalShaped'
    BY <2>5, NothingPut, QuietKeepsCommandInv DEF AutopilotInv
  <2>7. \A u \in Ticks : (Working(u)' => Working(u)) /\ (At(u, "steal")' => At(u, "steal"))
    BY <2>1, <2>3 DEF Moved, Working, At, Underway
  <2>8. QED BY <2>4, <2>6, <2>7 DEF AutopilotInv, Shaped, LockShaped, WorkersHoldLock, ThievesAlone
<1>3. QED BY <1>1, <1>2

LEMMA CrashKeepsInv ==
    ASSUME AutopilotInv, NEW p \in Procs, Crash(p)
    PROVE  AutopilotInv'
<1>1. UNCHANGED <<tickLock, overran, raced, commands, journal>>
  BY DEF Crash, storeVars, ghosts
<1>2. /\ DOMAIN tick' = Ticks
      /\ \A u \in Ticks : tick'[u] = Died \/ tick'[u] = tick[u]
  BY DEF Crash
<1>3. \A u \in Ticks : Underway(u)' => tick'[u] = tick[u] /\ Underway(u)
  BY <1>2 DEF Underway
<1>4. TicksShaped'
  BY <1>2, <1>3 DEF AutopilotInv, Shaped, TicksShaped
<1>5. CommandInv' /\ JournalShaped'
  BY <1>1, <1>3, NothingPut, QuietKeepsCommandInv DEF AutopilotInv, Commanding
<1>6. WorkersHoldLock' /\ LockShaped' /\ ThievesAlone'
  BY <1>1, <1>3 DEF AutopilotInv, WorkersHoldLock, LockShaped, ThievesAlone, At, Working
<1>7. QED BY <1>4, <1>5, <1>6 DEF AutopilotInv, Shaped

LEMMA LeaseKeepsInv ==
    ASSUME AutopilotInv, LeaseRunsOut
    PROVE  AutopilotInv'
<1>1. /\ UNCHANGED <<raced, commands, journal, tick>> /\ tickLock # Free /\ ~tickLock.expired
      /\ tickLock' = [tickLock EXCEPT !.expired = TRUE]
      /\ overran' = (overran \/ Working(tickLock.owner))
  BY DEF LeaseRunsOut, storeVars
<1>2. CommandInv' /\ Shaped'
  BY <1>1 DEF AutopilotInv, Shaped, TicksShaped, JournalShaped, CommandInv, Commanding, Underway
<1>3. LockShaped'
  BY <1>1 DEF AutopilotInv, LockShaped
<1>4. WorkersHoldLock'
  <2>1. CASE overran \/ Working(tickLock.owner)
    <3>1. overran'
      BY <1>1, <2>1, Zenon
    <3>2. QED BY <3>1 DEF WorkersHoldLock
  <2>2. CASE raced
    BY <1>1, <2>2 DEF WorkersHoldLock
  <2>3. CASE ~(overran \/ raced \/ Working(tickLock.owner))
    <3>1. \A u \in Ticks : ~Working(u)
      BY <2>3 DEF AutopilotInv, WorkersHoldLock
    <3>2. \A u \in Ticks : ~Working(u)'
      BY <1>1, <3>1 DEF Working, Underway
    <3>3. QED BY <3>2 DEF WorkersHoldLock
  <2>4. QED BY <2>1, <2>2, <2>3
<1>5. ThievesAlone'
  BY <1>1 DEF AutopilotInv, ThievesAlone, LockShaped, At, Underway
<1>6. QED BY <1>2, <1>3, <1>4, <1>5 DEF AutopilotInv

LEMMA StepAutopilotInv == AutopilotInv /\ [Next]_vars => AutopilotInv'
<1> SUFFICES ASSUME AutopilotInv, [Next]_vars PROVE AutopilotInv'
  OBVIOUS
<1>1. ASSUME NEW t \in Ticks, RunAutopilotTick(t) PROVE AutopilotInv'
  BY <1>1, TickKeepsInv
<1>2. ASSUME NEW t \in Ticks, StatementFails(t) PROVE AutopilotInv'
  <2>1. /\ CommandInv' /\ JournalShaped' /\ Moved(t, "panic", "no") /\ tick[t].at \notin Acquiring
        /\ UNCHANGED <<tickLock, overran, raced>> /\ Underway(t)
    BY <1>2, StatementFailsEffect DEF AutopilotInv, StatementFails
  <2>2. TicksShaped'
    BY <2>1, MovedKeepsShape DEF AutopilotInv
  <2>3. WorkersHoldLock' /\ LockShaped' /\ ThievesAlone'
    BY <2>1, WorkKeepsLock DEF Moved
  <2>4. QED BY <2>1, <2>2, <2>3 DEF AutopilotInv, Shaped
<1>3. ASSUME NEW p \in Procs, TrichatAutopilotControl(p) \/ TimerFires(p) PROVE AutopilotInv'
  <2>1. UNCHANGED <<tickLock, overran, raced, commands, journal>>
    BY <1>3 DEF TrichatAutopilotControl, Start, Stop, RunOnce, TimerFires, storeVars, ghosts
  <2>2. UNCHANGED tick \/ \E timer, strict : NewTick(p, timer, strict)
    BY <1>3 DEF TrichatAutopilotControl, Start, Stop, RunOnce, TimerFires
  <2>3. QED BY <2>1, <2>2, NewTickKeepsInv
<1>4. CASE NextBucket \/ RetryTask \/ UNCHANGED vars
  <2>1. UNCHANGED <<tickLock, overran, raced, commands, journal, tick>>
    BY <1>4 DEF NextBucket, RetryTask, storeVars, ghosts, vars
  <2>2. QED BY <2>1, NewTickKeepsInv
<1>5. QED BY <1>1, <1>2, <1>3, <1>4, CrashKeepsInv, LeaseKeepsInv DEF Next

LEMMA AutopilotInvHolds == Spec => []AutopilotInv
BY InitAutopilotInv, StepAutopilotInv, PTL DEF Spec

\* The commands of a session run at most once: with any number of processes and ticks,
\* after crashes and failed statements, and when ticks overlap because a lease ran out.
THEOREM CommandsOnceForAll == Spec => []CommandsRunOnce
<1>1. AutopilotInv => CommandsRunOnce
  BY DEF AutopilotInv, CommandInv, CommandsRunOnce
<1>2. QED BY <1>1, AutopilotInvHolds, PTL

\* Two ticks work at once only when one outlived its lease, or when two found the lock of a
\* third expired, which died or could not release it: the INSERT of a lock that is free, by
\* its primary key, and the test of the expiry let through no other.
THEOREM TicksFlyAlone == Spec => []SingleFlight
<1>1. AutopilotInv => SingleFlight
  BY DEF AutopilotInv, WorkersHoldLock, SingleFlight
<1>2. QED BY <1>1, AutopilotInvHolds, PTL

-----------------------------------------------------------------------------
(* Types and counts *)

\* A step that is begun has its row, and is one of those that are begun apart.  A tick
\* that has claimed nothing yet goes by the bucket it was started in.
KeysOK ==
    \A t \in Ticks : Underway(t) =>
        /\ tick[t].busy # "no" =>
              tick[t].at = "release" \/ (RowOf(t, tick[t].at) # NoRow /\ tick[t].at \in BusyPlaces)
        /\ tick[t].at \in Acquiring \cup {"claim"} => tick[t].session = <<"heartbeat", tick[t].bucket>>

\* A task that waits has an attempt left, and one that runs is in an attempt.
AttemptsLeft ==
    /\ task.status = "pending" => task.attempts < MaxAttempts
    /\ task.status = "running" => task.attempts > 0

TickOK == tick \in [Ticks -> Tick \cup {NoTick, Ended, Stuck, Died}]

JournalOK == journal \in [Sessions -> [Labels -> Row \cup {NoRow}]]

TaskOK ==
    /\ claimed \in [0 .. MaxBucket -> 0 .. MaxAttempts]
    /\ task \in [status : {"pending", "running", "completed", "failed"}, attempts : 0 .. MaxAttempts]
    /\ outcome \in [1 .. MaxAttempts -> {"none", "completed", "failed"}]
    /\ AttemptsLeft

RuntimeOK == runtime \in [Procs -> [running : BOOLEAN, in_tick : BOOLEAN, errors : Nat]] /\ enabled \in BOOLEAN

ClockOK ==
    /\ bucket \in 0 .. budget.buckets
    /\ tickLock = Free \/ tickLock \in [owner : Ticks, expired : BOOLEAN]
    /\ budget \in Budgets /\ overran \in BOOLEAN /\ raced \in BOOLEAN /\ belated \in BOOLEAN
    /\ calls \in 0 .. budget.calls /\ mishaps \in 0 .. budget.mishaps

\* TypeOK, but for the bounds on errors and commands.
TypeInv == TickOK /\ JournalOK /\ KeysOK /\ TaskOK /\ RuntimeOK /\ ClockOK

\* Tick t is now at a place, with so much of its key done, a failure, and a session.
Becomes(t, place, busy, failure, session) ==
    /\ tick' \in [Ticks -> Tick \cup {NoTick, Ended, Stuck, Died}] /\ tick'[t] \in Tick
    /\ \A u \in Ticks : u # t => tick'[u] = tick[u]
    /\ tick'[t].at = place /\ tick'[t].busy = busy
    /\ tick'[t].failure = failure /\ tick'[t].session = session
    /\ tick'[t].bucket = tick[t].bucket /\ tick'[t].proc = tick[t].proc

\* The journal differs from before at most in rows of session s with labels in L, and no
\* row is gone.
JournalGrows(s, L) ==
    /\ JournalOK'
    /\ \A r \in Sessions, l \in Labels : r # s \/ l \notin L => journal'[r][l] = journal[r][l]
    /\ \A r \in Sessions, l \in Labels : journal[r][l] # NoRow => journal'[r][l] # NoRow

\* The sessions, apart from each other.
LEMMA SessionForms ==
    /\ \A b \in 0 .. MaxBucket : <<"heartbeat", b>> \in Sessions
    /\ \A a \in 1 .. MaxAttempts : <<"attempt", a>> \in Sessions
    /\ \A s \in Sessions : s[1] # "attempt" => s[1] = "heartbeat"
    /\ \A s \in Sessions : s[1] = "attempt" => s[2] \in 1 .. MaxAttempts /\ s = <<"attempt", s[2]>>
BY DEF Sessions

\* What ticks may fail for, and what rows may say.
LEMMA ReasonForms ==
    /\ Sound \in Reasons /\ Reasons \subseteq Prints
    /\ \A l \in Labels : {<<"mismatch", l>>, <<"begun", l>>, <<"failed", l>>, <<"threw", l>>} \subseteq Reasons
    /\ {<<"confidence", "">>, <<"policy", "">>, <<"lock", "">>, <<"command", "">>} \subseteq Reasons
    /\ {<<"succeeded", "">>, <<"unsuccessful", "">>} \subseteq Prints
<1>1. Sound \in Reasons
  BY DEF Sound, Reasons
<1>2. Reasons \subseteq Prints
  BY DEF Prints
<1>3. ASSUME NEW l \in Labels, NEW word \in {"mismatch", "begun", "failed", "threw"}
      PROVE  <<word, l>> \in Reasons
  BY <1>3 DEF Reasons
<1>4. ASSUME NEW word \in {"confidence", "policy", "lock", "command"} PROVE <<word, "">> \in Reasons
  BY <1>4 DEF Reasons
<1>5. {<<"succeeded", "">>, <<"unsuccessful", "">>} \subseteq Prints
  BY DEF Prints
<1>6. \A l \in Labels : {<<"mismatch", l>>, <<"begun", l>>, <<"failed", l>>, <<"threw", l>>} \subseteq Reasons
  BY <1>3
<1>7. {<<"confidence", "">>, <<"policy", "">>, <<"lock", "">>, <<"command", "">>} \subseteq Reasons
  BY <1>4
<1>8. QED BY <1>1, <1>2, <1>5, <1>6, <1>7

\* A refused key is a reason to fail.
LEMMA RefusalIsReason ==
    ASSUME NEW t, NEW l \in Labels, NEW print
    PROVE  Refusal(t, l, print) \in Reasons
BY ReasonForms DEF Refusal

\* The fields of a tick that is under way.
LEMMA TickFields ==
    ASSUME TypeInv, NEW t \in Ticks, Underway(t)
    PROVE  /\ tick[t] \in Tick /\ tick[t].proc \in Procs /\ tick[t].bucket \in 0 .. MaxBucket
           /\ tick[t].session \in Sessions /\ tick[t].at \in Places
           /\ tick[t].busy \in {"no", "work", "record"} /\ tick[t].failure \in Reasons
           /\ tick[t].timer \in BOOLEAN /\ tick[t].strict \in BOOLEAN /\ tick[t].braked \in BOOLEAN
BY DEF TypeInv, TickOK, Underway, Tick

\* A tick is under way exactly when it is a record.
LEMMA UnderwayIsTick ==
    ASSUME TickOK, NEW t \in Ticks
    PROVE  Underway(t) <=> tick[t] \in Tick
BY NullAssumption DEF TickOK, Underway

\* The same after a step.
LEMMA UnderwayNext ==
    ASSUME TickOK', NEW t \in Ticks
    PROVE  Underway(t)' <=> tick'[t] \in Tick
BY NullAssumption DEF TickOK, Underway

\* Whatever part of a tick changes, the rest stays.
LEMMA RecordBecomes ==
    ASSUME TypeInv, NEW t \in Ticks, Underway(t), NEW r \in Tick, tick' = [tick EXCEPT ![t] = r],
           r.bucket = tick[t].bucket, r.proc = tick[t].proc
    PROVE  Becomes(t, r.at, r.busy, r.failure, r.session)
BY DEF TypeInv, TickOK, Becomes

\* Each way to change a tick.
LEMMA GoBecomes ==
    ASSUME TypeInv, NEW t \in Ticks, Underway(t), NEW place \in Places, Go(t, place)
    PROVE  Becomes(t, place, tick[t].busy, tick[t].failure, tick[t].session)
<1> DEFINE r == [tick[t] EXCEPT !.at = place]
<1>1. tick[t] \in Tick
  BY TickFields
<1>2. r \in Tick /\ r.bucket = tick[t].bucket /\ r.proc = tick[t].proc
      /\ r.at = place /\ r.busy = tick[t].busy /\ r.failure = tick[t].failure /\ r.session = tick[t].session
  BY <1>1 DEF Tick
<1>3. tick' = [tick EXCEPT ![t] = r]
  BY DEF Go
<1> HIDE DEF r
<1>4. Becomes(t, r.at, r.busy, r.failure, r.session)
  BY <1>2, <1>3, RecordBecomes
<1>5. QED BY <1>2, <1>4

LEMMA AdvanceBecomes ==
    ASSUME TypeInv, NEW t \in Ticks, Underway(t), NEW place \in Places, Advance(t, place)
    PROVE  Becomes(t, place, "no", tick[t].failure, tick[t].session)
<1> DEFINE r == [tick[t] EXCEPT !.at = place, !.busy = "no"]
<1>1. tick[t] \in Tick
  BY TickFields
<1>2. r \in Tick /\ r.bucket = tick[t].bucket /\ r.proc = tick[t].proc
      /\ r.at = place /\ r.busy = "no" /\ r.failure = tick[t].failure /\ r.session = tick[t].session
  BY <1>1 DEF Tick
<1>3. tick' = [tick EXCEPT ![t] = r]
  BY DEF Advance
<1> HIDE DEF r
<1>4. Becomes(t, r.at, r.busy, r.failure, r.session)
  BY <1>2, <1>3, RecordBecomes
<1>5. QED BY <1>2, <1>4

LEMMA BusyBecomes ==
    ASSUME TypeInv, NEW t \in Ticks, Underway(t), NEW busy \in {"no", "work", "record"},
           tick' = [tick EXCEPT ![t].busy = busy]
    PROVE  Becomes(t, tick[t].at, busy, tick[t].failure, tick[t].session)
<1> DEFINE r == [tick[t] EXCEPT !.busy = busy]
<1>1. tick[t] \in Tick
  BY TickFields
<1>2. r \in Tick /\ r.bucket = tick[t].bucket /\ r.proc = tick[t].proc
      /\ r.at = tick[t].at /\ r.busy = busy /\ r.failure = tick[t].failure /\ r.session = tick[t].session
  BY <1>1 DEF Tick
<1>3. tick' = [tick EXCEPT ![t] = r]
  OBVIOUS
<1> HIDE DEF r
<1>4. Becomes(t, r.at, r.busy, r.failure, r.session)
  BY <1>2, <1>3, RecordBecomes
<1>5. QED BY <1>2, <1>4

LEMMA ReasonBecomes ==
    ASSUME TypeInv, NEW t \in Ticks, Underway(t), NEW place \in Places, NEW reason \in Reasons,
           tick' = [tick EXCEPT ![t].at = place, ![t].busy = "no", ![t].failure = reason]
    PROVE  Becomes(t, place, "no", reason, tick[t].session)
<1> DEFINE r == [tick[t] EXCEPT !.at = place, !.busy = "no", !.failure = reason]
<1>1. tick[t] \in Tick
  BY TickFields
<1>2. r \in Tick /\ r.bucket = tick[t].bucket /\ r.proc = tick[t].proc
      /\ r.at = place /\ r.busy = "no" /\ r.failure = reason /\ r.session = tick[t].session
  BY <1>1 DEF Tick
<1>3. tick' = [tick EXCEPT ![t] = r]
  OBVIOUS
<1> HIDE DEF r
<1>4. Becomes(t, r.at, r.busy, r.failure, r.session)
  BY <1>2, <1>3, RecordBecomes
<1>5. QED BY <1>2, <1>4

LEMMA HeardBecomes ==
    ASSUME TypeInv, NEW t \in Ticks, Underway(t), NEW quorum \in BOOLEAN, Heard(t, quorum)
    PROVE  Becomes(t, "decide", "no", tick[t].failure, tick[t].session)
<1> DEFINE r == [tick[t] EXCEPT !.at = "decide", !.busy = "no", !.quorum = quorum]
<1>1. tick[t] \in Tick
  BY TickFields
<1>2. r \in Tick /\ r.bucket = tick[t].bucket /\ r.proc = tick[t].proc
      /\ r.at = "decide" /\ r.busy = "no" /\ r.failure = tick[t].failure /\ r.session = tick[t].session
  BY <1>1 DEF Tick, Places, Labels
<1>3. tick' = [tick EXCEPT ![t] = r]
  BY DEF Heard
<1> HIDE DEF r
<1>4. Becomes(t, r.at, r.busy, r.failure, r.session)
  BY <1>2, <1>3, RecordBecomes
<1>5. QED BY <1>2, <1>4

LEMMA ClaimedBecomes ==
    ASSUME TypeInv, NEW t \in Ticks, Underway(t), NEW a \in 0 .. MaxAttempts, Claimed(t, a)
    PROVE  Becomes(t, "begin", "no", tick[t].failure, IF a = 0 THEN tick[t].session ELSE <<"attempt", a>>)
<1> DEFINE session == IF a = 0 THEN tick[t].session ELSE <<"attempt", a>>
           r == [tick[t] EXCEPT !.at = "begin", !.busy = "no", !.session = session]
<1>1. tick[t] \in Tick /\ session \in Sessions
  BY TickFields, SessionForms
<1>2. r \in Tick /\ r.bucket = tick[t].bucket /\ r.proc = tick[t].proc
      /\ r.at = "begin" /\ r.busy = "no" /\ r.failure = tick[t].failure /\ r.session = session
  BY <1>1 DEF Tick, Places, Labels
<1>3. tick' = [tick EXCEPT ![t] = r]
  BY DEF Claimed
<1> HIDE DEF r
<1>4. Becomes(t, r.at, r.busy, r.failure, r.session)
  BY <1>2, <1>3, RecordBecomes
<1>5. QED BY <1>2, <1>4

\* A failure is only ever the first one.
LEMMA FailsBecomes ==
    ASSUME TypeInv, NEW t \in Ticks, Underway(t), NEW reason \in Reasons, Fails(t, reason)
    PROVE  \E failure \in Reasons : Becomes(t, "verify", "no", failure, tick[t].session)
<1> DEFINE failure == IF tick[t].failure = Sound THEN reason ELSE tick[t].failure
<1>1. tick' = [tick EXCEPT ![t].at = "verify", ![t].busy = "no", ![t].failure = failure]
  BY DEF Fails
<1>2. failure \in Reasons /\ "verify" \in Places
  BY TickFields DEF Places, Labels
<1> HIDE DEF failure
<1>3. QED BY <1>1, <1>2, ReasonBecomes

LEMMA ThrowBecomes ==
    ASSUME TypeInv, NEW t \in Ticks, Underway(t), NEW reason \in Reasons, Throw(t, reason)
    PROVE  Becomes(t, "panic", "no", reason, tick[t].session)
<1>1. "panic" \in Places
  BY DEF Places
<1>2. QED BY <1>1, ReasonBecomes DEF Throw

\* A row is put, and all others stay.
LEMMA PutGrows ==
    ASSUME TypeInv, NEW t \in Ticks, Underway(t), NEW l \in Labels, NEW r \in Row, PutRow(t, l, r)
    PROVE  JournalGrows(tick[t].session, {l}) /\ journal'[tick[t].session][l] = r
<1> DEFINE s == tick[t].session
<1>1. s \in Sessions /\ JournalOK
  BY TickFields DEF TypeInv
<1>2. journal' = [journal EXCEPT ![s] = [journal[s] EXCEPT ![l] = r]]
  BY DEF PutRow
<1> HIDE DEF s
<1>3. JournalOK'
  BY <1>1, <1>2 DEF JournalOK
<1>4. journal'[s][l] = r
  BY <1>1, <1>2 DEF JournalOK
<1>5. \A q \in Sessions, m \in Labels : q # s \/ m # l => journal'[q][m] = journal[q][m]
  BY <1>1, <1>2 DEF JournalOK
<1>6. r # NoRow
  BY NullAssumption
<1>7. QED BY <1>3, <1>4, <1>5, <1>6 DEF s, JournalGrows

LEMMA StayGrows ==
    ASSUME TypeInv, UNCHANGED journal, NEW s, NEW L
    PROVE  JournalGrows(s, L)
BY DEF TypeInv, JournalOK, JournalGrows

\* The row of a key that is begun is a row.
LEMMA RowIsRow ==
    ASSUME TypeInv, NEW t \in Ticks, Underway(t), NEW l \in Labels, RowOf(t, l) # NoRow
    PROVE  RowOf(t, l) \in Row
BY TickFields DEF TypeInv, JournalOK, RowOf

\* Completing a key, and failing it.
LEMMA PutDoneGrows ==
    ASSUME TypeInv, NEW t \in Ticks, Underway(t), NEW l \in Labels, NEW out \in Outs,
           RowOf(t, l) # NoRow, PutDone(t, l, out)
    PROVE  /\ JournalGrows(tick[t].session, {l})
           /\ journal'[tick[t].session][l].status = "done" /\ journal'[tick[t].session][l].print = RowOf(t, l).print
<1> DEFINE r == [RowOf(t, l) EXCEPT !.status = "done", !.out = out]
<1>1. RowOf(t, l) \in Row
  BY RowIsRow
<1>2. r \in Row /\ r.status = "done" /\ r.print = RowOf(t, l).print
  BY <1>1 DEF Row
<1>3. PutRow(t, l, r)
  BY DEF PutDone
<1> HIDE DEF r
<1>4. QED BY <1>2, <1>3, PutGrows

\* A tick that moves with a growing journal keeps to its keys.
LEMMA MoveKeepsKeys ==
    ASSUME TypeInv, NEW t \in Ticks, Underway(t), NEW place, NEW busy, NEW failure, NEW session,
           Becomes(t, place, busy, failure, session), NEW s, NEW L, JournalGrows(s, L),
           busy # "no" => place = "release" \/ (journal'[session][place] # NoRow /\ place \in BusyPlaces),
           place \in Acquiring \cup {"claim"} => session = <<"heartbeat", tick[t].bucket>>
    PROVE  TickOK' /\ JournalOK' /\ KeysOK'
<1>1. TickOK' /\ JournalOK'
  BY DEF Becomes, TickOK, JournalGrows
<1>2. ASSUME NEW u \in Ticks, Underway(u)'
      PROVE  /\ tick'[u].busy # "no" =>
                   tick'[u].at = "release" \/ (RowOf(u, tick[u].at)' # NoRow /\ tick'[u].at \in BusyPlaces)
             /\ tick'[u].at \in Acquiring \cup {"claim"} => tick'[u].session = <<"heartbeat", tick'[u].bucket>>
  <2>1. CASE u = t
    BY <2>1 DEF Becomes, RowOf
  <2>2. CASE u # t
    <3>1. tick'[u] = tick[u] /\ Underway(u)
      BY <1>2, <2>2 DEF Becomes, Underway
    <3>2. /\ tick[u].busy # "no" =>
                tick[u].at = "release" \/ (RowOf(u, tick[u].at) # NoRow /\ tick[u].at \in BusyPlaces)
          /\ tick[u].at \in Acquiring \cup {"claim"} => tick[u].session = <<"heartbeat", tick[u].bucket>>
      BY <3>1 DEF TypeInv, KeysOK
    <3>3. tick[u].session \in Sessions /\ BusyPlaces \subseteq Labels
      BY <3>1, TickFields DEF BusyPlaces, Labels
    <3>4. tick[u].busy # "no" => tick[u].at = "release" \/ RowOf(u, tick[u].at)' # NoRow
      BY <3>1, <3>2, <3>3 DEF RowOf, JournalGrows
    <3>5. QED BY <3>1, <3>2, <3>4
  <2>3. QED BY <2>1, <2>2
<1>3. QED BY <1>1, <1>2 DEF KeysOK

\* The world outside the task and the journal stays, but for one more mishap at most.
Elsewhere ==
    /\ UNCHANGED <<bucket, tickLock, runtime, enabled, budget, overran, raced, belated, calls>>
    /\ mishaps' \in 0 .. budget.mishaps /\ (mishaps' = 0 => mishaps = 0)

LEMMA ElsewhereStays ==
    ASSUME TypeInv, UNCHANGED elsewhere
    PROVE  Elsewhere
BY DEF TypeInv, ClockOK, elsewhere, ghosts, Elsewhere

LEMMA ElsewhereOK ==
    ASSUME TypeInv, Elsewhere
    PROVE  RuntimeOK' /\ ClockOK'
BY DEF TypeInv, RuntimeOK, ClockOK, Elsewhere

\* A key of which nothing but its row is followed.
KeyedEffect(t, l, print, place) ==
    /\ tick[t].at = l /\ tick[t].busy = "no"
    /\ JournalGrows(tick[t].session, {l}) /\ Elsewhere /\ UNCHANGED <<claimed, task, outcome>>
    /\ RowOf(t, l) # NoRow => UNCHANGED journal
    /\ \/ /\ Becomes(t, place, "no", tick[t].failure, tick[t].session)
          /\ journal'[tick[t].session][l] # NoRow
          /\ journal'[tick[t].session][l].status = "done" /\ journal'[tick[t].session][l].print = print
       \/ /\ \E reason \in Reasons : Becomes(t, "panic", "no", reason, tick[t].session)
          /\ \/ RowOf(t, l) # NoRow
             \/ /\ journal'[tick[t].session][l].status = "failed"
                /\ journal'[tick[t].session][l].print = print

LEMMA KeyedForm ==
    ASSUME TypeInv, NEW t \in Ticks, NEW l \in Labels \ BusyPlaces, NEW print \in Prints,
           NEW outs, outs \subseteq Outs, NEW place \in Places, Keyed(t, l, print, outs, place)
    PROVE  KeyedEffect(t, l, print, place) /\ Underway(t)
<1> DEFINE s == tick[t].session
<1>1. Underway(t) /\ tick[t].at = l /\ l \in Labels
  BY DEF Keyed, At
<1>2. tick[t].busy = "no" /\ s \in Sessions /\ mishaps \in 0 .. budget.mishaps /\ budget.mishaps \in Nat
  BY <1>1, TickFields, BoundsAssumption DEF TypeInv, KeysOK, ClockOK, Labels
<1>3. UNCHANGED <<claimed, task, outcome, bucket, tickLock, runtime, enabled>>
  BY DEF Keyed
<1>4. CASE RowOf(t, l) # NoRow /\ UNCHANGED <<journal, ghosts>>
  <2>1. JournalGrows(s, {l}) /\ Elsewhere
    BY <1>2, <1>3, <1>4, StayGrows DEF Elsewhere, ghosts
  <2>2. CASE Replays(t, l, print) /\ Go(t, place)
    <3>1. Becomes(t, place, "no", tick[t].failure, s)
      BY <1>1, <1>2, <2>2, GoBecomes
    <3>2. journal'[s][l] # NoRow /\ journal'[s][l].status = "done" /\ journal'[s][l].print = print
      BY <1>4, <2>2 DEF Replays, RowOf
    <3>3. QED BY <1>1, <1>2, <1>3, <1>4, <2>1, <3>1, <3>2 DEF KeyedEffect
  <2>3. CASE Throw(t, Refusal(t, l, print))
    <3>1. Refusal(t, l, print) \in Reasons
      BY <1>1, RefusalIsReason
    <3>2. Becomes(t, "panic", "no", Refusal(t, l, print), s)
      BY <1>1, <2>3, <3>1, ThrowBecomes
    <3>3. QED BY <1>1, <1>2, <1>3, <1>4, <2>1, <3>1, <3>2 DEF KeyedEffect
  <2>4. QED BY <1>4, <2>2, <2>3 DEF Keyed
<1>5. ASSUME RowOf(t, l) = NoRow, NEW out \in outs, UNCHANGED ghosts, Go(t, place),
             PutRow(t, l, [status |-> "done", print |-> print, out |-> out])
      PROVE  KeyedEffect(t, l, print, place)
  <2> DEFINE r == [status |-> "done", print |-> print, out |-> out]
  <2>1. r \in Row /\ r.status = "done" /\ r.print = print
    BY <1>5 DEF Row
  <2>2. PutRow(t, l, r)
    BY <1>5
  <2> HIDE DEF r
  <2>3. r # NoRow
    BY <2>1, NullAssumption
  <2>4. JournalGrows(s, {l}) /\ journal'[s][l] = r
    BY <1>1, <2>1, <2>2, PutGrows
  <2>5. Becomes(t, place, "no", tick[t].failure, s)
    BY <1>1, <1>2, <1>5, GoBecomes
  <2>6. Elsewhere
    BY <1>2, <1>3, <1>5 DEF Elsewhere, ghosts
  <2>7. QED BY <1>1, <1>2, <1>3, <1>5, <2>1, <2>3, <2>4, <2>5, <2>6 DEF KeyedEffect
<1>6. ASSUME RowOf(t, l) = NoRow, Mishap, NEW out \in {"none"} \cup (outs \cap {"ended"}),
             PutRow(t, l, [status |-> "failed", print |-> print, out |-> out]), Throw(t, <<"threw", l>>)
      PROVE  KeyedEffect(t, l, print, place)
  <2> DEFINE r == [status |-> "failed", print |-> print, out |-> out]
  <2>1. r \in Row /\ r.status = "failed" /\ r.print = print
    BY DEF Row, Outs
  <2>2. PutRow(t, l, r)
    BY <1>6
  <2> HIDE DEF r
  <2>3. JournalGrows(s, {l}) /\ journal'[s][l] = r
    BY <1>1, <2>1, <2>2, PutGrows
  <2>4. <<"threw", l>> \in Reasons
    BY <1>1, ReasonForms
  <2>5. Becomes(t, "panic", "no", <<"threw", l>>, s)
    BY <1>1, <1>6, <2>4, ThrowBecomes
  <2>6. Elsewhere
    BY <1>2, <1>3, <1>6 DEF Elsewhere
  <2>7. QED BY <1>1, <1>2, <1>3, <1>6, <2>1, <2>3, <2>4, <2>5, <2>6 DEF KeyedEffect
<1>7. QED BY <1>1, <1>4, <1>5, <1>6 DEF Keyed, Replays

\* A key whose work is a step of its own is begun, or refuses the tick.
BeginEffect(t, l) ==
    /\ tick[t].at = l /\ tick[t].busy = "no"
    /\ JournalGrows(tick[t].session, {l}) /\ Elsewhere /\ UNCHANGED <<claimed, task, outcome>>
    /\ \/ /\ RowOf(t, l) = NoRow /\ Becomes(t, l, "work", tick[t].failure, tick[t].session)
          /\ journal'[tick[t].session][l] # NoRow /\ journal'[tick[t].session][l].status = "in_progress"
       \/ /\ RowOf(t, l) # NoRow /\ ~Replays(t, l, Sound) /\ UNCHANGED journal
          /\ \E reason \in Reasons : Becomes(t, "panic", "no", reason, tick[t].session)

LEMMA BeginForm ==
    ASSUME TypeInv, NEW t \in Ticks, NEW l \in BusyPlaces, BeginKey(t, l, Sound)
    PROVE  BeginEffect(t, l) /\ Underway(t)
<1> DEFINE s == tick[t].session
           r == [status |-> "in_progress", print |-> Sound, out |-> "none"]
<1>1. Underway(t) /\ tick[t].at = l /\ tick[t].busy = "no" /\ l \in Labels
  BY DEF BeginKey, At, BusyPlaces, Labels
<1>2. UNCHANGED <<claimed, task, outcome>> /\ Elsewhere
  BY ElsewhereStays DEF BeginKey, elsewhere
<1>3. r \in Row /\ r.status = "in_progress" /\ r # NoRow
  <2>1. Sound \in Prints
    BY ReasonForms
  <2>2. r \in Row /\ r.status = "in_progress"
    BY <2>1 DEF Row, Outs
  <2>3. QED BY <2>2, NullAssumption
<1>4. CASE RowOf(t, l) = NoRow
  <2>1. PutRow(t, l, r) /\ tick' = [tick EXCEPT ![t].busy = "work"]
    BY <1>4 DEF BeginKey
  <2> HIDE DEF r
  <2>2. JournalGrows(s, {l}) /\ journal'[s][l] = r
    BY <1>1, <1>3, <2>1, PutGrows
  <2>3. Becomes(t, l, "work", tick[t].failure, s)
    BY <1>1, <2>1, BusyBecomes
  <2>4. QED BY <1>1, <1>2, <1>3, <1>4, <2>2, <2>3 DEF BeginEffect
<1>5. CASE RowOf(t, l) # NoRow
  <2>1. Throw(t, Refusal(t, l, Sound)) /\ UNCHANGED journal /\ ~Replays(t, l, Sound)
    BY <1>5 DEF BeginKey
  <2>2. Refusal(t, l, Sound) \in Reasons
    BY <1>1, RefusalIsReason
  <2>3. Becomes(t, "panic", "no", Refusal(t, l, Sound), s)
    BY <1>1, <2>1, <2>2, ThrowBecomes
  <2>4. QED BY <1>1, <1>2, <1>5, <2>1, <2>2, <2>3, StayGrows DEF BeginEffect
<1>6. QED BY <1>1, <1>4, <1>5

-----------------------------------------------------------------------------
(* Steps that neither settle the task nor close the tick *)

\* The places of a tick that its verification is behind of.
Verified == {"mentor", "adr", "incident", "settle", "complete", "fail", "end"}

QuietFrom == {"claim", "begin", "intake", "ask", "decide", "judge", "policy", "execute", "command",
              "create_task", "mentor", "adr", "incident"}

QuietTo == {"claim", "intake", "ask", "decide", "judge", "policy", "execute", "command", "create_task",
            "verify", "adr", "incident", "settle", "panic"}

QuietKeys == Labels \ {"verify", "complete", "fail", "panic_fail", "end"}

\* Tick t moves, and of the journal only rows change that the task does not depend on.
Quiet(t) ==
    /\ Underway(t) /\ tick[t].at \in QuietFrom /\ (tick[t].at = "claim" => tick[t].busy = "no")
    /\ JournalGrows(tick[t].session, QuietKeys) /\ Elsewhere /\ UNCHANGED <<claimed, task, outcome>>
    /\ \E place \in QuietTo, busy \in {"no", "work", "record"}, failure \in Reasons :
          /\ Becomes(t, place, busy, failure, tick[t].session)
          /\ busy # "no" => journal'[tick[t].session][place] # NoRow /\ place \in BusyPlaces
          /\ place = "claim" => tick[t].at = "claim" /\ busy # "record"
          /\ place \in Verified => tick[t].at \in Verified /\ failure = tick[t].failure

LEMMA GrowsMore ==
    ASSUME NEW s, NEW l \in QuietKeys, JournalGrows(s, {l})
    PROVE  JournalGrows(s, QuietKeys)
BY DEF JournalGrows

LEMMA KeyedIsQuiet ==
    ASSUME TypeInv, NEW t \in Ticks, Underway(t), NEW l \in QuietKeys \cap QuietFrom,
           NEW print, NEW place \in QuietTo \ {"claim"}, KeyedEffect(t, l, print, place), l \notin BusyPlaces,
           place \in Verified => l \in Verified
    PROVE  Quiet(t)
<1>1. tick[t].at = l /\ l # "claim" /\ tick[t].failure \in Reasons
  BY TickFields DEF KeyedEffect, BusyPlaces
<1>2. /\ JournalGrows(tick[t].session, QuietKeys) /\ Elsewhere /\ UNCHANGED <<claimed, task, outcome>>
  BY GrowsMore DEF KeyedEffect
<1>3. CASE Becomes(t, place, "no", tick[t].failure, tick[t].session)
  BY <1>1, <1>2, <1>3 DEF Quiet
<1>4. CASE \E reason \in Reasons : Becomes(t, "panic", "no", reason, tick[t].session)
  <2>1. "panic" \in QuietTo \ Verified /\ "panic" # "claim"
    BY DEF QuietTo, Verified
  <2>2. QED BY <1>1, <1>2, <1>4, <2>1 DEF Quiet
<1>5. QED BY <1>3, <1>4 DEF KeyedEffect

\* Every step that goes on to a place, or to a failure, by itself.
LEMMA MoveIsQuiet ==
    ASSUME TypeInv, NEW t \in Ticks, Underway(t), tick[t].at \in QuietFrom \ {"claim"},
           NEW place \in QuietTo \ {"claim"}, NEW failure \in Reasons,
           Becomes(t, place, "no", failure, tick[t].session),
           place \in Verified => tick[t].at \in Verified /\ failure = tick[t].failure,
           JournalGrows(tick[t].session, QuietKeys), UNCHANGED <<claimed, task, outcome, elsewhere>>
    PROVE  Quiet(t)
<1>1. Elsewhere
  BY ElsewhereStays
<1>2. QED BY <1>1 DEF Quiet

LEMMA BeginIsQuiet ==
    ASSUME TypeInv, NEW t \in Ticks, Underway(t), NEW l \in {"claim", "ask", "command"}, BeginEffect(t, l)
    PROVE  Quiet(t)
<1>1. /\ l \in QuietKeys /\ l \in QuietFrom /\ l \in QuietTo /\ l \notin Verified /\ l \in BusyPlaces
      /\ "panic" \in QuietTo /\ "panic" \notin Verified
  BY DEF QuietKeys, QuietFrom, QuietTo, Verified, BusyPlaces, Labels
<1>2. tick[t].failure \in Reasons
  BY TickFields
<1>3. JournalGrows(tick[t].session, QuietKeys)
  BY <1>1, GrowsMore DEF BeginEffect
<1>4. QED BY <1>1, <1>2, <1>3 DEF BeginEffect, Quiet

LEMMA RecordsAreQuiet ==
    ASSUME TypeInv, NEW t \in Ticks,
           RunBegin(t) \/ GoalIntake(t) \/ SafetyGate(t) \/ CreateFollowUp(t) \/ Mentorship(t)
    PROVE  Quiet(t)
<1>1. /\ {"begin", "intake", "policy", "create_task", "mentor"} \subseteq (QuietKeys \cap QuietFrom) \ BusyPlaces
      /\ {"begin", "intake", "policy", "create_task", "mentor"} \subseteq Labels
      /\ {"intake", "ask", "execute", "verify", "adr"} \subseteq QuietTo \ {"claim"}
      /\ {"intake", "ask", "execute", "verify", "adr"} \subseteq Places
      /\ {"intake", "ask", "execute", "verify"} \cap Verified = {} /\ "mentor" \in Verified
      /\ {"none"} \subseteq Outs /\ {"yes", "no"} \subseteq Outs
  BY DEF QuietKeys, QuietFrom, QuietTo, Verified, BusyPlaces, Labels, Places, Outs
<1>2. CASE RunBegin(t)
  <2>1. KeyedEffect(t, "begin", Sound, "intake") /\ Underway(t)
    BY <1>1, <1>2, ReasonForms, KeyedForm DEF RunBegin
  <2>2. QED BY <1>1, <2>1, KeyedIsQuiet
<1>3. CASE GoalIntake(t)
  <2>1. KeyedEffect(t, "intake", Sound, "ask") /\ Underway(t)
    BY <1>1, <1>3, ReasonForms, KeyedForm DEF GoalIntake
  <2>2. QED BY <1>1, <2>1, KeyedIsQuiet
<1>4. CASE SafetyGate(t)
  <2>1. KeyedEffect(t, "policy", Sound, "execute") /\ Underway(t)
    BY <1>1, <1>4, ReasonForms, KeyedForm DEF SafetyGate
  <2>2. QED BY <1>1, <2>1, KeyedIsQuiet
<1>5. CASE CreateFollowUp(t)
  <2>1. KeyedEffect(t, "create_task", Sound, "verify") /\ Underway(t)
    BY <1>1, <1>5, ReasonForms, KeyedForm DEF CreateFollowUp
  <2>2. QED BY <1>1, <2>1, KeyedIsQuiet
<1>6. CASE Mentorship(t)
  <2>1. Underway(t)
    BY <1>6 DEF Mentorship, Keyed, At
  <2>2. tick[t].failure \in Prints
    BY <2>1, TickFields, ReasonForms
  <2>3. KeyedEffect(t, "mentor", tick[t].failure, "adr")
    BY <1>1, <1>6, <2>2, KeyedForm DEF Mentorship
  <2>4. QED BY <1>1, <2>1, <2>3, KeyedIsQuiet
<1>7. QED BY <1>2, <1>3, <1>4, <1>5, <1>6

LEMMA EpilogueIsQuiet ==
    ASSUME TypeInv, NEW t \in Ticks, Governance(t) \/ OpenIncident(t)
    PROVE  Quiet(t)
<1>1. /\ {"adr", "incident"} \subseteq (QuietKeys \cap QuietFrom) \ (BusyPlaces \cup {"claim"})
      /\ {"adr", "incident"} \subseteq Labels
      /\ {"incident", "settle"} \subseteq QuietTo \ {"claim"} /\ {"incident", "settle"} \subseteq Places
      /\ {"adr", "incident", "settle"} \subseteq Verified /\ {"none"} \subseteq Outs
  BY DEF QuietKeys, QuietFrom, QuietTo, Verified, BusyPlaces, Labels, Places, Outs
<1>2. Underway(t) /\ tick[t].at \in {"adr", "incident"}
  BY DEF Governance, OpenIncident, Keyed, At
<1>3. tick[t].busy = "no" /\ tick[t].failure \in Reasons /\ tick[t].failure \in Prints
  BY <1>1, <1>2, TickFields, ReasonForms DEF TypeInv, KeysOK, BusyPlaces
<1>4. CASE Keyed(t, "adr", Sound, {"none"}, "incident")
  <2>1. KeyedEffect(t, "adr", Sound, "incident")
    BY <1>1, <1>4, ReasonForms, KeyedForm
  <2>2. QED BY <1>1, <1>2, <2>1, KeyedIsQuiet
<1>5. CASE Keyed(t, "incident", tick[t].failure, {"none"}, "settle")
  <2>1. KeyedEffect(t, "incident", tick[t].failure, "settle")
    BY <1>1, <1>3, <1>5, KeyedForm
  <2>2. QED BY <1>1, <1>2, <2>1, KeyedIsQuiet
<1>6. ASSUME NEW place \in {"incident", "settle"}, Go(t, place), UNCHANGED <<storeVars, elsewhere>>
      PROVE  Quiet(t)
  <2>1. Becomes(t, place, "no", tick[t].failure, tick[t].session)
    BY <1>1, <1>2, <1>3, <1>6, GoBecomes
  <2>2. JournalGrows(tick[t].session, QuietKeys) /\ UNCHANGED <<claimed, task, outcome, elsewhere>>
    BY <1>6, StayGrows DEF storeVars
  <2>3. QED BY <1>1, <1>2, <1>3, <1>6, <2>1, <2>2, MoveIsQuiet
<1>7. QED BY <1>4, <1>5, <1>6 DEF Governance, OpenIncident

LEMMA CouncilIsQuiet ==
    ASSUME TypeInv, NEW t \in Ticks, Council(t)
    PROVE  Quiet(t)
<1>1. /\ {"ask", "decide", "judge"} \subseteq QuietFrom \ {"claim"} /\ "ask" \in QuietKeys
      /\ {"ask", "decide"} \subseteq Labels /\ "decide" \in QuietKeys \ BusyPlaces /\ "ask" \in BusyPlaces
      /\ {"decide", "judge", "policy"} \subseteq QuietTo \ ({"claim"} \cup Verified)
      /\ {"decide", "judge", "policy"} \subseteq Places /\ "judge" \notin BusyPlaces
      /\ {"direct", "fallback"} \subseteq Outs /\ {"yes", "no"} \subseteq Outs
  BY DEF QuietKeys, QuietFrom, QuietTo, Verified, BusyPlaces, Labels, Places, Outs
<1>2. CASE BridgeAsk(t)
  <2>1. BeginEffect(t, "ask") /\ Underway(t)
    BY <1>1, <1>2, BeginForm DEF BridgeAsk
  <2>2. QED BY <2>1, BeginIsQuiet
<1>3. ASSUME NEW quorum \in BOOLEAN, At(t, "ask"), Heard(t, quorum),
             JournalGrows(tick[t].session, QuietKeys), UNCHANGED <<claimed, task, outcome, elsewhere>>
      PROVE  Quiet(t)
  <2>1. Underway(t) /\ tick[t].at = "ask"
    BY <1>3 DEF At
  <2>2. Becomes(t, "decide", "no", tick[t].failure, tick[t].session) /\ tick[t].failure \in Reasons
    BY <1>3, <2>1, HeardBecomes, TickFields
  <2>3. QED BY <1>1, <1>3, <2>1, <2>2, MoveIsQuiet
<1>4. CASE CouncilRound(t)
  <2>1. PICK out \in {"yes", "no"} : PutDone(t, "ask", out) /\ Heard(t, out = "yes")
    BY <1>4 DEF CouncilRound
  <2>2. At(t, "ask") /\ Underway(t) /\ RowOf(t, "ask") # NoRow /\ UNCHANGED <<claimed, task, outcome, elsewhere>>
    BY <1>4 DEF CouncilRound, At, TypeInv, KeysOK
  <2>3. JournalGrows(tick[t].session, {"ask"})
    BY <1>1, <2>1, <2>2, PutDoneGrows
  <2>4. JournalGrows(tick[t].session, QuietKeys)
    BY <1>1, <2>3, GrowsMore
  <2>5. QED BY <1>3, <2>1, <2>2, <2>4
<1>5. CASE CouncilHeard(t)
  <2>1. PICK quorum \in BOOLEAN : Heard(t, quorum)
    BY <1>5 DEF CouncilHeard
  <2>2. At(t, "ask") /\ UNCHANGED <<journal, claimed, task, outcome, elsewhere>>
    BY <1>5 DEF CouncilHeard, storeVars
  <2>3. QED BY <1>3, <2>1, <2>2, StayGrows
<1>6. CASE Keyed(t, "decide", Sound, {"direct", "fallback"}, "judge")
  <2>1. KeyedEffect(t, "decide", Sound, "judge") /\ Underway(t)
    BY <1>1, <1>6, ReasonForms, KeyedForm
  <2>2. QED BY <1>1, <2>1, KeyedIsQuiet
<1>7. ASSUME NEW failure \in Reasons, NEW braked \in BOOLEAN, At(t, "judge"), UNCHANGED <<storeVars, elsewhere>>,
             tick' = [tick EXCEPT ![t].at = "policy", ![t].failure = failure, ![t].braked = braked]
      PROVE  Quiet(t)
  <2> DEFINE r == [tick[t] EXCEPT !.at = "policy", !.failure = failure, !.braked = braked]
  <2>1. Underway(t) /\ tick[t].at = "judge" /\ tick[t].busy = "no" /\ tick[t] \in Tick
    BY <1>1, <1>7, TickFields DEF At, TypeInv, KeysOK
  <2>2. r \in Tick /\ r.bucket = tick[t].bucket /\ r.proc = tick[t].proc
        /\ r.at = "policy" /\ r.busy = "no" /\ r.failure = failure /\ r.session = tick[t].session
    BY <1>1, <2>1 DEF Tick
  <2>3. tick' = [tick EXCEPT ![t] = r]
    BY <1>7
  <2> HIDE DEF r
  <2>4. Becomes(t, r.at, r.busy, r.failure, r.session)
    BY <2>1, <2>2, <2>3, RecordBecomes
  <2>5. Becomes(t, "policy", "no", failure, tick[t].session)
    BY <2>2, <2>4
  <2>6. JournalGrows(tick[t].session, QuietKeys) /\ UNCHANGED <<claimed, task, outcome, elsewhere>>
    BY <1>7, StayGrows DEF storeVars
  <2>7. QED BY <1>1, <2>1, <2>5, <2>6, MoveIsQuiet
<1>8. CASE /\ At(t, "judge") /\ UNCHANGED <<storeVars, elsewhere>>
           /\ LET confident == tick[t].quorum /\ ~tick[t].strict IN
              tick' = [tick EXCEPT ![t].at = "policy",
                                   ![t].failure = IF confident THEN Sound ELSE <<"confidence", "">>,
                                   ![t].braked = ~confident]
  <2> DEFINE confident == tick[t].quorum /\ ~tick[t].strict
             failure == IF confident THEN Sound ELSE <<"confidence", "">>
             braked == ~confident
  <2>1. failure \in Reasons /\ braked \in BOOLEAN
    BY ReasonForms
  <2>2. tick' = [tick EXCEPT ![t].at = "policy", ![t].failure = failure, ![t].braked = braked]
    BY <1>8
  <2> HIDE DEF failure, braked
  <2>3. QED BY <1>7, <1>8, <2>1, <2>2
<1>9. QED BY <1>2, <1>4, <1>5, <1>6, <1>8 DEF Council

LEMMA ExecutionIsQuiet ==
    ASSUME TypeInv, NEW t \in Ticks, ChooseExecution(t) \/ RunCommand(t)
    PROVE  Quiet(t)
<1>1. /\ {"execute", "command"} \subseteq QuietFrom \ {"claim"} /\ "command" \in QuietKeys
      /\ "command" \in BusyPlaces /\ "command" \in Labels /\ "execute" \notin BusyPlaces
      /\ {"create_task", "command", "verify"} \subseteq QuietTo \ ({"claim"} \cup Verified)
      /\ {"create_task", "command", "verify"} \subseteq Places /\ {"yes", "no"} \subseteq Outs
  BY DEF QuietKeys, QuietFrom, QuietTo, Verified, BusyPlaces, Labels, Places, Outs
<1>2. Underway(t) /\ tick[t].at \in {"execute", "command"} /\ UNCHANGED <<claimed, task, outcome, elsewhere>>
  BY DEF ChooseExecution, RunCommand, BeginKey, Works, At, storeVars, elsewhere
<1>3. tick[t].failure \in Reasons
  BY <1>2, TickFields
<1>4. ASSUME NEW reason \in Reasons, Fails(t, reason), JournalGrows(tick[t].session, QuietKeys)
      PROVE  Quiet(t)
  <2>1. PICK failure \in Reasons : Becomes(t, "verify", "no", failure, tick[t].session)
    BY <1>2, <1>4, FailsBecomes
  <2>2. QED BY <1>1, <1>2, <1>4, <2>1, MoveIsQuiet
<1>5. CASE ChooseExecution(t)
  <2>1. tick[t].at = "execute" /\ UNCHANGED journal /\ tick[t].busy = "no"
    BY <1>1, <1>2, <1>5 DEF ChooseExecution, At, storeVars, TypeInv, KeysOK
  <2>2. JournalGrows(tick[t].session, QuietKeys)
    BY <2>1, StayGrows
  <2>3. ASSUME NEW place \in {"create_task", "command"}, Go(t, place) PROVE Quiet(t)
    <3>1. Becomes(t, place, "no", tick[t].failure, tick[t].session)
      BY <1>1, <1>2, <2>1, <2>3, GoBecomes
    <3>2. QED BY <1>1, <1>2, <1>3, <2>2, <2>3, <3>1, MoveIsQuiet
  <2>4. CASE Fails(t, <<"policy", "">>) \/ Fails(t, <<"lock", "">>)
    BY <1>4, <2>2, <2>4, ReasonForms
  <2>5. QED BY <1>5, <2>3, <2>4 DEF ChooseExecution
<1>6. ASSUME NEW ok \in BOOLEAN, Ran(t, ok), tick[t].at = "command", JournalGrows(tick[t].session, QuietKeys)
      PROVE  Quiet(t)
  <2>1. CASE ok
    <3>1. Becomes(t, "verify", "no", tick[t].failure, tick[t].session)
      BY <1>1, <1>2, <1>6, <2>1, AdvanceBecomes DEF Ran
    <3>2. QED BY <1>1, <1>2, <1>3, <1>6, <3>1, MoveIsQuiet
  <2>2. CASE ~ok
    BY <1>4, <1>6, <2>2, ReasonForms DEF Ran
  <2>3. QED BY <2>1, <2>2
<1>7. CASE BeginKey(t, "command", Sound)
  BY <1>1, <1>7, BeginForm, BeginIsQuiet
<1>8. CASE Works(t, "command") /\ UNCHANGED journal
  <2>1. tick[t].at = "command" /\ tick[t].busy = "work" /\ tick' = [tick EXCEPT ![t].busy = "record"]
    BY <1>8 DEF Works, At
  <2>2. Becomes(t, "command", "record", tick[t].failure, tick[t].session)
    BY <1>2, <2>1, BusyBecomes
  <2>3. journal'[tick[t].session]["command"] # NoRow
    BY <1>2, <1>8, <2>1 DEF TypeInv, KeysOK, RowOf
  <2>4. JournalGrows(tick[t].session, QuietKeys) /\ Elsewhere
    BY <1>2, <1>8, StayGrows, ElsewhereStays
  <2>5. QED BY <1>1, <1>2, <1>3, <2>1, <2>2, <2>3, <2>4 DEF Quiet
<1>9. CASE /\ At(t, "command") /\ tick[t].busy = "record"
           /\ \E out \in {"yes", "no"} : PutDone(t, "command", out) /\ Ran(t, out = "yes")
  <2>1. PICK out \in {"yes", "no"} : PutDone(t, "command", out) /\ Ran(t, out = "yes")
    BY <1>9
  <2>2. RowOf(t, "command") # NoRow /\ tick[t].at = "command"
    BY <1>2, <1>9 DEF At, TypeInv, KeysOK
  <2>3. JournalGrows(tick[t].session, {"command"})
    BY <1>1, <1>2, <2>1, <2>2, PutDoneGrows
  <2>4. QED BY <1>1, <1>6, <2>1, <2>2, <2>3, GrowsMore
<1>10. CASE At(t, "command") /\ Ran(t, RowOf(t, "command").out = "yes") /\ UNCHANGED storeVars
  <2>1. tick[t].at = "command" /\ UNCHANGED journal
    BY <1>10 DEF At, storeVars
  <2>2. QED BY <1>6, <1>10, <2>1, StayGrows
<1>11. QED BY <1>5, <1>7, <1>8, <1>9, <1>10 DEF RunCommand

-----------------------------------------------------------------------------
(* The other steps of a tick *)

\* The claim takes the task if it waits.
ClaimEffect(t) ==
    /\ tick[t].at = "claim" /\ tick[t].busy = "work"
    /\ Becomes(t, "claim", "record", tick[t].failure, tick[t].session)
    /\ UNCHANGED <<journal, outcome, elsewhere>>
    /\ IF task.status = "pending"
       THEN /\ task' = [status |-> "running", attempts |-> task.attempts + 1]
            /\ claimed' = [claimed EXCEPT ![tick[t].bucket] = task.attempts + 1]
       ELSE UNCHANGED <<task, claimed>>

\* The tick goes on in the session of what was claimed.
ClaimedEffect(t) ==
    LET a == claimed[tick[t].bucket] IN
    /\ tick[t].at = "claim" /\ tick[t].busy \in {"record", "no"}
    /\ Becomes(t, "begin", "no", tick[t].failure, IF a = 0 THEN tick[t].session ELSE <<"attempt", a>>)
    /\ JournalGrows(tick[t].session, {"claim"}) /\ UNCHANGED <<claimed, task, outcome, elsewhere>>

ChooseEffect(t) ==
    /\ tick[t].at = "settle"
    /\ Becomes(t, IF tick[t].session[1] = "heartbeat" THEN "end"
                  ELSE IF tick[t].failure = Sound THEN "complete" ELSE "fail",
               "no", tick[t].failure, tick[t].session)
    /\ UNCHANGED <<storeVars, elsewhere>>

\* The work of completing or failing, and the end of its key.
SettleWork(t, l, status) ==
    /\ tick[t].at = l /\ tick[t].busy = "work"
    /\ Becomes(t, l, "record", tick[t].failure, tick[t].session)
    /\ SettleTask(status) /\ UNCHANGED <<journal, claimed, elsewhere>>

SettleRecord(t, l) ==
    /\ tick[t].at = l /\ tick[t].busy = "record" /\ RowOf(t, l) # NoRow
    /\ Becomes(t, "end", "no", tick[t].failure, tick[t].session)
    /\ JournalGrows(tick[t].session, {l}) /\ UNCHANGED <<claimed, task, outcome, elsewhere>>

SettleSkip(t, l) ==
    /\ tick[t].at = l /\ tick[t].busy = "no" /\ RowOf(t, l) # NoRow /\ RowOf(t, l).status = "done"
    /\ Becomes(t, "end", "no", tick[t].failure, tick[t].session)
    /\ UNCHANGED <<storeVars, elsewhere>>

\* At most one more mishap, and nothing else of what is known of a behaviour.
AtMostMishap ==
    /\ UNCHANGED <<budget, overran, raced, belated, calls>>
    /\ mishaps' \in 0 .. budget.mishaps /\ (mishaps' = 0 => mishaps = 0)

SameErrors == \A p \in Procs : runtime'[p].errors = runtime[p].errors

\* The tick counts its outcome, pauses its daemon, or opens the incident of an error.
Closing(t) ==
    /\ \E place \in {"panic", "panic_fail", "panic_incident", "panic_pause", "release"}, failure \in Reasons :
          /\ Becomes(t, place, "no", failure, tick[t].session)
          /\ \/ tick[t].at = "finish" /\ place = "release"
             \/ tick[t].at = "finish" /\ place = "panic" /\ SameErrors
             \/ /\ tick[t].at = "panic"
                /\ place = IF tick[t].session[1] = "attempt" THEN "panic_fail" ELSE "panic_incident"
             \/ tick[t].at = "panic_incident" /\ place = "panic_pause" /\ SameErrors
             \/ tick[t].at \in {"panic_incident", "panic_pause"} /\ place = "release"
    /\ JournalGrows(tick[t].session, QuietKeys)
    /\ RuntimeOK' /\ \A p \in Procs : /\ runtime'[p].in_tick => runtime[p].in_tick
                                     /\ runtime'[p].errors <= runtime[p].errors + 1
    /\ AtMostMishap /\ UNCHANGED <<bucket, tickLock, claimed, task, outcome>>

\* The claimed task is failed after an error, unless it was already or its key could not
\* be used.
PanicFailEffect(t) ==
    /\ tick[t].at = "panic_fail" /\ Becomes(t, "panic_incident", "no", tick[t].failure, tick[t].session)
    /\ JournalGrows(tick[t].session, {"panic_fail"})
    /\ RowOf(t, "panic_fail") # NoRow => UNCHANGED journal
    /\ \/ SettleTask("failed") /\ RowOf(t, "panic_fail") = NoRow /\ journal'[tick[t].session]["panic_fail"] # NoRow
       \/ UNCHANGED <<task, outcome>> /\ (RowOf(t, "panic_fail") # NoRow \/ mishaps' # 0)
    /\ Elsewhere /\ UNCHANGED claimed

\* The steps about the lock: the tick reads it, or reads whose it is,
Looks(t) ==
    /\ \/ tick[t].at = "lock" /\ \E place \in {"insert", "steal"} : Becomes(t, place, "no", tick[t].failure, tick[t].session)
       \/ tick[t].at = "release" /\ Becomes(t, "release", "work", tick[t].failure, tick[t].session)
    /\ UNCHANGED <<tickLock, runtime, belated>>

\* goes to work, with the lock or none,
Takes(t) ==
    /\ tick[t].at \in Acquiring /\ Becomes(t, "claim", "no", tick[t].failure, tick[t].session)
    /\ tickLock' = Taken(t) \/ (tickLock = Free /\ UNCHANGED tickLock)
    /\ SameErrors /\ (~belated' => ~belated /\ tick[t].bucket = bucket)

\* gives up,
Quits(t) ==
    /\ tick[t].at \in Acquiring
    /\ \/ tick' = [tick EXCEPT ![t] = Ended] /\ UNCHANGED tickLock
       \/ tick' = [tick EXCEPT ![t] = Stuck] /\ (UNCHANGED tickLock \/ tickLock' = Taken(t))
    /\ \A p \in Procs : /\ runtime'[p].in_tick => runtime[p].in_tick
                        /\ runtime'[p].errors <= runtime[p].errors + 1
    /\ UNCHANGED belated

\* or ends.
Leaves(t) ==
    /\ tick[t].at = "release"
    /\ \/ /\ tick' = [tick EXCEPT ![t] = Ended]
          /\ tickLock' = Free \/ (UNCHANGED tickLock /\ (tickLock = Free \/ tickLock.owner # t))
       \/ tick' = [tick EXCEPT ![t] = Stuck] /\ UNCHANGED tickLock
    /\ ~runtime'[tick[t].proc].in_tick /\ SameErrors /\ UNCHANGED belated

LockStep(t) ==
    /\ Looks(t) \/ Takes(t) \/ Quits(t) \/ Leaves(t)
    /\ UNCHANGED <<bucket, storeVars, enabled, budget, overran, calls>>
    /\ mishaps' \in 0 .. budget.mishaps /\ (mishaps' = 0 => mishaps = 0)
    /\ raced' \in BOOLEAN /\ (~raced' => ~raced) /\ belated' \in BOOLEAN
    /\ RuntimeOK' /\ \A p \in Procs : p # tick[t].proc => runtime'[p] = runtime[p]

LEMMA MishapsRise ==
    ASSUME TypeInv, UNCHANGED ghosts \/ Mishap
    PROVE  AtMostMishap /\ (Mishap => mishaps' # 0)
<1>1. mishaps \in 0 .. budget.mishaps /\ budget.mishaps \in Nat
  BY BoundsAssumption DEF TypeInv, ClockOK
<1>2. CASE UNCHANGED ghosts
  BY <1>1, <1>2 DEF ghosts, AtMostMishap
<1>3. CASE Mishap
  BY <1>1, <1>3 DEF AtMostMishap
<1>4. QED BY <1>2, <1>3

LEMMA ClaimForms ==
    ASSUME TypeInv, NEW t \in Ticks, GoalClaim(t)
    PROVE  Underway(t) /\ (Quiet(t) \/ ClaimEffect(t) \/ ClaimedEffect(t))
<1>1. Underway(t) /\ tick[t].at = "claim" /\ "claim" \in BusyPlaces /\ "claim" \in Labels
  BY DEF GoalClaim, BeginKey, Works, At, BusyPlaces, Labels
<1>2. tick[t].bucket \in 0 .. MaxBucket /\ claimed[tick[t].bucket] \in 0 .. MaxAttempts
  BY <1>1, TickFields DEF TypeInv, TaskOK
<1>3. CASE BeginKey(t, "claim", Sound)
  BY <1>1, <1>3, BeginForm, BeginIsQuiet
<1>4. CASE /\ Works(t, "claim")
           /\ IF task.status = "pending"
              THEN /\ task' = [status |-> "running", attempts |-> task.attempts + 1]
                   /\ claimed' = [claimed EXCEPT ![tick[t].bucket] = task.attempts + 1]
              ELSE UNCHANGED <<task, claimed>>
           /\ UNCHANGED <<journal, outcome, commands, elsewhere>>
  <2>1. tick[t].busy = "work" /\ tick' = [tick EXCEPT ![t].busy = "record"]
    BY <1>4 DEF Works
  <2>2. Becomes(t, "claim", "record", tick[t].failure, tick[t].session)
    BY <1>1, <2>1, BusyBecomes
  <2>3. QED BY <1>1, <1>4, <2>1, <2>2 DEF ClaimEffect
<1>5. ASSUME Claimed(t, claimed[tick[t].bucket]), JournalGrows(tick[t].session, {"claim"}),
             tick[t].busy \in {"record", "no"}, UNCHANGED <<claimed, task, outcome, elsewhere>>
      PROVE  ClaimedEffect(t)
  BY <1>1, <1>2, <1>5, ClaimedBecomes DEF ClaimedEffect
<1>6. CASE /\ tick[t].busy = "record" /\ PutDone(t, "claim", "none") /\ Claimed(t, claimed[tick[t].bucket])
           /\ UNCHANGED <<claimed, task, outcome, commands, elsewhere>>
  <2>1. RowOf(t, "claim") # NoRow /\ "none" \in Outs
    BY <1>1, <1>6 DEF TypeInv, KeysOK, Outs
  <2>2. JournalGrows(tick[t].session, {"claim"})
    BY <1>1, <1>6, <2>1, PutDoneGrows
  <2>3. UNCHANGED <<claimed, task, outcome, elsewhere>>
    BY <1>6
  <2>4. QED BY <1>1, <1>5, <1>6, <2>2, <2>3
<1>7. CASE tick[t].busy = "no" /\ Claimed(t, claimed[tick[t].bucket]) /\ UNCHANGED <<storeVars, elsewhere>>
  <2>1. JournalGrows(tick[t].session, {"claim"}) /\ UNCHANGED <<claimed, task, outcome, elsewhere>>
    BY <1>7, StayGrows DEF storeVars
  <2>2. QED BY <1>1, <1>5, <1>7, <2>1
<1>8. QED BY <1>1, <1>3, <1>4, <1>6, <1>7 DEF GoalClaim

LEMMA ChooseForm ==
    ASSUME TypeInv, NEW t \in Ticks, ChooseSettlement(t)
    PROVE  Underway(t) /\ ChooseEffect(t)
<1> DEFINE place == IF tick[t].session[1] = "heartbeat" THEN "end"
                    ELSE IF tick[t].failure = Sound THEN "complete" ELSE "fail"
<1>1. Underway(t) /\ tick[t].at = "settle" /\ Go(t, place) /\ UNCHANGED <<storeVars, elsewhere>>
  BY DEF ChooseSettlement, At
<1>2. place \in Places /\ "settle" \notin BusyPlaces
  BY DEF Places, Labels, BusyPlaces
<1>3. tick[t].busy = "no"
  BY <1>1, <1>2 DEF TypeInv, KeysOK
<1>4. Becomes(t, place, "no", tick[t].failure, tick[t].session)
  <2> HIDE DEF place
  <2>1. QED BY <1>1, <1>2, <1>3, GoBecomes
<1>5. QED BY <1>1, <1>4 DEF ChooseEffect

LEMMA SettleForms ==
    ASSUME TypeInv, NEW t \in Ticks, NEW l \in {"complete", "fail"}, NEW status, Settle(t, l, status)
    PROVE  Underway(t) /\ (BeginEffect(t, l) \/ SettleWork(t, l, status) \/ SettleRecord(t, l) \/ SettleSkip(t, l))
<1>1. l \in BusyPlaces /\ l \in Labels /\ "end" \in Places /\ "none" \in Outs
  BY DEF BusyPlaces, Labels, Places, Outs
<1>2. Underway(t) /\ tick[t].at = l
  BY DEF Settle, BeginKey, Works, Skips, At
<1>3. CASE BeginKey(t, l, Sound)
  BY <1>1, <1>3, BeginForm
<1>4. CASE Works(t, l) /\ SettleTask(status) /\ UNCHANGED <<journal, claimed, commands, elsewhere>>
  <2>1. tick[t].busy = "work" /\ tick' = [tick EXCEPT ![t].busy = "record"]
    BY <1>4 DEF Works
  <2>2. Becomes(t, l, "record", tick[t].failure, tick[t].session)
    BY <1>2, <2>1, BusyBecomes
  <2>3. QED BY <1>2, <1>4, <2>1, <2>2 DEF SettleWork
<1>5. CASE /\ tick[t].busy = "record" /\ PutDone(t, l, "none") /\ Advance(t, "end")
           /\ UNCHANGED <<claimed, task, outcome, commands, elsewhere>>
  <2>1. RowOf(t, l) # NoRow
    BY <1>2, <1>5 DEF TypeInv, KeysOK
  <2>2. JournalGrows(tick[t].session, {l})
    BY <1>1, <1>2, <1>5, <2>1, PutDoneGrows
  <2>3. Becomes(t, "end", "no", tick[t].failure, tick[t].session)
    BY <1>1, <1>2, <1>5, AdvanceBecomes
  <2>4. QED BY <1>2, <1>5, <2>1, <2>2, <2>3 DEF SettleRecord
<1>6. CASE Skips(t, l, Sound, "end")
  <2>1. tick[t].busy = "no" /\ Replays(t, l, Sound) /\ Go(t, "end") /\ UNCHANGED <<storeVars, elsewhere>>
    BY <1>6 DEF Skips
  <2>2. Becomes(t, "end", "no", tick[t].failure, tick[t].session)
    BY <1>1, <1>2, <2>1, GoBecomes
  <2>3. QED BY <1>2, <2>1, <2>2 DEF SettleSkip, Replays
<1>7. QED BY <1>2, <1>3, <1>4, <1>5, <1>6 DEF Settle

Counters == [running : BOOLEAN, in_tick : BOOLEAN, errors : Nat]

LEMMA CountersParts ==
    ASSUME NEW c \in Counters, NEW running \in BOOLEAN, NEW inTick \in BOOLEAN, NEW errors \in Nat
    PROVE  /\ [c EXCEPT !.errors = errors] = [running |-> c.running, in_tick |-> c.in_tick, errors |-> errors]
           /\ [c EXCEPT !.running = running, !.in_tick = inTick]
              = [running |-> running, in_tick |-> inTick, errors |-> c.errors]
<1>1. c = [running |-> c.running, in_tick |-> c.in_tick, errors |-> c.errors]
  BY DEF Counters
<1>2. [c EXCEPT !.errors = errors] = [running |-> c.running, in_tick |-> c.in_tick, errors |-> errors]
  BY <1>1
<1>3. [c EXCEPT !.running = running, !.in_tick = inTick]
      = [running |-> running, in_tick |-> inTick, errors |-> c.errors]
  <2> DEFINE d == [running |-> running, in_tick |-> c.in_tick, errors |-> c.errors]
  <2>1. [c EXCEPT !.running = running] = d
    BY <1>1
  <2>2. [d EXCEPT !.in_tick = inTick] = [running |-> running, in_tick |-> inTick, errors |-> c.errors]
    OBVIOUS
  <2>3. [c EXCEPT !.running = running, !.in_tick = inTick] = [[c EXCEPT !.running = running] EXCEPT !.in_tick = inTick]
    OBVIOUS
  <2>4. QED BY <2>1, <2>2, <2>3
<1>4. QED BY <1>2, <1>3

\* What the counters of a process become.
LEMMA CountersMove ==
    ASSUME TypeInv, NEW t \in Ticks, Underway(t),
           NEW running \in BOOLEAN, NEW inTick \in BOOLEAN, NEW errors \in Nat,
           inTick => runtime[tick[t].proc].in_tick, errors <= runtime[tick[t].proc].errors + 1,
           runtime' = [runtime EXCEPT ![tick[t].proc] = [running |-> running, in_tick |-> inTick, errors |-> errors]],
           enabled' \in BOOLEAN
    PROVE  RuntimeOK' /\ \A p \in Procs : /\ runtime'[p].in_tick => runtime[p].in_tick
                                         /\ runtime'[p].errors <= runtime[p].errors + 1
<1>1. tick[t].proc \in Procs
  BY TickFields
<1>2. runtime \in [Procs -> [running : BOOLEAN, in_tick : BOOLEAN, errors : Nat]]
  BY DEF TypeInv, RuntimeOK
<1>3. \A p \in Procs : runtime[p].errors \in Nat
  BY <1>2
<1>4. RuntimeOK'
  BY <1>1, <1>2 DEF RuntimeOK
<1>5. ASSUME NEW p \in Procs
      PROVE  (runtime'[p].in_tick => runtime[p].in_tick) /\ runtime'[p].errors <= runtime[p].errors + 1
  <2>1. CASE p = tick[t].proc
    <3>1. runtime'[p] = [running |-> running, in_tick |-> inTick, errors |-> errors]
      BY <1>1, <1>2, <2>1
    <3>2. QED BY <2>1, <3>1
  <2>2. CASE p # tick[t].proc
    <3>1. runtime'[p] = runtime[p]
      BY <1>1, <1>2, <2>2
    <3>2. QED BY <1>3, <3>1
  <2>3. QED BY <2>1, <2>2
<1>6. QED BY <1>4, <1>5

LEMMA FinishCloses ==
    ASSUME TypeInv, NEW t \in Ticks, Finish(t)
    PROVE  Underway(t) /\ Closing(t)
<1> DEFINE p == tick[t].proc
           pause == tick[t].failure # Sound /\ (tick[t].braked \/ runtime[p].errors + 1 >= MaxErrors)
           running == runtime[p].running /\ ~pause
           inTick == runtime[p].in_tick /\ ~pause
           errors == IF tick[t].failure = Sound THEN 0 ELSE runtime[p].errors + 1
<1>1. Underway(t) /\ tick[t].at = "finish" /\ UNCHANGED <<bucket, tickLock, storeVars>> /\ AtMostMishap
  BY MishapsRise DEF Finish, At
<1>2. p \in Procs /\ runtime[p] \in Counters /\ runtime[p].errors \in Nat /\ enabled \in BOOLEAN
      /\ tick[t].failure \in Reasons
  BY <1>1, TickFields DEF TypeInv, RuntimeOK, Counters
<1>3. tick[t].busy = "no" /\ "release" \in Places
  BY <1>1 DEF TypeInv, KeysOK, BusyPlaces, Places
<1>4. JournalGrows(tick[t].session, QuietKeys) /\ UNCHANGED <<claimed, task, outcome>>
  BY <1>1, StayGrows DEF storeVars
<1>5. CASE /\ runtime' = [runtime EXCEPT ![p] = [running |-> running, in_tick |-> inTick, errors |-> errors]]
           /\ enabled' = (enabled /\ ~pause) /\ Go(t, "release")
  <2>1. /\ running \in BOOLEAN /\ inTick \in BOOLEAN /\ errors \in Nat
        /\ errors <= runtime[p].errors + 1 /\ (inTick => runtime[p].in_tick)
    BY <1>2 DEF Counters
  <2>2. enabled' \in BOOLEAN
    BY <1>2, <1>5
  <2>3. runtime' = [runtime EXCEPT ![p] = [running |-> running, in_tick |-> inTick, errors |-> errors]]
    BY <1>5
  <2> HIDE DEF running, inTick, errors
  <2>4. RuntimeOK' /\ \A q \in Procs : /\ runtime'[q].in_tick => runtime[q].in_tick
                                      /\ runtime'[q].errors <= runtime[q].errors + 1
    BY <1>1, <2>1, <2>2, <2>3, CountersMove
  <2>5. Becomes(t, "release", "no", tick[t].failure, tick[t].session)
    BY <1>1, <1>3, <1>5, GoBecomes
  <2>6. QED BY <1>1, <1>2, <1>4, <2>4, <2>5 DEF Closing
<1>6. CASE StopAutopilotDaemon(p) /\ Throw(t, <<"threw", "end">>) /\ UNCHANGED enabled
  <2>1. [runtime[p] EXCEPT !.running = FALSE, !.in_tick = FALSE]
        = [running |-> FALSE, in_tick |-> FALSE, errors |-> runtime[p].errors]
    BY <1>2, CountersParts
  <2>2. runtime' = [runtime EXCEPT ![p] = [running |-> FALSE, in_tick |-> FALSE, errors |-> runtime[p].errors]]
    BY <1>6, <2>1 DEF StopAutopilotDaemon, Set
  <2>3. RuntimeOK' /\ \A q \in Procs : /\ runtime'[q].in_tick => runtime[q].in_tick
                                      /\ runtime'[q].errors <= runtime[q].errors + 1
    <3> DEFINE no == FALSE
               count == runtime[p].errors
    <3>1. /\ no \in BOOLEAN /\ count \in Nat /\ count <= runtime[p].errors + 1 /\ (no => runtime[p].in_tick)
          /\ enabled' \in BOOLEAN
      BY <1>2, <1>6
    <3>2. runtime' = [runtime EXCEPT ![p] = [running |-> no, in_tick |-> no, errors |-> count]]
      BY <2>2
    <3> HIDE DEF no, count
    <3>3. QED BY <1>1, <3>1, <3>2, CountersMove
  <2>4. SameErrors
    BY <1>2, <2>2 DEF SameErrors, TypeInv, RuntimeOK
  <2>5. <<"threw", "end">> \in Reasons
    BY ReasonForms DEF Labels
  <2>6. Becomes(t, "panic", "no", <<"threw", "end">>, tick[t].session)
    BY <1>1, <1>6, <2>5, ThrowBecomes
  <2>7. QED BY <1>1, <1>4, <2>3, <2>4, <2>5, <2>6 DEF Closing
<1>7. QED BY <1>1, <1>5, <1>6 DEF Finish, ErrorsAfter

\* What a key of the panic path does.
LEMMA PanicKeyForm ==
    ASSUME TypeInv, NEW t \in Ticks, Underway(t), NEW l \in Labels, NEW print \in Prints, NEW out \in Outs,
           PanicKey(t, l, print, out)
    PROVE  /\ JournalGrows(tick[t].session, {l}) /\ AtMostMishap
           /\ journal' # journal => RowOf(t, l) = NoRow /\ journal'[tick[t].session][l] # NoRow
           /\ journal' = journal => RowOf(t, l) # NoRow \/ mishaps' # 0
           /\ mishaps' # mishaps => mishaps' # 0
<1>1. AtMostMishap /\ (Mishap => mishaps' # 0) /\ (mishaps' = mishaps \/ Mishap)
  BY MishapsRise DEF PanicKey, ghosts
<1>2. CASE UNCHANGED journal
  <2>1. RowOf(t, l) # NoRow \/ mishaps' # 0
    <3>1. CASE RowOf(t, l) = NoRow /\ UNCHANGED ghosts
      <4> DEFINE r == [status |-> "done", print |-> print, out |-> out]
      <4>1. PutRow(t, l, r)
        <5>1. ~Mishap
          BY <3>1 DEF ghosts, TypeInv, ClockOK
        <5>2. QED BY <3>1, <5>1 DEF PanicKey
      <4>2. r \in Row
        BY DEF Row
      <4> HIDE DEF r
      <4>3. journal'[tick[t].session][l] = r /\ r # NoRow
        BY <4>1, <4>2, PutGrows, NullAssumption
      <4>4. QED BY <1>2, <3>1, <4>3 DEF RowOf
    <3>2. QED BY <1>1, <3>1 DEF PanicKey
  <2>2. QED BY <1>1, <1>2, <2>1, StayGrows
<1>3. ASSUME NEW r \in Row, RowOf(t, l) = NoRow, PutRow(t, l, r)
      PROVE  /\ JournalGrows(tick[t].session, {l}) /\ journal'[tick[t].session][l] # NoRow /\ journal' # journal
  <2>1. JournalGrows(tick[t].session, {l}) /\ journal'[tick[t].session][l] = r /\ r # NoRow
    BY <1>3, PutGrows, NullAssumption
  <2>2. QED BY <1>3, <2>1 DEF RowOf
<1>4. ASSUME NEW status \in {"done", "failed"}, NEW o \in {"none", out}
      PROVE  [status |-> status, print |-> print, out |-> o] \in Row
  BY <1>4 DEF Row, Outs
<1>5. CASE journal' # journal
  <2>1. PICK status \in {"done", "failed"}, o \in {"none", out} :
            RowOf(t, l) = NoRow /\ PutRow(t, l, [status |-> status, print |-> print, out |-> o])
    BY <1>5 DEF PanicKey
  <2>2. QED BY <1>1, <1>3, <1>4, <1>5, <2>1
<1>6. QED BY <1>2, <1>5

LEMMA PanicCloses ==
    ASSUME TypeInv, NEW t \in Ticks, Panic(t)
    PROVE  Underway(t) /\ Closing(t)
<1> DEFINE p == tick[t].proc
           running == runtime[p].running
           inTick == runtime[p].in_tick
           errors == runtime[p].errors + 1
           place == IF tick[t].session[1] = "attempt" THEN "panic_fail" ELSE "panic_incident"
<1>1. /\ Underway(t) /\ tick[t].at = "panic" /\ Go(t, place) /\ PanicKey(t, "end_error", tick[t].failure, "ended")
      /\ UNCHANGED <<bucket, tickLock, claimed, task, outcome, enabled>>
  BY DEF Panic, At
<1>2. p \in Procs /\ runtime[p] \in [running : BOOLEAN, in_tick : BOOLEAN, errors : Nat] /\ enabled \in BOOLEAN
      /\ tick[t].failure \in Reasons /\ tick[t].failure \in Prints
  BY <1>1, TickFields, ReasonForms DEF TypeInv, RuntimeOK
<1>3. /\ running \in BOOLEAN /\ inTick \in BOOLEAN /\ errors \in Nat
      /\ errors <= runtime[p].errors + 1 /\ (inTick => runtime[p].in_tick)
  BY <1>2
<1>4. runtime' = [runtime EXCEPT ![p] = [running |-> running, in_tick |-> inTick, errors |-> errors]]
  <2>1. runtime' = [runtime EXCEPT ![p].errors = @ + 1]
    BY DEF Panic
  <2>2. runtime' = [runtime EXCEPT ![p] = [runtime[p] EXCEPT !.errors = errors]]
    BY <2>1
  <2> HIDE DEF errors
  <2>3. QED BY <1>2, <1>3, <2>2, CountersParts DEF Counters
<1>5. enabled' \in BOOLEAN
  BY <1>1, <1>2
<1> HIDE DEF running, inTick, errors
<1>6. RuntimeOK' /\ \A q \in Procs : /\ runtime'[q].in_tick => runtime[q].in_tick
                                    /\ runtime'[q].errors <= runtime[q].errors + 1
  BY <1>1, <1>3, <1>4, <1>5, CountersMove
<1>7. tick[t].busy = "no" /\ place \in Places /\ "end_error" \in QuietKeys /\ "end_error" \in Labels /\ "ended" \in Outs
  BY <1>1 DEF TypeInv, KeysOK, BusyPlaces, Places, Labels, QuietKeys, Outs
<1>8. Becomes(t, place, "no", tick[t].failure, tick[t].session)
  <2> HIDE DEF place
  <2>1. QED BY <1>1, <1>7, GoBecomes
<1>9. JournalGrows(tick[t].session, QuietKeys) /\ AtMostMishap
  BY <1>1, <1>2, <1>7, PanicKeyForm, GrowsMore
<1>10. place \in {"panic_fail", "panic_incident"}
  OBVIOUS
<1>11. QED BY <1>1, <1>2, <1>6, <1>8, <1>9, <1>10 DEF Closing

LEMMA IncidentCloses ==
    ASSUME TypeInv, NEW t \in Ticks, PanicIncident(t)
    PROVE  Underway(t) /\ Closing(t)
<1> DEFINE p == tick[t].proc
           running == runtime[p].running
           inTick == runtime[p].in_tick
           errors == IF tick[t].timer THEN runtime[p].errors + 1 ELSE runtime[p].errors
<1>1. /\ Underway(t) /\ tick[t].at = "panic_incident" /\ AtMostMishap
      /\ UNCHANGED <<bucket, tickLock, claimed, task, outcome, enabled>>
  BY MishapsRise DEF PanicIncident, At
<1>2. p \in Procs /\ runtime[p] \in [running : BOOLEAN, in_tick : BOOLEAN, errors : Nat] /\ enabled \in BOOLEAN
      /\ tick[t].failure \in Reasons /\ tick[t].failure \in Prints /\ enabled' \in BOOLEAN
  BY <1>1, TickFields, ReasonForms DEF TypeInv, RuntimeOK
<1>3. /\ tick[t].busy = "no" /\ {"panic_pause", "release"} \subseteq Places
      /\ "incident" \in QuietKeys /\ "incident" \in Labels /\ "none" \in Outs
  BY <1>1 DEF TypeInv, KeysOK, BusyPlaces, Places, Labels, QuietKeys, Outs
<1>4. ASSUME NEW status \in {"done", "failed"},
             PutRow(t, "incident", [status |-> status, print |-> tick[t].failure, out |-> "none"])
      PROVE  JournalGrows(tick[t].session, QuietKeys)
  <2> DEFINE r == [status |-> status, print |-> tick[t].failure, out |-> "none"]
  <2>1. r \in Row
    BY <1>2, <1>3 DEF Row
  <2>2. PutRow(t, "incident", r)
    BY <1>4
  <2> HIDE DEF r
  <2>3. JournalGrows(tick[t].session, {"incident"})
    BY <1>1, <1>3, <2>1, <2>2, PutGrows
  <2>4. QED BY <1>3, <2>3, GrowsMore
<1>5. JournalGrows(tick[t].session, QuietKeys)
  BY <1>4, StayGrows DEF PanicIncident
<1>6. CASE Go(t, "panic_pause") /\ UNCHANGED runtime
  <2>1. Becomes(t, "panic_pause", "no", tick[t].failure, tick[t].session)
    BY <1>1, <1>3, <1>6, GoBecomes
  <2>2. RuntimeOK' /\ SameErrors /\ \A q \in Procs : /\ runtime'[q].in_tick => runtime[q].in_tick
                                                  /\ runtime'[q].errors <= runtime[q].errors + 1
    BY <1>2, <1>6 DEF TypeInv, RuntimeOK, SameErrors
  <2>3. QED BY <1>1, <1>2, <1>5, <2>1, <2>2 DEF Closing
<1>7. CASE CountRejection(t) /\ Go(t, "release")
  <2>1. Becomes(t, "release", "no", tick[t].failure, tick[t].session)
    BY <1>1, <1>3, <1>7, GoBecomes
  <2>2. runtime' = [runtime EXCEPT ![p].errors = errors]
    BY <1>7 DEF CountRejection
  <2>3. /\ running \in BOOLEAN /\ inTick \in BOOLEAN /\ errors \in Nat
        /\ errors <= runtime[p].errors + 1 /\ (inTick => runtime[p].in_tick)
    BY <1>2
  <2> HIDE DEF errors
  <2>4. runtime' = [runtime EXCEPT ![p] = [runtime[p] EXCEPT !.errors = errors]]
    BY <2>2
  <2>5. runtime' = [runtime EXCEPT ![p] = [running |-> running, in_tick |-> inTick, errors |-> errors]]
    BY <1>2, <2>3, <2>4, CountersParts DEF Counters
  <2> HIDE DEF running, inTick
  <2>6. RuntimeOK' /\ \A q \in Procs : /\ runtime'[q].in_tick => runtime[q].in_tick
                                      /\ runtime'[q].errors <= runtime[q].errors + 1
    BY <1>1, <1>2, <2>3, <2>5, CountersMove
  <2>7. QED BY <1>1, <1>2, <1>5, <2>1, <2>6 DEF Closing
<1>8. QED BY <1>1, <1>6, <1>7 DEF PanicIncident

LEMMA PauseCloses ==
    ASSUME TypeInv, NEW t \in Ticks, PanicPause(t)
    PROVE  Underway(t) /\ Closing(t)
<1> DEFINE p == tick[t].proc
           pause == runtime[p].errors >= MaxErrors
<1>1. /\ Underway(t) /\ tick[t].at = "panic_pause" /\ Go(t, "release") /\ AtMostMishap
      /\ UNCHANGED <<bucket, tickLock, storeVars>>
  BY MishapsRise DEF PanicPause, At
<1>2. p \in Procs /\ runtime[p] \in [running : BOOLEAN, in_tick : BOOLEAN, errors : Nat] /\ enabled \in BOOLEAN
      /\ tick[t].failure \in Reasons
  BY <1>1, TickFields DEF TypeInv, RuntimeOK
<1>3. enabled' \in BOOLEAN
  BY <1>2 DEF PanicPause
<1>4. PICK running \in BOOLEAN, inTick \in BOOLEAN, errors \in {runtime[p].errors, runtime[p].errors + 1} :
          /\ inTick => runtime[p].in_tick
          /\ runtime' = [runtime EXCEPT ![p] = [running |-> running, in_tick |-> inTick, errors |-> errors]]
  <2>1. ASSUME NEW running \in BOOLEAN, NEW inTick \in BOOLEAN, Set(p, running, inTick)
        PROVE  runtime' = [runtime EXCEPT ![p] = [running |-> running, in_tick |-> inTick, errors |-> runtime[p].errors]]
    <3>1. runtime' = [runtime EXCEPT ![p] = [runtime[p] EXCEPT !.running = running, !.in_tick = inTick]]
      BY <2>1 DEF Set
    <3>2. runtime[p] \in Counters
      BY <1>2 DEF Counters
    <3>3. QED BY <1>2, <2>1, <3>1, <3>2, CountersParts
  <2>2. CASE Set(p, runtime[p].running /\ ~pause, runtime[p].in_tick /\ ~pause)
    BY <1>2, <2>1, <2>2
  <2>3. CASE runtime' = [runtime EXCEPT ![p] = [running |-> FALSE, in_tick |-> FALSE,
                                              errors |-> IF tick[t].timer THEN @.errors + 1 ELSE @.errors]]
    <3> DEFINE errors == IF tick[t].timer THEN runtime[p].errors + 1 ELSE runtime[p].errors
    <3>1. runtime' = [runtime EXCEPT ![p] = [running |-> FALSE, in_tick |-> FALSE, errors |-> errors]]
      BY <2>3
    <3>2. errors \in {runtime[p].errors, runtime[p].errors + 1}
      OBVIOUS
    <3> HIDE DEF errors
    <3>3. QED BY <3>1, <3>2
  <2>4. QED BY <2>2, <2>3 DEF PanicPause
<1>5. errors \in Nat /\ errors <= runtime[p].errors + 1
  BY <1>2, <1>4
<1>6. RuntimeOK' /\ \A q \in Procs : /\ runtime'[q].in_tick => runtime[q].in_tick
                                    /\ runtime'[q].errors <= runtime[q].errors + 1
  BY <1>1, <1>3, <1>4, <1>5, CountersMove
<1>7. tick[t].busy = "no" /\ "release" \in Places
  BY <1>1 DEF TypeInv, KeysOK, BusyPlaces, Places
<1>8. Becomes(t, "release", "no", tick[t].failure, tick[t].session)
  BY <1>1, <1>7, GoBecomes
<1>9. JournalGrows(tick[t].session, QuietKeys) /\ UNCHANGED <<claimed, task, outcome>>
  BY <1>1, StayGrows DEF storeVars
<1>10. QED BY <1>1, <1>2, <1>6, <1>8, <1>9 DEF Closing

LEMMA PanicFailForm ==
    ASSUME TypeInv, NEW t \in Ticks, PanicFailTask(t)
    PROVE  Underway(t) /\ PanicFailEffect(t)
<1> DEFINE s == tick[t].session
<1>1. /\ Underway(t) /\ tick[t].at = "panic_fail" /\ Go(t, "panic_incident") /\ PanicKey(t, "panic_fail", Sound, "none")
      /\ UNCHANGED <<bucket, tickLock, claimed, runtime, enabled>>
  BY DEF PanicFailTask, At
<1>2. /\ tick[t].busy = "no" /\ "panic_incident" \in Places /\ "panic_fail" \in Labels
      /\ Sound \in Prints /\ "none" \in Outs
  BY <1>1, ReasonForms DEF TypeInv, KeysOK, BusyPlaces, Places, Labels, Outs
<1>3. Becomes(t, "panic_incident", "no", tick[t].failure, s)
  BY <1>1, <1>2, GoBecomes
<1>4. /\ JournalGrows(s, {"panic_fail"}) /\ AtMostMishap
      /\ journal' # journal => RowOf(t, "panic_fail") = NoRow /\ journal'[s]["panic_fail"] # NoRow
      /\ journal' = journal => RowOf(t, "panic_fail") # NoRow \/ mishaps' # 0
      /\ mishaps' # mishaps => mishaps' # 0
  BY <1>1, <1>2, PanicKeyForm
<1>5. Elsewhere
  BY <1>1, <1>4 DEF AtMostMishap, Elsewhere
<1>6. \/ journal' # journal /\ SettleTask("failed")
      \/ (journal' = journal \/ mishaps' # mishaps) /\ UNCHANGED <<task, outcome>>
  BY DEF PanicFailTask
<1>7. QED BY <1>1, <1>3, <1>4, <1>5, <1>6 DEF PanicFailEffect

\* The counters when the tick takes the lock or ends,
LEMMA InTickCounters ==
    ASSUME TypeInv, NEW t \in Ticks, Underway(t), UNCHANGED enabled, NEW inTick \in BOOLEAN,
           Set(tick[t].proc, runtime[tick[t].proc].running, inTick)
    PROVE  /\ RuntimeOK' /\ SameErrors /\ runtime'[tick[t].proc].in_tick = inTick
           /\ \A p \in Procs : p # tick[t].proc => runtime'[p] = runtime[p]
<1> DEFINE p == tick[t].proc
           c == runtime[p]
           d == [running |-> c.running, in_tick |-> inTick, errors |-> c.errors]
<1>1. p \in Procs /\ runtime \in [Procs -> Counters] /\ c \in Counters /\ enabled' \in BOOLEAN
  BY TickFields DEF TypeInv, RuntimeOK, Counters
<1>2. c.running \in BOOLEAN /\ c.errors \in Nat
  BY <1>1 DEF Counters
<1>3. runtime' = [runtime EXCEPT ![p] = [c EXCEPT !.running = c.running, !.in_tick = inTick]]
  BY DEF Set
<1>4. runtime' = [runtime EXCEPT ![p] = d]
  BY <1>1, <1>2, <1>3, CountersParts
<1>5. d \in Counters /\ d.errors = runtime[p].errors /\ d.in_tick = inTick
  BY <1>2 DEF Counters
<1> HIDE DEF d
<1>6. runtime' \in [Procs -> Counters] /\ runtime'[p] = d /\ \A q \in Procs : q # p => runtime'[q] = runtime[q]
  BY <1>1, <1>4, <1>5
<1>7. QED BY <1>1, <1>5, <1>6 DEF SameErrors, RuntimeOK, Counters

\* and when it rejects or skips.
LEMMA ErrorCounters ==
    ASSUME TypeInv, NEW t \in Ticks, Underway(t), UNCHANGED enabled,
           NEW errors \in Nat, errors <= runtime[tick[t].proc].errors + 1,
           runtime' = [runtime EXCEPT ![tick[t].proc].errors = errors]
    PROVE  /\ RuntimeOK' /\ \A p \in Procs : p # tick[t].proc => runtime'[p] = runtime[p]
           /\ \A p \in Procs : /\ runtime'[p].in_tick => runtime[p].in_tick
                               /\ runtime'[p].errors <= runtime[p].errors + 1
<1> DEFINE p == tick[t].proc
           c == runtime[p]
           d == [running |-> c.running, in_tick |-> c.in_tick, errors |-> errors]
<1>1. p \in Procs /\ runtime \in [Procs -> Counters] /\ c \in Counters /\ enabled' \in BOOLEAN
  BY TickFields DEF TypeInv, RuntimeOK, Counters
<1>2. c.running \in BOOLEAN /\ c.in_tick \in BOOLEAN /\ \A q \in Procs : runtime[q].errors \in Nat
  BY <1>1 DEF Counters
<1>3. runtime' = [runtime EXCEPT ![p] = [c EXCEPT !.errors = errors]]
  <2>1. runtime' = [runtime EXCEPT ![p].errors = errors]
    OBVIOUS
  <2> HIDE DEF p
  <2>2. QED BY <2>1
<1>4. runtime' = [runtime EXCEPT ![p] = d]
  <2>1. [c EXCEPT !.errors = errors] = d
    BY <1>1, <1>2, CountersParts
  <2> HIDE DEF c, d
  <2>2. QED BY <1>3, <2>1
<1>5. d \in Counters /\ d.errors <= runtime[p].errors + 1 /\ d.in_tick = runtime[p].in_tick
  BY <1>2 DEF Counters
<1> HIDE DEF d
<1>6. runtime' \in [Procs -> Counters] /\ runtime'[p] = d /\ \A q \in Procs : q # p => runtime'[q] = runtime[q]
  BY <1>1, <1>4, <1>5
<1>7. QED BY <1>1, <1>2, <1>5, <1>6 DEF RuntimeOK, Counters

\* Nothing but the lock, a tick and its counters changes.
LEMMA AcquireIsLockStep ==
    ASSUME TypeInv, NEW t \in Ticks, Underway(t), AcquireTickLock(t)
    PROVE  LockStep(t)
<1> DEFINE p == tick[t].proc
<1>1. tick[t].at \in Acquiring /\ UNCHANGED <<bucket, storeVars, enabled, budget, overran, calls>>
  BY DEF AcquireTickLock, ReadTickLock, OverlapSkip, InsertTickLock, StealTickLock, AcquireThrows, TakeOff,
         Rejects, At, ghosts
<1>2. /\ tick[t].busy = "no" /\ p \in Procs /\ runtime[p].errors \in Nat
      /\ {"insert", "steal", "claim"} \subseteq Places
  BY <1>1, TickFields DEF TypeInv, KeysOK, BusyPlaces, RuntimeOK, Places, Labels
<1>3. mishaps' \in 0 .. budget.mishaps /\ (mishaps' = 0 => mishaps = 0)
  <2>1. mishaps \in 0 .. budget.mishaps /\ budget.mishaps \in Nat
    BY BoundsAssumption DEF TypeInv, ClockOK
  <2>2. UNCHANGED mishaps \/ Mishap
    BY DEF AcquireTickLock, ReadTickLock, OverlapSkip, InsertTickLock, StealTickLock, AcquireThrows, TakeOff, ghosts
  <2>3. QED BY <2>1, <2>2
<1>4. raced \in BOOLEAN /\ belated \in BOOLEAN
  BY DEF TypeInv, ClockOK
<1>5. CASE ReadTickLock(t)
  <2>1. /\ UNCHANGED <<tickLock, runtime, belated>> /\ tick[t].at = "lock"
        /\ \E place \in {"insert", "steal"} : Go(t, place)
    BY <1>5 DEF ReadTickLock, At
  <2>2. raced' \in BOOLEAN /\ (~raced' => ~raced)
    BY <1>5, Zenon DEF ReadTickLock
  <2>3. Looks(t)
    BY <1>2, <2>1, GoBecomes DEF Looks
  <2>4. RuntimeOK' /\ \A q \in Procs : runtime'[q] = runtime[q]
    BY <1>1, <2>1 DEF TypeInv, RuntimeOK
  <2>5. QED BY <1>1, <1>3, <1>4, <2>1, <2>2, <2>3, <2>4 DEF LockStep
<1>6. ASSUME TakeOff(t), tickLock' = Taken(t) \/ (tickLock = Free /\ UNCHANGED tickLock) PROVE LockStep(t)
  <2>1. Set(p, runtime[p].running, TRUE) /\ Go(t, "claim") /\ UNCHANGED raced
    BY <1>6 DEF TakeOff
  <2>2. /\ RuntimeOK' /\ SameErrors /\ \A q \in Procs : q # p => runtime'[q] = runtime[q]
    BY <1>1, <2>1, InTickCounters
  <2>3. belated' \in BOOLEAN /\ (~belated' => ~belated /\ tick[t].bucket = bucket)
    BY <1>6, Zenon DEF TakeOff
  <2>4. Becomes(t, "claim", "no", tick[t].failure, tick[t].session)
    BY <1>2, <2>1, GoBecomes
  <2>5. Takes(t)
    BY <1>1, <1>6, <2>2, <2>3, <2>4 DEF Takes
  <2>6. QED BY <1>1, <1>3, <1>4, <2>1, <2>2, <2>3, <2>5 DEF LockStep
<1>7. ASSUME NEW errors \in Nat, errors <= runtime[p].errors + 1, runtime' = [runtime EXCEPT ![p].errors = errors],
             \/ tick' = [tick EXCEPT ![t] = Ended] /\ UNCHANGED tickLock
             \/ tick' = [tick EXCEPT ![t] = Stuck] /\ (UNCHANGED tickLock \/ tickLock' = Taken(t)),
             UNCHANGED <<raced, belated>>
      PROVE  LockStep(t)
  <2>1. /\ RuntimeOK' /\ \A q \in Procs : q # p => runtime'[q] = runtime[q]
        /\ \A q \in Procs : /\ runtime'[q].in_tick => runtime[q].in_tick
                            /\ runtime'[q].errors <= runtime[q].errors + 1
    BY <1>1, <1>7, ErrorCounters
  <2>2. Quits(t)
    BY <1>1, <1>7, <2>1 DEF Quits
  <2>3. QED BY <1>1, <1>3, <1>4, <1>7, <2>1, <2>2 DEF LockStep
<1>8. CASE OverlapSkip(t)
  <2>1. /\ tick' = [tick EXCEPT ![t] = Ended] /\ runtime' = [runtime EXCEPT ![p].errors = 0]
        /\ UNCHANGED <<tickLock, raced, belated>>
    BY <1>8 DEF OverlapSkip, ghosts
  <2>2. 0 \in Nat /\ 0 <= runtime[p].errors + 1
    BY <1>2
  <2>3. QED BY <1>7, <2>1, <2>2
<1>9. ASSUME NEW last, Rejects(t, last)
      PROVE  /\ tick' = [tick EXCEPT ![t] = last]
             /\ \E errors \in Nat : errors <= runtime[p].errors + 1 /\ runtime' = [runtime EXCEPT ![p].errors = errors]
  <2> DEFINE errors == IF tick[t].timer THEN runtime[p].errors + 1 ELSE runtime[p].errors
  <2>1. errors \in Nat /\ errors <= runtime[p].errors + 1
    BY <1>2
  <2>2. tick' = [tick EXCEPT ![t] = last] /\ runtime' = [runtime EXCEPT ![p].errors = errors]
    BY <1>9 DEF Rejects, CountRejection
  <2> HIDE DEF errors
  <2>3. QED BY <2>1, <2>2
<1>10. CASE InsertTickLock(t) /\ tickLock = Free
  BY <1>6, <1>10 DEF InsertTickLock, Taken
<1>11. CASE InsertTickLock(t) /\ tickLock # Free
  <2>1. Rejects(t, Ended) /\ UNCHANGED <<tickLock, raced, belated>>
    BY <1>11 DEF InsertTickLock, ghosts
  <2>2. QED BY <1>7, <1>9, <2>1
<1>12. CASE StealTickLock(t)
  BY <1>6, <1>12 DEF StealTickLock, Taken
<1>13. CASE AcquireThrows(t)
  <2>1. Rejects(t, Stuck) /\ UNCHANGED <<raced, belated>> /\ (UNCHANGED tickLock \/ tickLock' = Taken(t))
    BY <1>13 DEF AcquireThrows, Taken
  <2>2. QED BY <1>7, <1>9, <2>1
<1>14. QED BY <1>5, <1>8, <1>10, <1>11, <1>12, <1>13 DEF AcquireTickLock

LEMMA ReleaseIsLockStep ==
    ASSUME TypeInv, NEW t \in Ticks, Release(t)
    PROVE  LockStep(t)
<1> DEFINE p == tick[t].proc
<1>1. Underway(t) /\ tick[t].at = "release" /\ UNCHANGED <<bucket, storeVars, enabled, budget, overran, raced, belated, calls>>
  BY DEF Release, Ends, At, ghosts
<1>2. mishaps' \in 0 .. budget.mishaps /\ (mishaps' = 0 => mishaps = 0)
  <2>1. mishaps \in 0 .. budget.mishaps /\ budget.mishaps \in Nat
    BY BoundsAssumption DEF TypeInv, ClockOK
  <2>2. UNCHANGED mishaps \/ Mishap
    BY DEF Release, ghosts
  <2>3. QED BY <2>1, <2>2
<1>3. raced \in BOOLEAN /\ belated \in BOOLEAN
  BY DEF TypeInv, ClockOK
<1>4. CASE tick' = [tick EXCEPT ![t].busy = "work"] /\ UNCHANGED <<tickLock, runtime>>
  <2>1. Looks(t)
    BY <1>1, <1>4, BusyBecomes DEF Looks
  <2>2. RuntimeOK'
    BY <1>1, <1>4 DEF TypeInv, RuntimeOK
  <2>3. QED BY <1>1, <1>2, <1>3, <1>4, <2>1, <2>2 DEF LockStep
<1>5. ASSUME NEW last, Ends(t, last),
             \/ last = Ended /\ (tickLock' = Free \/ (UNCHANGED tickLock /\ (tickLock = Free \/ tickLock.owner # t)))
             \/ last = Stuck /\ UNCHANGED tickLock
      PROVE  LockStep(t)
  <2>1. Set(p, runtime[p].running, FALSE) /\ tick' = [tick EXCEPT ![t] = last]
    BY <1>5 DEF Ends
  <2>2. /\ RuntimeOK' /\ SameErrors /\ ~runtime'[p].in_tick
        /\ \A q \in Procs : q # p => runtime'[q] = runtime[q]
    BY <1>1, <2>1, InTickCounters
  <2>3. Leaves(t)
    BY <1>1, <1>5, <2>1, <2>2 DEF Leaves
  <2>4. QED BY <1>1, <1>2, <1>3, <2>2, <2>3 DEF LockStep
<1>6. QED BY <1>4, <1>5 DEF Release

\* Completing or failing the task, from beginMutation to completeMutation.
SettleEffect(t, l, status) ==
    BeginEffect(t, l) \/ SettleWork(t, l, status) \/ SettleRecord(t, l) \/ SettleSkip(t, l)

\* All that a tick can do.
TickEffect(t) ==
    \/ LockStep(t)
    \/ Quiet(t) \/ ClaimEffect(t) \/ ClaimedEffect(t)
    \/ KeyedEffect(t, "verify", tick[t].failure, "mentor") \/ KeyedEffect(t, "end", Ending(t), "finish")
    \/ ChooseEffect(t) \/ SettleEffect(t, "complete", "completed") \/ SettleEffect(t, "fail", "failed")
    \/ Closing(t) \/ PanicFailEffect(t)

LEMMA TickForms ==
    ASSUME TypeInv, NEW t \in Ticks, RunAutopilotTick(t)
    PROVE  Underway(t) /\ TickEffect(t)
<1>1. Underway(t) /\ tick[t].failure \in Prints
  BY TickFields, ReasonForms DEF RunAutopilotTick
<1>2. CASE VerifyFinalize(t)
  <2>1. "verify" \in Labels \ BusyPlaces /\ "mentor" \in Places /\ {"none"} \subseteq Outs
    BY DEF Labels, BusyPlaces, Places, Outs
  <2>2. KeyedEffect(t, "verify", tick[t].failure, "mentor")
    BY <1>1, <1>2, <2>1, KeyedForm DEF VerifyFinalize
  <2>3. QED BY <1>1, <2>2 DEF TickEffect
<1>3. CASE RunEnd(t)
  <2>1. "end" \in Labels \ BusyPlaces /\ "finish" \in Places /\ {"ended"} \subseteq Outs
    BY DEF Labels, BusyPlaces, Places, Outs
  <2>2. Ending(t) \in Prints
    BY ReasonForms DEF Ending
  <2>3. KeyedEffect(t, "end", Ending(t), "finish")
    BY <1>1, <1>3, <2>1, <2>2, KeyedForm DEF RunEnd
  <2>4. QED BY <1>1, <2>3 DEF TickEffect
<1>4. CASE CompleteTask(t) \/ FailTask(t)
  BY <1>1, <1>4, SettleForms DEF CompleteTask, FailTask, TickEffect, SettleEffect
<1>5. CASE \/ RunBegin(t) \/ GoalIntake(t) \/ SafetyGate(t) \/ Mentorship(t)
           \/ Governance(t) \/ OpenIncident(t) \/ Council(t) \/ Execution(t)
  BY <1>1, <1>5, RecordsAreQuiet, EpilogueIsQuiet, CouncilIsQuiet, ExecutionIsQuiet DEF Execution, TickEffect
<1>6. CASE GoalClaim(t) \/ ChooseSettlement(t) \/ PanicFailTask(t)
  BY <1>1, <1>6, ClaimForms, ChooseForm, PanicFailForm DEF TickEffect
<1>7. CASE Finish(t) \/ Panic(t) \/ PanicIncident(t) \/ PanicPause(t)
  BY <1>1, <1>7, FinishCloses, PanicCloses, IncidentCloses, PauseCloses DEF TickEffect
<1>8. CASE AcquireTickLock(t) \/ Release(t)
  BY <1>1, <1>8, AcquireIsLockStep, ReleaseIsLockStep DEF TickEffect
<1>9. QED BY <1>2, <1>3, <1>4, <1>5, <1>6, <1>7, <1>8 DEF RunAutopilotTick

\* A statement fails: the row of the key is failed, and the tick throws.
FailsEffect(t) ==
    /\ Underway(t) /\ tick[t].at \in {"claim", "command", "complete", "fail"} /\ RowOf(t, tick[t].at) # NoRow
    /\ \E reason \in Reasons : Becomes(t, "panic", "no", reason, tick[t].session)
    /\ JournalGrows(tick[t].session, {tick[t].at})
    /\ journal'[tick[t].session][tick[t].at].status = "failed"
    /\ Elsewhere /\ mishaps' # 0 /\ UNCHANGED <<claimed, task, outcome>>

LEMMA FailsForm ==
    ASSUME TypeInv, NEW t \in Ticks, StatementFails(t)
    PROVE  FailsEffect(t)
<1> DEFINE l == tick[t].at
           r == [RowOf(t, l) EXCEPT !.status = "failed"]
<1>1. /\ Underway(t) /\ tick[t].busy # "no" /\ l \notin {"ask", "release"} /\ PutRow(t, l, r) /\ Throw(t, <<"threw", l>>)
      /\ Mishap /\ UNCHANGED <<bucket, tickLock, claimed, task, outcome, runtime, enabled>>
  BY DEF StatementFails
<1>2. RowOf(t, l) # NoRow /\ l \in BusyPlaces
  BY <1>1 DEF TypeInv, KeysOK
<1>3. l \in {"claim", "command", "complete", "fail"} /\ l \in Labels
  BY <1>1, <1>2 DEF BusyPlaces, Labels
<1>4. RowOf(t, l) \in Row
  BY <1>1, <1>2, <1>3, RowIsRow
<1>5. r \in Row /\ r.status = "failed"
  BY <1>4 DEF Row
<1>6. <<"threw", l>> \in Reasons
  BY <1>3, ReasonForms
<1>7. AtMostMishap /\ mishaps' # 0
  BY <1>1, MishapsRise
<1>8. Elsewhere /\ mishaps' # 0
  BY <1>1, <1>7 DEF AtMostMishap, Elsewhere
<1> HIDE DEF l, r
<1>9. JournalGrows(tick[t].session, {l}) /\ journal'[tick[t].session][l] = r
  BY <1>1, <1>3, <1>5, PutGrows
<1>10. Becomes(t, "panic", "no", <<"threw", l>>, tick[t].session)
  BY <1>1, <1>6, ThrowBecomes
<1>11. QED BY <1>1, <1>2, <1>3, <1>5, <1>6, <1>8, <1>9, <1>10 DEF l, FailsEffect

-----------------------------------------------------------------------------
(* Types are kept *)

LEMMA SettleTaskOK ==
    ASSUME TaskOK, NEW status \in {"completed", "failed"}, SettleTask(status), UNCHANGED claimed
    PROVE  TaskOK'
<1>1. CASE task.status = "running"
  <2>1. task' = [task EXCEPT !.status = status] /\ outcome' = [outcome EXCEPT ![task.attempts] = status]
    BY <1>1 DEF SettleTask
  <2>2. task.attempts \in 1 .. MaxAttempts
    BY <1>1, BoundsAssumption DEF TaskOK, AttemptsLeft
  <2>3. task'.status = status /\ task' \in [status : {"pending", "running", "completed", "failed"}, attempts : 0 .. MaxAttempts]
    BY <2>1 DEF TaskOK
  <2>4. outcome' \in [1 .. MaxAttempts -> {"none", "completed", "failed"}]
    BY <2>1, <2>2 DEF TaskOK
  <2>5. QED BY <2>3, <2>4 DEF TaskOK, AttemptsLeft
<1>2. CASE task.status # "running"
  BY <1>2 DEF SettleTask, TaskOK, AttemptsLeft
<1>3. QED BY <1>1, <1>2

LEMMA TaskStaysOK ==
    ASSUME TypeInv, UNCHANGED <<claimed, task, outcome>>
    PROVE  TaskOK'
BY DEF TypeInv, TaskOK, AttemptsLeft

\* Ticks that are not under way any more take nothing with them.
LEMMA FewerTicksKeepKeys ==
    ASSUME TypeInv, UNCHANGED journal, TickOK',
           \A u \in Ticks : Underway(u)' => Underway(u) /\ tick'[u] = tick[u]
    PROVE  KeysOK' /\ JournalOK'
BY DEF TypeInv, KeysOK, RowOf, JournalOK

\* A step about the lock.
LEMMA LockKeepsTypes ==
    ASSUME TypeInv, NEW t \in Ticks, Underway(t), LockStep(t)
    PROVE  TypeInv'
<1>1. UNCHANGED <<bucket, journal, claimed, task, outcome, enabled, budget, overran, calls>> /\ RuntimeOK'
  BY DEF LockStep, storeVars
<1>2. TaskOK'
  BY <1>1, TaskStaysOK
<1>3. tickLock' \in [owner : Ticks, expired : BOOLEAN] \/ tickLock' = Free \/ tickLock' = tickLock
  <2>1. Taken(t) \in [owner : Ticks, expired : BOOLEAN]
    BY DEF Taken
  <2>2. QED BY <2>1 DEF LockStep, Looks, Takes, Quits, Leaves
<1>4. ClockOK'
  BY <1>1, <1>3 DEF LockStep, TypeInv, ClockOK
<1>5. ASSUME NEW place, NEW busy, Becomes(t, place, busy, tick[t].failure, tick[t].session),
             busy # "no" => place = "release", place = "release" \/ tick[t].at \in Acquiring
      PROVE  TypeInv'
  <2>1. JournalGrows(tick[t].session, {})
    BY <1>1, StayGrows
  <2>2. place \in Acquiring \cup {"claim"} => tick[t].session = <<"heartbeat", tick[t].bucket>>
    BY <1>5 DEF TypeInv, KeysOK
  <2>3. TickOK' /\ JournalOK' /\ KeysOK'
    BY <1>5, <2>1, <2>2, MoveKeepsKeys
  <2>4. QED BY <1>1, <1>2, <1>4, <2>3 DEF TypeInv
<1>6. CASE Looks(t) \/ Takes(t)
  BY <1>5, <1>6 DEF Looks, Takes
<1>7. ASSUME NEW last \in {Ended, Stuck}, tick' = [tick EXCEPT ![t] = last] PROVE TypeInv'
  <2>1. TickOK'
    BY <1>7 DEF TypeInv, TickOK
  <2>2. \A u \in Ticks : Underway(u)' => Underway(u) /\ tick'[u] = tick[u]
    BY <1>7 DEF TypeInv, TickOK, Underway
  <2>3. KeysOK' /\ JournalOK'
    BY <1>1, <2>1, <2>2, FewerTicksKeepKeys
  <2>4. QED BY <1>1, <1>2, <1>4, <2>1, <2>3 DEF TypeInv
<1>8. CASE Quits(t) \/ Leaves(t)
  BY <1>7, <1>8 DEF Quits, Leaves
<1>9. QED BY <1>6, <1>8 DEF LockStep

\* A tick that moves and leaves all but the journal alone.
LEMMA MoveKeepsTypes ==
    ASSUME TypeInv, NEW t \in Ticks, Underway(t), NEW place, NEW busy, NEW failure, NEW session,
           Becomes(t, place, busy, failure, session), NEW s, NEW L, JournalGrows(s, L),
           busy # "no" => journal'[session][place] # NoRow /\ place \in BusyPlaces,
           place \in Acquiring \cup {"claim"} => session = <<"heartbeat", tick[t].bucket>>,
           Elsewhere, TaskOK'
    PROVE  TypeInv'
BY MoveKeepsKeys, ElsewhereOK DEF TypeInv

LEMMA QuietKeepsTypes ==
    ASSUME TypeInv, NEW t \in Ticks, Quiet(t)
    PROVE  TypeInv'
<1>1. PICK place \in QuietTo, busy \in {"no", "work", "record"}, failure \in Reasons :
          /\ Becomes(t, place, busy, failure, tick[t].session)
          /\ busy # "no" => journal'[tick[t].session][place] # NoRow /\ place \in BusyPlaces
          /\ place = "claim" => tick[t].at = "claim" /\ busy # "record"
  BY DEF Quiet
<1>2. Underway(t) /\ JournalGrows(tick[t].session, QuietKeys) /\ Elsewhere /\ TaskOK'
  BY TaskStaysOK DEF Quiet
<1>3. place \in Acquiring \cup {"claim"} => tick[t].session = <<"heartbeat", tick[t].bucket>>
  BY <1>1, <1>2 DEF QuietTo, TypeInv, KeysOK
<1>4. QED BY <1>1, <1>2, <1>3, MoveKeepsTypes

LEMMA ClaimKeepsTypes ==
    ASSUME TypeInv, NEW t \in Ticks, Underway(t), ClaimEffect(t)
    PROVE  TypeInv'
<1>1. /\ tick[t].at = "claim" /\ tick[t].busy = "work" /\ UNCHANGED <<journal, outcome, elsewhere>>
      /\ Becomes(t, "claim", "record", tick[t].failure, tick[t].session)
  BY DEF ClaimEffect
<1>2. tick[t].bucket \in 0 .. MaxBucket
  BY TickFields
<1>3. TaskOK'
  <2>1. CASE task.status = "pending"
    <3>1. /\ task' = [status |-> "running", attempts |-> task.attempts + 1]
          /\ claimed' = [claimed EXCEPT ![tick[t].bucket] = task.attempts + 1]
      BY <2>1 DEF ClaimEffect
    <3>2. task.attempts + 1 \in 1 .. MaxAttempts
      BY <2>1, BoundsAssumption DEF TypeInv, TaskOK, AttemptsLeft
    <3>3. QED BY <1>1, <1>2, <3>1, <3>2 DEF TypeInv, TaskOK, AttemptsLeft
  <2>2. CASE task.status # "pending"
    BY <1>1, <2>2, TaskStaysOK DEF ClaimEffect
  <2>3. QED BY <2>1, <2>2
<1>4. RowOf(t, "claim") # NoRow /\ tick[t].session = <<"heartbeat", tick[t].bucket>> /\ "claim" \in BusyPlaces
  BY <1>1 DEF TypeInv, KeysOK
<1>5. QED BY <1>1, <1>3, <1>4, StayGrows, ElsewhereStays, MoveKeepsTypes DEF RowOf

LEMMA ClaimedKeepsTypes ==
    ASSUME TypeInv, NEW t \in Ticks, Underway(t), ClaimedEffect(t)
    PROVE  TypeInv'
<1>1. UNCHANGED <<claimed, task, outcome, elsewhere>> /\ JournalGrows(tick[t].session, {"claim"})
  BY DEF ClaimedEffect
<1>2. PICK session : Becomes(t, "begin", "no", tick[t].failure, session)
  BY DEF ClaimedEffect
<1>3. QED BY <1>1, <1>2, TaskStaysOK, ElsewhereStays, MoveKeepsTypes

LEMMA KeyedKeepsTypes ==
    ASSUME TypeInv, NEW t \in Ticks, Underway(t), NEW l, NEW print, NEW place \in {"mentor", "finish"},
           KeyedEffect(t, l, print, place)
    PROVE  TypeInv'
<1>1. JournalGrows(tick[t].session, {l}) /\ Elsewhere /\ TaskOK'
  BY TaskStaysOK DEF KeyedEffect
<1>2. PICK to \in {place, "panic"}, failure \in Reasons : Becomes(t, to, "no", failure, tick[t].session)
  BY TickFields DEF KeyedEffect
<1>3. QED BY <1>1, <1>2, MoveKeepsTypes

LEMMA ChooseKeepsTypes ==
    ASSUME TypeInv, NEW t \in Ticks, Underway(t), ChooseEffect(t)
    PROVE  TypeInv'
<1>1. PICK place \in {"end", "complete", "fail"} : Becomes(t, place, "no", tick[t].failure, tick[t].session)
  BY DEF ChooseEffect
<1>2. UNCHANGED <<journal, claimed, task, outcome, elsewhere>>
  BY DEF ChooseEffect, storeVars
<1>3. QED BY <1>1, <1>2, StayGrows, TaskStaysOK, ElsewhereStays, MoveKeepsTypes

LEMMA SettleKeepsTypes ==
    ASSUME TypeInv, NEW t \in Ticks, Underway(t), NEW l \in {"complete", "fail"},
           NEW status \in {"completed", "failed"}, SettleEffect(t, l, status)
    PROVE  TypeInv'
<1>1. l \in BusyPlaces
  BY DEF BusyPlaces
<1>2. CASE BeginEffect(t, l)
  <2>1. JournalGrows(tick[t].session, {l}) /\ Elsewhere /\ TaskOK'
    BY <1>2, TaskStaysOK DEF BeginEffect
  <2>2. CASE /\ Becomes(t, l, "work", tick[t].failure, tick[t].session)
             /\ journal'[tick[t].session][l] # NoRow
    BY <1>1, <2>1, <2>2, MoveKeepsTypes
  <2>3. CASE \E reason \in Reasons : Becomes(t, "panic", "no", reason, tick[t].session)
    BY <2>1, <2>3, MoveKeepsTypes
  <2>4. QED BY <1>2, <2>2, <2>3 DEF BeginEffect
<1>3. CASE SettleWork(t, l, status)
  <2>1. /\ tick[t].at = l /\ tick[t].busy = "work" /\ UNCHANGED <<journal, claimed, elsewhere>>
        /\ Becomes(t, l, "record", tick[t].failure, tick[t].session) /\ SettleTask(status)
    BY <1>3 DEF SettleWork
  <2>2. TaskOK' /\ Elsewhere /\ JournalGrows(tick[t].session, {})
    BY <2>1, SettleTaskOK, ElsewhereStays, StayGrows DEF TypeInv
  <2>3. journal'[tick[t].session][l] # NoRow
    BY <2>1 DEF TypeInv, KeysOK, RowOf
  <2>4. QED BY <1>1, <2>1, <2>2, <2>3, MoveKeepsTypes
<1>4. CASE SettleRecord(t, l) \/ SettleSkip(t, l)
  <2>1. /\ Becomes(t, "end", "no", tick[t].failure, tick[t].session)
        /\ UNCHANGED <<claimed, task, outcome, elsewhere>>
        /\ JournalGrows(tick[t].session, {l}) \/ UNCHANGED journal
    BY <1>4 DEF SettleRecord, SettleSkip, storeVars
  <2>2. JournalGrows(tick[t].session, {l}) /\ TaskOK' /\ Elsewhere
    BY <2>1, StayGrows, TaskStaysOK, ElsewhereStays
  <2>3. QED BY <2>1, <2>2, MoveKeepsTypes
<1>5. QED BY <1>2, <1>3, <1>4 DEF SettleEffect

LEMMA ClosingKeepsTypes ==
    ASSUME TypeInv, NEW t \in Ticks, Underway(t), Closing(t)
    PROVE  TypeInv'
<1>1. PICK place \in {"panic", "panic_fail", "panic_incident", "panic_pause", "release"}, failure \in Reasons :
          Becomes(t, place, "no", failure, tick[t].session)
  BY DEF Closing
<1>2. JournalGrows(tick[t].session, QuietKeys) /\ TaskOK' /\ RuntimeOK'
  BY TaskStaysOK DEF Closing
<1>3. ClockOK'
  BY DEF Closing, AtMostMishap, TypeInv, ClockOK
<1>4. TickOK' /\ JournalOK' /\ KeysOK'
  BY <1>1, <1>2, MoveKeepsKeys
<1>5. QED BY <1>2, <1>3, <1>4 DEF TypeInv

LEMMA PanicFailKeepsTypes ==
    ASSUME TypeInv, NEW t \in Ticks, Underway(t), PanicFailEffect(t)
    PROVE  TypeInv'
<1>1. /\ Becomes(t, "panic_incident", "no", tick[t].failure, tick[t].session)
      /\ JournalGrows(tick[t].session, {"panic_fail"}) /\ UNCHANGED claimed /\ Elsewhere
      /\ SettleTask("failed") \/ UNCHANGED <<task, outcome>>
  BY DEF PanicFailEffect
<1>2. TaskOK'
  BY <1>1, SettleTaskOK, TaskStaysOK DEF TypeInv
<1>3. QED BY <1>1, <1>2, MoveKeepsTypes

LEMMA FailsKeepsTypes ==
    ASSUME TypeInv, NEW t \in Ticks, FailsEffect(t)
    PROVE  TypeInv'
<1>1. PICK reason : Becomes(t, "panic", "no", reason, tick[t].session)
  BY DEF FailsEffect
<1>2. Underway(t) /\ JournalGrows(tick[t].session, {tick[t].at}) /\ Elsewhere /\ TaskOK'
  BY TaskStaysOK DEF FailsEffect
<1>3. QED BY <1>1, <1>2, MoveKeepsTypes

LEMMA TickKeepsTypes ==
    ASSUME TypeInv, NEW t \in Ticks, RunAutopilotTick(t)
    PROVE  TypeInv'
<1>1. Underway(t) /\ TickEffect(t)
  BY TickForms
<1>2. QED BY <1>1, LockKeepsTypes, QuietKeepsTypes, ClaimKeepsTypes, ClaimedKeepsTypes, KeyedKeepsTypes,
          ChooseKeepsTypes, SettleKeepsTypes, ClosingKeepsTypes, PanicFailKeepsTypes DEF TickEffect

-----------------------------------------------------------------------------
(* Calls, clocks, crashes *)

\* A fresh tick of the current bucket waits for the lock.
Starts(t, p) ==
    /\ tick[t] = NoTick /\ tick' \in [Ticks -> Tick \cup {NoTick, Ended, Stuck, Died}] /\ tick'[t] \in Tick
    /\ \A u \in Ticks : u # t => tick'[u] = tick[u]
    /\ tick'[t].proc = p /\ tick'[t].at = "lock" /\ tick'[t].busy = "no"
    /\ tick'[t].bucket = bucket /\ tick'[t].session = <<"heartbeat", bucket>>

LEMMA NewTickStarts ==
    ASSUME TypeInv, NEW p \in Procs, NEW timer \in BOOLEAN, NEW strict \in BOOLEAN, NewTick(p, timer, strict)
    PROVE  \E t \in Ticks : Starts(t, p)
<1> DEFINE fresh == {u \in Ticks : tick[u] = NoTick}
           t == CHOOSE u \in fresh : TRUE
           new == [proc |-> p, timer |-> timer, strict |-> strict, bucket |-> bucket,
                   session |-> <<"heartbeat", bucket>>, at |-> "lock", busy |-> "no",
                   quorum |-> FALSE, failure |-> Sound, braked |-> FALSE]
<1>1. fresh # {} /\ tick' = [tick EXCEPT ![t] = new]
  BY DEF NewTick
<1>2. t \in Ticks /\ tick[t] = NoTick
  BY <1>1
<1>3. bucket \in 0 .. MaxBucket
  BY BoundsAssumption DEF TypeInv, ClockOK
<1>4. <<"heartbeat", bucket>> \in Sessions /\ Sound \in Reasons /\ "lock" \in Places
  BY <1>3, SessionForms, ReasonForms DEF Places
<1>5. new \in Tick
  BY <1>3, <1>4 DEF Tick
<1>6. /\ new.proc = p /\ new.at = "lock" /\ new.busy = "no" /\ new.bucket = bucket
      /\ new.session = <<"heartbeat", bucket>>
  OBVIOUS
<1> HIDE DEF new, t
<1>7. Starts(t, p)
  BY <1>1, <1>2, <1>5, <1>6 DEF Starts, TypeInv, TickOK
<1>8. QED BY <1>2, <1>7

\* A process starts a tick, or changes its settings alone.
CallEffect(p) ==
    /\ UNCHANGED <<bucket, tickLock, journal, claimed, task, outcome, budget, overran, raced, belated, mishaps>>
    /\ calls' \in 0 .. budget.calls /\ RuntimeOK'
    /\ \A q \in Procs : runtime'[q].errors = runtime[q].errors /\ (runtime'[q].in_tick => runtime[q].in_tick)
    /\ UNCHANGED tick \/ \E t \in Ticks : Starts(t, p)

LEMMA CallForm ==
    ASSUME TypeInv, NEW p \in Procs, TrichatAutopilotControl(p) \/ TimerFires(p)
    PROVE  CallEffect(p)
<1>1. runtime \in [Procs -> Counters] /\ enabled \in BOOLEAN /\ calls \in 0 .. budget.calls /\ budget.calls \in Nat
  BY BoundsAssumption DEF TypeInv, RuntimeOK, ClockOK, Counters
<1>2. UNCHANGED <<bucket, tickLock, storeVars, budget, overran, raced, belated, mishaps>>
  <2>1. CASE Start(p) \/ Stop(p)
    BY <2>1 DEF Start, Stop
  <2>2. CASE RunOnce(p) \/ TimerFires(p)
    BY <2>2 DEF RunOnce, TimerFires, ghosts
  <2>3. QED BY <2>1, <2>2 DEF TrichatAutopilotControl
<1>3. calls' \in 0 .. budget.calls
  <2>1. CASE Start(p) \/ Stop(p) \/ RunOnce(p)
    <3>1. calls < budget.calls /\ calls' = calls + 1
      BY <2>1 DEF Start, Stop, RunOnce
    <3>2. QED BY <1>1, <3>1
  <2>2. CASE TimerFires(p)
    BY <1>1, <2>2 DEF TimerFires, ghosts
  <2>3. QED BY <2>1, <2>2 DEF TrichatAutopilotControl
<1>4. UNCHANGED tick \/ \E timer \in BOOLEAN, strict \in BOOLEAN : NewTick(p, timer, strict)
  BY DEF TrichatAutopilotControl, Start, Stop, RunOnce, TimerFires
<1>5. UNCHANGED tick \/ \E t \in Ticks : Starts(t, p)
  BY <1>4, NewTickStarts
<1>6. enabled' \in BOOLEAN /\ (UNCHANGED runtime \/ \E running \in BOOLEAN : Set(p, running, FALSE))
  BY <1>1 DEF TrichatAutopilotControl, Start, Stop, RunOnce, TimerFires, StartAutopilotDaemon, StopAutopilotDaemon
<1>7. RuntimeOK' /\ \A q \in Procs : runtime'[q].errors = runtime[q].errors /\ (runtime'[q].in_tick => runtime[q].in_tick)
  <2>1. CASE UNCHANGED runtime
    BY <1>1, <1>6, <2>1 DEF RuntimeOK, Counters
  <2>2. ASSUME NEW running \in BOOLEAN, Set(p, running, FALSE)
        PROVE  RuntimeOK' /\ \A q \in Procs : runtime'[q].errors = runtime[q].errors /\ (runtime'[q].in_tick => runtime[q].in_tick)
    <3> DEFINE c == [running |-> running, in_tick |-> FALSE, errors |-> runtime[p].errors]
    <3>1. runtime[p] \in Counters
      BY <1>1
    <3>2. runtime[p].errors \in Nat
      BY <3>1 DEF Counters
    <3>3. [runtime[p] EXCEPT !.running = running, !.in_tick = FALSE] = c
      BY <3>1, <3>2, CountersParts
    <3>4. runtime' = [runtime EXCEPT ![p] = c]
      BY <2>2, <3>3 DEF Set
    <3>5. c \in Counters /\ c.errors = runtime[p].errors /\ ~c.in_tick
      BY <3>2 DEF Counters
    <3> HIDE DEF c
    <3>6. runtime' \in [Procs -> Counters] /\ runtime'[p] = c /\ \A q \in Procs : q # p => runtime'[q] = runtime[q]
      BY <1>1, <3>4, <3>5
    <3>7. RuntimeOK'
      BY <1>6, <3>6 DEF RuntimeOK, Counters
    <3>8. QED BY <3>5, <3>6, <3>7
  <2>3. QED BY <1>6, <2>1, <2>2
<1>8. QED BY <1>2, <1>3, <1>5, <1>7 DEF CallEffect, storeVars

LEMMA CallKeepsTypes ==
    ASSUME TypeInv, NEW p \in Procs, CallEffect(p)
    PROVE  TypeInv'
<1>1. TaskOK' /\ RuntimeOK' /\ UNCHANGED journal
  BY TaskStaysOK DEF CallEffect
<1>2. ClockOK'
  BY DEF CallEffect, TypeInv, ClockOK
<1>3. TickOK'
  BY DEF CallEffect, Starts, TypeInv, TickOK
<1>4. JournalOK'
  BY <1>1 DEF TypeInv, JournalOK
<1>5. KeysOK'
  <2>1. CASE UNCHANGED tick
    BY <1>1, <2>1 DEF TypeInv, KeysOK, Underway, RowOf
  <2>2. ASSUME NEW t \in Ticks, Starts(t, p) PROVE KeysOK'
    <3>1. \A u \in Ticks : u # t => (Underway(u)' => Underway(u) /\ tick'[u] = tick[u])
      BY <2>2 DEF Starts, Underway
    <3>2. QED BY <1>1, <2>2, <3>1 DEF TypeInv, KeysOK, RowOf, Starts
  <2>3. QED BY <2>1, <2>2 DEF CallEffect
<1>6. QED BY <1>1, <1>2, <1>3, <1>4, <1>5 DEF TypeInv

\* A crash ends the ticks of its process.
CrashEffect(p) ==
    /\ UNCHANGED <<bucket, tickLock, journal, claimed, task, outcome, budget, overran, raced, belated, calls>>
    /\ mishaps' \in 0 .. budget.mishaps /\ mishaps' # 0 /\ RuntimeOK'
    /\ \A q \in Procs : q # p => runtime'[q] = runtime[q]
    /\ runtime'[p].errors = 0 /\ ~runtime'[p].in_tick
    /\ tick' \in [Ticks -> Tick \cup {NoTick, Ended, Stuck, Died}]
    /\ \A t \in Ticks : tick'[t] = IF Underway(t) /\ tick[t].proc = p THEN Died ELSE tick[t]

LEMMA CrashForm ==
    ASSUME TypeInv, NEW p \in Procs, Crash(p)
    PROVE  CrashEffect(p)
<1> DEFINE new == [running |-> enabled, in_tick |-> FALSE, errors |-> 0]
<1>1. /\ UNCHANGED <<bucket, tickLock, journal, claimed, task, outcome, enabled, budget, overran, raced, belated, calls>>
      /\ mishaps < budget.mishaps /\ mishaps' = mishaps + 1
      /\ runtime' = [runtime EXCEPT ![p] = new]
      /\ tick' = [t \in Ticks |-> IF t \in TicksOf(p) THEN Died ELSE tick[t]]
  BY DEF Crash, storeVars
<1>2. mishaps \in 0 .. budget.mishaps /\ budget.mishaps \in Nat
  BY BoundsAssumption DEF TypeInv, ClockOK
<1>3. mishaps' \in 0 .. budget.mishaps /\ mishaps' # 0
  BY <1>1, <1>2
<1>4. new \in [running : BOOLEAN, in_tick : BOOLEAN, errors : Nat] /\ new.errors = 0 /\ ~new.in_tick
  BY DEF TypeInv, RuntimeOK
<1> HIDE DEF new
<1>5. RuntimeOK' /\ (\A q \in Procs : q # p => runtime'[q] = runtime[q]) /\ runtime'[p] = new
  BY <1>1, <1>4 DEF TypeInv, RuntimeOK
<1>6. tick' \in [Ticks -> Tick \cup {NoTick, Ended, Stuck, Died}]
  BY <1>1 DEF TypeInv, TickOK
<1>7. \A t \in Ticks : tick'[t] = IF Underway(t) /\ tick[t].proc = p THEN Died ELSE tick[t]
  BY <1>1 DEF TicksOf
<1>8. QED BY <1>1, <1>3, <1>4, <1>5, <1>6, <1>7 DEF CrashEffect

LEMMA CrashKeepsTypes ==
    ASSUME TypeInv, NEW p \in Procs, CrashEffect(p)
    PROVE  TypeInv'
<1>1. TaskOK' /\ RuntimeOK' /\ UNCHANGED journal /\ TickOK'
  BY TaskStaysOK DEF CrashEffect, TickOK
<1>2. ClockOK'
  BY DEF CrashEffect, TypeInv, ClockOK
<1>3. \A u \in Ticks : Underway(u)' => Underway(u) /\ tick'[u] = tick[u]
  BY DEF CrashEffect, Underway
<1>4. QED BY <1>1, <1>2, <1>3, FewerTicksKeepKeys DEF TypeInv

LEMMA OtherKeepsTypes ==
    ASSUME TypeInv, NextBucket \/ LeaseRunsOut \/ RetryTask \/ UNCHANGED vars
    PROVE  TypeInv'
<1>1. UNCHANGED <<journal, claimed, outcome, runtime, enabled, tick, budget, raced, belated, calls, mishaps>>
  BY DEF NextBucket, LeaseRunsOut, RetryTask, vars, storeVars, ghosts
<1>2. TickOK' /\ JournalOK' /\ RuntimeOK'
  BY <1>1 DEF TypeInv, TickOK, JournalOK, RuntimeOK
<1>3. KeysOK'
  BY <1>1, <1>2, FewerTicksKeepKeys DEF Underway
<1>4. TaskOK'
  BY <1>1 DEF NextBucket, LeaseRunsOut, RetryTask, vars, storeVars, TypeInv, TaskOK, AttemptsLeft
<1>5. budget.buckets \in Nat
  BY BoundsAssumption DEF TypeInv, ClockOK
<1>6. bucket' \in 0 .. budget'.buckets
  BY <1>1, <1>5 DEF NextBucket, LeaseRunsOut, RetryTask, vars, TypeInv, ClockOK
<1>7. overran' \in BOOLEAN
  BY DEF NextBucket, LeaseRunsOut, RetryTask, vars, ghosts, TypeInv, ClockOK
<1>8. tickLock' = Free \/ tickLock' \in [owner : Ticks, expired : BOOLEAN]
  BY DEF NextBucket, LeaseRunsOut, RetryTask, vars, TypeInv, ClockOK
<1>9. ClockOK'
  BY <1>1, <1>6, <1>7, <1>8 DEF TypeInv, ClockOK
<1>10. QED BY <1>2, <1>3, <1>4, <1>9 DEF TypeInv

LEMMA InitTypes == Init => TypeInv
<1> SUFFICES ASSUME Init PROVE TypeInv
  OBVIOUS
<1>1. TickOK /\ KeysOK
  BY DEF Init, TickOK, KeysOK, Underway
<1>2. JournalOK
  BY DEF Init, JournalOK
<1>3. RuntimeOK
  BY DEF Init, RuntimeOK
<1>4. TaskOK
  BY BoundsAssumption DEF Init, TaskOK, AttemptsLeft
<1>5. budget \in Budgets /\ budget.buckets \in Nat /\ budget.calls \in Nat /\ budget.mishaps \in Nat
  BY BoundsAssumption DEF Init
<1>6. ClockOK
  <2>1. 0 \in 0 .. budget.buckets /\ 0 \in 0 .. budget.calls /\ 0 \in 0 .. budget.mishaps
    BY <1>5
  <2>2. bucket = 0 /\ calls = 0 /\ mishaps = 0 /\ tickLock = Free
        /\ overran = FALSE /\ raced = FALSE /\ belated = FALSE
    BY DEF Init
  <2>3. QED BY <1>5, <2>1, <2>2 DEF ClockOK
<1>7. QED BY <1>1, <1>2, <1>3, <1>4, <1>6 DEF TypeInv

LEMMA StepTypes == TypeInv /\ [Next]_vars => TypeInv'
<1> SUFFICES ASSUME TypeInv, [Next]_vars PROVE TypeInv'
  OBVIOUS
<1>1. ASSUME NEW t \in Ticks, StatementFails(t) PROVE TypeInv'
  BY <1>1, FailsForm, FailsKeepsTypes
<1>2. ASSUME NEW p \in Procs, TrichatAutopilotControl(p) \/ TimerFires(p) PROVE TypeInv'
  BY <1>2, CallForm, CallKeepsTypes
<1>3. ASSUME NEW p \in Procs, Crash(p) PROVE TypeInv'
  BY <1>3, CrashForm, CrashKeepsTypes
<1>4. QED BY <1>1, <1>2, <1>3, TickKeepsTypes, OtherKeepsTypes DEF Next

LEMMA TypeInvHolds == Spec => []TypeInv
BY InitTypes, StepTypes, PTL DEF Spec

\* Every step is one of these.
LEMMA StepForms ==
    ASSUME TypeInv, [Next]_vars
    PROVE  \/ \E t \in Ticks : Underway(t) /\ (TickEffect(t) \/ FailsEffect(t))
           \/ \E p \in Procs : CallEffect(p) \/ CrashEffect(p)
           \/ NextBucket \/ LeaseRunsOut \/ RetryTask \/ UNCHANGED vars
<1>1. ASSUME NEW t \in Ticks, RunAutopilotTick(t) \/ StatementFails(t)
      PROVE  Underway(t) /\ (TickEffect(t) \/ FailsEffect(t))
  BY <1>1, TickForms, FailsForm DEF FailsEffect
<1>2. ASSUME NEW p \in Procs, TrichatAutopilotControl(p) \/ TimerFires(p) \/ Crash(p)
      PROVE  CallEffect(p) \/ CrashEffect(p)
  BY <1>2, CallForm, CrashForm
<1>3. QED BY <1>1, <1>2 DEF Next

\* A tick that moves with no word about its counters.
Onward(t) ==
    /\ Underway(t) /\ UNCHANGED <<bucket, tickLock, runtime, budget, overran, raced, belated>>
    /\ tick[t].at \notin Acquiring \cup {"panic_incident", "panic_pause", "release"}
    /\ \E place, busy, failure, session :
          /\ Becomes(t, place, busy, failure, session) /\ place \notin Acquiring \cup {"release", "panic_pause"}
          /\ tick[t].at = "panic_fail" => place = "panic_incident"

\* The steps that are onward.
LEMMA MostGoOnward ==
    ASSUME TypeInv, NEW t \in Ticks, Underway(t), TickEffect(t) \/ FailsEffect(t)
    PROVE  LockStep(t) \/ Closing(t) \/ Onward(t)
<1> DEFINE closing == Acquiring \cup {"panic_incident", "panic_pause", "release"}
           ends == Acquiring \cup {"release", "panic_pause"}
<1>1. SUFFICES ASSUME ~(LockStep(t) \/ Closing(t)) PROVE Onward(t)
  OBVIOUS
<1>2. ASSUME NEW place, NEW busy, NEW failure, NEW session, Becomes(t, place, busy, failure, session),
             Elsewhere, place \notin ends, tick[t].at \notin closing \cup {"panic_fail"}
      PROVE  Onward(t)
  BY <1>2 DEF Onward, Elsewhere
<1>3. CASE Quiet(t)
  <2>1. tick[t].at \notin closing \cup {"panic_fail"} /\ Elsewhere
    BY <1>3 DEF Quiet, QuietFrom
  <2>2. PICK place \in QuietTo, busy \in {"no", "work", "record"}, failure \in Reasons :
            Becomes(t, place, busy, failure, tick[t].session)
    BY <1>3 DEF Quiet
  <2>3. place \notin ends
    BY DEF QuietTo
  <2>4. QED BY <1>2, <2>1, <2>2, <2>3
<1>4. CASE ClaimEffect(t) \/ ClaimedEffect(t)
  <2>1. tick[t].at = "claim" /\ UNCHANGED elsewhere
        /\ \E busy, failure, session : \E place \in {"claim", "begin"} : Becomes(t, place, busy, failure, session)
    BY <1>4 DEF ClaimEffect, ClaimedEffect
  <2>2. QED BY <1>2, <2>1, ElsewhereStays
<1>5. ASSUME NEW l \in {"verify", "end"}, NEW print, NEW place \in {"mentor", "finish"}, KeyedEffect(t, l, print, place)
      PROVE  Onward(t)
  <2>1. tick[t].at = l /\ Elsewhere
        /\ \E to \in {place, "panic"}, failure \in Reasons : Becomes(t, to, "no", failure, tick[t].session)
    BY <1>5, TickFields DEF KeyedEffect
  <2>2. QED BY <1>2, <2>1
<1>6. CASE ChooseEffect(t)
  <2>1. tick[t].at = "settle" /\ UNCHANGED elsewhere
        /\ \E to \in {"end", "complete", "fail"} : Becomes(t, to, "no", tick[t].failure, tick[t].session)
    BY <1>6 DEF ChooseEffect
  <2>2. QED BY <1>2, <2>1, ElsewhereStays
<1>7. ASSUME NEW l \in {"complete", "fail"}, NEW status, SettleEffect(t, l, status)
      PROVE  Onward(t)
  <2>1. tick[t].at = l
    BY <1>7 DEF SettleEffect, BeginEffect, SettleWork, SettleRecord, SettleSkip
  <2>2. Elsewhere
    BY <1>7, ElsewhereStays DEF SettleEffect, BeginEffect, SettleWork, SettleRecord, SettleSkip
  <2>3. \E failure : \E to \in {l, "end", "panic"}, busy \in {"no", "work", "record"} :
            Becomes(t, to, busy, failure, tick[t].session)
    BY <1>7 DEF SettleEffect, BeginEffect, SettleWork, SettleRecord, SettleSkip
  <2>4. QED BY <1>2, <2>1, <2>2, <2>3
<1>8. CASE PanicFailEffect(t)
  <2>1. tick[t].at = "panic_fail" /\ Becomes(t, "panic_incident", "no", tick[t].failure, tick[t].session)
    BY <1>8 DEF PanicFailEffect
  <2>2. UNCHANGED <<bucket, tickLock, runtime, budget, overran, raced, belated>>
    BY <1>8 DEF PanicFailEffect, Elsewhere
  <2>3. QED BY <2>1, <2>2 DEF Onward
<1>9. CASE FailsEffect(t)
  <2>1. tick[t].at \in {"claim", "command", "complete", "fail"} /\ Elsewhere
        /\ \E failure \in Reasons : Becomes(t, "panic", "no", failure, tick[t].session)
    BY <1>9 DEF FailsEffect
  <2>2. QED BY <1>2, <2>1
<1>10. QED BY <1>1, <1>3, <1>4, <1>5, <1>6, <1>7, <1>8, <1>9 DEF TickEffect

-----------------------------------------------------------------------------
(* Errors *)

\* Ticks that are past these places, or over.
Past(places) == {t \in Ticks : tick[t] \in {Ended, Stuck, Died} \/ (Underway(t) /\ tick[t].at \in places)}

\* Ticks that counted their outcome, and ticks that cannot count an error any more.
Counted == Past({"panic_fail", "panic_incident", "panic_pause", "release"})

Closed == Past({"release"})

\* A tick counts an error when it finishes or throws, and one more when the call rejects.
ErrorsCounted == \A p \in Procs : runtime[p].errors <= Cardinality(Counted) + Cardinality(Closed)

\* The counts of ticks are numbers, at most that of all ticks, and grow with the ticks.
LEMMA CountsGrow ==
    /\ Cardinality(Counted) \in 0 .. Cardinality(Ticks) /\ Cardinality(Closed) \in 0 .. Cardinality(Ticks)
    /\ Cardinality(Counted') \in Nat /\ Cardinality(Closed') \in Nat /\ Cardinality(Ticks) \in Nat
    /\ Counted \subseteq Counted' => Cardinality(Counted) <= Cardinality(Counted')
    /\ Closed \subseteq Closed' => Cardinality(Closed) <= Cardinality(Closed')
    /\ Counted \subseteq Counted' /\ Counted # Counted' => Cardinality(Counted) < Cardinality(Counted')
    /\ Closed \subseteq Closed' /\ Closed # Closed' => Cardinality(Closed) < Cardinality(Closed')
<1>1. IsFiniteSet(Ticks)
  BY BoundsAssumption
<1>2. ASSUME NEW S, NEW T, S \subseteq Ticks, T \subseteq Ticks
      PROVE  /\ Cardinality(S) \in 0 .. Cardinality(Ticks) /\ Cardinality(T) \in Nat /\ Cardinality(Ticks) \in Nat
             /\ S \subseteq T => Cardinality(S) <= Cardinality(T)
             /\ S \subseteq T /\ S # T => Cardinality(S) < Cardinality(T)
  <2>1. IsFiniteSet(S) /\ IsFiniteSet(T) /\ Cardinality(S) <= Cardinality(Ticks)
    BY <1>1, <1>2, FS_Subset
  <2>2. Cardinality(S) \in Nat /\ Cardinality(T) \in Nat /\ Cardinality(Ticks) \in Nat
    BY <1>1, <2>1, FS_CardinalityType
  <2>3. S \subseteq T => Cardinality(S) <= Cardinality(T) /\ (Cardinality(T) = Cardinality(S) => T = S)
    BY <2>1, FS_Subset
  <2>4. QED BY <2>1, <2>2, <2>3
<1>3. Counted \subseteq Ticks /\ Closed \subseteq Ticks /\ Counted' \subseteq Ticks /\ Closed' \subseteq Ticks
  BY DEF Counted, Closed, Past
<1> HIDE DEF Counted, Closed
<1>4. QED BY <1>2, <1>3

\* Ticks that only move on keep the count.
LEMMA CountStays ==
    ASSUME TypeInv, TypeInv', ErrorsCounted, Counted \subseteq Counted', Closed \subseteq Closed',
           \A p \in Procs : runtime'[p].errors <= runtime[p].errors
    PROVE  ErrorsCounted'
<1>1. \A p \in Procs : runtime[p].errors \in Nat /\ runtime'[p].errors \in Nat
  BY DEF TypeInv, RuntimeOK
<1>2. QED BY <1>1, CountsGrow DEF ErrorsCounted

\* One more error comes with one more tick that is counted or closed.
LEMMA CountRises ==
    ASSUME TypeInv, TypeInv', ErrorsCounted, Counted \subseteq Counted', Closed \subseteq Closed',
           \A p \in Procs : runtime'[p].errors <= runtime[p].errors + 1,
           Counted # Counted' \/ Closed # Closed'
    PROVE  ErrorsCounted'
<1>1. \A p \in Procs : runtime[p].errors \in Nat /\ runtime'[p].errors \in Nat
  BY DEF TypeInv, RuntimeOK
<1>2. QED BY <1>1, CountsGrow DEF ErrorsCounted

\* A tick that moves stays past what it was past.
LEMMA MovesPast ==
    ASSUME TypeInv, NEW t \in Ticks, Underway(t), NEW place, NEW busy, NEW failure, NEW session,
           Becomes(t, place, busy, failure, session), NEW places, tick[t].at \in places => place \in places
    PROVE  /\ Past(places) \subseteq Past(places)'
           /\ t \in Past(places) <=> tick[t].at \in places
           /\ t \in Past(places)' <=> place \in places
<1>1. tick[t] \notin {Ended, Stuck, Died} /\ tick'[t] \notin {Ended, Stuck, Died} /\ Underway(t)'
  BY NullAssumption DEF Underway, Becomes
<1>2. tick'[t].at = place /\ \A u \in Ticks : u # t => tick'[u] = tick[u] /\ (Underway(u) <=> Underway(u)')
  BY DEF Becomes, Underway
<1>3. QED BY <1>1, <1>2 DEF Past

\* Ticks that start or end stay past what they were past.
LEMMA OthersPast ==
    ASSUME NEW places,
           \A u \in Ticks : \/ tick'[u] = tick[u] \/ tick'[u] \in {Ended, Stuck, Died} \/ tick[u] = NoTick
    PROVE  Past(places) \subseteq Past(places)'
BY NullAssumption DEF Past, Underway

LEMMA ErrorsStayCounted ==
    ASSUME TypeInv, TypeInv', ErrorsCounted, [Next]_vars
    PROVE  ErrorsCounted'
<1> DEFINE counting == {"panic_fail", "panic_incident", "panic_pause", "release"}
<1>1. \A p \in Procs : runtime[p].errors \in Nat /\ runtime'[p].errors \in Nat
  BY DEF TypeInv, RuntimeOK
<1>2. ASSUME \A u \in Ticks : \/ tick'[u] = tick[u] \/ tick'[u] \in {Ended, Stuck, Died} \/ tick[u] = NoTick,
             \A p \in Procs : runtime'[p].errors <= runtime[p].errors
      PROVE  ErrorsCounted'
  BY <1>2, OthersPast, CountStays DEF Counted, Closed
<1>3. ASSUME NEW t \in Ticks, Underway(t), Onward(t) PROVE ErrorsCounted'
  <2>1. PICK place, busy, failure, session :
            /\ Becomes(t, place, busy, failure, session)
            /\ tick[t].at = "panic_fail" => place = "panic_incident"
    BY <1>3 DEF Onward
  <2>2. tick[t].at \notin {"panic_incident", "panic_pause", "release"} /\ UNCHANGED runtime
    BY <1>3 DEF Onward
  <2>3. Counted \subseteq Counted' /\ Closed \subseteq Closed'
    BY <1>3, <2>1, <2>2, MovesPast DEF Counted, Closed
  <2>4. QED BY <1>1, <2>2, <2>3, CountStays
<1>4. ASSUME NEW t \in Ticks, Underway(t), Closing(t) PROVE ErrorsCounted'
  <2>1. PICK place \in counting \cup {"panic"}, failure \in Reasons :
            /\ Becomes(t, place, "no", failure, tick[t].session)
            /\ \/ tick[t].at = "finish" /\ place = "release"
               \/ tick[t].at = "finish" /\ place = "panic" /\ SameErrors
               \/ /\ tick[t].at = "panic"
                  /\ place = IF tick[t].session[1] = "attempt" THEN "panic_fail" ELSE "panic_incident"
               \/ tick[t].at = "panic_incident" /\ place = "panic_pause" /\ SameErrors
               \/ tick[t].at \in {"panic_incident", "panic_pause"} /\ place = "release"
    BY <1>4 DEF Closing
  <2>2. tick[t].at \in counting => place \in counting
    BY <2>1
  <2>3. tick[t].at \in {"release"} => place \in {"release"}
    BY <2>1
  <2>4. /\ Counted \subseteq Counted' /\ (t \in Counted' <=> place \in counting)
        /\ (t \in Counted <=> tick[t].at \in counting)
    BY <1>4, <2>1, <2>2, MovesPast DEF Counted
  <2>5. /\ Closed \subseteq Closed' /\ (t \in Closed' <=> place \in {"release"})
        /\ (t \in Closed <=> tick[t].at \in {"release"})
    BY <1>4, <2>1, <2>3, MovesPast DEF Closed
  <2>6. \A p \in Procs : runtime'[p].errors <= runtime[p].errors + 1
    BY <1>4 DEF Closing
  <2>7. CASE SameErrors
    BY <1>1, <2>4, <2>5, <2>7, CountStays DEF SameErrors
  <2>8. CASE ~SameErrors
    <3>1. Counted # Counted' \/ Closed # Closed'
      BY <2>1, <2>4, <2>5, <2>8
    <3>2. QED BY <2>4, <2>5, <2>6, <3>1, CountRises
  <2>9. QED BY <2>7, <2>8
<1>5. ASSUME NEW t \in Ticks, Underway(t), LockStep(t), Looks(t) \/ Takes(t) PROVE ErrorsCounted'
  <2>1. PICK place, busy :
            /\ Becomes(t, place, busy, tick[t].failure, tick[t].session)
            /\ tick[t].at \in counting => place = tick[t].at
    BY <1>5 DEF Looks, Takes
  <2>2. Counted \subseteq Counted' /\ Closed \subseteq Closed'
    BY <1>5, <2>1, MovesPast DEF Counted, Closed
  <2>3. \A p \in Procs : runtime'[p].errors = runtime[p].errors
    BY <1>5 DEF Looks, Takes, SameErrors
  <2>4. QED BY <1>1, <2>2, <2>3, CountStays
<1>6. ASSUME NEW t \in Ticks, Underway(t), LockStep(t), Quits(t) \/ Leaves(t) PROVE ErrorsCounted'
  <2>1. PICK last \in {Ended, Stuck} : tick' = [tick EXCEPT ![t] = last]
    BY <1>6 DEF Quits, Leaves
  <2>2. \A u \in Ticks : tick'[u] = tick[u] \/ tick'[u] \in {Ended, Stuck, Died} \/ tick[u] = NoTick
    BY <2>1 DEF TypeInv, TickOK
  <2>3. CASE Leaves(t)
    BY <1>1, <1>2, <2>2, <2>3 DEF Leaves, SameErrors
  <2>4. CASE Quits(t)
    <3>1. Counted \subseteq Counted' /\ Closed \subseteq Closed'
      BY <2>2, OthersPast DEF Counted, Closed
    <3>2. t \notin Closed /\ t \in Closed'
      BY <1>6, <2>1, <2>4 DEF Quits, Closed, Past, Underway, TypeInv, TickOK
    <3>3. \A p \in Procs : runtime'[p].errors <= runtime[p].errors + 1
      BY <2>4 DEF Quits
    <3>4. Closed # Closed'
      BY <3>2
    <3>5. QED BY <3>1, <3>3, <3>4, CountRises
  <2>5. QED BY <1>6, <2>3, <2>4
<1>7. ASSUME NEW p \in Procs, CallEffect(p) \/ CrashEffect(p) PROVE ErrorsCounted'
  <2>1. \A q \in Procs : runtime'[q].errors <= runtime[q].errors
    BY <1>1, <1>7 DEF CallEffect, CrashEffect
  <2>2. \A u \in Ticks : \/ tick'[u] = tick[u] \/ tick'[u] \in {Ended, Stuck, Died} \/ tick[u] = NoTick
    BY <1>7 DEF CallEffect, CrashEffect, Starts
  <2>3. QED BY <1>2, <2>1, <2>2
<1>8. CASE NextBucket \/ LeaseRunsOut \/ RetryTask \/ UNCHANGED vars
  <2>1. UNCHANGED <<runtime, tick>>
    BY <1>8 DEF NextBucket, LeaseRunsOut, RetryTask, vars
  <2>2. QED BY <1>1, <1>2, <2>1
<1>9. ASSUME NEW t \in Ticks, Underway(t), LockStep(t) PROVE ErrorsCounted'
  BY <1>5, <1>6, <1>9 DEF LockStep
<1>10. QED BY <1>3, <1>4, <1>7, <1>8, <1>9, StepForms, MostGoOnward

\* Commands are run by ticks.
NoTickNoCommand == Ticks = {} => \A s \in Sessions : commands[s] = 0

LEMMA NoTickNoCommandStays ==
    ASSUME NoTickNoCommand, [Next]_vars
    PROVE  NoTickNoCommand'
<1>1. CASE Ticks = {}
  <2>1. UNCHANGED commands
    <3>1. ASSUME NEW p \in Procs, TrichatAutopilotControl(p) \/ TimerFires(p) \/ Crash(p) PROVE UNCHANGED commands
      BY <3>1 DEF TrichatAutopilotControl, Start, Stop, RunOnce, TimerFires, Crash, storeVars
    <3>2. CASE NextBucket \/ LeaseRunsOut \/ RetryTask \/ UNCHANGED vars
      BY <3>2 DEF NextBucket, LeaseRunsOut, RetryTask, vars, storeVars
    <3>3. QED BY <1>1, <3>1, <3>2 DEF Next
  <2>2. QED BY <2>1 DEF NoTickNoCommand
<1>2. QED BY <1>1 DEF NoTickNoCommand

\* Every state is well typed: rows, sessions and ticks stay in their sets for any number
\* of ticks, buckets and attempts, a task is tried at most as often as it may be, and the
\* consecutive errors never exceed twice the ticks, although the error of a tick that threw
\* is counted anew by the timer when its incident or its pause throws too.
THEOREM AutopilotTypeCorrect == Spec => []TypeOK
<1> DEFINE Inv == TypeInv /\ ErrorsCounted /\ NoTickNoCommand
<1>1. Init => Inv
  <2>1. Init => NoTickNoCommand
    BY DEF Init, NoTickNoCommand
  <2>2. Init => ErrorsCounted
    <3>1. \A p \in Procs : Init => runtime[p].errors = 0
      BY DEF Init
    <3>2. QED BY <3>1, CountsGrow DEF ErrorsCounted
  <2>3. QED BY <2>1, <2>2, InitTypes
<1>2. Inv /\ [Next]_vars => Inv'
  BY StepTypes, ErrorsStayCounted, NoTickNoCommandStays
<1>3. Inv /\ AutopilotInv => TypeOK
  <2> SUFFICES ASSUME Inv, AutopilotInv PROVE TypeOK
    OBVIOUS
  <2>1. \A s \in Sessions : commands[s] \in 0 .. Cardinality(Ticks)
    <3>1. \A s \in Sessions : commands[s] \in 0 .. 1
      BY DEF AutopilotInv, CommandInv
    <3>2. IsFiniteSet(Ticks) /\ Cardinality(Ticks) \in Nat /\ (Cardinality(Ticks) = 0 <=> Ticks = {})
      BY BoundsAssumption, FS_CardinalityType, FS_EmptySet
    <3>3. QED BY <3>1, <3>2 DEF NoTickNoCommand
  <2>2. runtime \in [Procs -> [running : BOOLEAN, in_tick : BOOLEAN, errors : 0 .. 2 * Cardinality(Ticks)]]
    <3>1. \A p \in Procs : runtime[p].errors \in 0 .. 2 * Cardinality(Ticks)
      BY CountsGrow DEF ErrorsCounted, TypeInv, RuntimeOK
    <3>2. QED BY <3>1 DEF TypeInv, RuntimeOK
  <2>3. bucket \in 0 .. MaxBucket
    BY BoundsAssumption DEF TypeInv, ClockOK
  <2>4. tickLock = Free \/ (tickLock.owner \in Ticks /\ tickLock.expired \in BOOLEAN)
    BY DEF TypeInv, ClockOK
  <2>5. QED BY <2>1, <2>2, <2>3, <2>4 DEF TypeInv, TickOK, JournalOK, TaskOK, RuntimeOK, ClockOK, TypeOK
<1>4. QED BY <1>1, <1>2, <1>3, AutopilotInvHolds, PTL DEF Spec

-----------------------------------------------------------------------------
(* What is left behind *)

Rows(a) == journal[<<"attempt", a>>]

HasDone(a, l) == Rows(a)[l] # NoRow /\ Rows(a)[l].status = "done"

InAttempt(t, a) == Underway(t) /\ tick[t].session = <<"attempt", a>>

\* Someone settled the task in the name of attempt a.
SettledBy(a) ==
    \/ HasDone(a, "complete") \/ HasDone(a, "fail") \/ Rows(a)["panic_fail"] # NoRow
    \/ \E t \in Ticks : InAttempt(t, a) /\ tick[t].at \in {"complete", "fail"} /\ tick[t].busy = "record"

\* The lock is held by a tick that works, died, or could not release it.
LockOwned == tickLock # Free => tick[tickLock.owner] \in {Died, Stuck} \/ Working(tickLock.owner)

\* Attempts that someone knows of were made.
AttemptsMade ==
    /\ \A b \in 0 .. MaxBucket : claimed[b] <= task.attempts
    /\ \A a \in 1 .. MaxAttempts : SettledBy(a) \/ (\E t \in Ticks : InAttempt(t, a)) => a <= task.attempts

\* A settled attempt does not run, as long as no statement failed.
SettledIsOver ==
    mishaps = 0 => \A a \in 1 .. MaxAttempts : SettledBy(a) /\ a = task.attempts => task.status # "running"

\* Tick t has claimed the running attempt and will settle it.
Holds(t) ==
    /\ Working(t)
    /\ \/ tick[t].at = "claim" /\ tick[t].busy = "record" /\ claimed[tick[t].bucket] = task.attempts
       \/ /\ tick[t].session = <<"attempt", task.attempts>>
          /\ tick[t].at \notin {"claim", "end", "finish", "panic_incident", "panic_pause", "release"}

RunningIsHeld == task.status = "running" /\ mishaps = 0 => \E t \in Ticks : Holds(t)

\* A tick that moves is under way, and works unless it is at the lock.
LEMMA BecomesUnderway ==
    ASSUME TypeInv, NEW t \in Ticks, Underway(t), NEW place, NEW busy, NEW failure, NEW session,
           Becomes(t, place, busy, failure, session)
    PROVE  /\ Underway(t)' /\ (place \notin Acquiring => Working(t)')
           /\ \A u \in Ticks : u # t => (Underway(u)' <=> Underway(u)) /\ (Working(u)' <=> Working(u)) /\ tick'[u] = tick[u]
<1>1. Underway(t)' /\ tick'[t].at = place
  BY NullAssumption DEF Underway, Becomes
<1>2. \A u \in Ticks : u # t => tick'[u] = tick[u]
  BY DEF Becomes
<1>3. QED BY <1>1, <1>2 DEF Working, Underway

\* A step of a tick after which nothing is settled that was not settled before.
Silent(t) ==
    /\ \E place, busy, failure, session :
          /\ Becomes(t, place, busy, failure, session)
          /\ place \in {"complete", "fail"} => busy # "record"
          /\ \/ session = tick[t].session
             \/ tick[t].at = "claim" /\ claimed[tick[t].bucket] # 0 /\ session = <<"attempt", claimed[tick[t].bucket]>>
    /\ \A s \in Sessions : journal'[s]["panic_fail"] = journal[s]["panic_fail"]
    /\ \A s \in Sessions, l \in {"complete", "fail"} :
          \/ journal'[s][l] = journal[s][l] \/ journal'[s][l].status # "done"
          \/ s = tick[t].session /\ tick[t].at = l /\ tick[t].busy = "record"

\* A step that settles the task.
Settling(t) ==
    \/ SettleWork(t, "complete", "completed") \/ SettleWork(t, "fail", "failed")
    \/ /\ PanicFailEffect(t) /\ SettleTask("failed")
       /\ RowOf(t, "panic_fail") = NoRow /\ journal'[tick[t].session]["panic_fail"] # NoRow

\* A step that should, but fails.
Botched(t) == PanicFailEffect(t) /\ mishaps' # 0 /\ UNCHANGED <<task, outcome>>

\* A tick ends, about its lock.
GoesAway(t) == UNCHANGED storeVars /\ \E last \in {Ended, Stuck} : tick' = [tick EXCEPT ![t] = last]

\* A journal in which only other rows changed tells nothing of the task.
LEMMA SilentRows ==
    ASSUME NEW s, NEW L, JournalGrows(s, L), L \cap {"complete", "fail", "panic_fail"} = {}
    PROVE  \A r \in Sessions, l \in {"complete", "fail", "panic_fail"} : journal'[r][l] = journal[r][l]
<1>1. {"complete", "fail", "panic_fail"} \subseteq Labels
  BY DEF Labels
<1>2. QED BY <1>1 DEF JournalGrows

\* All steps of ticks settle the task, or should have, or are silent, or end the tick.
LEMMA SilentOrSettling ==
    ASSUME TypeInv, NEW t \in Ticks, Underway(t), TickEffect(t) \/ FailsEffect(t)
    PROVE  GoesAway(t) \/ Silent(t) \/ Settling(t) \/ Botched(t)
<1> DEFINE keys == {"complete", "fail", "panic_fail"}
           Same == \A r \in Sessions, l \in keys : journal'[r][l] = journal[r][l]
<1>1. ASSUME NEW place, NEW busy, NEW failure, Becomes(t, place, busy, failure, tick[t].session), Same,
             place \in {"complete", "fail"} => busy # "record"
      PROVE  Silent(t)
  BY <1>1 DEF Silent
<1>2. CASE LockStep(t)
  <2>1. UNCHANGED storeVars /\ Same
    BY <1>2 DEF LockStep, storeVars
  <2>2. CASE Looks(t) \/ Takes(t)
    <3>1. \E place \in {"insert", "steal", "release", "claim"}, busy \in {"no", "work"} :
              Becomes(t, place, busy, tick[t].failure, tick[t].session)
      BY <2>2 DEF Looks, Takes
    <3>2. QED BY <1>1, <2>1, <3>1
  <2>3. CASE Quits(t) \/ Leaves(t)
    BY <2>1, <2>3 DEF Quits, Leaves, GoesAway
  <2>4. QED BY <1>2, <2>2, <2>3 DEF LockStep
<1>3. CASE Quiet(t)
  <2>1. Same
    BY <1>3, SilentRows DEF Quiet, QuietKeys
  <2>2. PICK place \in QuietTo, busy \in {"no", "work", "record"}, failure \in Reasons :
            Becomes(t, place, busy, failure, tick[t].session)
    BY <1>3 DEF Quiet
  <2>3. place \notin {"complete", "fail"}
    BY DEF QuietTo
  <2>4. QED BY <1>1, <2>1, <2>2, <2>3
<1>4. CASE ClaimEffect(t)
  <2>1. Same /\ Becomes(t, "claim", "record", tick[t].failure, tick[t].session)
    BY <1>4 DEF ClaimEffect
  <2>2. QED BY <1>1, <2>1
<1>5. CASE ClaimedEffect(t)
  <2>1. Same
    BY <1>5, SilentRows DEF ClaimedEffect
  <2>2. QED BY <1>5, <2>1 DEF ClaimedEffect, Silent
<1>6. ASSUME NEW l \in {"verify", "end"}, NEW print, NEW place \in {"mentor", "finish"}, KeyedEffect(t, l, print, place)
      PROVE  Silent(t)
  <2>1. Same
    BY <1>6, SilentRows DEF KeyedEffect
  <2>2. \E to \in {place, "panic"}, failure \in Reasons : Becomes(t, to, "no", failure, tick[t].session)
    BY <1>6, TickFields DEF KeyedEffect
  <2>3. QED BY <1>1, <2>1, <2>2
<1>7. CASE ChooseEffect(t)
  <2>1. Same /\ \E place \in {"end", "complete", "fail"} : Becomes(t, place, "no", tick[t].failure, tick[t].session)
    BY <1>7 DEF ChooseEffect, storeVars
  <2>2. QED BY <1>1, <2>1
<1>8. ASSUME NEW l \in {"complete", "fail"}, NEW status \in {"completed", "failed"}, SettleEffect(t, l, status)
      PROVE  Silent(t) \/ SettleWork(t, l, status)
  <2>1. CASE BeginEffect(t, l)
    <3>1. /\ JournalGrows(tick[t].session, {l})
          /\ UNCHANGED journal \/ journal'[tick[t].session][l].status = "in_progress"
      BY <2>1 DEF BeginEffect
    <3>2. \A s \in Sessions : journal'[s]["panic_fail"] = journal[s]["panic_fail"]
      BY <3>1 DEF JournalGrows, Labels
    <3>3. \A s \in Sessions, m \in {"complete", "fail"} :
              journal'[s][m] = journal[s][m] \/ journal'[s][m].status # "done"
      BY <3>1 DEF JournalGrows, Labels
    <3>4. \E place \in {l, "panic"}, busy \in {"work", "no"}, failure \in Reasons :
              Becomes(t, place, busy, failure, tick[t].session)
      BY <2>1, TickFields DEF BeginEffect
    <3>5. QED BY <3>2, <3>3, <3>4 DEF Silent
  <2>2. CASE SettleWork(t, l, status)
    BY <2>2
  <2>3. CASE SettleRecord(t, l)
    <3>1. tick[t].at = l /\ tick[t].busy = "record" /\ JournalGrows(tick[t].session, {l})
          /\ Becomes(t, "end", "no", tick[t].failure, tick[t].session)
      BY <2>3 DEF SettleRecord
    <3>2. \A s \in Sessions : journal'[s]["panic_fail"] = journal[s]["panic_fail"]
      BY <3>1 DEF JournalGrows, Labels
    <3>3. \A s \in Sessions, m \in {"complete", "fail"} :
              journal'[s][m] = journal[s][m] \/ (s = tick[t].session /\ m = l)
      BY <3>1 DEF JournalGrows, Labels
    <3>4. QED BY <3>1, <3>2, <3>3 DEF Silent
  <2>4. CASE SettleSkip(t, l)
    <3>1. Same /\ Becomes(t, "end", "no", tick[t].failure, tick[t].session)
      BY <2>4 DEF SettleSkip, storeVars
    <3>2. QED BY <1>1, <3>1
  <2>5. QED BY <1>8, <2>1, <2>2, <2>3, <2>4 DEF SettleEffect
<1>9. CASE Closing(t)
  <2>1. Same
    BY <1>9, SilentRows DEF Closing, QuietKeys
  <2>2. \E place \in {"panic", "panic_fail", "panic_incident", "panic_pause", "release"}, failure \in Reasons :
            Becomes(t, place, "no", failure, tick[t].session)
    BY <1>9 DEF Closing
  <2>3. QED BY <1>1, <2>1, <2>2
<1>10. CASE PanicFailEffect(t)
  <2>1. CASE RowOf(t, "panic_fail") # NoRow
    <3>1. Becomes(t, "panic_incident", "no", tick[t].failure, tick[t].session) /\ UNCHANGED journal
      BY <1>10, <2>1 DEF PanicFailEffect
    <3>2. QED BY <1>1, <3>1
  <2>2. CASE RowOf(t, "panic_fail") = NoRow
    BY <1>10, <2>2 DEF PanicFailEffect, Settling, Botched
  <2>3. QED BY <2>1, <2>2
<1>11. CASE FailsEffect(t)
  <2>1. /\ tick[t].at \in {"claim", "command", "complete", "fail"} /\ JournalGrows(tick[t].session, {tick[t].at})
        /\ journal'[tick[t].session][tick[t].at].status = "failed"
        /\ \E reason \in Reasons : Becomes(t, "panic", "no", reason, tick[t].session)
    BY <1>11 DEF FailsEffect
  <2>2. \A s \in Sessions : journal'[s]["panic_fail"] = journal[s]["panic_fail"]
    BY <2>1 DEF JournalGrows, Labels
  <2>3. \A s \in Sessions, m \in {"complete", "fail"} :
            journal'[s][m] = journal[s][m] \/ journal'[s][m].status # "done"
    BY <2>1 DEF JournalGrows, Labels
  <2>4. QED BY <2>1, <2>2, <2>3 DEF Silent
<1>12. CASE SettleEffect(t, "complete", "completed") \/ SettleEffect(t, "fail", "failed")
  BY <1>8, <1>12 DEF Settling
<1>13. QED BY <1>2, <1>3, <1>4, <1>5, <1>6, <1>7, <1>9, <1>10, <1>11, <1>12 DEF TickEffect

\* The other ticks stay.
LEMMA OthersStay ==
    ASSUME TypeInv, NEW t \in Ticks, Underway(t), TickEffect(t) \/ FailsEffect(t), NEW u \in Ticks, u # t
    PROVE  tick'[u] = tick[u] /\ (Underway(u)' <=> Underway(u)) /\ (Working(u)' <=> Working(u))
<1>1. tick'[u] = tick[u]
  <2>1. CASE GoesAway(t)
    BY <2>1 DEF GoesAway, TypeInv, TickOK
  <2>2. CASE Silent(t) \/ Settling(t) \/ Botched(t)
    BY <2>2 DEF Silent, Settling, Botched, SettleWork, PanicFailEffect, Becomes
  <2>3. QED BY <2>1, <2>2, SilentOrSettling
<1>2. QED BY <1>1 DEF Underway, Working

\* A tick that goes away is in no attempt any more.
LEMMA AwayKnowsNothing ==
    ASSUME TypeInv, NEW t \in Ticks, GoesAway(t), NEW a \in 1 .. MaxAttempts
    PROVE  /\ ~Underway(t)' /\ \A u \in Ticks : InAttempt(u, a)' => InAttempt(u, a) /\ tick'[u] = tick[u]
           /\ SettledBy(a)' => SettledBy(a)
<1>1. /\ tick'[t] \in {Ended, Stuck} /\ UNCHANGED journal
      /\ \A u \in Ticks : u # t => tick'[u] = tick[u]
  BY DEF GoesAway, storeVars, TypeInv, TickOK
<1>2. ~Underway(t)'
  BY <1>1 DEF Underway
<1>3. \A u \in Ticks : InAttempt(u, a)' => InAttempt(u, a) /\ tick'[u] = tick[u]
  BY <1>1, <1>2 DEF InAttempt, Underway
<1>4. SettledBy(a)' => SettledBy(a)
  BY <1>1, <1>3 DEF SettledBy, HasDone, Rows
<1>5. QED BY <1>2, <1>3, <1>4

\* Nothing but a settling step settles an attempt.
LEMMA SilenceSettlesNothing ==
    ASSUME TypeInv, NEW t \in Ticks, Underway(t), Silent(t), NEW a \in 1 .. MaxAttempts, SettledBy(a)'
    PROVE  SettledBy(a)
<1> DEFINE s == <<"attempt", a>>
<1>1. s \in Sessions
  BY SessionForms
<1>2. ASSUME NEW l \in {"complete", "fail"}, HasDone(a, l)' PROVE SettledBy(a)
  <2>1. \/ journal'[s][l] = journal[s][l]
        \/ s = tick[t].session /\ tick[t].at = l /\ tick[t].busy = "record"
    BY <1>1, <1>2 DEF Silent, HasDone, Rows
  <2>2. QED BY <1>2, <2>1 DEF SettledBy, HasDone, Rows, InAttempt
<1>3. ASSUME Rows(a)["panic_fail"]' # NoRow PROVE SettledBy(a)
  BY <1>1, <1>3 DEF Silent, SettledBy, Rows
<1>4. ASSUME NEW u \in Ticks, InAttempt(u, a)', tick'[u].at \in {"complete", "fail"}, tick'[u].busy = "record"
      PROVE  SettledBy(a)
  <2>1. u # t
    BY <1>4 DEF Silent, Becomes
  <2>2. tick'[u] = tick[u] /\ InAttempt(u, a)
    BY <1>4, <2>1 DEF Silent, Becomes, InAttempt, Underway
  <2>3. QED BY <1>4, <2>2 DEF SettledBy
<1>5. QED BY <1>2, <1>3, <1>4 DEF SettledBy

\* The task is changed by a claim, or by settling it.
LEMMA TaskMoves ==
    ASSUME TypeInv, NEW t \in Ticks, Underway(t), TickEffect(t) \/ FailsEffect(t)
    PROVE  \/ UNCHANGED <<claimed, task, outcome>>
           \/ ClaimEffect(t)
           \/ Settling(t) /\ UNCHANGED claimed /\ \E status \in {"completed", "failed"} : SettleTask(status)
<1>1. CASE LockStep(t)
  BY <1>1 DEF LockStep, storeVars
<1>2. CASE ChooseEffect(t)
  BY <1>2 DEF ChooseEffect, storeVars
<1>3. ASSUME NEW l \in {"complete", "fail"}, NEW status \in {"completed", "failed"}, SettleEffect(t, l, status),
             ~UNCHANGED <<claimed, task, outcome>>
      PROVE  SettleWork(t, l, status) /\ UNCHANGED claimed /\ SettleTask(status)
  <2>1. SettleWork(t, l, status)
    BY <1>3 DEF SettleEffect, BeginEffect, SettleRecord, SettleSkip, storeVars
  <2>2. QED BY <2>1 DEF SettleWork
<1>4. CASE PanicFailEffect(t)
  BY <1>4 DEF PanicFailEffect, Settling
<1>5. CASE Quiet(t) \/ ClaimedEffect(t) \/ Closing(t) \/ FailsEffect(t) \/ KeyedEffect(t, "verify", tick[t].failure, "mentor")
           \/ KeyedEffect(t, "end", Ending(t), "finish")
  BY <1>5 DEF Quiet, ClaimedEffect, Closing, FailsEffect, KeyedEffect
<1>6. CASE SettleEffect(t, "complete", "completed") \/ SettleEffect(t, "fail", "failed")
  BY <1>3, <1>6 DEF Settling
<1>7. QED BY <1>1, <1>2, <1>4, <1>5, <1>6 DEF TickEffect

\* Settling ends the running.
LEMMA SettledTask ==
    ASSUME TypeInv, NEW status \in {"completed", "failed"}, SettleTask(status)
    PROVE  task'.attempts = task.attempts /\ task'.status # "running" /\ (task.status = "running" => task'.status = status)
BY DEF SettleTask, TypeInv, TaskOK

\* A step of a tick makes no attempt known but its own, and the one it claimed.
LEMMA KnownBefore ==
    ASSUME TypeInv, NEW t \in Ticks, Underway(t), TickEffect(t) \/ FailsEffect(t), NEW a \in 1 .. MaxAttempts,
           SettledBy(a)' \/ \E u \in Ticks : InAttempt(u, a)'
    PROVE  SettledBy(a) \/ (\E u \in Ticks : InAttempt(u, a)) \/ a = claimed[tick[t].bucket]
<1> DEFINE s == <<"attempt", a>>
<1>1. s \in Sessions
  BY SessionForms
<1>2. CASE GoesAway(t)
  BY <1>2, AwayKnowsNothing
<1>3. CASE Silent(t)
  <2>1. SettledBy(a)' => SettledBy(a)
    BY <1>3, SilenceSettlesNothing
  <2>2. ASSUME NEW u \in Ticks, InAttempt(u, a)' PROVE InAttempt(u, a) \/ a = claimed[tick[t].bucket]
    <3>1. CASE u # t
      BY <2>2, <3>1, <1>3 DEF Silent, Becomes, InAttempt, Underway
    <3>2. CASE u = t
      BY <2>2, <3>2, <1>3 DEF Silent, Becomes, InAttempt
    <3>3. QED BY <3>1, <3>2
  <2>3. QED BY <2>1, <2>2
<1>4. CASE Settling(t) \/ Botched(t)
  <2>1. PICK place, busy, failure : Becomes(t, place, busy, failure, tick[t].session)
    BY <1>4 DEF Settling, Botched, SettleWork, PanicFailEffect
  <2>2. JournalGrows(tick[t].session, {"panic_fail"})
    BY <1>4, StayGrows DEF Settling, Botched, SettleWork, PanicFailEffect
  <2>3. \A u \in Ticks : InAttempt(u, a)' => InAttempt(u, a)
    BY <2>1 DEF Becomes, InAttempt, Underway
  <2>4. InAttempt(t, a) \/ Rows(a)' = Rows(a) \/ \A l \in Labels : Rows(a)'[l] = Rows(a)[l]
    BY <1>1, <2>2 DEF JournalGrows, Rows, InAttempt
  <2>5. {"complete", "fail", "panic_fail"} \subseteq Labels
    BY DEF Labels
  <2>6. QED BY <2>3, <2>4, <2>5 DEF SettledBy, HasDone
<1>5. QED BY <1>2, <1>3, <1>4, SilentOrSettling

\* Mishaps only rise.
LEMMA NoMishapBefore ==
    ASSUME TypeInv, NEW t \in Ticks, TickEffect(t) \/ FailsEffect(t), mishaps' = 0
    PROVE  mishaps = 0 /\ ~FailsEffect(t)
<1>1. ~FailsEffect(t)
  BY DEF FailsEffect
<1>2. Elsewhere => mishaps = 0
  BY DEF Elsewhere
<1>3. UNCHANGED elsewhere => mishaps = 0
  BY DEF elsewhere, ghosts
<1>4. CASE LockStep(t)
  <2>1. mishaps' = 0 => mishaps = 0
    BY <1>4 DEF LockStep
  <2>2. QED BY <1>1, <2>1
<1>5. CASE Closing(t)
  <2>1. AtMostMishap
    BY <1>5 DEF Closing
  <2>2. QED BY <1>1, <2>1 DEF AtMostMishap
<1>6. ASSUME NEW l \in {"complete", "fail"}, NEW status, SettleEffect(t, l, status) PROVE mishaps = 0
  <2>1. Elsewhere \/ UNCHANGED elsewhere
    BY <1>6 DEF SettleEffect, BeginEffect, SettleWork, SettleRecord, SettleSkip
  <2>2. QED BY <1>2, <1>3, <2>1
<1>7. ASSUME NEW l, NEW print, NEW place, KeyedEffect(t, l, print, place) PROVE mishaps = 0
  <2>1. Elsewhere
    BY <1>7 DEF KeyedEffect
  <2>2. QED BY <1>2, <2>1
<1>8. CASE Quiet(t) \/ ClaimEffect(t) \/ ClaimedEffect(t) \/ ChooseEffect(t) \/ PanicFailEffect(t)
  <2>1. Elsewhere \/ UNCHANGED elsewhere
    BY <1>8 DEF Quiet, ClaimEffect, ClaimedEffect, ChooseEffect, PanicFailEffect
  <2>2. QED BY <1>1, <1>2, <1>3, <2>1
<1>9. QED BY <1>1, <1>4, <1>5, <1>6, <1>7, <1>8 DEF TickEffect

LEMMA TickKeepsAttempts ==
    ASSUME TypeInv, TypeInv', AttemptsMade, SettledIsOver, NEW t \in Ticks, Underway(t), TickEffect(t) \/ FailsEffect(t)
    PROVE  AttemptsMade' /\ SettledIsOver'
<1>1. task.attempts \in Nat /\ task'.attempts \in Nat /\ tick[t].bucket \in 0 .. MaxBucket
      /\ claimed \in [0 .. MaxBucket -> 0 .. MaxAttempts]
  BY TickFields DEF TypeInv, TaskOK
<1>2. \A a \in 1 .. MaxAttempts : SettledBy(a)' \/ (\E u \in Ticks : InAttempt(u, a)') => a <= task.attempts
  BY <1>1, KnownBefore DEF AttemptsMade
<1>3. CASE UNCHANGED <<claimed, task, outcome>>
  <2>1. AttemptsMade'
    BY <1>2, <1>3 DEF AttemptsMade
  <2>2. ASSUME mishaps' = 0, NEW a \in 1 .. MaxAttempts, SettledBy(a)', a = task'.attempts, task'.status = "running"
        PROVE  FALSE
    <3>1. ~SettledBy(a)
      BY <1>3, <2>2, NoMishapBefore DEF SettledIsOver
    <3>2. CASE GoesAway(t)
      BY <2>2, <3>1, <3>2, AwayKnowsNothing
    <3>3. CASE Silent(t)
      BY <2>2, <3>1, <3>3, SilenceSettlesNothing
    <3>4. CASE Settling(t)
      <4>1. \E status \in {"completed", "failed"} : SettleTask(status)
        BY <3>4 DEF Settling, SettleWork
      <4>2. QED BY <2>2, <4>1, SettledTask
    <3>5. ~Botched(t)
      BY <2>2 DEF Botched
    <3>6. QED BY <3>2, <3>3, <3>4, <3>5, SilentOrSettling
  <2>3. QED BY <2>1, <2>2 DEF SettledIsOver
<1>4. CASE ClaimEffect(t) /\ task.status = "pending"
  <2>1. task' = [status |-> "running", attempts |-> task.attempts + 1]
        /\ claimed' = [claimed EXCEPT ![tick[t].bucket] = task.attempts + 1]
    BY <1>4 DEF ClaimEffect
  <2>2. task'.attempts = task.attempts + 1
    BY <2>1
  <2>3. \A b \in 0 .. MaxBucket : claimed'[b] <= task'.attempts
    BY <1>1, <2>1, <2>2 DEF AttemptsMade
  <2>4. \A a \in 1 .. MaxAttempts : SettledBy(a)' \/ (\E u \in Ticks : InAttempt(u, a)') => a < task'.attempts
    BY <1>1, <1>2, <2>2
  <2>5. QED BY <1>1, <2>3, <2>4 DEF AttemptsMade, SettledIsOver
<1>5. CASE ClaimEffect(t) /\ task.status # "pending"
  BY <1>3, <1>5 DEF ClaimEffect
<1>6. ASSUME UNCHANGED claimed, NEW status \in {"completed", "failed"}, SettleTask(status)
      PROVE  AttemptsMade' /\ SettledIsOver'
  BY <1>2, <1>6, SettledTask DEF AttemptsMade, SettledIsOver
<1>7. QED BY <1>3, <1>4, <1>5, <1>6, TaskMoves

\* A tick that holds the running attempt goes on to hold it.
LEMMA HolderHolds ==
    ASSUME TypeInv, SettledIsOver, NEW t \in Ticks, Underway(t), TickEffect(t), mishaps' = 0,
           Holds(t), UNCHANGED <<claimed, task>>, task.status = "running"
    PROVE  Holds(t)'
<1> DEFINE a == task.attempts
           over == {"claim", "end", "finish", "panic_incident", "panic_pause", "release"}
<1>1. a \in 1 .. MaxAttempts
  BY BoundsAssumption DEF TypeInv, TaskOK, AttemptsLeft
<1>2. ~SettledBy(a)
  BY <1>1, NoMishapBefore DEF SettledIsOver
<1>3. tick[t].at \notin Acquiring
  BY DEF Holds, Working
<1>4. ASSUME tick[t].at # "claim" PROVE tick[t].session = <<"attempt", a>> /\ tick[t].at \notin over /\ InAttempt(t, a)
  BY <1>4 DEF Holds, InAttempt
<1>5. ASSUME NEW place, NEW busy, NEW failure, Becomes(t, place, busy, failure, <<"attempt", a>>),
             place \notin over \cup Acquiring
      PROVE  Holds(t)'
  <2>1. Working(t)' /\ tick'[t].at = place /\ tick'[t].session = <<"attempt", a>>
    BY <1>5, BecomesUnderway DEF Becomes
  <2>2. QED BY <1>5, <2>1 DEF Holds
<1>6. ASSUME NEW status \in {"completed", "failed"}, SettleTask(status) PROVE FALSE
  BY <1>6, SettledTask
<1>7. CASE LockStep(t)
  <2>1. tick[t].at \in Acquiring \cup {"release"}
    BY <1>7 DEF LockStep, Looks, Takes, Quits, Leaves
  <2>2. QED BY <1>3, <1>4, <2>1
<1>8. CASE Quiet(t)
  <2>1. tick[t].at = "claim" => tick[t].busy = "no"
    BY <1>8 DEF Quiet
  <2>2. tick[t].at # "claim"
    BY <2>1 DEF Holds
  <2>3. PICK place \in QuietTo, busy \in {"no", "work", "record"}, failure \in Reasons :
            Becomes(t, place, busy, failure, tick[t].session) /\ (place = "claim" => tick[t].at = "claim")
    BY <1>8 DEF Quiet
  <2>4. place \notin over \cup Acquiring
    BY <2>2, <2>3 DEF QuietTo
  <2>5. QED BY <1>4, <1>5, <2>2, <2>3, <2>4
<1>9. CASE ClaimEffect(t)
  BY <1>9 DEF ClaimEffect, Holds
<1>10. CASE ClaimedEffect(t)
  <2>1. tick[t].at = "claim"
    BY <1>10 DEF ClaimedEffect
  <2>2. claimed[tick[t].bucket] = a
    BY <2>1 DEF Holds
  <2>3. Becomes(t, "begin", "no", tick[t].failure, <<"attempt", a>>)
    BY <1>1, <1>10, <2>2 DEF ClaimedEffect
  <2>4. QED BY <1>5, <2>3
<1>11. CASE KeyedEffect(t, "verify", tick[t].failure, "mentor")
  <2>1. tick[t].at = "verify" /\ \E to \in {"mentor", "panic"}, failure \in Reasons : Becomes(t, to, "no", failure, tick[t].session)
    BY <1>11, TickFields DEF KeyedEffect
  <2>2. QED BY <1>4, <1>5, <2>1
<1>12. CASE KeyedEffect(t, "end", Ending(t), "finish")
  BY <1>4, <1>12 DEF KeyedEffect
<1>13. CASE ChooseEffect(t)
  <2>1. tick[t].at = "settle"
    BY <1>13 DEF ChooseEffect
  <2>2. tick[t].session = <<"attempt", a>>
    BY <1>4, <2>1
  <2>3. \E to \in {"complete", "fail"} : Becomes(t, to, "no", tick[t].failure, tick[t].session)
    BY <1>13, <2>2 DEF ChooseEffect
  <2>4. QED BY <1>5, <2>2, <2>3
<1>14. ASSUME NEW l \in {"complete", "fail"}, NEW status \in {"completed", "failed"}, SettleEffect(t, l, status)
       PROVE  Holds(t)'
  <2>1. tick[t].at = l
    BY <1>14 DEF SettleEffect, BeginEffect, SettleWork, SettleRecord, SettleSkip
  <2>2. InAttempt(t, a) /\ tick[t].session = <<"attempt", a>>
    BY <1>4, <2>1
  <2>3. CASE BeginEffect(t, l)
    <3>1. \E to \in {l, "panic"}, busy \in {"work", "no"}, failure \in Reasons :
              Becomes(t, to, busy, failure, tick[t].session)
      BY <2>3, TickFields DEF BeginEffect
    <3>2. QED BY <1>5, <2>2, <3>1
  <2>4. CASE SettleWork(t, l, status)
    BY <1>6, <2>4 DEF SettleWork
  <2>5. CASE SettleRecord(t, l)
    BY <1>2, <2>1, <2>2, <2>5 DEF SettleRecord, SettledBy
  <2>6. CASE SettleSkip(t, l)
    BY <1>2, <2>2, <2>6 DEF SettleSkip, SettledBy, HasDone, Rows, RowOf
  <2>7. QED BY <1>14, <2>3, <2>4, <2>5, <2>6 DEF SettleEffect
<1>15. CASE Closing(t)
  <2>1. tick[t].at # "claim" /\ tick[t].at \in over \cup {"panic"}
    BY <1>15 DEF Closing
  <2>2. tick[t].at = "panic" /\ tick[t].session = <<"attempt", a>>
    BY <1>4, <2>1
  <2>3. \E failure \in Reasons : Becomes(t, "panic_fail", "no", failure, tick[t].session)
    BY <1>15, <2>2 DEF Closing
  <2>4. QED BY <1>5, <2>2, <2>3
<1>16. CASE PanicFailEffect(t)
  <2>1. tick[t].at = "panic_fail"
    BY <1>16 DEF PanicFailEffect
  <2>2. RowOf(t, "panic_fail") = NoRow
    BY <1>2, <1>4, <2>1 DEF SettledBy, Rows, RowOf
  <2>3. SettleTask("failed")
    BY <1>16, <2>2 DEF PanicFailEffect
  <2>4. QED BY <1>6, <2>3
<1>17. QED BY <1>7, <1>8, <1>9, <1>10, <1>11, <1>12, <1>13, <1>14, <1>15, <1>16 DEF TickEffect

LEMMA TickKeepsHolder ==
    ASSUME TypeInv, TypeInv', SettledIsOver, RunningIsHeld, NEW t \in Ticks, Underway(t), TickEffect(t) \/ FailsEffect(t)
    PROVE  RunningIsHeld'
<1> SUFFICES ASSUME task'.status = "running", mishaps' = 0 PROVE \E u \in Ticks : Holds(u)'
  BY DEF RunningIsHeld
<1>1. mishaps = 0 /\ ~FailsEffect(t)
  BY NoMishapBefore
<1>3. CASE ClaimEffect(t) /\ task.status = "pending"
  <2>1. /\ task' = [status |-> "running", attempts |-> task.attempts + 1]
        /\ claimed' = [claimed EXCEPT ![tick[t].bucket] = task.attempts + 1]
        /\ Becomes(t, "claim", "record", tick[t].failure, tick[t].session)
    BY <1>3 DEF ClaimEffect
  <2>2. Working(t)' /\ tick'[t].at = "claim" /\ tick'[t].busy = "record" /\ tick'[t].bucket = tick[t].bucket
    BY <2>1, BecomesUnderway DEF Becomes
  <2>3. claimed'[tick[t].bucket] = task'.attempts
    BY <2>1, TickFields DEF TypeInv, TaskOK
  <2>4. Holds(t)'
    BY <2>2, <2>3 DEF Holds
  <2>5. QED BY <2>4
<1>4. CASE UNCHANGED <<claimed, task>>
  <2>1. PICK u \in Ticks : Holds(u)
    BY <1>1, <1>4 DEF RunningIsHeld
  <2>2. CASE u = t
    <3>1. Holds(t) /\ TickEffect(t) /\ task.status = "running"
      BY <1>1, <1>4, <2>1, <2>2
    <3>2. QED BY <1>4, <3>1, HolderHolds
  <2>3. CASE u # t
    <3>1. tick'[u] = tick[u]
      BY <2>3, OthersStay
    <3>2. Holds(u)'
      BY <1>4, <2>1, <3>1 DEF Holds, Working, Underway
    <3>3. QED BY <3>2
  <2>4. QED BY <2>2, <2>3
<1>5. CASE Settling(t) /\ \E status \in {"completed", "failed"} : SettleTask(status)
  BY <1>5, SettledTask
<1>6. CASE ClaimEffect(t) /\ task.status # "pending"
  BY <1>4, <1>6 DEF ClaimEffect
<1>7. QED BY <1>3, <1>4, <1>5, <1>6, TaskMoves

LEMMA TickKeepsLock ==
    ASSUME TypeInv, TypeInv', LockOwned, InTickTells, NEW t \in Ticks, Underway(t), TickEffect(t) \/ FailsEffect(t)
    PROVE  LockOwned' /\ InTickTells'
<1> DEFINE p == tick[t].proc
<1>1. tick[t] \notin {NoTick, Ended, Stuck, Died} /\ p \in Procs
  BY TickFields DEF Underway
<1>2. ASSUME NEW u \in Ticks, u # t
      PROVE  tick'[u] = tick[u] /\ (Underway(u)' <=> Underway(u)) /\ (Working(u)' <=> Working(u))
  BY <1>2, OthersStay
<1>3. ASSUME NEW place, NEW busy, NEW failure, NEW session, Becomes(t, place, busy, failure, session),
             Working(t) => place \notin Acquiring,
             UNCHANGED tickLock, \A q \in Procs : runtime'[q].in_tick => runtime[q].in_tick
      PROVE  LockOwned' /\ InTickTells'
  <2>1. Underway(t)' /\ (Working(t) => Working(t)') /\ tick'[t].proc = p
    BY <1>3, BecomesUnderway DEF Becomes
  <2>2. \A u \in Ticks : (Working(u) => Working(u)') /\ (tick[u] \in {Died, Stuck} => tick'[u] = tick[u])
    BY <1>1, <1>2, <2>1
  <2>3. \A u \in Ticks : Underway(u) => Underway(u)' /\ tick'[u].proc = tick[u].proc
    BY <1>2, <2>1
  <2>4. LockOwned'
    BY <1>3, <2>2 DEF LockOwned, TypeInv, ClockOK
  <2>5. InTickTells'
    BY <1>3, <2>2, <2>3 DEF InTickTells, TicksOf
  <2>6. QED BY <2>4, <2>5
<1>4. ASSUME NEW q \in Procs, runtime[q].in_tick, q # p \/ ~Working(t)
      PROVE  \E u \in Ticks : u \in TicksOf(q)' /\ Working(u)'
  <2>1. PICK u \in Ticks : u \in TicksOf(q) /\ Working(u)
    BY <1>4 DEF InTickTells, TicksOf
  <2>2. u # t
    BY <1>4, <2>1 DEF TicksOf
  <2>3. QED BY <1>2, <2>1, <2>2 DEF TicksOf
<1>5. CASE LockStep(t)
  <2>1. \A q \in Procs : q # p => runtime'[q] = runtime[q]
    BY <1>5 DEF LockStep
  <2>2. CASE Looks(t)
    <3>1. UNCHANGED <<tickLock, runtime>>
      BY <2>2 DEF Looks
    <3>2. \E place, busy, failure, session :
              Becomes(t, place, busy, failure, session) /\ (Working(t) => place \notin Acquiring)
      BY <2>2 DEF Looks, Working
    <3>3. QED BY <1>3, <3>1, <3>2
  <2>3. CASE Takes(t)
    <3>1. Becomes(t, "claim", "no", tick[t].failure, tick[t].session)
          /\ (tickLock' = Taken(t) \/ (tickLock = Free /\ UNCHANGED tickLock))
      BY <2>3 DEF Takes
    <3>2. Working(t)' /\ tick'[t].proc = p /\ Underway(t)'
      BY <3>1, BecomesUnderway DEF Becomes
    <3>3. LockOwned'
      BY <3>1, <3>2 DEF LockOwned, Taken
    <3>4. ASSUME NEW q \in Procs, runtime'[q].in_tick PROVE \E u \in Ticks : u \in TicksOf(q)' /\ Working(u)'
      <4>1. CASE q = p
        BY <3>2, <4>1 DEF TicksOf
      <4>2. CASE q # p
        BY <1>4, <2>1, <3>4, <4>2
      <4>3. QED BY <4>1, <4>2
    <3>5. InTickTells'
      BY <3>4 DEF InTickTells, TicksOf
    <3>6. QED BY <3>3, <3>5
  <2>4. CASE Quits(t)
    <3>1. /\ ~Working(t) /\ \A q \in Procs : runtime'[q].in_tick => runtime[q].in_tick
          /\ \/ UNCHANGED tickLock
             \/ tick' = [tick EXCEPT ![t] = Stuck] /\ tickLock' = Taken(t)
      BY <2>4 DEF Quits, Working
    <3>2. LockOwned'
      <4>1. CASE UNCHANGED tickLock
        BY <1>1, <1>2, <3>1, <4>1 DEF LockOwned, TypeInv, ClockOK
      <4>2. CASE tick' = [tick EXCEPT ![t] = Stuck] /\ tickLock' = Taken(t)
        BY <4>2 DEF LockOwned, Taken, TypeInv, TickOK
      <4>3. QED BY <3>1, <4>1, <4>2
    <3>3. InTickTells'
      BY <1>4, <3>1 DEF InTickTells, TicksOf
    <3>4. QED BY <3>2, <3>3
  <2>5. CASE Leaves(t)
    <3>1. /\ ~runtime'[p].in_tick
          /\ \/ tickLock' = Free
             \/ UNCHANGED tickLock /\ (tickLock = Free \/ tickLock.owner # t)
             \/ UNCHANGED tickLock /\ tick' = [tick EXCEPT ![t] = Stuck]
      BY <2>5 DEF Leaves
    <3>2. LockOwned'
      <4>1. CASE tickLock' = Free
        BY <4>1 DEF LockOwned
      <4>2. CASE UNCHANGED tickLock /\ (tickLock = Free \/ tickLock.owner # t)
        BY <1>2, <4>2 DEF LockOwned, TypeInv, ClockOK
      <4>3. CASE UNCHANGED tickLock /\ tick' = [tick EXCEPT ![t] = Stuck]
        <5>1. tick'[t] = Stuck
          BY <4>3 DEF TypeInv, TickOK
        <5>2. QED BY <1>2, <4>3, <5>1 DEF LockOwned, TypeInv, ClockOK
      <4>4. QED BY <3>1, <4>1, <4>2, <4>3
    <3>3. InTickTells'
      BY <1>4, <2>1, <3>1 DEF InTickTells, TicksOf
    <3>4. QED BY <3>2, <3>3
  <2>6. QED BY <1>5, <2>2, <2>3, <2>4, <2>5 DEF LockStep
<1>6. CASE Closing(t)
  <2>1. \E place \in {"panic", "panic_fail", "panic_incident", "panic_pause", "release"}, failure \in Reasons :
            Becomes(t, place, "no", failure, tick[t].session)
    BY <1>6 DEF Closing
  <2>2. QED BY <1>3, <1>6, <2>1 DEF Closing
<1>7. CASE Onward(t)
  BY <1>3, <1>7 DEF Onward
<1>8. QED BY <1>5, <1>6, <1>7, MostGoOnward

\* What the inductive invariant says of ticks, their task and their lock.
LeftInv == LockOwned /\ InTickTells /\ AttemptsMade /\ SettledIsOver /\ RunningIsHeld

\* Steps in which no tick moves, but may start or die.
LEMMA StillSettled ==
    ASSUME AttemptsMade, SettledIsOver, UNCHANGED <<journal, claimed>>, task'.attempts = task.attempts,
           mishaps' = 0 => mishaps = 0,
           task'.status = "running" => task.status = "running",
           \A a \in 1 .. MaxAttempts, u \in Ticks : InAttempt(u, a)' => InAttempt(u, a) /\ tick'[u] = tick[u]
    PROVE  AttemptsMade' /\ SettledIsOver'
<1>1. \A a \in 1 .. MaxAttempts : SettledBy(a)' => SettledBy(a)
  BY DEF SettledBy, HasDone, Rows
<1>2. QED BY <1>1 DEF AttemptsMade, SettledIsOver

LEMMA CallKeepsLeft ==
    ASSUME TypeInv, LeftInv, NEW p \in Procs, CallEffect(p)
    PROVE  LeftInv'
<1>1. UNCHANGED <<tickLock, journal, claimed, task, mishaps>>
  BY DEF CallEffect
<1>2. ASSUME NEW u \in Ticks
      PROVE  /\ Underway(u) => tick'[u] = tick[u] /\ Underway(u)'
             /\ tick[u] \in {Died, Stuck} => tick'[u] = tick[u]
             /\ \A a \in 1 .. MaxAttempts : InAttempt(u, a)' => InAttempt(u, a) /\ tick'[u] = tick[u]
  <2>1. CASE tick'[u] = tick[u]
    BY <2>1 DEF Underway, InAttempt
  <2>2. CASE Starts(u, p)
    BY <2>2, NullAssumption DEF Starts, Underway, InAttempt
  <2>3. QED BY <2>1, <2>2 DEF CallEffect, Starts
<1>3. \A u \in Ticks : Working(u) => Working(u)'
  BY <1>2 DEF Working
<1>4. LockOwned'
  BY <1>1, <1>2, <1>3 DEF LeftInv, LockOwned, TypeInv, ClockOK
<1>5. InTickTells'
  BY <1>2, <1>3 DEF LeftInv, InTickTells, TicksOf, CallEffect
<1>6. AttemptsMade' /\ SettledIsOver'
  BY <1>1, <1>2, StillSettled DEF LeftInv
<1>7. \A u \in Ticks : Holds(u) => Holds(u)'
  BY <1>1, <1>2, <1>3 DEF Holds, Working
<1>8. RunningIsHeld'
  BY <1>1, <1>7 DEF LeftInv, RunningIsHeld
<1>9. QED BY <1>4, <1>5, <1>6, <1>8 DEF LeftInv

LEMMA CrashKeepsLeft ==
    ASSUME TypeInv, LeftInv, NEW p \in Procs, CrashEffect(p)
    PROVE  LeftInv'
<1>1. UNCHANGED <<tickLock, journal, claimed, task>> /\ mishaps' # 0
  BY DEF CrashEffect
<1>2. ASSUME NEW u \in Ticks
      PROVE  /\ tick'[u] = tick[u] \/ tick'[u] = Died
             /\ Underway(u) /\ tick[u].proc # p => tick'[u] = tick[u] /\ Underway(u)'
             /\ \A a \in 1 .. MaxAttempts : InAttempt(u, a)' => InAttempt(u, a) /\ tick'[u] = tick[u]
  BY DEF CrashEffect, Underway, InAttempt
<1>3. LockOwned'
  BY <1>1, <1>2 DEF LeftInv, LockOwned, Working, Underway, TypeInv, ClockOK
<1>4. ASSUME NEW q \in Procs, runtime'[q].in_tick PROVE \E u \in Ticks : u \in TicksOf(q)' /\ Working(u)'
  <2>1. q # p /\ runtime[q].in_tick
    BY <1>4 DEF CrashEffect
  <2>2. PICK u \in Ticks : u \in TicksOf(q) /\ Working(u)
    BY <2>1 DEF LeftInv, InTickTells, TicksOf
  <2>3. tick'[u] = tick[u] /\ Underway(u)' /\ tick[u].proc = q
    BY <1>2, <2>1, <2>2 DEF TicksOf
  <2>4. QED BY <2>2, <2>3 DEF TicksOf, Working
<1>5. InTickTells'
  BY <1>4 DEF InTickTells, TicksOf
<1>6. AttemptsMade' /\ SettledIsOver'
  BY <1>1, <1>2, StillSettled DEF LeftInv
<1>7. QED BY <1>1, <1>3, <1>5, <1>6 DEF LeftInv, RunningIsHeld

LEMMA OtherKeepsLeft ==
    ASSUME TypeInv, LeftInv, NextBucket \/ LeaseRunsOut \/ RetryTask \/ UNCHANGED vars
    PROVE  LeftInv'
<1>1. UNCHANGED <<journal, claimed, runtime, tick, mishaps>>
  BY DEF NextBucket, LeaseRunsOut, RetryTask, vars, storeVars, ghosts
<1>2. task'.attempts = task.attempts /\ (task'.status = "running" => UNCHANGED task)
  BY DEF NextBucket, LeaseRunsOut, RetryTask, vars, storeVars, TypeInv, TaskOK
<1>3. \/ UNCHANGED tickLock
      \/ tickLock # Free /\ tickLock'.owner = tickLock.owner
  BY DEF NextBucket, LeaseRunsOut, RetryTask, vars, TypeInv, ClockOK
<1>4. \A u \in Ticks : (Working(u)' <=> Working(u)) /\ (Underway(u)' <=> Underway(u))
  BY <1>1 DEF Working, Underway
<1>5. LockOwned'
  BY <1>1, <1>3, <1>4 DEF LeftInv, LockOwned, TypeInv, ClockOK
<1>6. InTickTells'
  BY <1>1, <1>4 DEF LeftInv, InTickTells, TicksOf
<1>7. AttemptsMade' /\ SettledIsOver'
  <2>1. \A a \in 1 .. MaxAttempts, u \in Ticks : InAttempt(u, a)' => InAttempt(u, a) /\ tick'[u] = tick[u]
    BY <1>1, <1>4 DEF InAttempt
  <2>2. QED BY <1>1, <1>2, <2>1, StillSettled DEF LeftInv
<1>8. RunningIsHeld'
  BY <1>1, <1>2, <1>4 DEF LeftInv, RunningIsHeld, Holds
<1>9. QED BY <1>5, <1>6, <1>7, <1>8 DEF LeftInv

LEMMA InitLeftInv == Init => LeftInv
<1> SUFFICES ASSUME Init PROVE LeftInv
  OBVIOUS
<1>1. \A u \in Ticks : ~Underway(u)
  BY DEF Init, Underway
<1>2. tickLock = Free /\ (\A p \in Procs : ~runtime[p].in_tick) /\ (\A b \in 0 .. MaxBucket : claimed[b] = 0)
      /\ task.attempts = 0 /\ task.status = "pending"
  BY DEF Init
<1>3. \A a \in 1 .. MaxAttempts : ~SettledBy(a)
  <2>1. \A a \in 1 .. MaxAttempts, l \in Labels : Rows(a)[l] = NoRow
    BY SessionForms DEF Init, Rows
  <2>2. {"complete", "fail", "panic_fail"} \subseteq Labels
    BY DEF Labels
  <2>3. QED BY <1>1, <2>1, <2>2 DEF SettledBy, HasDone, InAttempt
<1>4. QED BY <1>1, <1>2, <1>3 DEF LeftInv, LockOwned, InTickTells, AttemptsMade, SettledIsOver, RunningIsHeld, InAttempt

LEMMA LeftInvHolds == Spec => [](TypeInv /\ LeftInv)
<1>1. Init => TypeInv /\ LeftInv
  BY InitTypes, InitLeftInv
<1>2. ASSUME TypeInv, LeftInv, [Next]_vars PROVE TypeInv' /\ LeftInv'
  <2>1. TypeInv'
    BY <1>2, StepTypes
  <2>2. ASSUME NEW t \in Ticks, Underway(t), TickEffect(t) \/ FailsEffect(t) PROVE LeftInv'
    BY <1>2, <2>1, <2>2, TickKeepsLock, TickKeepsAttempts, TickKeepsHolder DEF LeftInv
  <2>3. QED BY <1>2, <2>1, <2>2, StepForms, CallKeepsLeft, CrashKeepsLeft, OtherKeepsLeft
<1>3. QED BY <1>1, <1>2, PTL DEF Spec

\* What a tick took it gives back, however it ends: no tick that is over holds the lock
\* unless it died or the statement failed by which it took or released it; in_tick shows
\* only while a tick of the process works; and as long as nothing crashed or failed, a
\* running task is in the hands of a tick that will still settle it.
THEOREM TicksGiveBack == Spec => []NothingLeftBehind
<1>1. TypeInv /\ LeftInv => NothingLeftBehind
  <2> SUFFICES ASSUME TypeInv, LeftInv PROVE NothingLeftBehind
    OBVIOUS
  <2>1. LockIsReleased
    BY NullAssumption DEF LeftInv, LockOwned, LockIsReleased, Working, Underway
  <2>2. RunningTaskHasItsTick
    <3>1. ASSUME NEW t \in Ticks, Holds(t)
          PROVE  Working(t) /\ tick[t].at \notin {"finish", "panic_incident", "panic_pause", "release"}
      BY <3>1 DEF Holds
    <3>2. QED BY <3>1 DEF LeftInv, RunningIsHeld, RunningTaskHasItsTick
  <2>3. QED BY <2>1, <2>2 DEF LeftInv, NothingLeftBehind
<1>2. QED BY <1>1, LeftInvHolds, PTL

-----------------------------------------------------------------------------
(* Runs and their task *)

\* An attempt has an outcome as soon as it does not run any more.
OutcomesTell ==
    \A a \in 1 .. MaxAttempts :
        outcome[a] = "none" <=> a > task.attempts \/ (a = task.attempts /\ task.status = "running")

\* The attempts under which ticks of the present and of later buckets come.
BucketsInOrder ==
    /\ claimed[bucket] \in {0, task.attempts}
    /\ \A b \in 0 .. MaxBucket : b > bucket => claimed[b] = 0
    /\ \A t \in Ticks : Underway(t) => tick[t].bucket <= bucket
    /\ \A t \in Ticks : Working(t) =>
          /\ \A b \in 0 .. MaxBucket : b > tick[t].bucket => claimed[b] = 0
          /\ claimed[tick[t].bucket] \in {0, task.attempts}
          /\ tick[t].session[1] = "attempt" => tick[t].session[2] = task.attempts

\* Only ticks that claimed something settle it.
SettlersClaimed ==
    \A t \in Ticks : Underway(t) /\ tick[t].at \in {"complete", "fail", "panic_fail"} => tick[t].session[1] = "attempt"

\* A tick that is past its verification goes by what the row of it says.
VerdictStands ==
    \A a \in 1 .. MaxAttempts : \A t \in Ticks : InAttempt(t, a) =>
        /\ tick[t].at \in Verified => Rows(a)["verify"] # NoRow /\ Rows(a)["verify"].print = tick[t].failure
        /\ tick[t].at = "complete" => tick[t].failure = Sound
        /\ tick[t].at = "fail" => tick[t].failure # Sound

\* A run is settled one way only.
OneWay ==
    \A a \in 1 .. MaxAttempts :
        /\ Rows(a)["complete"] # NoRow => Rows(a)["verify"] # NoRow /\ Rows(a)["verify"].print = Sound
        /\ Rows(a)["fail"] # NoRow => Rows(a)["verify"] # NoRow /\ Rows(a)["verify"].print # Sound
        /\ outcome[a] = "completed" => Rows(a)["complete"] # NoRow
        /\ outcome[a] = "failed" => Rows(a)["fail"] # NoRow \/ Rows(a)["panic_fail"] # NoRow

\* What the task says of attempt a when its run succeeded, or did not.
Agrees(a, succeeded) ==
    \/ outcome[a] = IF succeeded THEN "completed" ELSE "failed"
    \/ outcome[a] = "failed" /\ Rows(a)["panic_fail"] # NoRow

AgreesOnceSettled ==
    \A a \in 1 .. MaxAttempts :
        /\ HasDone(a, "complete") => Agrees(a, TRUE)
        /\ HasDone(a, "fail") => Agrees(a, FALSE)
        /\ Rows(a)["end"] # NoRow => Agrees(a, Rows(a)["end"].print = <<"succeeded", "">>)
        /\ \A t \in Ticks : InAttempt(t, a) =>
              /\ tick[t].at = "complete" /\ tick[t].busy = "record" => Agrees(a, TRUE)
              /\ tick[t].at = "fail" /\ tick[t].busy = "record" => Agrees(a, FALSE)
              /\ tick[t].at = "end" => Agrees(a, tick[t].failure = Sound)

\* As long as no tick outlived its lease, took the lock together with another, or came too
\* late to its bucket.
RunInv ==
    ~overran /\ ~raced /\ ~belated =>
        BucketsInOrder /\ SettlersClaimed /\ VerdictStands /\ OneWay /\ AgreesOnceSettled

\* What the steps of a tick make of the rows that the settlement goes by.
LEMMA RowsOnce ==
    ASSUME TypeInv, NEW t \in Ticks, Underway(t), TickEffect(t) \/ FailsEffect(t), NEW r \in Sessions
    PROVE  /\ \A l \in Labels : journal[r][l] # NoRow => journal'[r][l] # NoRow
           /\ \A l \in {"verify", "end"} : \/ journal'[r][l] = journal[r][l]
                                           \/ journal[r][l] = NoRow /\ r = tick[t].session /\ tick[t].at = l
           /\ \A l \in {"complete", "fail"} : journal[r][l] # NoRow \/ journal'[r][l] = NoRow
                                              \/ (r = tick[t].session /\ tick[t].at = l)
<1> DEFINE keys == {"verify", "end", "complete", "fail"}
           Same == \A l \in keys : journal'[r][l] = journal[r][l]
           NoneGone == \A l \in Labels : journal[r][l] # NoRow => journal'[r][l] # NoRow
<1>1. keys \subseteq Labels
  BY DEF Labels
<1>2. ASSUME NEW L, JournalGrows(tick[t].session, L), L \cap keys = {} PROVE Same /\ NoneGone
  BY <1>1, <1>2 DEF JournalGrows
<1>3. CASE UNCHANGED journal
  BY <1>3
<1>4. UNCHANGED storeVars => UNCHANGED journal
  BY DEF storeVars
<1>5. CASE LockStep(t) \/ ChooseEffect(t) \/ ClaimEffect(t)
  BY <1>3, <1>5 DEF LockStep, ChooseEffect, ClaimEffect, storeVars
<1>6. CASE Quiet(t) \/ Closing(t)
  <2>1. Same /\ NoneGone
    BY <1>2, <1>6 DEF Quiet, Closing, QuietKeys
  <2>2. QED BY <2>1
<1>7. CASE ClaimedEffect(t)
  <2>1. Same /\ NoneGone
    BY <1>2, <1>7 DEF ClaimedEffect
  <2>2. QED BY <2>1
<1>8. CASE PanicFailEffect(t)
  <2>1. Same /\ NoneGone
    BY <1>2, <1>8 DEF PanicFailEffect
  <2>2. QED BY <2>1
<1>9. ASSUME NEW l \in {"verify", "end"}, NEW print, NEW place, KeyedEffect(t, l, print, place)
      PROVE  /\ NoneGone
             /\ \A m \in keys : \/ journal'[r][m] = journal[r][m]
                                \/ m = l /\ journal[r][m] = NoRow /\ r = tick[t].session /\ tick[t].at = l
  <2>1. JournalGrows(tick[t].session, {l}) /\ tick[t].at = l /\ (RowOf(t, l) # NoRow => UNCHANGED journal)
    BY <1>9 DEF KeyedEffect
  <2>2. QED BY <1>1, <2>1 DEF JournalGrows, RowOf
<1>10. CASE KeyedEffect(t, "verify", tick[t].failure, "mentor") \/ KeyedEffect(t, "end", Ending(t), "finish")
  BY <1>9, <1>10
<1>11. ASSUME NEW l \in {"claim", "command", "complete", "fail"}, JournalGrows(tick[t].session, {l}), tick[t].at = l
       PROVE  /\ NoneGone
              /\ \A m \in keys : journal'[r][m] = journal[r][m] \/ (m = l /\ r = tick[t].session /\ tick[t].at = l)
  BY <1>1, <1>11 DEF JournalGrows
<1>12. CASE FailsEffect(t)
  <2>1. tick[t].at \in {"claim", "command", "complete", "fail"} /\ JournalGrows(tick[t].session, {tick[t].at})
    BY <1>12 DEF FailsEffect
  <2>2. QED BY <1>11, <2>1
<1>13. ASSUME NEW l \in {"complete", "fail"}, NEW status, SettleEffect(t, l, status)
       PROVE  UNCHANGED journal \/ (JournalGrows(tick[t].session, {l}) /\ tick[t].at = l)
  BY <1>4, <1>13 DEF SettleEffect, BeginEffect, SettleWork, SettleRecord, SettleSkip
<1>14. CASE SettleEffect(t, "complete", "completed") \/ SettleEffect(t, "fail", "failed")
  BY <1>3, <1>11, <1>13, <1>14
<1>15. QED BY <1>5, <1>6, <1>7, <1>8, <1>10, <1>12, <1>14 DEF TickEffect

\* How a tick comes to the places of its settlement.
LEMMA Arrivals ==
    ASSUME TypeInv, NEW t \in Ticks, Underway(t), TickEffect(t) \/ FailsEffect(t), Underway(t)'
    PROVE  /\ tick'[t].at \in Verified =>
                 /\ tick'[t].session = tick[t].session /\ tick'[t].failure = tick[t].failure
                 /\ \/ tick[t].at \in Verified
                    \/ /\ journal'[tick[t].session]["verify"] # NoRow /\ tick'[t].at = "mentor"
                       /\ journal'[tick[t].session]["verify"].print = tick[t].failure
           /\ tick'[t].at \in {"complete", "fail"} =>
                 \/ tick[t].at = tick'[t].at
                 \/ /\ tick[t].session[1] # "heartbeat"
                    /\ tick'[t].at = IF tick[t].failure = Sound THEN "complete" ELSE "fail"
           /\ tick'[t].at = "complete" /\ tick'[t].busy = "record" => SettleWork(t, "complete", "completed")
           /\ tick'[t].at = "fail" /\ tick'[t].busy = "record" => SettleWork(t, "fail", "failed")
           /\ tick'[t].at = "panic_fail" => tick'[t].session = tick[t].session /\ tick[t].session[1] = "attempt"
           /\ tick'[t].at = "end" =>
                 \/ tick[t].session[1] = "heartbeat"
                 \/ \E l \in {"complete", "fail"} : SettleRecord(t, l) \/ SettleSkip(t, l)
<1> DEFINE ends == Verified \cup {"panic_fail"}
<1>1. ASSUME tick'[t].at \notin ends PROVE tick'[t].at \notin Verified /\ tick'[t].at \notin {"complete", "fail", "panic_fail", "end"}
  BY <1>1 DEF Verified
<1>2. CASE LockStep(t)
  <2>1. CASE Looks(t) \/ Takes(t)
    <3>1. tick'[t].at \in {"insert", "steal", "release", "claim"}
      BY <2>1 DEF Looks, Takes, Becomes
    <3>2. QED BY <1>1, <3>1 DEF Verified
  <2>2. CASE Quits(t) \/ Leaves(t)
    <3>1. tick'[t] \in {Ended, Stuck}
      BY <2>2 DEF Quits, Leaves, TypeInv, TickOK
    <3>2. QED BY <3>1 DEF Underway
  <2>3. QED BY <1>2, <2>1, <2>2 DEF LockStep
<1>4. CASE Quiet(t)
  <2>1. PICK place \in QuietTo, busy \in {"no", "work", "record"}, failure \in Reasons :
            /\ Becomes(t, place, busy, failure, tick[t].session)
            /\ place \in Verified => tick[t].at \in Verified /\ failure = tick[t].failure
    BY <1>4 DEF Quiet
  <2>2. tick'[t].at = place /\ tick'[t].session = tick[t].session /\ tick'[t].failure = failure
    BY <2>1 DEF Becomes
  <2>3. place \notin {"complete", "fail", "panic_fail", "end"}
    BY DEF QuietTo
  <2>4. QED BY <2>1, <2>2, <2>3
<1>5. CASE ClaimEffect(t) \/ ClaimedEffect(t) \/ FailsEffect(t)
  <2>1. tick'[t].at \in {"claim", "begin", "panic"}
    BY <1>5 DEF ClaimEffect, ClaimedEffect, FailsEffect, Becomes
  <2>2. QED BY <1>1, <2>1 DEF Verified
<1>6. CASE KeyedEffect(t, "verify", tick[t].failure, "mentor")
  <2>1. CASE tick'[t].at = "panic"
    BY <1>1, <2>1 DEF Verified
  <2>2. CASE tick'[t].at # "panic"
    BY <1>6, <2>2 DEF KeyedEffect, Becomes
  <2>3. QED BY <2>1, <2>2
<1>7. CASE KeyedEffect(t, "end", Ending(t), "finish")
  <2>1. tick'[t].at \in {"finish", "panic"}
    BY <1>7 DEF KeyedEffect, Becomes
  <2>2. QED BY <1>1, <2>1 DEF Verified
<1>8. CASE ChooseEffect(t)
  BY <1>8 DEF ChooseEffect, Becomes, Verified
<1>9. ASSUME NEW l \in {"complete", "fail"}, NEW status, SettleEffect(t, l, status)
      PROVE  \/ /\ tick'[t].at = l /\ tick[t].at = l /\ (tick'[t].busy = "record" => SettleWork(t, l, status))
                /\ tick'[t].session = tick[t].session /\ tick'[t].failure = tick[t].failure
             \/ /\ tick'[t].at = "end" /\ tick[t].at = l /\ (SettleRecord(t, l) \/ SettleSkip(t, l))
                /\ tick'[t].session = tick[t].session /\ tick'[t].failure = tick[t].failure
             \/ tick'[t].at = "panic"
  <2>1. CASE BeginEffect(t, l)
    BY <2>1 DEF BeginEffect, Becomes
  <2>2. CASE SettleWork(t, l, status)
    BY <2>2 DEF SettleWork, Becomes
  <2>3. CASE SettleRecord(t, l)
    BY <2>3 DEF SettleRecord, Becomes
  <2>4. CASE SettleSkip(t, l)
    BY <2>4 DEF SettleSkip, Becomes
  <2>5. QED BY <1>9, <2>1, <2>2, <2>3, <2>4 DEF SettleEffect
<1>10. CASE SettleEffect(t, "complete", "completed")
  BY <1>9, <1>10 DEF Verified
<1>11. CASE SettleEffect(t, "fail", "failed")
  BY <1>9, <1>11 DEF Verified
<1>12. CASE Closing(t)
  BY <1>12 DEF Closing, Becomes, Verified
<1>13. CASE PanicFailEffect(t)
  <2>1. tick'[t].at = "panic_incident"
    BY <1>13 DEF PanicFailEffect, Becomes
  <2>2. QED BY <1>1, <2>1 DEF Verified
<1>14. QED BY <1>2, <1>4, <1>5, <1>6, <1>7, <1>8, <1>10, <1>11, <1>12, <1>13 DEF TickEffect

\* An outcome is written once.
LEMMA OutcomesKept ==
    ASSUME TypeInv, OutcomesTell, NEW t \in Ticks, Underway(t), TickEffect(t) \/ FailsEffect(t)
    PROVE  OutcomesTell' /\ \A a \in 1 .. MaxAttempts : outcome[a] # "none" => outcome'[a] = outcome[a]
<1>1. task.attempts \in Nat
  BY DEF TypeInv, TaskOK
<1>2. CASE UNCHANGED <<task, outcome>>
  BY <1>2 DEF OutcomesTell
<1>3. CASE ClaimEffect(t) /\ task.status = "pending"
  <2>1. task'.status = "running" /\ task'.attempts = task.attempts + 1 /\ UNCHANGED outcome
    BY <1>3 DEF ClaimEffect
  <2>2. QED BY <1>1, <1>3, <2>1 DEF OutcomesTell
<1>4. ASSUME NEW status \in {"completed", "failed"}, SettleTask(status), task.status = "running"
      PROVE  OutcomesTell' /\ \A a \in 1 .. MaxAttempts : outcome[a] # "none" => outcome'[a] = outcome[a]
  <2>1. task'.attempts = task.attempts /\ task'.status = status /\ outcome' = [outcome EXCEPT ![task.attempts] = status]
    BY <1>4, SettledTask DEF SettleTask
  <2>2. task.attempts \in 1 .. MaxAttempts
    BY <1>4, BoundsAssumption DEF TypeInv, TaskOK, AttemptsLeft
  <2>3. outcome[task.attempts] = "none"
    BY <1>4, <2>2 DEF OutcomesTell
  <2>4. outcome'[task.attempts] = status /\ \A a \in 1 .. MaxAttempts : a # task.attempts => outcome'[a] = outcome[a]
    BY <2>1, <2>2 DEF TypeInv, TaskOK
  <2>5. QED BY <1>1, <1>4, <2>1, <2>2, <2>3, <2>4 DEF OutcomesTell
<1>5. ASSUME NEW status \in {"completed", "failed"}, SettleTask(status), task.status # "running"
      PROVE  UNCHANGED <<task, outcome>>
  BY <1>5 DEF SettleTask
<1>6. CASE ClaimEffect(t) /\ task.status # "pending"
  BY <1>2, <1>6 DEF ClaimEffect
<1>7. QED BY <1>2, <1>3, <1>4, <1>5, <1>6, TaskMoves

\* What the task says of an attempt stays said.
LEMMA AgreementKept ==
    ASSUME TypeInv, OutcomesTell, NEW t \in Ticks, Underway(t), TickEffect(t) \/ FailsEffect(t),
           NEW a \in 1 .. MaxAttempts, NEW succeeded \in BOOLEAN, Agrees(a, succeeded)
    PROVE  Agrees(a, succeeded)'
<1>1. <<"attempt", a>> \in Sessions /\ "panic_fail" \in Labels
  BY SessionForms DEF Labels
<1>2. outcome'[a] = outcome[a]
  BY OutcomesKept DEF Agrees
<1>3. Rows(a)["panic_fail"] # NoRow => Rows(a)["panic_fail"]' # NoRow
  BY <1>1, RowsOnce DEF Rows
<1>4. QED BY <1>2, <1>3 DEF Agrees

\* Buckets and attempts stay in order while ticks come one at a time and in time.
LEMMA TickKeepsOrder ==
    ASSUME TypeInv, TypeInv', AutopilotInv, BucketsInOrder, SettlersClaimed, NEW t \in Ticks, Underway(t),
           TickEffect(t) \/ FailsEffect(t), ~overran, ~raced, ~belated'
    PROVE  BucketsInOrder' /\ SettlersClaimed'
<1> DEFINE InOrder(u) == /\ \A b \in 0 .. MaxBucket : b > tick[u].bucket => claimed[b] = 0
                         /\ claimed[tick[u].bucket] \in {0, task.attempts}
                         /\ tick[u].session[1] = "attempt" => tick[u].session[2] = task.attempts
<1>1. /\ tick[t].bucket \in 0 .. MaxBucket /\ tick[t].bucket <= bucket /\ task.attempts \in Nat
      /\ claimed \in [0 .. MaxBucket -> 0 .. MaxAttempts] /\ bucket \in 0 .. MaxBucket
  <2>1. tick[t].bucket \in 0 .. MaxBucket
    BY TickFields
  <2>2. tick[t].bucket <= bucket
    BY DEF BucketsInOrder
  <2>3. task.attempts \in Nat /\ claimed \in [0 .. MaxBucket -> 0 .. MaxAttempts]
    BY DEF TypeInv, TaskOK
  <2>4. bucket \in 0 .. MaxBucket
    BY BoundsAssumption DEF TypeInv, ClockOK
  <2>5. QED BY <2>1, <2>2, <2>3, <2>4
<1>2. UNCHANGED bucket
  BY MostGoOnward DEF LockStep, Closing, Onward
<1>3. ASSUME NEW u \in Ticks, u # t PROVE tick'[u] = tick[u] /\ (Underway(u)' <=> Underway(u)) /\ (Working(u)' <=> Working(u))
  BY <1>3, OthersStay
<1>4. ASSUME Underway(t)'
      PROVE  /\ tick'[t].bucket = tick[t].bucket
             /\ \/ tick'[t].session = tick[t].session
                \/ /\ tick[t].at = "claim" /\ claimed[tick[t].bucket] # 0
                   /\ tick'[t].session = <<"attempt", claimed[tick[t].bucket]>>
  <2>1. ~GoesAway(t)
    BY <1>4 DEF GoesAway, TypeInv, TickOK, Underway
  <2>2. CASE Silent(t) \/ Settling(t) \/ Botched(t)
    BY <2>2 DEF Silent, Settling, Botched, SettleWork, PanicFailEffect, Becomes
  <2>3. QED BY <2>1, <2>2, SilentOrSettling
<1>5. \A u \in Ticks : Underway(u)' => tick'[u].bucket <= bucket'
  BY <1>1, <1>2, <1>3, <1>4 DEF BucketsInOrder
<1>6. SettlersClaimed'
  <2>1. Underway(t)' /\ tick'[t].at \in {"complete", "fail", "panic_fail"} => tick'[t].session[1] = "attempt"
    BY <1>4, Arrivals, TickFields, SessionForms DEF SettlersClaimed, Verified
  <2>2. QED BY <1>3, <2>1 DEF SettlersClaimed
<1>7. CASE UNCHANGED claimed /\ task'.attempts = task.attempts
  <2>1. claimed'[bucket'] \in {0, task'.attempts} /\ \A b \in 0 .. MaxBucket : b > bucket' => claimed'[b] = 0
    BY <1>2, <1>7 DEF BucketsInOrder
  <2>2. ASSUME NEW u \in Ticks, u # t, Working(u)' PROVE InOrder(u)'
    BY <1>3, <1>7, <2>2 DEF BucketsInOrder
  <2>3. ASSUME Working(t)' PROVE InOrder(t)'
    <3>1. Underway(t)'
      BY <2>3 DEF Working
    <3>2. CASE Working(t)
      <4>1. InOrder(t)
        BY <3>2 DEF BucketsInOrder
      <4>2. tick'[t].session[1] = "attempt" => tick'[t].session[2] = task.attempts
        BY <1>4, <3>1, <4>1
      <4>3. QED BY <1>4, <1>7, <3>1, <4>1, <4>2
    <3>3. CASE ~Working(t)
      <4>1. tick[t].at \in Acquiring
        BY <3>3 DEF Working
      <4>2. Takes(t)
        <5>1. LockStep(t)
          BY <4>1, MostGoOnward DEF Closing, Onward
        <5>2. CASE Looks(t)
          BY <2>3, <4>1, <5>2 DEF Looks, Becomes, Working
        <5>3. CASE Quits(t)
          BY <3>1, <5>3 DEF Quits, TypeInv, TickOK, Underway
        <5>4. CASE Leaves(t)
          BY <4>1, <5>4 DEF Leaves
        <5>5. QED BY <5>1, <5>2, <5>3, <5>4 DEF LockStep
      <4>3. tick[t].bucket = bucket
        BY <4>2 DEF Takes
      <4>4. tick'[t].session[1] = "heartbeat"
        BY <1>4, <3>1, <4>1 DEF TypeInv, KeysOK
      <4>5. QED BY <1>4, <1>7, <3>1, <4>3, <4>4 DEF BucketsInOrder
    <3>4. QED BY <3>2, <3>3
  <2>4. \A u \in Ticks : Working(u)' => InOrder(u)'
    BY <2>2, <2>3
  <2>5. QED BY <1>5, <1>6, <2>1, <2>4 DEF BucketsInOrder
<1>8. CASE ClaimEffect(t) /\ task.status = "pending"
  <2>1. /\ task' = [status |-> "running", attempts |-> task.attempts + 1]
        /\ claimed' = [claimed EXCEPT ![tick[t].bucket] = task.attempts + 1]
        /\ tick[t].at = "claim" /\ Becomes(t, "claim", "record", tick[t].failure, tick[t].session)
    BY <1>8 DEF ClaimEffect
  <2>2. Working(t)
    BY <2>1 DEF Working
  <2>3. \A u \in Ticks : Working(u)' => u = t
    BY <1>3, <2>2 DEF AutopilotInv, WorkersHoldLock
  <2>4. \A b \in 0 .. MaxBucket : b > tick[t].bucket => claimed[b] = 0
    BY <2>2 DEF BucketsInOrder
  <2>5. claimed'[tick[t].bucket] = task'.attempts /\ \A b \in 0 .. MaxBucket : b > tick[t].bucket => claimed'[b] = 0
    BY <1>1, <2>1, <2>4
  <2>6. claimed'[bucket'] \in {0, task'.attempts} /\ \A b \in 0 .. MaxBucket : b > bucket' => claimed'[b] = 0
    BY <1>1, <1>2, <2>5
  <2>7. tick'[t].session[1] = "heartbeat" /\ tick'[t].bucket = tick[t].bucket
    BY <2>1 DEF Becomes, TypeInv, KeysOK
  <2>8. InOrder(t)'
    BY <2>5, <2>7
  <2>9. \A u \in Ticks : Working(u)' => InOrder(u)'
    BY <2>3, <2>8
  <2>10. QED BY <1>5, <1>6, <2>6, <2>9 DEF BucketsInOrder
<1>9. ASSUME UNCHANGED claimed, NEW status \in {"completed", "failed"}, SettleTask(status)
      PROVE  task'.attempts = task.attempts
  BY <1>9, SettledTask
<1>10. CASE ClaimEffect(t) /\ task.status # "pending"
  BY <1>7, <1>10 DEF ClaimEffect
<1>11. QED BY <1>7, <1>8, <1>9, <1>10, TaskMoves

LEMMA TickKeepsVerdict ==
    ASSUME TypeInv, TypeInv', VerdictStands, NEW t \in Ticks, Underway(t), TickEffect(t) \/ FailsEffect(t)
    PROVE  VerdictStands'
<1> SUFFICES ASSUME NEW a \in 1 .. MaxAttempts, NEW u \in Ticks, InAttempt(u, a)'
             PROVE  /\ tick'[u].at \in Verified => Rows(a)["verify"]' # NoRow /\ Rows(a)["verify"]'.print = tick'[u].failure
                    /\ tick'[u].at = "complete" => tick'[u].failure = Sound
                    /\ tick'[u].at = "fail" => tick'[u].failure # Sound
  BY DEF VerdictStands, Rows
<1>1. <<"attempt", a>> \in Sessions
  BY SessionForms
<1>2. Rows(a)["verify"] # NoRow => Rows(a)["verify"]' = Rows(a)["verify"]
  BY <1>1, RowsOnce DEF Rows
<1>3. CASE u # t
  <2>1. tick'[u] = tick[u]
    BY <1>3, OthersStay
  <2>2. InAttempt(u, a)
    BY <2>1 DEF InAttempt, Underway
  <2>3. QED BY <1>2, <2>1, <2>2 DEF VerdictStands
<1>4. CASE u = t
  <2>1. Underway(t)' /\ tick'[t].session = <<"attempt", a>>
    BY <1>4 DEF InAttempt
  <2>2. CASE tick'[t].at \in Verified
    <3>1. /\ tick'[t].session = tick[t].session /\ tick'[t].failure = tick[t].failure
          /\ \/ tick[t].at \in Verified
             \/ /\ journal'[tick[t].session]["verify"] # NoRow /\ tick'[t].at = "mentor"
                /\ journal'[tick[t].session]["verify"].print = tick[t].failure
      BY <2>1, <2>2, Arrivals
    <3>2. tick'[t].at \in {"complete", "fail"} =>
              tick[t].at = tick'[t].at \/ tick'[t].at = IF tick[t].failure = Sound THEN "complete" ELSE "fail"
      BY <2>1, Arrivals
    <3>3. InAttempt(t, a)
      BY <2>1, <3>1 DEF InAttempt
    <3>4. Rows(a)["verify"]' # NoRow /\ Rows(a)["verify"]'.print = tick'[t].failure
      BY <1>2, <2>1, <3>1, <3>3 DEF VerdictStands, Rows
    <3>5. /\ tick'[t].at = "complete" => tick'[t].failure = Sound
          /\ tick'[t].at = "fail" => tick'[t].failure # Sound
      BY <3>1, <3>2, <3>3 DEF VerdictStands
    <3>6. QED BY <1>4, <3>4, <3>5
  <2>3. CASE tick'[t].at \notin Verified
    BY <1>4, <2>3 DEF Verified
  <2>4. QED BY <2>2, <2>3
<1>5. QED BY <1>3, <1>4

\* The tick that settles the task is in its attempt.
LEMMA SettlesItsOwn ==
    ASSUME TypeInv, BucketsInOrder, SettlersClaimed, NEW t \in Ticks, Underway(t), Settling(t)
    PROVE  InAttempt(t, task.attempts) /\ task.attempts \in 1 .. MaxAttempts
<1>1. tick[t].at \in {"complete", "fail", "panic_fail"}
  BY DEF Settling, SettleWork, PanicFailEffect
<1>2. Working(t) /\ tick[t].session[1] = "attempt"
  BY <1>1 DEF SettlersClaimed, Working
<1>3. tick[t].session[2] = task.attempts
  BY <1>2 DEF BucketsInOrder
<1>4. QED BY <1>2, <1>3, TickFields, SessionForms DEF InAttempt

\* What settling writes.
LEMMA SettlingWrites ==
    ASSUME TypeInv, BucketsInOrder, SettlersClaimed, NEW t \in Ticks, Underway(t), NEW status \in {"completed", "failed"},
           Settling(t), SettleTask(status)
    PROVE  /\ \A a \in 1 .. MaxAttempts : outcome'[a] = IF task.status = "running" /\ a = task.attempts THEN status
                                                        ELSE outcome[a]
<1>1. task.attempts \in 1 .. MaxAttempts
  BY SettlesItsOwn
<1>2. CASE task.status = "running"
  <2>1. outcome' = [outcome EXCEPT ![task.attempts] = status]
    BY <1>2 DEF SettleTask
  <2>2. QED BY <1>1, <1>2, <2>1 DEF TypeInv, TaskOK
<1>3. CASE task.status # "running"
  BY <1>3 DEF SettleTask
<1>4. QED BY <1>2, <1>3

LEMMA TickKeepsWay ==
    ASSUME TypeInv, BucketsInOrder, SettlersClaimed, VerdictStands, OneWay, NEW t \in Ticks, Underway(t),
           TickEffect(t) \/ FailsEffect(t)
    PROVE  OneWay'
<1> SUFFICES ASSUME NEW a \in 1 .. MaxAttempts
             PROVE  /\ Rows(a)["complete"]' # NoRow => Rows(a)["verify"]' # NoRow /\ Rows(a)["verify"]'.print = Sound
                    /\ Rows(a)["fail"]' # NoRow => Rows(a)["verify"]' # NoRow /\ Rows(a)["verify"]'.print # Sound
                    /\ outcome'[a] = "completed" => Rows(a)["complete"]' # NoRow
                    /\ outcome'[a] = "failed" => Rows(a)["fail"]' # NoRow \/ Rows(a)["panic_fail"]' # NoRow
  BY DEF OneWay, Rows
<1>1. <<"attempt", a>> \in Sessions /\ {"verify", "complete", "fail", "panic_fail"} \subseteq Labels
  BY SessionForms DEF Labels
<1>2. Rows(a)["verify"] # NoRow => Rows(a)["verify"]' = Rows(a)["verify"]
  BY <1>1, RowsOnce DEF Rows
<1>3. \A l \in {"complete", "fail", "panic_fail"} : Rows(a)[l] # NoRow => Rows(a)[l]' # NoRow
  BY <1>1, RowsOnce DEF Rows
<1>4. ASSUME NEW l \in {"complete", "fail"}, Rows(a)[l]' # NoRow
      PROVE  Rows(a)[l] # NoRow \/ (InAttempt(t, a) /\ tick[t].at = l /\ l \in Verified)
  BY <1>1, <1>4, RowsOnce DEF Rows, InAttempt, Verified
<1>5. Rows(a)["complete"]' # NoRow => Rows(a)["verify"]' # NoRow /\ Rows(a)["verify"]'.print = Sound
  BY <1>2, <1>4 DEF OneWay, VerdictStands
<1>6. Rows(a)["fail"]' # NoRow => Rows(a)["verify"]' # NoRow /\ Rows(a)["verify"]'.print # Sound
  BY <1>2, <1>4 DEF OneWay, VerdictStands
<1>7. CASE UNCHANGED outcome
  BY <1>3, <1>5, <1>6, <1>7 DEF OneWay
<1>8. ASSUME Settling(t), NEW status \in {"completed", "failed"}, SettleTask(status), outcome'[a] # outcome[a]
      PROVE  /\ outcome'[a] = "completed" => Rows(a)["complete"]' # NoRow
             /\ outcome'[a] = "failed" => Rows(a)["fail"]' # NoRow \/ Rows(a)["panic_fail"]' # NoRow
  <2>1. a = task.attempts /\ task.status = "running" /\ InAttempt(t, a)
    BY <1>8, SettlingWrites, SettlesItsOwn
  <2>2. tick[t].session = <<"attempt", a>>
    BY <2>1 DEF InAttempt
  <2>3. ASSUME NEW l \in {"complete", "fail"}, NEW outc \in {"completed", "failed"}, SettleWork(t, l, outc)
        PROVE  outcome'[a] = outc /\ Rows(a)[l]' # NoRow
    <3>1. RowOf(t, l) # NoRow /\ UNCHANGED journal /\ SettleTask(outc)
      BY <2>3 DEF SettleWork, TypeInv, KeysOK
    <3>2. outcome'[a] = outc
      BY <1>8, <2>1, <3>1, SettlingWrites
    <3>3. QED BY <2>2, <3>1, <3>2 DEF RowOf, Rows
  <2>4. CASE SettleTask("failed") /\ journal'[tick[t].session]["panic_fail"] # NoRow
    <3>1. SettleTask("failed") /\ Rows(a)["panic_fail"]' # NoRow
      BY <2>2, <2>4 DEF Rows
    <3>2. outcome'[a] = "failed"
      BY <1>8, <2>1, <3>1, SettlingWrites
    <3>3. QED BY <3>1, <3>2
  <2>5. QED BY <1>8, <2>3, <2>4 DEF Settling
<1>9. ASSUME outcome'[a] = outcome[a]
      PROVE  /\ outcome'[a] = "completed" => Rows(a)["complete"]' # NoRow
             /\ outcome'[a] = "failed" => Rows(a)["fail"]' # NoRow \/ Rows(a)["panic_fail"]' # NoRow
  BY <1>3, <1>9 DEF OneWay
<1>10. CASE ClaimEffect(t)
  BY <1>7, <1>10 DEF ClaimEffect
<1>11. QED BY <1>5, <1>6, <1>7, <1>8, <1>9, <1>10, TaskMoves

\* A settlement is recorded by the tick that did it.
LEMMA DoneBefore ==
    ASSUME TypeInv, NEW t \in Ticks, Underway(t), TickEffect(t) \/ FailsEffect(t),
           NEW a \in 1 .. MaxAttempts, NEW l \in {"complete", "fail"}, HasDone(a, l)'
    PROVE  HasDone(a, l) \/ (InAttempt(t, a) /\ tick[t].at = l /\ tick[t].busy = "record")
<1>1. <<"attempt", a>> \in Sessions
  BY SessionForms
<1>2. CASE UNCHANGED journal
  BY <1>2 DEF HasDone, Rows
<1>3. CASE GoesAway(t) \/ SettleWork(t, "complete", "completed") \/ SettleWork(t, "fail", "failed")
  BY <1>2, <1>3 DEF GoesAway, SettleWork, storeVars
<1>4. CASE Silent(t)
  BY <1>1, <1>4 DEF Silent, HasDone, Rows, InAttempt
<1>5. CASE PanicFailEffect(t)
  BY <1>1, <1>5 DEF PanicFailEffect, JournalGrows, HasDone, Rows, Labels
<1>6. QED BY <1>3, <1>4, <1>5, SilentOrSettling DEF Settling, Botched

LEMMA TickKeepsAgreement ==
    ASSUME TypeInv, TypeInv', OutcomesTell, BucketsInOrder, SettlersClaimed, VerdictStands, OneWay, OneWay',
           AgreesOnceSettled, NEW t \in Ticks, Underway(t), TickEffect(t) \/ FailsEffect(t)
    PROVE  AgreesOnceSettled'
<1> SUFFICES ASSUME NEW a \in 1 .. MaxAttempts
             PROVE  /\ HasDone(a, "complete")' => Agrees(a, TRUE)'
                    /\ HasDone(a, "fail")' => Agrees(a, FALSE)'
                    /\ Rows(a)["end"]' # NoRow => Agrees(a, Rows(a)["end"].print = <<"succeeded", "">>)'
                    /\ \A u \in Ticks : InAttempt(u, a)' =>
                          /\ tick'[u].at = "complete" /\ tick'[u].busy = "record" => Agrees(a, TRUE)'
                          /\ tick'[u].at = "fail" /\ tick'[u].busy = "record" => Agrees(a, FALSE)'
                          /\ tick'[u].at = "end" => Agrees(a, tick[u].failure = Sound)'
  BY DEF AgreesOnceSettled, Rows
<1>1. <<"attempt", a>> \in Sessions /\ "end" \in Labels
  BY SessionForms DEF Labels
<1>2. \A succeeded \in BOOLEAN : Agrees(a, succeeded) => Agrees(a, succeeded)'
  BY AgreementKept
<1>3. HasDone(a, "complete")' => Agrees(a, TRUE)'
  BY <1>2, DoneBefore DEF AgreesOnceSettled
<1>4. HasDone(a, "fail")' => Agrees(a, FALSE)'
  BY <1>2, DoneBefore DEF AgreesOnceSettled
<1>5. Rows(a)["end"]' # NoRow => Agrees(a, Rows(a)["end"].print = <<"succeeded", "">>)'
  <2>1. SUFFICES ASSUME Rows(a)["end"]' # NoRow PROVE Agrees(a, Rows(a)["end"].print = <<"succeeded", "">>)'
    OBVIOUS
  <2>2. CASE Rows(a)["end"]' = Rows(a)["end"]
    <3>1. Rows(a)["end"] # NoRow
      BY <2>1, <2>2
    <3>2. Agrees(a, Rows(a)["end"].print = <<"succeeded", "">>)
      BY <3>1 DEF AgreesOnceSettled
    <3>3. Agrees(a, TRUE)' \/ Agrees(a, FALSE)'
      BY <1>2, <3>2
    <3>4. CASE Rows(a)["end"].print = <<"succeeded", "">>
      BY <1>2, <2>2, <3>2, <3>4 DEF Agrees
    <3>5. CASE Rows(a)["end"].print # <<"succeeded", "">>
      BY <1>2, <2>2, <3>2, <3>5 DEF Agrees
    <3>6. QED BY <3>4, <3>5
  <2>3. CASE Rows(a)["end"]' # Rows(a)["end"]
    <3>1. Rows(a)["end"] = NoRow /\ InAttempt(t, a) /\ tick[t].at = "end"
      BY <1>1, <2>3, RowsOnce DEF Rows, InAttempt
    <3>2. KeyedEffect(t, "end", Ending(t), "finish")
      <4>1. CASE TickEffect(t)
        BY <3>1, <4>1 DEF TickEffect, LockStep, Looks, Takes, Quits, Leaves, Quiet, QuietFrom, ClaimEffect, ClaimedEffect,
               KeyedEffect, ChooseEffect, SettleEffect, BeginEffect, SettleWork, SettleRecord, SettleSkip, Closing, PanicFailEffect
      <4>2. CASE FailsEffect(t)
        BY <3>1, <4>2 DEF FailsEffect
      <4>3. QED BY <4>1, <4>2
    <3>3. RowOf(t, "end") = NoRow /\ tick[t].session = <<"attempt", a>>
      BY <3>1 DEF RowOf, Rows, InAttempt
    <3>4. Rows(a)["end"]'.print = Ending(t)
      BY <3>2, <3>3 DEF KeyedEffect, Rows
    <3>5. Agrees(a, tick[t].failure = Sound)
      BY <3>1 DEF AgreesOnceSettled
    <3>6. CASE tick[t].failure = Sound
      <4>1. Rows(a)["end"]'.print = <<"succeeded", "">> /\ Agrees(a, TRUE)
        BY <3>4, <3>5, <3>6 DEF Ending, Agrees
      <4>2. QED BY <1>2, <4>1 DEF Agrees
    <3>7. CASE tick[t].failure # Sound
      <4>1. Ending(t) = <<"unsuccessful", "">>
        BY <3>7 DEF Ending
      <4>2. <<"unsuccessful", "">>[1] # <<"succeeded", "">>[1]
        OBVIOUS
      <4>3. Rows(a)["end"]'.print # <<"succeeded", "">>
        BY <3>4, <4>1, <4>2, Zenon
      <4>4. Agrees(a, FALSE)
        BY <3>5, <3>7 DEF Agrees
      <4>5. QED BY <1>2, <4>3, <4>4 DEF Agrees
    <3>8. QED BY <3>6, <3>7
  <2>4. QED BY <2>2, <2>3
<1>6. ASSUME NEW l \in {"complete", "fail"}, NEW succeeded \in BOOLEAN,
             succeeded = (l = "complete"), SettleWork(t, l, IF succeeded THEN "completed" ELSE "failed")
      PROVE  InAttempt(t, a) => Agrees(a, succeeded)'
  <2> DEFINE status == IF succeeded THEN "completed" ELSE "failed"
  <2>1. SUFFICES ASSUME InAttempt(t, a) PROVE Agrees(a, succeeded)'
    OBVIOUS
  <2>2. Settling(t) /\ SettleTask(status) /\ tick[t].at = l /\ UNCHANGED journal /\ RowOf(t, l) # NoRow
    BY <1>6 DEF SettleWork, Settling, TypeInv, KeysOK
  <2>3. a = task.attempts
    BY <2>1, <2>2, SettlesItsOwn DEF InAttempt
  <2>4. CASE task.status = "running"
    <3>1. outcome'[a] = status
      BY <2>2, <2>3, <2>4, SettlingWrites
    <3>2. QED BY <3>1 DEF Agrees
  <2>5. CASE task.status # "running"
    <3>1. outcome[a] # "none" /\ outcome[a] \in {"none", "completed", "failed"}
      BY <2>3, <2>5 DEF OutcomesTell, TypeInv, TaskOK
    <3>2. outcome'[a] = outcome[a]
      BY <3>1, OutcomesKept
    <3>3. Rows(a)' = Rows(a) /\ Rows(a)[l] # NoRow
      BY <2>1, <2>2 DEF Rows, RowOf, InAttempt
    <3>4. CASE l = "complete"
      <4>1. Rows(a)["fail"] = NoRow
        BY <3>3, <3>4 DEF OneWay
      <4>2. outcome[a] = "failed" => Rows(a)["panic_fail"] # NoRow
        BY <4>1 DEF OneWay
      <4>3. QED BY <1>6, <3>1, <3>2, <3>3, <3>4, <4>2 DEF Agrees
    <3>5. CASE l = "fail"
      <4>1. outcome[a] # "completed"
        BY <3>3, <3>5 DEF OneWay
      <4>2. QED BY <1>6, <3>1, <3>2, <3>5, <4>1 DEF Agrees
    <3>6. QED BY <3>4, <3>5
  <2>6. QED BY <2>4, <2>5
<1>7. ASSUME NEW u \in Ticks, InAttempt(u, a)', u # t
      PROVE  /\ tick'[u].at = "complete" /\ tick'[u].busy = "record" => Agrees(a, TRUE)'
             /\ tick'[u].at = "fail" /\ tick'[u].busy = "record" => Agrees(a, FALSE)'
             /\ tick'[u].at = "end" => Agrees(a, tick[u].failure = Sound)'
  <2>1. tick'[u] = tick[u]
    BY <1>7, OthersStay
  <2>2. InAttempt(u, a)
    BY <1>7, <2>1 DEF InAttempt, Underway
  <2>3. /\ tick[u].at = "complete" /\ tick[u].busy = "record" => Agrees(a, TRUE)
        /\ tick[u].at = "fail" /\ tick[u].busy = "record" => Agrees(a, FALSE)
    BY <2>2 DEF AgreesOnceSettled
  <2>4. tick[u].at = "end" => Agrees(a, tick[u].failure = Sound)
    BY <2>2 DEF AgreesOnceSettled
  <2>5. CASE tick[u].failure = Sound
    <3>1. tick[u].at = "end" => Agrees(a, TRUE)'
      BY <1>2, <2>4, <2>5 DEF Agrees
    <3>2. QED BY <1>2, <2>1, <2>3, <2>5, <3>1 DEF Agrees
  <2>6. CASE tick[u].failure # Sound
    <3>1. tick[u].at = "end" => Agrees(a, FALSE)'
      BY <1>2, <2>4, <2>6 DEF Agrees
    <3>2. QED BY <1>2, <2>1, <2>3, <2>6, <3>1 DEF Agrees
  <2>7. QED BY <2>5, <2>6
<1>8. ASSUME InAttempt(t, a)'
      PROVE  /\ tick'[t].at = "complete" /\ tick'[t].busy = "record" => Agrees(a, TRUE)'
             /\ tick'[t].at = "fail" /\ tick'[t].busy = "record" => Agrees(a, FALSE)'
             /\ tick'[t].at = "end" => Agrees(a, tick[t].failure = Sound)'
  <2>1. Underway(t)' /\ tick'[t].session = <<"attempt", a>>
    BY <1>8 DEF InAttempt
  <2>2. ASSUME tick'[t].at \in {"complete", "fail", "end"}
        PROVE  InAttempt(t, a) /\ tick'[t].failure = tick[t].failure
    <3>1. tick'[t].at \in Verified
      BY <2>2 DEF Verified
    <3>2. QED BY <2>1, <3>1, Arrivals DEF InAttempt
  <2>3. tick'[t].at = "complete" /\ tick'[t].busy = "record" => Agrees(a, TRUE)'
    BY <1>6, <2>1, <2>2, Arrivals
  <2>4. tick'[t].at = "fail" /\ tick'[t].busy = "record" => Agrees(a, FALSE)'
    BY <1>6, <2>1, <2>2, Arrivals
  <2>5. ASSUME tick'[t].at = "end" PROVE Agrees(a, tick[t].failure = Sound)'
    <3>1. InAttempt(t, a) /\ tick'[t].failure = tick[t].failure /\ tick[t].session[1] # "heartbeat"
      BY <2>2, <2>5 DEF InAttempt
    <3>2. PICK l \in {"complete", "fail"} : SettleRecord(t, l) \/ SettleSkip(t, l)
      BY <2>1, <2>5, <3>1, Arrivals
    <3>3. tick[t].at = l /\ (HasDone(a, l) \/ tick[t].busy = "record")
      BY <3>1, <3>2 DEF SettleRecord, SettleSkip, HasDone, Rows, RowOf, InAttempt
    <3>4. CASE l = "complete"
      <4>1. Agrees(a, TRUE)' /\ tick'[t].failure = Sound
        BY <1>2, <3>1, <3>3, <3>4 DEF AgreesOnceSettled, VerdictStands
      <4>2. QED BY <4>1 DEF Agrees
    <3>5. CASE l = "fail"
      <4>1. Agrees(a, FALSE)' /\ tick'[t].failure # Sound
        BY <1>2, <3>1, <3>3, <3>5 DEF AgreesOnceSettled, VerdictStands
      <4>2. QED BY <4>1 DEF Agrees
    <3>6. QED BY <3>4, <3>5
  <2>6. QED BY <2>3, <2>4, <2>5
<1>9. QED BY <1>3, <1>4, <1>5, <1>7, <1>8

\* Steps in which no tick moves keep what was said of runs and tasks.
LEMMA StillAgrees ==
    ASSUME TypeInv, TypeInv', OutcomesTell, BucketsInOrder, SettlersClaimed, VerdictStands, OneWay, AgreesOnceSettled,
           UNCHANGED <<journal, claimed, outcome>>, task'.attempts = task.attempts,
           bucket' = bucket \/ bucket' = bucket + 1,
           \A u \in Ticks : Underway(u)' => \/ Underway(u) /\ tick'[u] = tick[u]
                                            \/ \E p \in Procs : Starts(u, p) /\ UNCHANGED bucket
    PROVE  BucketsInOrder' /\ SettlersClaimed' /\ VerdictStands' /\ OneWay' /\ AgreesOnceSettled'
<1>1. bucket \in 0 .. MaxBucket /\ bucket' \in 0 .. MaxBucket
  BY BoundsAssumption DEF TypeInv, ClockOK
<1>2. ASSUME NEW u \in Ticks, NEW a \in 1 .. MaxAttempts, InAttempt(u, a)' PROVE InAttempt(u, a) /\ tick'[u] = tick[u]
  BY <1>2 DEF InAttempt, Starts
<1>3. ASSUME NEW u \in Ticks, Working(u)' PROVE Working(u) /\ tick'[u] = tick[u]
  BY <1>3 DEF Working, Starts
<1>4. BucketsInOrder'
  <2>1. claimed'[bucket'] \in {0, task'.attempts} /\ \A b \in 0 .. MaxBucket : b > bucket' => claimed'[b] = 0
    BY <1>1 DEF BucketsInOrder
  <2>2. ASSUME NEW u \in Ticks, Underway(u)' PROVE tick'[u].bucket <= bucket'
    <3>1. CASE Underway(u) /\ tick'[u] = tick[u]
      <4>1. tick[u].bucket <= bucket /\ tick[u].bucket \in 0 .. MaxBucket
        BY <3>1, TickFields DEF BucketsInOrder
      <4>2. QED BY <1>1, <3>1, <4>1
    <3>2. CASE \E p \in Procs : Starts(u, p) /\ UNCHANGED bucket
      BY <1>1, <3>2 DEF Starts
    <3>3. QED BY <2>2, <3>1, <3>2
  <2>3. QED BY <1>3, <2>1, <2>2 DEF BucketsInOrder
<1>5. SettlersClaimed'
  BY DEF SettlersClaimed, Starts
<1>6. VerdictStands'
  BY <1>2 DEF VerdictStands, Rows
<1>7. OneWay'
  BY DEF OneWay, Rows
<1>8. \A a \in 1 .. MaxAttempts, succeeded \in BOOLEAN : Agrees(a, succeeded)' <=> Agrees(a, succeeded)
  BY DEF Agrees, Rows
<1>9. AgreesOnceSettled'
  <2>1. \A a \in 1 .. MaxAttempts : /\ HasDone(a, "complete")' => Agrees(a, TRUE)'
                                    /\ HasDone(a, "fail")' => Agrees(a, FALSE)'
                                    /\ Rows(a)["end"]' # NoRow => Agrees(a, Rows(a)["end"].print = <<"succeeded", "">>)'
    BY DEF AgreesOnceSettled, HasDone, Rows, Agrees
  <2>2. ASSUME NEW a \in 1 .. MaxAttempts, NEW u \in Ticks, InAttempt(u, a)'
        PROVE  /\ tick'[u].at = "complete" /\ tick'[u].busy = "record" => Agrees(a, TRUE)'
               /\ tick'[u].at = "fail" /\ tick'[u].busy = "record" => Agrees(a, FALSE)'
               /\ tick'[u].at = "end" => Agrees(a, tick[u].failure = Sound)'
    BY <1>2, <2>2 DEF AgreesOnceSettled, Agrees, Rows
  <2>3. QED BY <2>1, <2>2 DEF AgreesOnceSettled
<1>10. QED BY <1>4, <1>5, <1>6, <1>7, <1>9

\* Once a tick outlived its lease, raced or came too late, it stays so.
LEMMA GhostsRise ==
    ASSUME TypeInv, [Next]_vars
    PROVE  (overran => overran') /\ (raced => raced') /\ (belated => belated')
<1>1. ASSUME NEW t \in Ticks, Underway(t), TickEffect(t) \/ FailsEffect(t)
      PROVE  (overran => overran') /\ (raced => raced') /\ (belated => belated')
  <2>1. CASE LockStep(t)
    <3>1. (overran => overran') /\ (raced => raced')
      BY <2>1 DEF LockStep
    <3>2. belated => belated'
      BY <2>1 DEF LockStep, Looks, Takes, Quits, Leaves
    <3>3. QED BY <3>1, <3>2
  <2>2. CASE Closing(t) \/ Onward(t)
    BY <2>2 DEF Closing, AtMostMishap, Onward
  <2>3. QED BY <1>1, <2>1, <2>2, MostGoOnward
<1>2. ASSUME NEW p \in Procs, CallEffect(p) \/ CrashEffect(p)
      PROVE  (overran => overran') /\ (raced => raced') /\ (belated => belated')
  BY <1>2 DEF CallEffect, CrashEffect
<1>3. CASE NextBucket \/ RetryTask \/ UNCHANGED vars
  BY <1>3 DEF NextBucket, RetryTask, ghosts, vars
<1>4. CASE LeaseRunsOut
  BY <1>4 DEF LeaseRunsOut
<1>5. QED BY <1>1, <1>2, <1>3, <1>4, StepForms

LEMMA StepRunInv ==
    ASSUME TypeInv, TypeInv', AutopilotInv, OutcomesTell, RunInv, [Next]_vars
    PROVE  OutcomesTell' /\ RunInv'
<1>1. ASSUME ~overran', ~raced', ~belated'
      PROVE  /\ ~overran /\ ~raced /\ ~belated
             /\ BucketsInOrder /\ SettlersClaimed /\ VerdictStands /\ OneWay /\ AgreesOnceSettled
  BY <1>1, GhostsRise DEF RunInv
<1>2. ASSUME NEW t \in Ticks, Underway(t), TickEffect(t) \/ FailsEffect(t) PROVE OutcomesTell' /\ RunInv'
  <2>1. OutcomesTell'
    BY <1>2, OutcomesKept
  <2>2. ASSUME ~overran', ~raced', ~belated'
        PROVE  BucketsInOrder' /\ SettlersClaimed' /\ VerdictStands' /\ OneWay' /\ AgreesOnceSettled'
    <3>1. BucketsInOrder' /\ SettlersClaimed'
      BY <1>1, <1>2, <2>2, TickKeepsOrder
    <3>2. VerdictStands'
      BY <1>1, <1>2, <2>2, TickKeepsVerdict
    <3>3. OneWay'
      BY <1>1, <1>2, <2>2, TickKeepsWay
    <3>4. AgreesOnceSettled'
      BY <1>1, <1>2, <2>2, <3>3, TickKeepsAgreement
    <3>5. QED BY <3>1, <3>2, <3>3, <3>4
  <2>3. QED BY <2>1, <2>2 DEF RunInv
<1>3. ASSUME UNCHANGED <<journal, claimed, outcome>>, task'.attempts = task.attempts,
             task'.status = "running" <=> task.status = "running",
             bucket' = bucket \/ bucket' = bucket + 1,
             \A u \in Ticks : Underway(u)' => \/ Underway(u) /\ tick'[u] = tick[u]
                                              \/ \E p \in Procs : Starts(u, p) /\ UNCHANGED bucket
      PROVE  OutcomesTell' /\ RunInv'
  <2>1. OutcomesTell'
    BY <1>3 DEF OutcomesTell
  <2>2. QED BY <1>1, <1>3, <2>1, StillAgrees DEF RunInv
<1>4. ASSUME NEW p \in Procs, CallEffect(p) PROVE OutcomesTell' /\ RunInv'
  <2>1. UNCHANGED <<bucket, journal, claimed, task, outcome>>
    BY <1>4 DEF CallEffect
  <2>2. \A u \in Ticks : Underway(u)' => \/ Underway(u) /\ tick'[u] = tick[u]
                                         \/ \E q \in Procs : Starts(u, q) /\ UNCHANGED bucket
    <3>1. CASE UNCHANGED tick
      BY <3>1 DEF Underway
    <3>2. ASSUME NEW t \in Ticks, Starts(t, p) PROVE \A u \in Ticks : u # t => (Underway(u)' => Underway(u) /\ tick'[u] = tick[u])
      BY <3>2 DEF Starts, Underway
    <3>3. QED BY <1>4, <2>1, <3>1, <3>2 DEF CallEffect
  <2>3. QED BY <1>3, <2>1, <2>2
<1>5. ASSUME NEW p \in Procs, CrashEffect(p) PROVE OutcomesTell' /\ RunInv'
  <2>1. UNCHANGED <<bucket, journal, claimed, task, outcome>>
        /\ \A u \in Ticks : Underway(u)' => Underway(u) /\ tick'[u] = tick[u]
    BY <1>5 DEF CrashEffect, Underway
  <2>2. QED BY <1>3, <2>1
<1>6. CASE NextBucket \/ LeaseRunsOut \/ RetryTask \/ UNCHANGED vars
  <2>1. UNCHANGED <<journal, claimed, outcome, tick>>
    BY <1>6 DEF NextBucket, LeaseRunsOut, RetryTask, vars, storeVars
  <2>2. task'.attempts = task.attempts /\ (task'.status = "running" <=> task.status = "running")
    BY <1>6 DEF NextBucket, LeaseRunsOut, RetryTask, vars, storeVars, TypeInv, TaskOK
  <2>3. bucket' = bucket \/ bucket' = bucket + 1
    BY <1>6 DEF NextBucket, LeaseRunsOut, RetryTask, vars
  <2>4. QED BY <1>3, <2>1, <2>2, <2>3 DEF Underway
<1>7. QED BY <1>2, <1>4, <1>5, <1>6, StepForms

LEMMA InitRunInv == Init => OutcomesTell /\ RunInv
<1> SUFFICES ASSUME Init PROVE OutcomesTell /\ RunInv
  OBVIOUS
<1>1. \A u \in Ticks : ~Underway(u)
  BY DEF Init, Underway
<1>2. task.attempts = 0 /\ task.status = "pending" /\ (\A a \in 1 .. MaxAttempts : outcome[a] = "none")
      /\ bucket = 0 /\ \A b \in 0 .. MaxBucket : claimed[b] = 0
  BY DEF Init
<1>3. \A a \in 1 .. MaxAttempts, l \in Labels : Rows(a)[l] = NoRow
  BY SessionForms DEF Init, Rows
<1>4. {"verify", "complete", "fail", "panic_fail", "end"} \subseteq Labels
  BY DEF Labels
<1>5. OutcomesTell
  BY <1>2 DEF OutcomesTell
<1>6. BucketsInOrder
  <2>1. 0 \in 0 .. MaxBucket
    BY BoundsAssumption
  <2>2. QED BY <1>1, <1>2, <2>1 DEF BucketsInOrder, Working
<1>7. SettlersClaimed /\ VerdictStands
  BY <1>1 DEF SettlersClaimed, VerdictStands, InAttempt
<1>8. OneWay
  BY <1>2, <1>3, <1>4 DEF OneWay
<1>9. AgreesOnceSettled
  BY <1>1, <1>3, <1>4 DEF AgreesOnceSettled, HasDone, InAttempt
<1>10. QED BY <1>5, <1>6, <1>7, <1>8, <1>9 DEF RunInv

\* What run.end told of the run of an attempt agrees with the task, however many ticks of
\* the session replay, are refused or crash: a run that ended as succeeded belongs to a
\* completed task, or to one that a tick failed which threw, and one that ended otherwise
\* to a failed task; and no task is completed whose verification is not recorded as passed.
\* This needs every tick to stay within its lease, to take the lock alone and in its own
\* bucket, and is said of run.end alone: run.end.error may tell of failure what is completed.
THEOREM RunsAndTasksAgree == Spec => []RunAgreesWithTask
<1> DEFINE Inv == TypeInv /\ AutopilotInv /\ OutcomesTell /\ RunInv
<1>1. Init => Inv
  BY InitTypes, InitAutopilotInv, InitRunInv
<1>2. ASSUME Inv, [Next]_vars PROVE Inv'
  <2>1. TypeInv' /\ AutopilotInv'
    BY <1>2, StepTypes, StepAutopilotInv
  <2>2. QED BY <1>2, <2>1, StepRunInv
<1>3. Inv => RunAgreesWithTask
  <2> SUFFICES ASSUME Inv, NEW a \in 1 .. MaxAttempts, ~overran, ~raced, ~belated
               PROVE  /\ Said(a, "end", <<"succeeded", "">>) =>
                            \/ outcome[a] = "completed"
                            \/ outcome[a] = "failed" /\ Rows(a)["panic_fail"] # NoRow
                      /\ Said(a, "end", <<"unsuccessful", "">>) => outcome[a] = "failed"
                      /\ outcome[a] = "completed" => Rows(a)["verify"] # NoRow /\ Rows(a)["verify"].print = Sound
    BY DEF RunAgreesWithTask, Rows
  <2>1. Rows(a)["end"] # NoRow => Agrees(a, Rows(a)["end"].print = <<"succeeded", "">>)
    BY DEF RunInv, AgreesOnceSettled
  <2>2. ASSUME Said(a, "end", <<"succeeded", "">>)
        PROVE  outcome[a] = "completed" \/ (outcome[a] = "failed" /\ Rows(a)["panic_fail"] # NoRow)
    <3>1. Rows(a)["end"] # NoRow /\ Rows(a)["end"].print = <<"succeeded", "">>
      BY <2>2 DEF Said, Rows
    <3>2. Agrees(a, TRUE)
      BY <2>1, <3>1
    <3>3. QED BY <3>2 DEF Agrees
  <2>3. ASSUME Said(a, "end", <<"unsuccessful", "">>) PROVE outcome[a] = "failed"
    <3>1. Rows(a)["end"] # NoRow /\ Rows(a)["end"].print = <<"unsuccessful", "">>
      BY <2>3 DEF Said, Rows
    <3>2. <<"unsuccessful", "">>[1] # <<"succeeded", "">>[1]
      OBVIOUS
    <3>3. Rows(a)["end"].print # <<"succeeded", "">>
      BY <3>1, <3>2, Zenon
    <3>4. (Rows(a)["end"].print = <<"succeeded", "">>) = FALSE
      BY <3>3
    <3>5. Agrees(a, FALSE)
      BY <2>1, <3>1, <3>4
    <3>6. QED BY <3>5 DEF Agrees
  <2>4. outcome[a] = "completed" => Rows(a)["verify"] # NoRow /\ Rows(a)["verify"].print = Sound
    BY DEF RunInv, OneWay
  <2>5. QED BY <2>2, <2>3, <2>4
<1>4. QED BY <1>1, <1>2, <1>3, PTL DEF Spec

=============================================================================
