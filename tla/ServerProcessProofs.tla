-------------------------- MODULE ServerProcessProofs --------------------------
(***************************************************************************)
(* For any number of server processes, any database they find and any      *)
(* daemon, through races, crashes and failing statements: the state is     *)
(* well typed, the schema is complete before a process serves, squish and  *)
(* retention forget no line, snapshots and profiles keep what they refer   *)
(* to.  While one process serves the database, the daemon is what its      *)
(* callers were told, and lines are squished once.                         *)
(***************************************************************************)
EXTENDS ServerProcess, FiniteSetTheorems, TLAPS

\* What a process that is past its reading takes as applied really is: it is recorded, or
\* covered by user_version.
AppliedIsTrue == \A p \in Procs : boot[p].applied \subseteq AppliedVersions

\* Whatever user_version covers is recorded, or was known to every process that migrates:
\* two processes that work through the same list never disagree about it.
CoveredIsKnown ==
    \A p \in Procs : boot[p].at = "migrating" => 1 .. userVersion \subseteq recorded \cup boot[p].applied

\* A process that is through with init has the whole schema behind it.
ThroughIsComplete ==
    \A p \in Procs :
        boot[p].at \in {"complete", "up"} => tables = AllTables /\ Versions \subseteq boot[p].applied

SchemaInv == SchemaTypeOK /\ AppliedIsTrue /\ CoveredIsKnown /\ ThroughIsComplete

\* What any step does to the schema.
SchemaStep(p) ==
    \/ Launch(p) \/ ReadApplied(p) \/ ApplyMigration(p) \/ MigrationConflict(p) \/ ReplaySchema(p)
    \/ /\ boot[p].at = "complete" /\ boot' = [boot EXCEPT ![p].at = "up"]
       /\ UNCHANGED <<recorded, userVersion, tables>>
    \/ Die(p) /\ UNCHANGED <<recorded, userVersion, tables>>

-----------------------------------------------------------------------------

LEMMA NextIsSchemaStep ==
    ASSUME [Next]_vars
    PROVE  (\E p \in Procs : SchemaStep(p)) \/ UNCHANGED schemaVars
<1>1. CASE UNCHANGED vars
  BY <1>1 DEF vars
<1>2. ASSUME NEW p \in Procs, LaunchProcess(p) PROVE SchemaStep(p)
  BY <1>2 DEF LaunchProcess, SchemaStep
<1>3. ASSUME NEW p \in Procs, Migrate(p) PROVE SchemaStep(p)
  BY <1>3 DEF Migrate, SchemaStep
<1>4. ASSUME NEW p \in Procs, Initialize(p) PROVE SchemaStep(p)
  <2>1. Restore(p)
    BY <1>4 DEF Initialize, InitializeDaemon, InitializeAutoSquish, InitializeAutoRetry,
       InitializeAutoRetention, InitializeTurnWatchdog, InitializeAutoSnapshot
  <2>2. QED BY <2>1 DEF Restore, SchemaStep
<1>5. ASSUME NEW p \in Procs, Crash(p) PROVE SchemaStep(p)
  BY <1>5 DEF Crash, SchemaStep
<1>6. ASSUME NEW p \in Procs,
             \/ SquishTick(p) \/ SnapshotTick(p) \/ TickEnds(p) \/ JobGoesOn(p) \/ WritingGoesOn(p)
             \/ EndControlCall(p) \/ Timer(p) \/ ControlCall(p) \/ TranscriptCall(p)
             \/ ImprintCall(p) \/ StatementFails(p)
      PROVE  UNCHANGED schemaVars
  BY <1>6 DEF SquishTick, SnapshotTick, TickEnds, JobGoesOn, WritingGoesOn, EndControlCall,
     Timer, ControlCall, TranscriptCall, ImprintCall, StatementFails
<1>7. QED BY <1>1, <1>2, <1>3, <1>4, <1>5, <1>6 DEF Next, Proceed

LEMMA InitSchemaInv == Init => SchemaInv
BY ScenesAssumption DEF Init, SchemaInit, Databases, SchemaInv, SchemaTypeOK, AppliedIsTrue,
   CoveredIsKnown, ThroughIsComplete, Phases

\* A migration takes the lowest version its process does not know, which is above
\* user_version unless it is recorded.
LEMMA MigrationGoesUp ==
    ASSUME SchemaInv, NEW p \in Procs, boot[p].at = "migrating",
           NEW v \in Versions \ recorded, NextVersion(p, v)
    PROVE  v > userVersion
<1>1. v \notin boot[p].applied /\ v \notin recorded
  BY DEF NextVersion
<1>2. v \notin 1 .. userVersion
  BY <1>1 DEF SchemaInv, CoveredIsKnown
<1>3. userVersion \in Nat /\ v \in Nat /\ v >= 1
  BY DEF SchemaInv, SchemaTypeOK, Versions
<1>4. QED BY <1>2, <1>3

LEMMA MigrationKeepsInv ==
    ASSUME SchemaInv, NEW p \in Procs, ApplyMigration(p)
    PROVE  SchemaInv' /\ userVersion' >= userVersion
<1>1. PICK v \in Versions \ recorded :
          /\ NextVersion(p, v)
          /\ tables' = tables \cup Migrations[v]
          /\ recorded' = recorded \cup {v}
          /\ userVersion' = v
          /\ boot' = [boot EXCEPT ![p].applied = @ \cup {v}]
  BY DEF ApplyMigration
<1>2. boot[p].at = "migrating"
  BY DEF ApplyMigration
<1>3. v > userVersion /\ userVersion \in Nat /\ v \in Nat /\ v >= 1
  BY <1>1, <1>2, MigrationGoesUp DEF SchemaInv, SchemaTypeOK, Versions
<1>4. boot \in [Procs -> [at : Phases, applied : SUBSET Versions]]
  BY DEF SchemaInv, SchemaTypeOK
<1>5. /\ boot'[p].at = "migrating" /\ boot'[p].applied = boot[p].applied \cup {v}
      /\ \A q \in Procs : q # p => boot'[q] = boot[q]
      /\ boot' \in [Procs -> [at : Phases, applied : SUBSET Versions]]
  <2>1. boot'[p] = [boot[p] EXCEPT !.applied = boot[p].applied \cup {v}]
    BY <1>1, <1>4
  <2>2. boot[p] \in [at : Phases, applied : SUBSET Versions]
    BY <1>4
  <2>3. /\ boot'[p].at = "migrating" /\ boot'[p].applied = boot[p].applied \cup {v}
        /\ boot'[p] \in [at : Phases, applied : SUBSET Versions]
    BY <2>1, <2>2, <1>2, <1>1
  <2>4. QED BY <2>3, <1>1, <1>4
<1>6. \A w \in 1 .. v : w # v => w \in boot[p].applied
  BY <1>1, <1>3 DEF NextVersion, Versions
<1>7. AppliedVersions \subseteq AppliedVersions' /\ v \in AppliedVersions'
  BY <1>1, <1>3 DEF AppliedVersions
<1>8. Migrations[v] \subseteq AllTables
  BY <1>1 DEF AllTables
<1>9. SchemaTypeOK'
  BY <1>1, <1>3, <1>5, <1>8 DEF SchemaInv, SchemaTypeOK, Versions
<1>10. AppliedIsTrue'
  BY <1>5, <1>7 DEF SchemaInv, AppliedIsTrue
<1>11. CoveredIsKnown'
  <2>1. ASSUME NEW q \in Procs, boot'[q].at = "migrating", NEW w \in 1 .. v
        PROVE  w \in recorded' \cup boot'[q].applied
    <3>1. CASE w = v
      BY <3>1, <1>1
    <3>2. CASE w # v
      <4>1. w \in AppliedVersions
        BY <3>2, <1>6 DEF SchemaInv, AppliedIsTrue
      <4>2. boot[q].at = "migrating" /\ boot[q].applied \subseteq boot'[q].applied
        BY <2>1, <1>2, <1>5
      <4>3. w \in recorded \cup boot[q].applied
        BY <4>1, <4>2 DEF AppliedVersions, SchemaInv, CoveredIsKnown
      <4>4. QED BY <4>2, <4>3, <1>1
    <3>3. QED BY <3>1, <3>2
  <2>2. QED BY <2>1, <1>1 DEF CoveredIsKnown
<1>12. ThroughIsComplete'
  <2>1. ASSUME NEW q \in Procs, boot'[q].at \in {"complete", "up"}
        PROVE  tables' = AllTables /\ Versions \subseteq boot'[q].applied
    <3>1. q # p
      BY <2>1, <1>5
    <3>2. tables = AllTables /\ Versions \subseteq boot[q].applied
      BY <2>1, <3>1, <1>5 DEF SchemaInv, ThroughIsComplete
    <3>3. QED BY <3>1, <3>2, <1>1, <1>5, <1>8
  <2>2. QED BY <2>1 DEF ThroughIsComplete
<1>13. QED BY <1>1, <1>3, <1>9, <1>10, <1>11, <1>12 DEF SchemaInv

LEMMA PhaseEdit ==
    ASSUME boot \in [Procs -> [at : Phases, applied : SUBSET Versions]], NEW p \in Procs, NEW a,
           boot' = [boot EXCEPT ![p].at = a]
    PROVE  boot' = [boot EXCEPT ![p] = [at |-> a, applied |-> boot[p].applied]]
<1> DEFINE was == boot[p]
<1>1. was \in [at : Phases, applied : SUBSET Versions]
  OBVIOUS
<1> HIDE DEF was
<1>2. [was EXCEPT !.at = a] = [at |-> a, applied |-> was.applied]
  BY <1>1
<1> USE DEF was
<1>3. QED BY <1>2

\* A step that writes nothing but what one process knows of itself.
LEMMA StepOfOneKeepsInv ==
    ASSUME SchemaInv, NEW p \in Procs, NEW at \in Phases, NEW applied \in SUBSET Versions,
           boot' = [boot EXCEPT ![p] = [at |-> at, applied |-> applied]],
           UNCHANGED <<recorded, userVersion>>,
           tables \subseteq tables', tables' \subseteq AllTables,
           applied \subseteq AppliedVersions,
           at = "migrating" => 1 .. userVersion \subseteq recorded \cup applied,
           at \in {"complete", "up"} => tables' = AllTables /\ Versions \subseteq applied
    PROVE  SchemaInv' /\ userVersion' >= userVersion
<1> DEFINE now == [at |-> at, applied |-> applied]
<1> HIDE DEF now
<1>0. /\ now.at = at /\ now.applied = applied /\ boot' = [boot EXCEPT ![p] = now]
      /\ now \in [at : Phases, applied : SUBSET Versions] /\ userVersion \in Nat
  BY DEF now, SchemaInv, SchemaTypeOK, Versions
<1>1. /\ boot'[p] = now /\ \A q \in Procs : q # p => boot'[q] = boot[q]
      /\ boot' \in [Procs -> [at : Phases, applied : SUBSET Versions]]
  BY <1>0 DEF SchemaInv, SchemaTypeOK
<1>2. SchemaTypeOK'
  BY <1>0, <1>1 DEF SchemaInv, SchemaTypeOK
<1>3. AppliedIsTrue'
  BY <1>0, <1>1 DEF SchemaInv, AppliedIsTrue, AppliedVersions
<1>4. CoveredIsKnown'
  BY <1>0, <1>1 DEF SchemaInv, CoveredIsKnown
<1>5. ThroughIsComplete'
  BY <1>0, <1>1 DEF SchemaInv, ThroughIsComplete
<1>6. QED BY <1>0, <1>2, <1>3, <1>4, <1>5 DEF SchemaInv

LEMMA StepSchemaInv ==
    ASSUME SchemaInv, [Next]_vars
    PROVE  SchemaInv' /\ userVersion' >= userVersion
<1>1. CASE UNCHANGED schemaVars
  BY <1>1 DEF schemaVars, SchemaInv, SchemaTypeOK, AppliedIsTrue, AppliedVersions,
     CoveredIsKnown, ThroughIsComplete, Versions
<1>2. ASSUME NEW p \in Procs, SchemaStep(p)
      PROVE  SchemaInv' /\ userVersion' >= userVersion
  <2> DEFINE was == boot[p]
  <2>1. /\ was \in [at : Phases, applied : SUBSET Versions]
        /\ boot \in [Procs -> [at : Phases, applied : SUBSET Versions]]
        /\ tables \subseteq AllTables /\ userVersion \in Nat /\ recorded \subseteq Versions
        /\ was.applied \subseteq AppliedVersions
        /\ was.at = "migrating" => 1 .. userVersion \subseteq recorded \cup was.applied
    BY DEF SchemaInv, SchemaTypeOK, AppliedIsTrue, CoveredIsKnown, Versions
  <2>2. AppliedVersions \subseteq Versions
    BY DEF SchemaInv, SchemaTypeOK, AppliedVersions, Versions
  <2>3. CASE Launch(p)
    <3>1. boot' = [boot EXCEPT ![p] = [at |-> "reading", applied |-> was.applied]]
      BY <2>1, PhaseEdit, <2>3 DEF Launch
    <3>2. UNCHANGED <<recorded, userVersion, tables>> /\ "reading" \in Phases
      BY <2>3 DEF Launch, Phases
    <3>3. QED BY <2>1, <3>1, <3>2, StepOfOneKeepsInv
  <2>4. CASE ReadApplied(p)
    <3>1. /\ boot' = [boot EXCEPT ![p] = [at |-> "migrating", applied |-> AppliedVersions]]
          /\ UNCHANGED <<recorded, userVersion, tables>> /\ "migrating" \in Phases
      BY <2>4 DEF ReadApplied, Phases
    <3>2. 1 .. userVersion \subseteq recorded \cup AppliedVersions
      BY DEF AppliedVersions
    <3>3. QED BY <2>1, <2>2, <3>1, <3>2, StepOfOneKeepsInv
  <2>5. CASE ApplyMigration(p)
    BY <2>5, MigrationKeepsInv
  <2>6. CASE Die(p) /\ UNCHANGED <<recorded, userVersion, tables>>
    <3>1. /\ boot' = [boot EXCEPT ![p] = [at |-> "down", applied |-> {}]]
          /\ UNCHANGED <<recorded, userVersion, tables>> /\ "down" \in Phases
      BY <2>6 DEF Die, Phases
    <3>2. {} \in SUBSET Versions /\ {} \subseteq AppliedVersions
      OBVIOUS
    <3>3. QED BY <2>1, <3>1, <3>2, StepOfOneKeepsInv
  <2>7. CASE MigrationConflict(p)
    BY <2>6, <2>7 DEF MigrationConflict
  <2>8. CASE ReplaySchema(p)
    <3>1. boot' = [boot EXCEPT ![p] = [at |-> "complete", applied |-> was.applied]]
      BY <2>1, PhaseEdit, <2>8 DEF ReplaySchema
    <3>2. /\ UNCHANGED <<recorded, userVersion>> /\ "complete" \in Phases
          /\ tables \subseteq tables' /\ tables' = AllTables /\ Versions \subseteq was.applied
      BY <2>1, <2>8 DEF ReplaySchema, Phases
    <3>3. QED BY <2>1, <3>1, <3>2, StepOfOneKeepsInv
  <2>9. CASE /\ boot[p].at = "complete" /\ boot' = [boot EXCEPT ![p].at = "up"]
             /\ UNCHANGED <<recorded, userVersion, tables>>
    <3>1. boot' = [boot EXCEPT ![p] = [at |-> "up", applied |-> was.applied]]
      BY <2>1, PhaseEdit, <2>9
    <3>2. /\ UNCHANGED <<recorded, userVersion, tables>> /\ "up" \in Phases
          /\ tables = AllTables /\ Versions \subseteq was.applied
      BY <2>9 DEF SchemaInv, ThroughIsComplete, Phases
    <3>3. QED BY <2>1, <3>1, <3>2, StepOfOneKeepsInv
  <2>10. QED BY <1>2, <2>3, <2>4, <2>5, <2>6, <2>7, <2>8, <2>9 DEF SchemaStep
<1>3. QED BY <1>1, <1>2, NextIsSchemaStep

LEMMA SchemaInvHolds == Spec => []SchemaInv
<1>1. SchemaInv /\ [Next]_vars => SchemaInv'
  BY StepSchemaInv
<1>2. QED BY <1>1, InitSchemaInv, PTL DEF Spec

\* For any number of processes that start together on any database, and any crashes: a
\* process that serves has every table, and every version counts as applied.
THEOREM SchemaIsComplete == Spec => []UpMeansComplete
<1>1. ASSUME SchemaInv, NEW p \in Procs, boot[p].at = "up"
      PROVE  tables = AllTables /\ AppliedVersions = Versions
  <2>1. tables = AllTables /\ Versions \subseteq AppliedVersions
    BY <1>1 DEF SchemaInv, ThroughIsComplete, AppliedIsTrue
  <2>2. AppliedVersions \subseteq Versions
    BY <1>1 DEF SchemaInv, SchemaTypeOK, AppliedVersions, Versions
  <2>3. QED BY <2>1, <2>2
<1>2. SchemaInv => UpMeansComplete
  BY <1>1 DEF UpMeansComplete
<1>3. QED BY <1>2, SchemaInvHolds, PTL

\* user_version never falls, although each process migrates by a list it read earlier.
THEOREM VersionOnlyRises == Spec => VersionNeverFalls
<1>1. SchemaInv /\ [Next]_vars => [userVersion' >= userVersion]_schemaVars
  BY StepSchemaInv
<1>2. QED BY <1>1, SchemaInvHolds, PTL DEF Spec, VersionNeverFalls

-----------------------------------------------------------------------------
(* Transcript lines *)

\* What a worker is about to do is right: what it marks is in a memory, what it deletes is
\* in a memory or was logged as squished, unless its caller wanted all lines gone.
JobBacked(w) ==
    job[w] # NoJob =>
        /\ {"kind", "step", "todo", "ids", "limit", "all"} \subseteq DOMAIN job[w]
        /\ \A l \in LineIds : l \in job[w].ids => l <= issued
        /\ job[w].kind = "squish" /\ job[w].step = "mark" =>
              \A l \in LineIds : l \in job[w].ids => memoriesOf[l] > 0
        /\ job[w].step = "delete" /\ ~job[w].all =>
              \A l \in LineIds : l \in job[w].ids =>
                  lines[l] = Gone \/ lines[l].born \/ memoriesOf[l] > 0

LinesTyped ==
    /\ lines \in [LineIds -> Line \cup {Gone}] /\ memoriesOf \in [LineIds -> Nat]
    /\ issued \in Nat /\ DOMAIN job = Workers
    /\ \A l \in LineIds : l > issued => lines[l] = Gone

LineInv == LinesTyped /\ SquishedIsRemembered /\ \A w \in Workers : JobBacked(w)

TranscriptStep(w) ==
    \/ \E r \in Runs \cup {NoRun}, squished \in BOOLEAN : LogLine(r, squished)
    \/ \E r \in Runs, limit \in Nat : SquishTranscript(w, r, limit)
    \/ \E cutoff \in Nat, all \in BOOLEAN, limit \in Nat : PruneSelect(w, cutoff, all, limit)
    \/ \E batchRuns, limit : BeginSquishTick(w, batchRuns, limit)
    \/ SquishRead(w) \/ SquishInsertMemory(w) \/ SquishMark(w) \/ EmptySquish(w) \/ PruneDelete(w)
    \/ SquishFails(w) \/ JobCrash(w)

LEMMA NextIsTranscriptStep ==
    ASSUME LineInv, [Next]_vars
    PROVE  (\E w \in Workers : TranscriptStep(w)) \/ UNCHANGED transcriptVars
<1>1. CASE UNCHANGED vars
  BY <1>1 DEF vars
<1>2. ASSUME NEW p \in Procs, SquishTick(p) PROVE TranscriptStep(p)
  BY <1>2 DEF SquishTick, TranscriptStep
<1>3. ASSUME NEW p \in Procs, JobGoesOn(p) PROVE TranscriptStep(p)
  BY <1>3 DEF JobGoesOn, JobStep, TranscriptStep
<1>4. ASSUME NEW p \in Procs, StatementFails(p) PROVE TranscriptStep(p) \/ UNCHANGED transcriptVars
  BY <1>4 DEF StatementFails, TranscriptStep
<1>5. ASSUME NEW p \in Procs, TranscriptCall(p) PROVE TranscriptStep(p)
  <2>1. 1 .. issued \subseteq Nat /\ 200 \in Nat /\ 1000 \in Nat
    BY DEF LineInv, LinesTyped
  <2>2. QED BY <1>5, <2>1 DEF TranscriptCall, TranscriptStep
<1>6. ASSUME NEW p \in Procs, Crash(p) PROVE TranscriptStep(p)
  BY <1>6 DEF Crash, TranscriptStep
<1>7. ASSUME NEW p \in Procs,
             \/ LaunchProcess(p) \/ Migrate(p) \/ Initialize(p) \/ SnapshotTick(p) \/ TickEnds(p)
             \/ WritingGoesOn(p) \/ EndControlCall(p) \/ Timer(p) \/ ControlCall(p) \/ ImprintCall(p)
      PROVE  UNCHANGED transcriptVars
  BY <1>7 DEF LaunchProcess, Migrate, Initialize, SnapshotTick, TickEnds, WritingGoesOn,
     EndControlCall, Timer, ControlCall, ImprintCall, storeVars
<1>8. QED BY <1>1, <1>2, <1>3, <1>4, <1>5, <1>6, <1>7, SameProcesses DEF Next, Proceed

LEMMA InitLineInv == Init => LineInv
BY GoneAssumption DEF Init, TranscriptInit, LineInv, LinesTyped, SquishedIsRemembered, Present, JobBacked, LineIds

\* What no step undoes: memories stay, and a line that is gone stays gone and one that
\* stays keeps its birth.
OnlyForward ==
    /\ issued' >= issued
    /\ \A l \in LineIds : memoriesOf[l] > 0 => memoriesOf'[l] > 0
    /\ \A l \in LineIds : l <= issued =>
          lines'[l] = Gone \/ (lines[l] # Gone /\ lines'[l].born = lines[l].born)

LEMMA OthersStayBacked ==
    ASSUME LineInv, LinesTyped', OnlyForward, NEW w \in Workers, job'[w] = job[w]
    PROVE  JobBacked(w)'
<1>1. JobBacked(w) /\ issued \in Nat /\ issued' \in Nat
  BY DEF LineInv, LinesTyped
<1>2. QED BY <1>1 DEF JobBacked, OnlyForward, LineIds

LEMMA OthersKeepInv ==
    ASSUME LineInv, LinesTyped', OnlyForward, SquishedIsRemembered', NEW w \in Workers,
           \A v \in Workers : v # w => job'[v] = job[v], JobBacked(w)'
    PROVE  LineInv'
<1>1. ASSUME NEW v \in Workers PROVE JobBacked(v)'
  BY <1>1, OthersStayBacked
<1>2. QED BY <1>1 DEF LineInv

\* A job that marks and deletes nothing is backed by what it is.
LEMMA FreshJobIsBacked ==
    ASSUME NEW w \in Workers, {"kind", "step", "todo", "ids", "limit", "all"} \subseteq DOMAIN job'[w],
           job'[w].step = "read", job'[w].ids = {}
    PROVE  JobBacked(w)'
BY DEF JobBacked

LEMMA NextRunIsBacked ==
    ASSUME LineInv, NEW w \in Workers, job[w] # NoJob, NextRun(w)
    PROVE  JobBacked(w)' /\ (\A v \in Workers : v # w => job'[v] = job[v]) /\ DOMAIN job' = Workers
<1>1. /\ {"kind", "step", "todo", "ids", "limit", "all"} \subseteq DOMAIN job[w]
      /\ DOMAIN job = Workers
  BY DEF LineInv, LinesTyped, JobBacked
<1> DEFINE next == [job[w] EXCEPT !.step = "read", !.todo = Tail(job[w].todo), !.ids = {}]
<1> DEFINE last == IF Len(job[w].todo) <= 1 THEN NoJob ELSE next
<1>2. /\ job'[w] = last
      /\ (\A v \in Workers : v # w => job'[v] = job[v]) /\ DOMAIN job' = Workers
  <2>1. job' = [job EXCEPT ![w] = last]
    BY DEF NextRun
  <2> HIDE DEF last
  <2>2. QED BY <1>1, <2>1
<1>3. next.step = "read" /\ next.ids = {} /\ DOMAIN next = DOMAIN job[w]
  BY <1>1
<1>4. job'[w] = NoJob => JobBacked(w)'
  BY DEF JobBacked
<1> HIDE DEF next
<1>5. job'[w] = next => JobBacked(w)'
  BY <1>1, <1>3, FreshJobIsBacked
<1>6. QED BY <1>2, <1>4, <1>5

LEMMA LogLineKeepsInv ==
    ASSUME LineInv, NEW r \in Runs \cup {NoRun}, NEW squished \in BOOLEAN, LogLine(r, squished)
    PROVE  LineInv'
<1> DEFINE new == [run |-> r, squished |-> squished, born |-> squished]
<1>1. new \in Line /\ new.squished = new.born
  BY DEF Line
<1>2. /\ issued' = issued + 1 /\ lines' = [lines EXCEPT ![issued + 1] = new]
      /\ UNCHANGED <<memoriesOf, job>>
  BY DEF LogLine
<1> HIDE DEF new
<1>3. \A l \in LineIds : lines'[l] = IF l = issued + 1 THEN new ELSE lines[l]
  BY <1>2 DEF LineInv, LinesTyped
<1>4. LinesTyped'
  <2>1. lines' \in [LineIds -> Line \cup {Gone}]
    BY <1>1, <1>2 DEF LineInv, LinesTyped
  <2>2. issued' \in Nat /\ \A l \in LineIds : l > issued' => lines'[l] = Gone
    BY <1>2, <1>3 DEF LineInv, LinesTyped, LineIds
  <2>3. QED BY <1>2, <2>1, <2>2 DEF LineInv, LinesTyped
<1>5. OnlyForward
  BY <1>2, <1>3 DEF LineInv, LinesTyped, OnlyForward, LineIds
<1>6. SquishedIsRemembered'
  BY <1>1, <1>2, <1>3 DEF LineInv, SquishedIsRemembered, Present
<1>7. ASSUME NEW w \in Workers PROVE JobBacked(w)'
  BY <1>2, <1>4, <1>5, OthersStayBacked
<1>8. QED BY <1>4, <1>6, <1>7 DEF LineInv

\* Lines and memories stay as they are.
LEMMA JobAloneKeepsInv ==
    ASSUME LineInv, NEW w \in Workers, UNCHANGED <<lines, issued, memoriesOf>>,
           DOMAIN job' = Workers, \A v \in Workers : v # w => job'[v] = job[v], JobBacked(w)'
    PROVE  LineInv'
<1>1. LinesTyped' /\ SquishedIsRemembered'
  BY DEF LineInv, LinesTyped, SquishedIsRemembered, Present
<1>2. OnlyForward
  BY DEF OnlyForward, LineInv, LinesTyped, LineIds
<1>3. QED BY <1>1, <1>2, OthersKeepInv

LEMMA NewJobKeepsInv ==
    ASSUME LineInv, NEW w \in Workers, UNCHANGED <<lines, issued, memoriesOf>>, NEW new,
           job' = [job EXCEPT ![w] = new], job'[w] = new => JobBacked(w)'
    PROVE  LineInv'
<1>1. /\ job'[w] = new /\ \A v \in Workers : v # w => job'[v] = job[v]
      /\ DOMAIN job' = Workers
  BY DEF LineInv, LinesTyped
<1>2. QED BY <1>1, JobAloneKeepsInv

LEMMA SquishJobKeepsInv ==
    ASSUME LineInv, NEW w \in Workers, NEW todo, NEW limit, UNCHANGED <<lines, issued, memoriesOf>>,
           job' = [job EXCEPT ![w] = SquishJob(todo, limit)]
    PROVE  LineInv'
<1> DEFINE new == SquishJob(todo, limit)
<1>1. /\ {"kind", "step", "todo", "ids", "limit", "all"} \subseteq DOMAIN new
      /\ new.step = "read" /\ new.ids = {}
  BY DEF SquishJob
<1> HIDE DEF new
<1>2. job' = [job EXCEPT ![w] = new]
  BY DEF new
<1>3. QED BY <1>1, <1>2, NewJobKeepsInv, FreshJobIsBacked

LEMMA NoJobKeepsInv ==
    ASSUME LineInv, NEW w \in Workers, UNCHANGED <<lines, issued, memoriesOf>>,
           job' = [job EXCEPT ![w] = NoJob]
    PROVE  LineInv'
BY NewJobKeepsInv DEF JobBacked

\* What is selected to be deleted may go, and what is selected is there.
LEMMA PruneSelectKeepsInv ==
    ASSUME LineInv, NEW w \in Workers, NEW cutoff \in Nat, NEW all \in BOOLEAN, NEW limit \in Nat,
           PruneSelect(w, cutoff, all, limit)
    PROVE  LineInv'
<1> DEFINE ids == OldestOf({l \in Present : l <= cutoff /\ (all \/ lines[l].squished)}, limit)
           new == [kind |-> "prune", step |-> "delete", todo |-> <<>>, ids |-> ids, limit |-> limit,
                   all |-> all]
<1>1. \A l \in ids : l \in Present /\ (all \/ lines[l].squished)
  BY DEF OldestOf
<1>2. job' = [job EXCEPT ![w] = new] /\ UNCHANGED <<lines, issued, memoriesOf>>
  BY DEF PruneSelect
<1> HIDE DEF ids
<1>3. /\ {"kind", "step", "todo", "ids", "limit", "all"} \subseteq DOMAIN new
      /\ new.step = "delete" /\ new.kind = "prune" /\ new.ids = ids /\ new.all = all
  OBVIOUS
<1> HIDE DEF new
<1>4. \A l \in LineIds : l \in ids =>
        l <= issued /\ (~all => lines[l].born \/ memoriesOf[l] > 0)
  BY <1>1 DEF LineInv, LinesTyped, SquishedIsRemembered, Present, LineIds
<1>5. job'[w] = new => JobBacked(w)'
  BY <1>2, <1>3, <1>4 DEF JobBacked
<1>6. QED BY <1>2, <1>5, NewJobKeepsInv

LEMMA SquishReadKeepsInv ==
    ASSUME LineInv, NEW w \in Workers, SquishRead(w)
    PROVE  LineInv'
<1> DEFINE ids == OldestOf(Unsquished(Head(job[w].todo)), job[w].limit)
           new == [job[w] EXCEPT !.step = "insert", !.ids = ids]
<1>1. job[w] # NoJob /\ UNCHANGED <<lines, issued, memoriesOf>>
  BY DEF SquishRead, Squishing
<1>2. CASE NextRun(w)
  BY <1>1, <1>2, NextRunIsBacked, JobAloneKeepsInv
<1>3. CASE job' = [job EXCEPT ![w].step = "insert", ![w].ids = ids]
  <2>1. \A l \in ids : l \in Present
    BY DEF OldestOf, Unsquished
  <2>2. {"kind", "step", "todo", "ids", "limit", "all"} \subseteq DOMAIN job[w]
    BY <1>1 DEF LineInv, JobBacked
  <2>3. job' = [job EXCEPT ![w] = new]
    BY <1>3, <2>2 DEF LineInv, LinesTyped
  <2> HIDE DEF ids
  <2>4. new.step = "insert" /\ new.ids = ids /\ DOMAIN new = DOMAIN job[w]
    BY <2>2
  <2>5. \A l \in LineIds : l \in ids => l <= issued
    BY <2>1 DEF LineInv, LinesTyped, Present, LineIds
  <2> HIDE DEF new
  <2>6. job'[w] = new => JobBacked(w)'
    BY <1>1, <2>2, <2>4, <2>5 DEF JobBacked
  <2>7. QED BY <1>1, <2>3, <2>6, NewJobKeepsInv
<1>4. QED BY <1>2, <1>3 DEF SquishRead

\* The lines of the batch are in one memory more.
LEMMA SquishInsertKeepsInv ==
    ASSUME LineInv, NEW w \in Workers, SquishInsertMemory(w)
    PROVE  LineInv'
<1> DEFINE new == [job[w] EXCEPT !.step = "mark"]
<1>1. /\ job[w] # NoJob /\ UNCHANGED <<lines, issued>>
      /\ job' = [job EXCEPT ![w].step = "mark"]
      /\ memoriesOf' = [l \in LineIds |->
             IF l \in job[w].ids THEN memoriesOf[l] + 1 ELSE memoriesOf[l]]
  BY DEF SquishInsertMemory, Squishing
<1>2. JobBacked(w) /\ {"kind", "step", "todo", "ids", "limit", "all"} \subseteq DOMAIN job[w]
  BY <1>1 DEF LineInv, JobBacked
<1>3. job' = [job EXCEPT ![w] = new]
  BY <1>1, <1>2 DEF LineInv, LinesTyped
<1>4. new.step = "mark" /\ new.ids = job[w].ids /\ DOMAIN new = DOMAIN job[w]
  BY <1>2
<1> HIDE DEF new
<1>5. /\ job'[w] = new /\ \A v \in Workers : v # w => job'[v] = job[v]
      /\ DOMAIN job' = Workers
  BY <1>3 DEF LineInv, LinesTyped
<1>6. memoriesOf' \in [LineIds -> Nat] /\ \A l \in LineIds :
        /\ memoriesOf[l] > 0 => memoriesOf'[l] > 0
        /\ l \in job[w].ids => memoriesOf'[l] > 0
  BY <1>1 DEF LineInv, LinesTyped
<1>7. LinesTyped'
  BY <1>1, <1>5, <1>6 DEF LineInv, LinesTyped
<1>8. OnlyForward
  BY <1>1, <1>6 DEF LineInv, LinesTyped, OnlyForward
<1>9. SquishedIsRemembered'
  BY <1>1, <1>6 DEF LineInv, SquishedIsRemembered, Present
<1>10. JobBacked(w)'
  BY <1>1, <1>2, <1>4, <1>5, <1>6 DEF JobBacked
<1>11. QED BY <1>5, <1>7, <1>8, <1>9, <1>10, OthersKeepInv

\* Only lines of the batch are marked, and those are in a memory.
LEMMA SquishMarkKeepsInv ==
    ASSUME LineInv, NEW w \in Workers, SquishMark(w)
    PROVE  LineInv'
<1>1. /\ job[w] # NoJob /\ job[w].kind = "squish" /\ job[w].step = "mark"
      /\ UNCHANGED <<issued, memoriesOf>> /\ NextRun(w)
      /\ lines' = [l \in LineIds |->
            IF l \in job[w].ids \cap Present THEN [lines[l] EXCEPT !.squished = TRUE] ELSE lines[l]]
  BY DEF SquishMark, Squishing
<1>2. \A l \in LineIds : l \in job[w].ids => memoriesOf[l] > 0
  BY <1>1 DEF LineInv, JobBacked
<1>3. ASSUME NEW l \in LineIds
      PROVE  \/ lines'[l] = lines[l]
             \/ /\ lines[l] \in Line /\ lines'[l] \in Line /\ lines'[l].born = lines[l].born
                /\ memoriesOf[l] > 0
  <2>1. CASE l \in job[w].ids /\ l \in Present
    <3> DEFINE line == lines[l]
    <3>1. line \in Line /\ lines'[l] = [line EXCEPT !.squished = TRUE]
      BY <1>1, <2>1 DEF LineInv, LinesTyped, Present
    <3> HIDE DEF line
    <3>2. lines'[l] \in Line /\ lines'[l].born = line.born
      BY <3>1 DEF Line
    <3>3. QED BY <1>2, <2>1, <3>1, <3>2 DEF line
  <2>2. CASE ~(l \in job[w].ids /\ l \in Present)
    BY <1>1, <2>2
  <2>3. QED BY <2>1, <2>2
<1>4. LinesTyped'
  <2>1. lines' \in [LineIds -> Line \cup {Gone}]
    BY <1>1, <1>3 DEF LineInv, LinesTyped
  <2>2. \A l \in LineIds : l > issued => lines'[l] = Gone
    BY <1>3, GoneAssumption DEF LineInv, LinesTyped
  <2>3. QED BY <1>1, <2>1, <2>2, NextRunIsBacked DEF LineInv, LinesTyped
<1>5. OnlyForward
  BY <1>1, <1>3, GoneAssumption DEF LineInv, LinesTyped, OnlyForward
<1>6. SquishedIsRemembered'
  BY <1>1, <1>3, GoneAssumption DEF LineInv, SquishedIsRemembered, Present
<1>7. QED BY <1>1, <1>4, <1>5, <1>6, NextRunIsBacked, OthersKeepInv

LEMMA PruneDeleteKeepsInv ==
    ASSUME LineInv, NEW w \in Workers, PruneDelete(w)
    PROVE  LineInv'
<1>1. /\ job' = [job EXCEPT ![w] = NoJob] /\ UNCHANGED <<issued, memoriesOf>>
      /\ lines' = [l \in LineIds |-> IF l \in job[w].ids THEN Gone ELSE lines[l]]
  BY DEF PruneDelete
<1>2. /\ job'[w] = NoJob /\ \A v \in Workers : v # w => job'[v] = job[v]
      /\ DOMAIN job' = Workers
  BY <1>1 DEF LineInv, LinesTyped
<1>3. \A l \in LineIds : lines'[l] = lines[l] \/ lines'[l] = Gone
  BY <1>1
<1>4. LinesTyped'
  BY <1>1, <1>2, <1>3 DEF LineInv, LinesTyped
<1>5. OnlyForward
  BY <1>1, <1>3 DEF LineInv, LinesTyped, OnlyForward
<1>6. SquishedIsRemembered'
  BY <1>1, <1>3 DEF LineInv, SquishedIsRemembered, Present
<1>7. JobBacked(w)'
  BY <1>2 DEF JobBacked
<1>8. QED BY <1>2, <1>4, <1>5, <1>6, <1>7, OthersKeepInv

LEMMA TranscriptStepKeepsInv ==
    ASSUME LineInv, NEW w \in Workers, TranscriptStep(w)
    PROVE  LineInv'
<1>1. ASSUME NEW r \in Runs, NEW limit \in Nat, SquishTranscript(w, r, limit) PROVE LineInv'
  BY <1>1, SquishJobKeepsInv DEF SquishTranscript
<1>2. ASSUME NEW batchRuns, NEW limit, BeginSquishTick(w, batchRuns, limit) PROVE LineInv'
  BY <1>2, SquishJobKeepsInv DEF BeginSquishTick
<1>3. CASE SquishFails(w)
  BY <1>3, NextRunIsBacked, JobAloneKeepsInv DEF SquishFails, Squishing
<1>4. CASE EmptySquish(w) \/ JobCrash(w)
  BY <1>4, NoJobKeepsInv DEF EmptySquish, JobCrash
<1>5. QED BY <1>1, <1>2, <1>3, <1>4, LogLineKeepsInv, PruneSelectKeepsInv, SquishReadKeepsInv,
             SquishInsertKeepsInv, SquishMarkKeepsInv, PruneDeleteKeepsInv DEF TranscriptStep

LEMMA LineInvHolds == Spec => []LineInv
<1>1. ASSUME LineInv, [Next]_vars PROVE LineInv'
  <2>1. CASE UNCHANGED transcriptVars
    BY <1>1, <2>1 DEF transcriptVars, LineInv, LinesTyped, SquishedIsRemembered, Present, JobBacked
  <2>2. QED BY <1>1, <2>1, NextIsTranscriptStep, TranscriptStepKeepsInv
<1>2. QED BY <1>1, InitLineInv, PTL DEF Spec

\* For any number of processes that squish and prune the same lines, with crashes and
\* failing statements anywhere, a squished line is in a memory.
THEOREM MarksAreBacked == Spec => []SquishedIsRemembered
<1>1. LineInv => SquishedIsRemembered
  BY DEF LineInv
<1>2. QED BY <1>1, LineInvHolds, PTL

\* Retention forgets no line that is in no memory, unless its caller asked for that.
THEOREM RetentionForgetsNothing == Spec => NothingIsForgotten
<1> DEFINE Kept ==
        \A l \in LineIds :
            lines[l] # Gone /\ lines'[l] = Gone =>
                \/ lines[l].born \/ memoriesOf[l] > 0
                \/ \E w \in Workers : job[w] # NoJob /\ job[w].all
<1>1. ASSUME LineInv, [Next]_vars PROVE [Kept]_transcriptVars
  <2>1. CASE UNCHANGED transcriptVars
    BY <2>1
  <2>2. ASSUME NEW w \in Workers, PruneDelete(w) PROVE Kept
    <3>1. /\ lines' = [l \in LineIds |-> IF l \in job[w].ids THEN Gone ELSE lines[l]]
          /\ job[w] # NoJob /\ job[w].step = "delete" /\ JobBacked(w)
      BY <1>1, <2>2 DEF PruneDelete, LineInv
    <3>2. QED BY <3>1 DEF JobBacked
  <2>3. ASSUME NEW w \in Workers, TranscriptStep(w), ~PruneDelete(w), NEW l \in LineIds,
               lines[l] # Gone
        PROVE  lines'[l] # Gone
    <3>1. ASSUME NEW r \in Runs \cup {NoRun}, NEW squished \in BOOLEAN, LogLine(r, squished)
          PROVE  lines'[l] = lines[l]
      BY <1>1, <2>3, <3>1 DEF LogLine, LineInv, LinesTyped, LineIds
    <3>2. CASE SquishMark(w)
      <4> DEFINE line == lines[l]
      <4>1. line \in Line /\ (lines'[l] = line \/ lines'[l] = [line EXCEPT !.squished = TRUE])
        BY <1>1, <2>3, <3>2 DEF SquishMark, LineInv, LinesTyped
      <4> HIDE DEF line
      <4>2. lines'[l] \in Line
        BY <4>1 DEF Line
      <4>3. QED BY <4>2, GoneAssumption
    <3>3. QED BY <2>3, <3>1, <3>2 DEF TranscriptStep, SquishTranscript, PruneSelect, BeginSquishTick,
         SquishRead, SquishInsertMemory, EmptySquish, SquishFails, JobCrash
  <2>4. QED BY <1>1, <2>1, <2>2, <2>3, NextIsTranscriptStep
<1>2. QED BY <1>1, LineInvHolds, PTL DEF Spec, NothingIsForgotten

-----------------------------------------------------------------------------
(* Imprint snapshots and profiles *)

\* What a process is in the middle of is based on what is there: the file and the memory
\* before the row, the profile it has found.
WritingBacked(k) ==
    writing[k] # NoWriting =>
        /\ writing[k].kind = "snapshot" =>
              /\ {"kind", "step", "of"} \subseteq DOMAIN writing[k]
              /\ writing[k].step \in {"memory", "row"} /\ writing[k].of.file => writing[k].of.id \in files
              /\ writing[k].step = "row" /\ writing[k].of.memory => writing[k].of.id \in promotedIds
        /\ writing[k].kind = "profile" /\ writing[k].found => profile # NoProfile

ImprintInv ==
    /\ DOMAIN writing = Keepers
    /\ profile \in [born : Keepers, by : Keepers] \cup {NoProfile}
    /\ SnapshotsAreBacked
    /\ \A k \in Keepers : WritingBacked(k)

ImprintStep(k) ==
    \/ \E file, memory \in BOOLEAN : BeginSnapshot(k, file, memory)
    \/ BeginSnapshot(k, call[k].config.write_file = 1, call[k].config.promote_summary = 1)
    \/ WriteSnapshotFile(k) \/ PromoteSummary(k) \/ InsertSnapshot(k)
    \/ ReadProfile(k) \/ WriteProfile(k) \/ WritingCrash(k)

LEMMA NextIsImprintStep ==
    ASSUME [Next]_vars
    PROVE  (\E k \in Keepers : ImprintStep(k)) \/ UNCHANGED imprintVars
<1>1. CASE UNCHANGED vars
  BY <1>1 DEF vars
<1>2. ASSUME NEW p \in Procs, SnapshotTick(p) PROVE ImprintStep(p)
  BY <1>2 DEF SnapshotTick, ImprintStep
<1>3. ASSUME NEW p \in Procs, WritingGoesOn(p) PROVE ImprintStep(p)
  BY <1>3 DEF WritingGoesOn, WritingStep, ImprintStep
<1>4. ASSUME NEW p \in Procs, StatementFails(p) PROVE ImprintStep(p) \/ UNCHANGED imprintVars
  BY <1>4 DEF StatementFails, ImprintStep
<1>5. ASSUME NEW p \in Procs, ImprintCall(p) PROVE ImprintStep(p)
  BY <1>5 DEF ImprintCall, ImprintStep
<1>6. ASSUME NEW p \in Procs, Crash(p) PROVE ImprintStep(p)
  BY <1>6 DEF Crash, ImprintStep
<1>7. ASSUME NEW p \in Procs,
             \/ LaunchProcess(p) \/ Migrate(p) \/ Initialize(p) \/ SquishTick(p) \/ TickEnds(p)
             \/ JobGoesOn(p) \/ EndControlCall(p) \/ Timer(p) \/ ControlCall(p) \/ TranscriptCall(p)
      PROVE  UNCHANGED imprintVars
  BY <1>7 DEF LaunchProcess, Migrate, Initialize, SquishTick, TickEnds, JobGoesOn,
     EndControlCall, Timer, ControlCall, TranscriptCall, storeVars
<1>8. QED BY <1>1, <1>2, <1>3, <1>4, <1>5, <1>6, <1>7, SameProcesses DEF Next, Proceed

LEMMA InitImprintInv == Init => ImprintInv
BY DEF Init, ImprintInit, ImprintInv, SnapshotsAreBacked, WritingBacked

\* Files, memories and the profile are never taken away.
LEMMA OneWriterKeepsInv ==
    ASSUME ImprintInv, NEW k \in Keepers, NEW new,
           writing' = [writing EXCEPT ![k] = new], writing'[k] = new => WritingBacked(k)',
           files \subseteq files', promotedIds \subseteq promotedIds',
           profile' \in [born : Keepers, by : Keepers] \cup {NoProfile},
           profile # NoProfile => profile' # NoProfile, SnapshotsAreBacked'
    PROVE  ImprintInv'
<1>1. DOMAIN writing' = Keepers /\ writing'[k] = new /\ \A j \in Keepers : j # k => writing'[j] = writing[j]
  BY DEF ImprintInv
<1>2. ASSUME NEW j \in Keepers PROVE WritingBacked(j)'
  <2>1. CASE j = k
    BY <1>1, <2>1
  <2>2. CASE j # k
    <3>1. WritingBacked(j) /\ writing'[j] = writing[j]
      BY <1>1, <2>2 DEF ImprintInv
    <3>2. QED BY <3>1 DEF WritingBacked
  <2>3. QED BY <2>1, <2>2
<1>3. QED BY <1>1, <1>2 DEF ImprintInv

LEMMA BeginSnapshotKeepsInv ==
    ASSUME ImprintInv, NEW k \in Keepers, NEW file, NEW memory, BeginSnapshot(k, file, memory)
    PROVE  ImprintInv'
<1> DEFINE new == [kind |-> "snapshot", step |-> "file",
                   of |-> [id |-> CHOOSE id \in SnapshotIds : Unused(id), file |-> file, memory |-> memory]]
<1>1. {"kind", "step", "of"} \subseteq DOMAIN new /\ new.kind = "snapshot" /\ new.step = "file"
  OBVIOUS
<1>2. writing' = [writing EXCEPT ![k] = new] /\ UNCHANGED <<files, promotedIds, snapshots, profile>>
  BY DEF BeginSnapshot
<1> HIDE DEF new
<1>3. writing'[k] = new => WritingBacked(k)'
  BY <1>1 DEF WritingBacked
<1>4. SnapshotsAreBacked' /\ profile' \in [born : Keepers, by : Keepers] \cup {NoProfile}
  BY <1>2 DEF ImprintInv, SnapshotsAreBacked
<1>5. QED BY <1>2, <1>3, <1>4, OneWriterKeepsInv

LEMMA WriteFileKeepsInv ==
    ASSUME ImprintInv, NEW k \in Keepers, WriteSnapshotFile(k)
    PROVE  ImprintInv'
<1> DEFINE old == writing[k]
           new == [old EXCEPT !.step = "memory"]
<1>1. /\ {"kind", "step", "of"} \subseteq DOMAIN old
      /\ writing' = [writing EXCEPT ![k] = new]
      /\ files' = IF old.of.file THEN files \cup {old.of.id} ELSE files
      /\ UNCHANGED <<promotedIds, snapshots, profile>> /\ old.kind = "snapshot"
  BY DEF WriteSnapshotFile, Taking, ImprintInv, WritingBacked
<1> HIDE DEF old
<1>2. /\ DOMAIN new = DOMAIN old /\ new.kind = "snapshot" /\ new.step = "memory" /\ new.of = old.of
  BY <1>1
<1> HIDE DEF new
<1>3. writing'[k] = new => WritingBacked(k)'
  BY <1>1, <1>2 DEF WritingBacked
<1>4. SnapshotsAreBacked' /\ profile' \in [born : Keepers, by : Keepers] \cup {NoProfile}
  BY <1>1 DEF ImprintInv, SnapshotsAreBacked
<1>5. QED BY <1>1, <1>3, <1>4, OneWriterKeepsInv

LEMMA PromoteKeepsInv ==
    ASSUME ImprintInv, NEW k \in Keepers, PromoteSummary(k)
    PROVE  ImprintInv'
<1> DEFINE old == writing[k]
           new == [old EXCEPT !.step = "row"]
<1>1. /\ {"kind", "step", "of"} \subseteq DOMAIN old
      /\ writing' = [writing EXCEPT ![k] = new]
      /\ promotedIds' = IF old.of.memory THEN promotedIds \cup {old.of.id} ELSE promotedIds
      /\ UNCHANGED <<files, snapshots, profile>> /\ old.kind = "snapshot"
      /\ old.of.file => old.of.id \in files
  BY DEF PromoteSummary, Taking, ImprintInv, WritingBacked
<1> HIDE DEF old
<1>2. /\ DOMAIN new = DOMAIN old /\ new.kind = "snapshot" /\ new.step = "row" /\ new.of = old.of
  BY <1>1
<1> HIDE DEF new
<1>3. writing'[k] = new => WritingBacked(k)'
  BY <1>1, <1>2 DEF WritingBacked
<1>4. SnapshotsAreBacked' /\ profile' \in [born : Keepers, by : Keepers] \cup {NoProfile}
  BY <1>1 DEF ImprintInv, SnapshotsAreBacked
<1>5. QED BY <1>1, <1>3, <1>4, OneWriterKeepsInv

LEMMA InsertSnapshotKeepsInv ==
    ASSUME ImprintInv, NEW k \in Keepers, InsertSnapshot(k)
    PROVE  ImprintInv'
<1>1. /\ writing[k].of.file => writing[k].of.id \in files
      /\ writing[k].of.memory => writing[k].of.id \in promotedIds
      /\ snapshots' = snapshots \cup {writing[k].of}
      /\ writing' = [writing EXCEPT ![k] = NoWriting] /\ UNCHANGED <<files, promotedIds, profile>>
  BY DEF InsertSnapshot, Taking, ImprintInv, WritingBacked
<1>2. SnapshotsAreBacked' /\ profile' \in [born : Keepers, by : Keepers] \cup {NoProfile}
  BY <1>1 DEF ImprintInv, SnapshotsAreBacked
<1>3. writing'[k] = NoWriting => WritingBacked(k)'
  BY DEF WritingBacked
<1>4. QED BY <1>1, <1>2, <1>3, OneWriterKeepsInv

LEMMA ProfileStepKeepsInv ==
    ASSUME ImprintInv, NEW k \in Keepers, ReadProfile(k) \/ WriteProfile(k) \/ WritingCrash(k)
    PROVE  /\ ImprintInv'
           /\ profile # NoProfile => profile' # NoProfile /\ profile'.born = profile.born
<1>1. SnapshotsAreBacked'
  BY DEF ReadProfile, WriteProfile, WritingCrash, ImprintInv, SnapshotsAreBacked
<1>2. CASE ReadProfile(k)
  <2> DEFINE new == [kind |-> "profile", found |-> profile # NoProfile]
  <2>1. new.kind = "profile" /\ (new.found => profile # NoProfile)
    OBVIOUS
  <2>2. writing' = [writing EXCEPT ![k] = new] /\ UNCHANGED <<files, promotedIds, snapshots, profile>>
    BY <1>2 DEF ReadProfile
  <2> HIDE DEF new
  <2>3. writing'[k] = new => WritingBacked(k)'
    BY <2>1, <2>2 DEF WritingBacked
  <2>4. profile' \in [born : Keepers, by : Keepers] \cup {NoProfile}
    BY <2>2 DEF ImprintInv
  <2>5. QED BY <1>1, <2>2, <2>3, <2>4, OneWriterKeepsInv
<1>3. CASE WritingCrash(k)
  <2>1. writing'[k] = NoWriting => WritingBacked(k)'
    BY DEF WritingBacked
  <2>2. QED BY <1>1, <1>3, <2>1, OneWriterKeepsInv DEF WritingCrash, ImprintInv
<1>4. CASE WriteProfile(k)
  <2>1. writing'[k] = NoWriting => WritingBacked(k)'
    BY DEF WritingBacked
  <2>2. /\ profile' \in [born : Keepers, by : Keepers] \cup {NoProfile}
        /\ profile # NoProfile => profile' # NoProfile /\ profile'.born = profile.born
    <3>1. CASE writing[k].found /\ profile' = [profile EXCEPT !.by = k]
      <4>1. profile \in [born : Keepers, by : Keepers]
        BY <1>4, <3>1 DEF WriteProfile, ImprintInv, WritingBacked
      <4>2. profile' \in [born : Keepers, by : Keepers] /\ profile'.born = profile.born
        BY <3>1, <4>1
      <4>3. QED BY <4>2, NoProfileAssumption
    <3>2. CASE profile = NoProfile /\ profile' = [born |-> k, by |-> k]
      BY <3>2
    <3>3. CASE UNCHANGED profile
      BY <3>3 DEF ImprintInv
    <3>4. QED BY <1>4, <3>1, <3>2, <3>3 DEF WriteProfile
  <2>3. QED BY <1>1, <1>4, <2>1, <2>2, OneWriterKeepsInv DEF WriteProfile
<1>5. QED BY <1>2, <1>3, <1>4

LEMMA ImprintStepKeepsInv ==
    ASSUME ImprintInv, NEW k \in Keepers, ImprintStep(k)
    PROVE  /\ ImprintInv'
           /\ profile # NoProfile => profile' # NoProfile /\ profile'.born = profile.born
<1>1. CASE ReadProfile(k) \/ WriteProfile(k) \/ WritingCrash(k)
  BY <1>1, ProfileStepKeepsInv
<1>2. ImprintInv'
  BY <1>1, BeginSnapshotKeepsInv, WriteFileKeepsInv, PromoteKeepsInv, InsertSnapshotKeepsInv DEF ImprintStep
<1>3. ~(ReadProfile(k) \/ WriteProfile(k) \/ WritingCrash(k)) => profile' = profile
  BY DEF ImprintStep, BeginSnapshot, WriteSnapshotFile, PromoteSummary, InsertSnapshot
<1>4. QED BY <1>1, <1>2, <1>3

LEMMA ImprintInvHolds == Spec => []ImprintInv
<1>1. ASSUME ImprintInv, [Next]_vars PROVE ImprintInv'
  <2>1. CASE UNCHANGED imprintVars
    BY <1>1, <2>1 DEF imprintVars, ImprintInv, SnapshotsAreBacked, WritingBacked
  <2>2. QED BY <1>1, <2>1, NextIsImprintStep, ImprintStepKeepsInv
<1>2. QED BY <1>1, InitImprintInv, PTL DEF Spec

\* For any number of processes and crashes, a snapshot that can be listed has the file and
\* the memory it names.
THEOREM SnapshotsHaveTheirParts == Spec => []SnapshotsAreBacked
<1>1. ImprintInv => SnapshotsAreBacked
  BY DEF ImprintInv
<1>2. QED BY <1>1, ImprintInvHolds, PTL

\* Whoever sets the profile at once, its birth is written once.
THEOREM ProfilesKeepTheirBirth == Spec => ProfileBirthStays
<1> DEFINE Kept == profile # NoProfile => profile' # NoProfile /\ profile'.born = profile.born
<1>1. ASSUME ImprintInv, [Next]_vars PROVE [Kept]_imprintVars
  BY <1>1, NextIsImprintStep, ImprintStepKeepsInv
<1>2. QED BY <1>1, ImprintInvHolds, PTL DEF Spec, ProfileBirthStays

-----------------------------------------------------------------------------
(* Settings *)

\* Every setting has a default between its bounds.
LEMMA SettingsAreSound ==
    ASSUME NEW d \in Daemons, NEW k \in DOMAIN Settings(d)
    PROVE  /\ Settings(d)[k][1] \in Int /\ Settings(d)[k][2] \in Int /\ Settings(d)[k][3] \in Int
           /\ Settings(d)[k][2] <= Settings(d)[k][1] /\ Settings(d)[k][1] <= Settings(d)[k][3]
<1>1. CASE d = "transcript.auto_squish"
  BY <1>1 DEF Settings, AutoSquishSettings
<1>2. CASE d = "task.auto_retry"
  BY <1>2 DEF Settings, AutoRetrySettings
<1>3. CASE d = "trichat.auto_retention"
  BY <1>3 DEF Settings, AutoRetentionSettings
<1>4. CASE d = "trichat.turn_watchdog"
  BY <1>4 DEF Settings, TurnWatchdogSettings
<1>5. CASE d = "imprint.auto_snapshot"
  BY <1>5 DEF Settings, AutoSnapshotSettings
<1>6. QED BY <1>1, <1>2, <1>3, <1>4, <1>5 DEF Daemons

\* The two delays of automatic retries have one least value, and the greatest first delay
\* is no more than the greatest cap.
LEMMA DelaySettings ==
    ASSUME NEW d \in Daemons, "max_delay_seconds" \in DOMAIN Settings(d)
    PROVE  /\ "base_delay_seconds" \in DOMAIN Settings(d)
           /\ Settings(d)["base_delay_seconds"][1] <= Settings(d)["max_delay_seconds"][1]
           /\ Settings(d)["base_delay_seconds"][2] = Settings(d)["max_delay_seconds"][2]
           /\ Settings(d)["base_delay_seconds"][3] <= Settings(d)["max_delay_seconds"][3]
<1>1. CASE d = "transcript.auto_squish"
  BY <1>1 DEF Settings, AutoSquishSettings
<1>2. CASE d = "task.auto_retry"
  BY <1>2 DEF Settings, AutoRetrySettings
<1>3. CASE d = "trichat.auto_retention"
  BY <1>3 DEF Settings, AutoRetentionSettings
<1>4. CASE d = "trichat.turn_watchdog"
  BY <1>4 DEF Settings, TurnWatchdogSettings
<1>5. CASE d = "imprint.auto_snapshot"
  BY <1>5 DEF Settings, AutoSnapshotSettings
<1>6. QED BY <1>1, <1>2, <1>3, <1>4, <1>5 DEF Daemons

Numbers(d) == [DOMAIN Settings(d) -> Int]

WithinBounds(d, c) ==
    \A k \in DOMAIN Settings(d) : Settings(d)[k][2] <= c[k] /\ c[k] <= Settings(d)[k][3]

InOrder(d, c) ==
    "max_delay_seconds" \in DOMAIN Settings(d) => c["base_delay_seconds"] <= c["max_delay_seconds"]

LEMMA BoundedIsWithin ==
    ASSUME NEW d \in Daemons, NEW c \in Numbers(d)
    PROVE  /\ Bounded(d, c) \in Numbers(d) /\ WithinBounds(d, Bounded(d, c))
           /\ WithinBounds(d, c) => Bounded(d, c) = c
<1> DEFINE b == Bounded(d, c)
<1>1. DOMAIN c = DOMAIN Settings(d) /\ \A k \in DOMAIN Settings(d) : c[k] \in Int
  BY DEF Numbers
<1>2. b = [k \in DOMAIN Settings(d) |-> Greater(Settings(d)[k][2], Lesser(Settings(d)[k][3], c[k]))]
  BY <1>1 DEF Bounded
<1>3. ASSUME NEW k \in DOMAIN Settings(d)
      PROVE  /\ b[k] \in Int /\ Settings(d)[k][2] <= b[k] /\ b[k] <= Settings(d)[k][3]
             /\ WithinBounds(d, c) => b[k] = c[k]
  <2>1. b[k] = Greater(Settings(d)[k][2], Lesser(Settings(d)[k][3], c[k])) /\ c[k] \in Int
    BY <1>1, <1>2
  <2> HIDE DEF b
  <2>2. WithinBounds(d, c) => Settings(d)[k][2] <= c[k] /\ c[k] <= Settings(d)[k][3]
    BY DEF WithinBounds
  <2>3. QED BY <2>1, <2>2, SettingsAreSound DEF Greater, Lesser
<1>4. b \in Numbers(d)
  BY <1>2, <1>3 DEF Numbers
<1>5. WithinBounds(d, b)
  BY <1>3 DEF WithinBounds
<1>6. WithinBounds(d, c) => b = c
  <2> HIDE DEF b
  <2>1. QED BY <1>3, <1>4 DEF Numbers
<1>7. QED BY <1>4, <1>5, <1>6

LEMMA OrderedStaysWithin ==
    ASSUME NEW d \in Daemons, NEW c \in Numbers(d), WithinBounds(d, c)
    PROVE  /\ DelaysInOrder(c) \in Numbers(d) /\ WithinBounds(d, DelaysInOrder(c))
           /\ InOrder(d, DelaysInOrder(c))
           /\ InOrder(d, c) => DelaysInOrder(c) = c
<1>1. DOMAIN c = DOMAIN Settings(d) /\ \A k \in DOMAIN Settings(d) : c[k] \in Int
  BY DEF Numbers
<1>2. CASE "max_delay_seconds" \notin DOMAIN Settings(d)
  <2>1. DelaysInOrder(c) = c
    BY <1>1, <1>2 DEF DelaysInOrder
  <2>2. QED BY <1>2, <2>1 DEF InOrder
<1>3. CASE "max_delay_seconds" \in DOMAIN Settings(d)
  <2> DEFINE base == c["base_delay_seconds"]
             cap == c["max_delay_seconds"]
             o == [c EXCEPT !["max_delay_seconds"] = Greater(base, cap)]
  <2>1. DelaysInOrder(c) = o
    BY <1>1, <1>3 DEF DelaysInOrder
  <2>2. base \in Int /\ cap \in Int /\ "base_delay_seconds" \in DOMAIN Settings(d)
    BY <1>1, <1>3, DelaySettings
  <2>3. Greater(base, cap) \in Int /\ base <= Greater(base, cap) /\ cap <= Greater(base, cap)
    <3> HIDE DEF base, cap
    <3>1. QED BY <2>2 DEF Greater
  <2>4. Greater(base, cap) <= Settings(d)["max_delay_seconds"][3]
    <3>1. /\ base <= Settings(d)["base_delay_seconds"][3]
          /\ cap <= Settings(d)["max_delay_seconds"][3]
      BY <1>3, <2>2 DEF WithinBounds
    <3>2. /\ Settings(d)["base_delay_seconds"][3] \in Int /\ Settings(d)["max_delay_seconds"][3] \in Int
          /\ Settings(d)["base_delay_seconds"][3] <= Settings(d)["max_delay_seconds"][3]
      BY <1>3, <2>2, SettingsAreSound, DelaySettings
    <3> HIDE DEF base, cap
    <3>3. QED BY <2>2, <3>1, <3>2 DEF Greater
  <2>5. o \in Numbers(d)
    BY <2>3 DEF Numbers
  <2>6. /\ o["max_delay_seconds"] = Greater(base, cap)
        /\ \A k \in DOMAIN Settings(d) : k # "max_delay_seconds" => o[k] = c[k]
    BY <1>1, <1>3
  <2>7. Settings(d)["max_delay_seconds"][2] <= Greater(base, cap)
    <3>1. Settings(d)["max_delay_seconds"][2] <= cap /\ Settings(d)["max_delay_seconds"][2] \in Int
      BY <1>3, SettingsAreSound DEF WithinBounds
    <3> HIDE DEF base, cap
    <3>2. QED BY <2>2, <2>3, <3>1
  <2>8. InOrder(d, c) => o = c
    <3>1. InOrder(d, c) => Greater(base, cap) = cap
      <4>1. InOrder(d, c) => base <= cap
        BY <1>3 DEF InOrder
      <4> HIDE DEF base, cap
      <4>2. QED BY <2>2, <4>1 DEF Greater
    <3>2. QED BY <2>5, <2>6, <3>1 DEF Numbers
  <2>9. o["base_delay_seconds"] = base
    BY <2>2, <2>6
  <2> HIDE DEF o, base, cap
  <2>10. WithinBounds(d, o)
    BY <2>4, <2>6, <2>7 DEF WithinBounds
  <2>11. InOrder(d, o)
    BY <2>3, <2>6, <2>9 DEF InOrder
  <2>12. QED BY <2>1, <2>5, <2>8, <2>10, <2>11
<1>4. QED BY <1>2, <1>3

\* Settings in force are those within bounds and in order.
LEMMA ConfigMeans ==
    ASSUME NEW d \in Daemons, NEW c \in Numbers(d)
    PROVE  c \in Config(d) <=> WithinBounds(d, c) /\ InOrder(d, c)
<1> DEFINE b == Bounded(d, c)
<1>1. b \in Numbers(d) /\ WithinBounds(d, b) /\ (WithinBounds(d, c) => b = c)
  BY BoundedIsWithin
<1>2. c \in Config(d) <=> c = DelaysInOrder(b)
  BY DEF Config, Numbers
<1> HIDE DEF b
<1>3. WithinBounds(d, DelaysInOrder(b)) /\ InOrder(d, DelaysInOrder(b))
  BY <1>1, OrderedStaysWithin
<1>4. WithinBounds(d, c) /\ InOrder(d, c) => c = DelaysInOrder(b)
  BY <1>1, OrderedStaysWithin
<1>5. QED BY <1>2, <1>3, <1>4

LEMMA ConfigIsNumbers ==
    ASSUME NEW d \in Daemons, NEW c \in Config(d)
    PROVE  c \in Numbers(d) /\ WithinBounds(d, c) /\ InOrder(d, c) /\ c = DelaysInOrder(Bounded(d, c))
BY ConfigMeans DEF Config, Numbers

LEMMA DefaultIsConfig ==
    ASSUME NEW d \in Daemons
    PROVE  DefaultConfig(d) \in Config(d)
<1>1. DefaultConfig(d) \in Numbers(d)
  BY SettingsAreSound DEF DefaultConfig, Numbers
<1>2. WithinBounds(d, DefaultConfig(d))
  BY SettingsAreSound DEF DefaultConfig, WithinBounds
<1>3. InOrder(d, DefaultConfig(d))
  BY DelaySettings DEF DefaultConfig, InOrder
<1>4. QED BY <1>1, <1>2, <1>3, ConfigMeans

\* Whatever numbers a row holds, what is read of it are settings in force.
LEMMA StoredIsState ==
    ASSUME daemon \in Daemons, NEW row \in DaemonRow(daemon)
    PROVE  Stored(row) \in DaemonState(daemon)
<1>1. row.config \in Numbers(daemon) /\ row.enabled \in BOOLEAN
  BY DEF DaemonRow, Numbers
<1> DEFINE b == Bounded(daemon, row.config)
<1>2. b \in Numbers(daemon) /\ WithinBounds(daemon, b)
  BY <1>1, BoundedIsWithin
<1> HIDE DEF b
<1>3. DelaysInOrder(b) \in Config(daemon)
  BY <1>2, OrderedStaysWithin, ConfigMeans
<1>4. QED BY <1>1, <1>3 DEF Stored, DaemonState, b

\* What a call persists is what the row then says.
LEMMA StoredIsAsked ==
    ASSUME daemon \in Daemons, NEW state \in DaemonState(daemon)
    PROVE  Stored(state) = state
<1>1. state.config \in Config(daemon) /\ state = [enabled |-> state.enabled, config |-> state.config]
  BY DEF DaemonState
<1>2. QED BY <1>1, ConfigIsNumbers DEF Stored

\* A setting that a caller gives is at an end of its range.
LEMMA ResolvedIsConfig ==
    ASSUME NEW d \in Daemons, NEW c \in Config(d), NEW given,
           \A k \in DOMAIN given \cap DOMAIN Settings(d) :
               /\ given[k] \in Int
               /\ Settings(d)[k][2] <= given[k] /\ given[k] <= Settings(d)[k][3]
    PROVE  Resolve(given, c) \in Config(d)
<1> DEFINE m == [k \in DOMAIN c |-> IF k \in DOMAIN given THEN given[k] ELSE c[k]]
<1>1. c \in Numbers(d) /\ WithinBounds(d, c)
  BY ConfigIsNumbers
<1>2. m \in Numbers(d)
  BY <1>1 DEF Numbers
<1>3. WithinBounds(d, m)
  BY <1>1 DEF WithinBounds, Numbers
<1>4. Resolve(given, c) = DelaysInOrder(m)
  BY DEF Resolve
<1> HIDE DEF m
<1>5. QED BY <1>2, <1>3, <1>4, OrderedStaysWithin, ConfigMeans

LEMMA GivensAreEnds ==
    ASSUME daemon \in Daemons, focus \subseteq DOMAIN Settings(daemon), NEW given \in Givens,
           NEW k \in DOMAIN given \cap DOMAIN Settings(daemon)
    PROVE  /\ given[k] \in Int
           /\ Settings(daemon)[k][2] <= given[k] /\ given[k] <= Settings(daemon)[k][3]
<1>1. CASE given = <<>>
  <2>1. DOMAIN given = {}
    BY <1>1
  <2>2. QED BY <2>1
<1>2. CASE \E j \in focus : \/ given = [x \in {j} |-> Settings(daemon)[j][2]]
                            \/ given = [x \in {j} |-> Settings(daemon)[j][3]]
  <2>1. PICK j \in focus : \/ given = [x \in {j} |-> Settings(daemon)[j][2]]
                           \/ given = [x \in {j} |-> Settings(daemon)[j][3]]
    BY <1>2
  <2>2. k = j /\ (given[k] = Settings(daemon)[k][2] \/ given[k] = Settings(daemon)[k][3])
    BY <2>1
  <2>3. /\ Settings(daemon)[k][1] \in Int /\ Settings(daemon)[k][2] \in Int /\ Settings(daemon)[k][3] \in Int
        /\ Settings(daemon)[k][2] <= Settings(daemon)[k][1] /\ Settings(daemon)[k][1] <= Settings(daemon)[k][3]
    BY SettingsAreSound
  <2>4. QED BY <2>2, <2>3
<1>3. QED BY <1>1, <1>2 DEF Givens

\* Settings read of a row stay what they are when they are restored.
LEMMA RestoredIsStored ==
    ASSUME NEW d \in Daemons, NEW c \in Config(d), NEW fallback \in Config(d)
    PROVE  Resolve(c, fallback) = c
<1> DEFINE m == [k \in DOMAIN fallback |-> IF k \in DOMAIN c THEN c[k] ELSE fallback[k]]
<1>1. c \in Numbers(d) /\ WithinBounds(d, c) /\ InOrder(d, c) /\ fallback \in Numbers(d)
  BY ConfigIsNumbers
<1>2. m = c
  BY <1>1 DEF Numbers
<1>3. Resolve(c, fallback) = DelaysInOrder(m)
  BY DEF Resolve
<1> HIDE DEF m
<1>4. QED BY <1>1, <1>2, <1>3, OrderedStaysWithin

-----------------------------------------------------------------------------
(* The daemon is well typed. *)

ProcTypes == SchemaTypeOK /\ DaemonTypeOK

\* Steps that leave the boot phases, the daemon and its row alone.
LEMMA CallEdit ==
    ASSUME ProcTypes, NEW p \in Procs, NEW new \in Call(daemon) \cup {NoCall},
           call' = [call EXCEPT ![p] = new], boot[p].at = "up" \/ new = NoCall,
           UNCHANGED <<boot, daemon>>
    PROVE  /\ call' \in [Procs -> Call(daemon) \cup {NoCall}]
           /\ \A q \in Procs : boot'[q].at # "up" => call'[q] = NoCall
BY DEF ProcTypes, DaemonTypeOK

LEMMA CallsAreCalls ==
    ASSUME ProcTypes, NEW p \in Procs, call[p] # NoCall
    PROVE  call[p] \in Call(daemon) /\ boot[p].at = "up"
BY DEF ProcTypes, DaemonTypeOK

LEMMA StepEdit ==
    ASSUME ProcTypes, NEW p \in Procs, call[p] # NoCall,
           NEW s \in {"tick", "working", "persist", "answer"}
    PROVE  [call[p] EXCEPT !.step = s] \in Call(daemon)
<1>1. call[p] \in Call(daemon)
  BY CallsAreCalls
<1>2. QED BY <1>1 DEF Call

LEMMA LaunchKeepsTypes ==
    ASSUME ProcTypes, NEW p \in Procs, LaunchProcess(p) \/ Migrate(p)
    PROVE  DaemonTypeOK'
<1>1. /\ UNCHANGED <<daemon, focus, configRow, runtime, call, promised, unsettled, callsLeft, mishaps>>
      /\ started' \subseteq Procs
  BY DEF LaunchProcess, Migrate, daemonVars, ProcTypes, DaemonTypeOK
<1>2. \A q \in Procs : q # p => boot'[q] = boot[q]
  BY DEF LaunchProcess, Migrate, Launch, ReadApplied, ApplyMigration, MigrationConflict, Die,
     ReplaySchema, ProcTypes, SchemaTypeOK
<1>3. boot[p].at # "up"
  BY DEF LaunchProcess, Migrate, Launch, ReadApplied, ApplyMigration, MigrationConflict, ReplaySchema
<1>4. \A q \in Procs : boot'[q].at # "up" => call'[q] = NoCall
  BY <1>1, <1>2, <1>3 DEF ProcTypes, DaemonTypeOK
<1>5. QED BY <1>1, <1>4 DEF ProcTypes, DaemonTypeOK

LEMMA RestoredRuntime ==
    ASSUME ProcTypes, NEW p \in Procs, Restore(p)
    PROVE  runtime'[p] \in Runtime(daemon) /\ runtime' = [runtime EXCEPT ![p] = runtime'[p]]
<1>1. daemon \in Daemons /\ configRow \in DaemonRow(daemon) \cup {NoDaemonRow}
      /\ runtime \in [Procs -> Runtime(daemon)]
  BY DEF ProcTypes, DaemonTypeOK
<1>2. Stopped(DefaultConfig(daemon)) \in Runtime(daemon)
  BY <1>1, DefaultIsConfig DEF Stopped, Runtime
<1> DEFINE config == Resolve(Stored(configRow).config, DefaultConfig(daemon))
<1>3. configRow # NoDaemonRow => config \in Config(daemon)
  <2>1. configRow # NoDaemonRow => Stored(configRow).config \in Config(daemon)
    BY <1>1, StoredIsState DEF DaemonState
  <2>2. QED BY <1>1, <2>1, DefaultIsConfig, RestoredIsStored
<1> HIDE DEF config
<1>4. configRow # NoDaemonRow => Armed(config) \in Runtime(daemon) /\ Stopped(config) \in Runtime(daemon)
  BY <1>3 DEF Armed, Stopped, Runtime
<1>5. runtime' = [runtime EXCEPT ![p] =
          IF configRow = NoDaemonRow THEN Stopped(DefaultConfig(daemon))
          ELSE IF configRow.enabled THEN Armed(config) ELSE Stopped(config)]
  BY DEF Restore, config
<1>6. QED BY <1>1, <1>2, <1>4, <1>5

LEMMA InitializeIsRestore ==
    ASSUME NEW p \in Procs, Initialize(p)
    PROVE  Restore(p) /\ UNCHANGED storeVars
BY DEF Initialize, InitializeDaemon, InitializeAutoSquish, InitializeAutoRetry,
   InitializeAutoRetention, InitializeTurnWatchdog, InitializeAutoSnapshot

LEMMA InitializeKeepsTypes ==
    ASSUME ProcTypes, NEW p \in Procs, Initialize(p)
    PROVE  DaemonTypeOK'
<1>1. Restore(p)
  BY InitializeIsRestore
<1>2. runtime' \in [Procs -> Runtime(daemon)]
  BY <1>1, RestoredRuntime DEF ProcTypes, DaemonTypeOK
<1>3. \A q \in Procs : boot'[q].at # "up" => call'[q] = NoCall
  BY <1>1 DEF Restore, ProcTypes, DaemonTypeOK, SchemaTypeOK
<1>4. QED BY <1>1, <1>2, <1>3 DEF Restore, ProcTypes, DaemonTypeOK

LEMMA ControlCallIsControl ==
    ASSUME NEW p \in Procs, ControlCall(p)
    PROVE  /\ Idle(p) /\ UNCHANGED <<schemaVars, storeVars>>
           /\ Start(p) \/ Stop(p) \/ RunOnce(p)
BY DEF ControlCall, AutoSquishControl, TaskAutoRetryControl, TrichatAutoRetentionControl,
   TrichatTurnWatchdogControl, ImprintAutoSnapshotControl, Control

LEMMA GivenIsConfig ==
    ASSUME ProcTypes, NEW p \in Procs, NEW given \in Givens
    PROVE  Resolve(given, runtime[p].config) \in Config(daemon)
<1>1. /\ daemon \in Daemons /\ focus \subseteq DOMAIN Settings(daemon)
      /\ runtime[p].config \in Config(daemon)
  BY DEF ProcTypes, DaemonTypeOK, Runtime
<1>2. QED BY <1>1, GivensAreEnds, ResolvedIsConfig

LEMMA ControlKeepsTypes ==
    ASSUME ProcTypes, NEW p \in Procs, ControlCall(p)
    PROVE  DaemonTypeOK'
<1>1. Start(p) \/ Stop(p) \/ RunOnce(p)
  BY ControlCallIsControl
<1>2. /\ UNCHANGED <<daemon, focus, configRow, promised, started, mishaps, boot>>
      /\ boot[p].at = "up" /\ callsLeft' \in Nat
  <2>1. UNCHANGED boot
    BY ControlCallIsControl DEF schemaVars
  <2>2. QED BY <1>1, <2>1 DEF Start, Stop, RunOnce, Ready, ProcTypes, DaemonTypeOK
<1>3. CASE Start(p)
  <2>1. PICK given \in Givens, first \in {"tick", "persist"} :
          LET config == Resolve(given, runtime[p].config) IN
          /\ runtime' = [runtime EXCEPT ![p] = Armed(config)]
          /\ Enter(p, "start", config, first)
          /\ unsettled' = unsettled \cup {Asked("start", config)}
    BY <1>3 DEF Start
  <2> DEFINE config == Resolve(given, runtime[p].config)
             new == [kind |-> "start", config |-> config, step |-> first]
  <2>2. config \in Config(daemon)
    BY GivenIsConfig
  <2> HIDE DEF config
  <2>3. Armed(config) \in Runtime(daemon) /\ Asked("start", config) \in DaemonState(daemon)
        /\ new \in Call(daemon)
    BY <2>2 DEF Armed, Runtime, Asked, DaemonState, Call
  <2>4. runtime' = [runtime EXCEPT ![p] = Armed(config)] /\ call' = [call EXCEPT ![p] = new]
        /\ unsettled' = unsettled \cup {Asked("start", config)}
    BY <2>1 DEF config, Enter
  <2> HIDE DEF new
  <2>5. /\ call' \in [Procs -> Call(daemon) \cup {NoCall}]
        /\ \A q \in Procs : boot'[q].at # "up" => call'[q] = NoCall
    BY <1>2, <2>3, <2>4, CallEdit
  <2>6. runtime' \in [Procs -> Runtime(daemon)] /\ unsettled' \subseteq DaemonState(daemon)
    BY <2>3, <2>4 DEF ProcTypes, DaemonTypeOK
  <2>7. QED BY <1>2, <2>5, <2>6 DEF ProcTypes, DaemonTypeOK
<1>4. CASE Stop(p)
  <2> DEFINE new == [kind |-> "stop", config |-> runtime[p].config, step |-> "persist"]
             quiet == [runtime[p] EXCEPT !.running = FALSE, !.timer = FALSE]
  <2>1. runtime[p] \in Runtime(daemon)
    BY DEF ProcTypes, DaemonTypeOK
  <2>2. Asked("stop", runtime[p].config) \in DaemonState(daemon) /\ new \in Call(daemon)
        /\ quiet \in Runtime(daemon)
    BY <2>1 DEF Runtime, Asked, DaemonState, Call
  <2>3. runtime' = [runtime EXCEPT ![p] = quiet] /\ call' = [call EXCEPT ![p] = new]
        /\ unsettled' = unsettled \cup {Asked("stop", runtime[p].config)}
    <3>1. runtime \in [Procs -> Runtime(daemon)]
      BY DEF ProcTypes, DaemonTypeOK
    <3>2. runtime' = [runtime EXCEPT ![p].running = FALSE, ![p].timer = FALSE]
      BY <1>4 DEF Stop
    <3>3. runtime' = [runtime EXCEPT ![p] = quiet]
      BY <3>1, <3>2
    <3>4. QED BY <1>4, <3>3 DEF Stop, Enter
  <2> HIDE DEF new, quiet
  <2>5. /\ call' \in [Procs -> Call(daemon) \cup {NoCall}]
        /\ \A q \in Procs : boot'[q].at # "up" => call'[q] = NoCall
    BY <1>2, <2>2, <2>3, CallEdit
  <2>6. runtime' \in [Procs -> Runtime(daemon)] /\ unsettled' \subseteq DaemonState(daemon)
    BY <2>2, <2>3 DEF ProcTypes, DaemonTypeOK
  <2>7. QED BY <1>2, <2>5, <2>6 DEF ProcTypes, DaemonTypeOK
<1>5. CASE RunOnce(p)
  <2>1. PICK given \in Givens : Enter(p, "run_once", Resolve(given, runtime[p].config), "tick")
    BY <1>5 DEF RunOnce
  <2> DEFINE new == [kind |-> "run_once", config |-> Resolve(given, runtime[p].config), step |-> "tick"]
  <2>2. new \in Call(daemon)
    BY GivenIsConfig DEF Call
  <2>3. call' = [call EXCEPT ![p] = new]
    BY <2>1 DEF Enter
  <2> HIDE DEF new
  <2>5. /\ call' \in [Procs -> Call(daemon) \cup {NoCall}]
        /\ \A q \in Procs : boot'[q].at # "up" => call'[q] = NoCall
    BY <1>2, <2>2, <2>3, CallEdit
  <2>6. UNCHANGED <<runtime, unsettled>>
    BY <1>5 DEF RunOnce
  <2>7. QED BY <1>2, <2>5, <2>6 DEF ProcTypes, DaemonTypeOK
<1>6. QED BY <1>1, <1>3, <1>4, <1>5

LEMMA EndControlCallIs ==
    ASSUME NEW p \in Procs, EndControlCall(p)
    PROVE  /\ UNCHANGED <<schemaVars, storeVars>>
           /\ Persist(p) \/ PersistFails(p) \/ Answered(p)
BY DEF EndControlCall, PersistDaemon, SetAutoSquishState, SetAutoRetryState,
   SetAutoRetentionState, SetTurnWatchdogState, SetAutoSnapshotState

LEMMA AskedIsState ==
    ASSUME ProcTypes, NEW p \in Procs, call[p] # NoCall
    PROVE  Asked(call[p].kind, call[p].config) \in DaemonState(daemon)
<1>1. call[p] \in Call(daemon)
  BY CallsAreCalls
<1>2. QED BY <1>1 DEF Call, Asked, DaemonState

\* The row that a call writes is what it asked for.
LEMMA PersistWritesAsked ==
    ASSUME ProcTypes, NEW p \in Procs, Persist(p)
    PROVE  configRow' = Asked(call[p].kind, call[p].config)
<1>1. call[p] \in Call(daemon) /\ daemon \in Daemons
  BY CallsAreCalls DEF Persist, ProcTypes, DaemonTypeOK
<1>2. call[p].config \in Config(daemon)
  BY <1>1 DEF Call
<1>3. DelaysInOrder(Bounded(daemon, call[p].config)) = call[p].config
  BY <1>1, <1>2, ConfigIsNumbers
<1>4. QED BY <1>3 DEF Persist

LEMMA EndControlKeepsTypes ==
    ASSUME ProcTypes, NEW p \in Procs, EndControlCall(p)
    PROVE  DaemonTypeOK'
<1>1. UNCHANGED <<boot, daemon, focus, runtime, started, callsLeft>> /\ call[p] # NoCall
  BY EndControlCallIs DEF schemaVars, Persist, PersistFails, Answered
<1>2. boot[p].at = "up"
  BY <1>1, CallsAreCalls
<1>3. Asked(call[p].kind, call[p].config) \in DaemonState(daemon)
  BY <1>1, AskedIsState
<1>4. ASSUME NEW new \in Call(daemon) \cup {NoCall}, call' = [call EXCEPT ![p] = new]
      PROVE  /\ call' \in [Procs -> Call(daemon) \cup {NoCall}]
             /\ \A q \in Procs : boot'[q].at # "up" => call'[q] = NoCall
  BY <1>1, <1>2, <1>4, CallEdit
<1>5. CASE Persist(p)
  <2>1. configRow' \in DaemonRow(daemon)
    <3>1. DaemonState(daemon) \subseteq DaemonRow(daemon)
      BY DEF DaemonState, DaemonRow, Config
    <3>2. QED BY <1>3, <1>5, <3>1, PersistWritesAsked
  <2>2. [call[p] EXCEPT !.step = "answer"] \in Call(daemon)
    BY <1>1, StepEdit
  <2>3. call' = [call EXCEPT ![p] = [call[p] EXCEPT !.step = "answer"]]
    BY <1>5 DEF Persist, ProcTypes, DaemonTypeOK
  <2>4. /\ call' \in [Procs -> Call(daemon) \cup {NoCall}]
        /\ \A q \in Procs : boot'[q].at # "up" => call'[q] = NoCall
    BY <1>4, <2>2, <2>3
  <2>5. UNCHANGED <<promised, unsettled, mishaps>>
    BY <1>5 DEF Persist
  <2>6. QED BY <1>1, <2>1, <2>4, <2>5 DEF ProcTypes, DaemonTypeOK
<1>6. CASE PersistFails(p)
  <2>1. /\ call' \in [Procs -> Call(daemon) \cup {NoCall}]
        /\ \A q \in Procs : boot'[q].at # "up" => call'[q] = NoCall
    BY <1>4, <1>6 DEF PersistFails
  <2>2. UNCHANGED <<configRow, promised, unsettled>> /\ mishaps' \in 0 .. MaxMishaps
    BY <1>6, MishapsAssumption DEF PersistFails, ProcTypes, DaemonTypeOK
  <2>3. QED BY <1>1, <2>1, <2>2 DEF ProcTypes, DaemonTypeOK
<1>7. CASE Answered(p)
  <2>1. /\ call' \in [Procs -> Call(daemon) \cup {NoCall}]
        /\ \A q \in Procs : boot'[q].at # "up" => call'[q] = NoCall
    BY <1>4, <1>7 DEF Answered
  <2>2. UNCHANGED <<configRow, mishaps>> /\ promised' \in DaemonState(daemon) /\ unsettled' = {}
    BY <1>3, <1>7 DEF Answered
  <2>3. QED BY <1>1, <2>1, <2>2 DEF ProcTypes, DaemonTypeOK
<1>8. QED BY <1>5, <1>6, <1>7, EndControlCallIs

LEMMA TimerIs ==
    ASSUME NEW p \in Procs, Timer(p)
    PROVE  Idle(p) /\ TimerFires(p) /\ UNCHANGED <<schemaVars, storeVars>>
BY DEF Timer, DaemonTimer, AutoSquishTimer, AutoRetryTimer, AutoRetentionTimer, TurnWatchdogTimer,
   AutoSnapshotTimer

\* A tick begins, goes to work and ends.
LEMMA TickKeepsTypes ==
    ASSUME ProcTypes, NEW p \in Procs,
           Timer(p) \/ SquishTick(p) \/ SnapshotTick(p) \/ TickEnds(p)
    PROVE  DaemonTypeOK'
<1>1. /\ UNCHANGED <<boot, daemon, focus, configRow, runtime, promised, unsettled, started, callsLeft, mishaps>>
      /\ boot[p].at = "up"
  <2>1. CASE Timer(p)
    BY <2>1, TimerIs DEF TimerFires, Ready, schemaVars
  <2>2. CASE SquishTick(p) \/ SnapshotTick(p)
    BY <2>2, CallsAreCalls DEF SquishTick, SnapshotTick, InTick, OnlyCallChanges, schemaVars
  <2>3. CASE TickEnds(p)
    BY <2>3, CallsAreCalls DEF TickEnds, EndTick, InTick, schemaVars
  <2>4. QED BY <2>1, <2>2, <2>3
<1>2. \E new \in Call(daemon) \cup {NoCall} : call' = [call EXCEPT ![p] = new]
  <2>1. CASE Timer(p)
    <3>1. call' = [call EXCEPT ![p] = [kind |-> "timer", config |-> runtime[p].config, step |-> "tick"]]
      BY <2>1, TimerIs DEF TimerFires, Enter
    <3>2. runtime[p].config \in Config(daemon)
      BY DEF ProcTypes, DaemonTypeOK, Runtime
    <3>3. [kind |-> "timer", config |-> runtime[p].config, step |-> "tick"] \in Call(daemon)
      BY <3>2 DEF Call
    <3>4. QED BY <3>1, <3>3
  <2>2. CASE SquishTick(p) \/ SnapshotTick(p)
    <3>1. call[p] # NoCall /\ call' = [call EXCEPT ![p].step = "working"]
      BY <2>2 DEF SquishTick, SnapshotTick, InTick, Work
    <3>2. [call[p] EXCEPT !.step = "working"] \in Call(daemon)
      BY <3>1, StepEdit
    <3>3. call' = [call EXCEPT ![p] = [call[p] EXCEPT !.step = "working"]]
      BY <3>1 DEF ProcTypes, DaemonTypeOK
    <3>4. QED BY <3>2, <3>3
  <2>3. CASE TickEnds(p)
    <3> DEFINE next == [call[p] EXCEPT !.step = "persist"]
    <3>1. call[p] # NoCall /\ EndTick(p)
      BY <2>3 DEF TickEnds, EndTick, InTick
    <3>2. next \in Call(daemon)
      BY <3>1, StepEdit
    <3>3. call' = [call EXCEPT ![p] = IF call[p].kind = "start" THEN next ELSE NoCall]
      BY <3>1 DEF EndTick, ProcTypes, DaemonTypeOK
    <3> HIDE DEF next
    <3>4. QED BY <3>2, <3>3
  <2>4. QED BY <2>1, <2>2, <2>3
<1>3. /\ call' \in [Procs -> Call(daemon) \cup {NoCall}]
      /\ \A q \in Procs : boot'[q].at # "up" => call'[q] = NoCall
  BY <1>1, <1>2, CallEdit
<1>4. QED BY <1>1, <1>3 DEF ProcTypes, DaemonTypeOK

LEMMA CrashKeepsTypes ==
    ASSUME ProcTypes, NEW p \in Procs, Crash(p)
    PROVE  DaemonTypeOK'
<1>1. /\ UNCHANGED <<daemon, focus, configRow, promised, unsettled, started, callsLeft>>
      /\ mishaps' = mishaps + 1 /\ mishaps < MaxMishaps
      /\ runtime' = [runtime EXCEPT ![p] = Stopped(DefaultConfig(daemon))]
      /\ call' = [call EXCEPT ![p] = NoCall]
      /\ boot' = [boot EXCEPT ![p] = [at |-> "down", applied |-> {}]]
  BY DEF Crash, DaemonCrash, Die
<1>2. mishaps' \in 0 .. MaxMishaps
  BY <1>1, MishapsAssumption DEF ProcTypes, DaemonTypeOK
<1>3. Stopped(DefaultConfig(daemon)) \in Runtime(daemon)
  BY DefaultIsConfig DEF Stopped, Runtime, ProcTypes, DaemonTypeOK
<1>4. runtime' \in [Procs -> Runtime(daemon)]
  BY <1>1, <1>3 DEF ProcTypes, DaemonTypeOK
<1>5. /\ call' \in [Procs -> Call(daemon) \cup {NoCall}]
      /\ \A q \in Procs : boot'[q].at # "up" => call'[q] = NoCall
  BY <1>1 DEF ProcTypes, DaemonTypeOK, SchemaTypeOK
<1>6. QED BY <1>1, <1>2, <1>4, <1>5 DEF ProcTypes, DaemonTypeOK

LEMMA StepDaemonTypes ==
    ASSUME ProcTypes, [Next]_vars
    PROVE  DaemonTypeOK'
<1>1. CASE UNCHANGED vars
  BY <1>1 DEF vars, schemaVars, daemonVars, ProcTypes, DaemonTypeOK
<1>2. ASSUME NEW p \in Procs, StatementFails(p) PROVE DaemonTypeOK'
  <2>1. UNCHANGED <<boot, daemon, focus, configRow, runtime, call, promised, unsettled, started, callsLeft>>
        /\ mishaps' \in 0 .. MaxMishaps
    BY <1>2, MishapsAssumption DEF StatementFails, schemaVars, ProcTypes, DaemonTypeOK
  <2>2. QED BY <2>1 DEF ProcTypes, DaemonTypeOK
<1>3. ASSUME NEW p \in Procs, JobGoesOn(p) \/ WritingGoesOn(p) \/ TranscriptCall(p) \/ ImprintCall(p)
      PROVE  DaemonTypeOK'
  <2>1. UNCHANGED <<boot, daemonVars>>
    BY <1>3 DEF JobGoesOn, WritingGoesOn, TranscriptCall, ImprintCall, schemaVars
  <2>2. QED BY <2>1 DEF daemonVars, ProcTypes, DaemonTypeOK
<1>4. QED BY <1>1, <1>2, <1>3, LaunchKeepsTypes, InitializeKeepsTypes, ControlKeepsTypes,
      EndControlKeepsTypes, TickKeepsTypes, CrashKeepsTypes DEF Next, Proceed

-----------------------------------------------------------------------------
(* Transcripts are well typed. *)

\* The ranks of a finite set ordered by distinct numbers are all taken.
LEMMA RanksAreTaken ==
    ASSUME NEW S, IsFiniteSet(S), NEW key \in [S -> Int],
           \A r, s \in S : key[r] = key[s] => r = s,
           NEW i \in 1 .. Cardinality(S)
    PROVE  \E r \in S : Cardinality({s \in S : key[s] > key[r]}) + 1 = i
<1> DEFINE above(r) == {s \in S : key[s] > key[r]}
           place == [r \in S |-> Cardinality(above(r)) + 1]
<1>1. ASSUME NEW r \in S
      PROVE  /\ IsFiniteSet(above(r)) /\ Cardinality(above(r)) \in Nat
             /\ Cardinality(above(r)) + 1 \in 1 .. Cardinality(S)
  <2>1. above(r) \subseteq S \ {r}
    OBVIOUS
  <2>2. /\ IsFiniteSet(S \ {r}) /\ Cardinality(S \ {r}) = Cardinality(S) - 1
        /\ Cardinality(S) \in Nat
    BY FS_RemoveElement, FS_CardinalityType
  <2>3. IsFiniteSet(above(r)) /\ Cardinality(above(r)) <= Cardinality(S \ {r})
    BY <2>1, <2>2, FS_Subset
  <2>4. Cardinality(above(r)) \in Nat
    BY <2>3, FS_CardinalityType
  <2> HIDE DEF above
  <2>5. QED BY <2>2, <2>3, <2>4
<1>2. ASSUME NEW r \in S, NEW s \in S, key[s] > key[r]
      PROVE  Cardinality(above(s)) < Cardinality(above(r))
  <2>1. above(s) \subseteq above(r) /\ s \in above(r) /\ s \notin above(s)
    BY <1>2
  <2>2. Cardinality(above(s)) <= Cardinality(above(r)) /\ Cardinality(above(s)) # Cardinality(above(r))
    BY <1>1, <2>1, FS_Subset
  <2>3. Cardinality(above(s)) \in Nat /\ Cardinality(above(r)) \in Nat
    BY <1>1
  <2> HIDE DEF above
  <2>4. QED BY <2>2, <2>3
<1>3. place \in [S -> 1 .. Cardinality(S)]
  BY <1>1
<1>4. ASSUME NEW r \in S, NEW s \in S, place[r] = place[s] PROVE r = s
  <2>1. Cardinality(above(r)) = Cardinality(above(s))
    <3>1. Cardinality(above(r)) + 1 = Cardinality(above(s)) + 1
      BY <1>4
    <3>2. Cardinality(above(s)) \in Nat /\ Cardinality(above(r)) \in Nat
      BY <1>1
    <3> HIDE DEF above
    <3>3. QED BY <3>1, <3>2
  <2>2. ~(key[s] > key[r]) /\ ~(key[r] > key[s])
    <3>1. Cardinality(above(r)) \in Nat
      BY <1>1
    <3>2. key[s] > key[r] => Cardinality(above(s)) < Cardinality(above(r))
      BY <1>2
    <3>3. key[r] > key[s] => Cardinality(above(r)) < Cardinality(above(s))
      BY <1>2
    <3> HIDE DEF above
    <3>4. QED BY <2>1, <3>1, <3>2, <3>3
  <2>3. key[r] \in Int /\ key[s] \in Int
    OBVIOUS
  <2>4. key[r] = key[s]
    BY <2>2, <2>3
  <2>5. QED BY <2>4
<1>5. place \in Injection(S, 1 .. Cardinality(S))
  <2>1. DOMAIN place = S
    OBVIOUS
  <2> HIDE DEF place
  <2>2. QED BY <1>3, <1>4, <2>1 DEF Injection, IsInjective
<1>6. IsFiniteSet(1 .. Cardinality(S)) /\ Cardinality(1 .. Cardinality(S)) = Cardinality(S)
  BY FS_CardinalityType, FS_Interval
<1>7. place \in Surjection(S, 1 .. Cardinality(S))
  <2> HIDE DEF place
  <2>1. QED BY <1>5, <1>6, FS_Injection
<1>8. PICK r \in S : place[r] = i
  <2> HIDE DEF place
  <2>1. QED BY <1>7 DEF Surjection
<1>9. QED BY <1>8

LEMMA LinesAreFinite ==
    ASSUME NEW ids \in SUBSET LineIds
    PROVE  IsFiniteSet(ids) /\ ids \subseteq Nat
<1>1. MaxLines \in Int /\ 1 \in Int
  BY JobsAssumption
<1>2. IsFiniteSet(1 .. MaxLines)
  BY <1>1, FS_Interval
<1>3. 1 .. MaxLines \subseteq Nat
  BY <1>1
<1>4. QED BY <1>2, <1>3, FS_Subset DEF LineIds

\* A run with unsquished lines has a newest one.
LEMMA NewestIsNewest ==
    ASSUME NEW r \in Runs, Unsquished(r) # {}
    PROVE  Newest(r) \in Unsquished(r) /\ \A k \in Unsquished(r) : k <= Newest(r)
<1> DEFINE open == Unsquished(r)
           key == [l \in open |-> l]
           later(l) == {k \in open : key[k] > key[l]}
<1>1. IsFiniteSet(open)
  <2>1. open \in SUBSET LineIds
    BY DEF Unsquished, Present
  <2>2. QED BY <2>1, LinesAreFinite
<1>2. open \subseteq Nat
  <2>1. open \in SUBSET LineIds
    BY DEF Unsquished, Present
  <2>2. QED BY <2>1, LinesAreFinite
<1>3. 1 \in 1 .. Cardinality(open)
  <2>1. Cardinality(open) \in Nat /\ Cardinality(open) # 0
    BY <1>1, FS_CardinalityType, FS_EmptySet
  <2> HIDE DEF open
  <2>2. QED BY <2>1
<1> HIDE DEF open
<1>4. key \in [open -> Int]
  BY <1>2
<1>5. ASSUME NEW l \in open, NEW k \in open, key[l] = key[k] PROVE l = k
  BY <1>5
<1>6. \E l \in open : Cardinality(later(l)) + 1 = 1
  <2> HIDE DEF key
  <2>1. QED BY <1>1, <1>3, <1>4, <1>5, RanksAreTaken
<1>7. PICK l \in open : Cardinality(later(l)) + 1 = 1
  BY <1>6
<1>8. later(l) = {}
  <2>1. IsFiniteSet(later(l))
    BY <1>1, FS_Subset
  <2>2. Cardinality(later(l)) \in Nat
    BY <2>1, FS_CardinalityType
  <2> HIDE DEF later
  <2>3. QED BY <1>7, <2>1, <2>2, FS_EmptySet
<1>9. ASSUME NEW k \in open PROVE k <= l
  <2>1. key[k] = k /\ key[l] = l
    OBVIOUS
  <2>2. ~(k > l)
    BY <1>8, <2>1
  <2>3. QED BY <1>2, <2>2
<1>10. QED BY <1>9 DEF Newest, open

\* listTranscriptRunsWithPending lists runs.
LEMMA PendingRunsAreRuns ==
    ASSUME NEW n \in Nat
    PROVE  PendingRuns(n) \in Seq(Runs)
<1> DEFINE pending == {r \in Runs : Unsquished(r) # {}}
           place(r) == Cardinality({s \in pending : Newest(s) > Newest(r)}) + 1
           size == IF Cardinality(pending) <= n THEN Cardinality(pending) ELSE n
           key == [r \in pending |-> Newest(r)]
<1>1. key \in [pending -> LineIds]
  BY NewestIsNewest DEF Unsquished, Present
<1>2. ASSUME NEW r \in pending, NEW s \in pending, key[r] = key[s] PROVE r = s
  <2>1. Newest(r) \in Unsquished(r) /\ Newest(s) \in Unsquished(s) /\ Newest(r) = Newest(s)
    BY <1>2, NewestIsNewest
  <2>2. QED BY <2>1 DEF Unsquished
<1>3. IsFiniteSet(pending)
  <2>1. key \in Injection(pending, LineIds)
    <3>1. DOMAIN key = pending
      OBVIOUS
    <3> HIDE DEF key, pending
    <3>2. QED BY <1>1, <1>2, <3>1 DEF Injection, IsInjective
  <2>2. IsFiniteSet(LineIds)
    BY LinesAreFinite
  <2> HIDE DEF key, pending
  <2>3. QED BY <2>1, <2>2, FS_Injection
<1>4. key \in [pending -> Int]
  <2>1. LineIds \subseteq Int
    BY DEF LineIds
  <2> HIDE DEF key, pending
  <2>2. QED BY <1>1, <2>1
<1>5. Cardinality(pending) \in Nat /\ size \in Nat /\ size <= Cardinality(pending)
  <2>1. Cardinality(pending) \in Nat
    BY <1>3, FS_CardinalityType
  <2> HIDE DEF pending
  <2>2. QED BY <2>1
<1>6. ASSUME NEW i \in 1 .. size PROVE (CHOOSE r \in pending : place(r) = i) \in Runs
  <2>1. i \in 1 .. Cardinality(pending)
    <3> HIDE DEF pending
    <3>1. QED BY <1>5
  <2>2. \E r \in pending : Cardinality({s \in pending : key[s] > key[r]}) + 1 = i
    <3> HIDE DEF key, pending
    <3>1. QED BY <1>2, <1>3, <1>4, <2>1, RanksAreTaken
  <2>3. \A r \in pending : {s \in pending : key[s] > key[r]} = {s \in pending : Newest(s) > Newest(r)}
    OBVIOUS
  <2>4. \E r \in pending : place(r) = i
    BY <2>2, <2>3
  <2>5. (CHOOSE r \in pending : place(r) = i) \in pending
    <3> HIDE DEF pending, place
    <3>1. QED BY <2>4
  <2>6. QED BY <2>5
<1>7. PendingRuns(n) = [i \in 1 .. size |-> CHOOSE r \in pending : place(r) = i]
  BY DEF PendingRuns
<1> HIDE DEF place, size, pending
<1>8. QED BY <1>5, <1>6, <1>7

LEMMA OldestAreLines ==
    ASSUME NEW ids \in SUBSET LineIds, NEW n
    PROVE  OldestOf(ids, n) \in SUBSET LineIds
BY DEF OldestOf

LEMMA NextRunIsJob ==
    ASSUME TranscriptTypeOK, NEW w \in Workers, job[w] # NoJob, NextRun(w)
    PROVE  job' \in [Workers -> Job \cup {NoJob}]
<1>1. job[w] \in Job
  BY DEF TranscriptTypeOK
<1> DEFINE next == [job[w] EXCEPT !.step = "read", !.todo = Tail(job[w].todo), !.ids = {}]
<1>2. ~(Len(job[w].todo) <= 1) => next \in Job
  <2>1. job[w].todo \in Seq(Runs)
    BY <1>1 DEF Job
  <2>2. ~(Len(job[w].todo) <= 1) => Tail(job[w].todo) \in Seq(Runs)
    BY <2>1
  <2>3. QED BY <1>1, <2>2 DEF Job
<1>3. job' = [job EXCEPT ![w] = IF Len(job[w].todo) <= 1 THEN NoJob ELSE next]
  BY DEF NextRun
<1> HIDE DEF next
<1>4. QED BY <1>2, <1>3 DEF TranscriptTypeOK

\* A call or a tick begins a job.
LEMMA NewJobKeepsTypes ==
    ASSUME TranscriptTypeOK, NEW w \in Workers, NEW new \in Job \cup {NoJob},
           job' = [job EXCEPT ![w] = new], UNCHANGED <<lines, issued, memoriesOf>>,
           jobs' \in 0 .. MaxJobs
    PROVE  TranscriptTypeOK'
BY DEF TranscriptTypeOK

LEMMA SquishJobIsJob ==
    ASSUME NEW todo \in Seq(Runs), NEW limit \in Nat
    PROVE  SquishJob(todo, limit) \in Job
BY DEF SquishJob, Job

LEMMA TranscriptCallKeepsTypes ==
    ASSUME TranscriptTypeOK, LineInv', NEW p \in Workers, TranscriptCall(p)
    PROVE  TranscriptTypeOK'
<1>1. ASSUME NEW r \in Runs \cup {NoRun}, NEW squished \in BOOLEAN, LogLine(r, squished)
      PROVE  TranscriptTypeOK'
  <2>1. issued' \in 0 .. MaxLines /\ UNCHANGED <<job, jobs>>
    BY <1>1, JobsAssumption DEF LogLine, TranscriptTypeOK
  <2>2. QED BY <2>1 DEF LineInv, LinesTyped, TranscriptTypeOK
<1>2. jobs < MaxJobs => jobs + 1 \in 0 .. MaxJobs
  BY JobsAssumption DEF TranscriptTypeOK
<1>3. ASSUME NEW r \in Runs, SquishTranscript(p, r, 200) PROVE TranscriptTypeOK'
  <2>1. SquishJob(<<r>>, 200) \in Job
    <3>1. <<r>> \in Seq(Runs) /\ 200 \in Nat
      OBVIOUS
    <3>2. QED BY <3>1, SquishJobIsJob
  <2>2. /\ job' = [job EXCEPT ![p] = SquishJob(<<r>>, 200)]
        /\ UNCHANGED <<lines, issued, memoriesOf>> /\ jobs' \in 0 .. MaxJobs
    BY <1>2, <1>3 DEF SquishTranscript
  <2>3. QED BY <2>1, <2>2, NewJobKeepsTypes
<1>4. ASSUME NEW cutoff \in 1 .. issued, NEW all \in BOOLEAN, PruneSelect(p, cutoff, all, 1000)
      PROVE  TranscriptTypeOK'
  <2> DEFINE ids == OldestOf({l \in Present : l <= cutoff /\ (all \/ lines[l].squished)}, 1000)
             new == [kind |-> "prune", step |-> "delete", todo |-> <<>>, ids |-> ids,
                     limit |-> 1000, all |-> all]
  <2>1. ids \in SUBSET LineIds
    BY OldestAreLines DEF Present
  <2>2. /\ job' = [job EXCEPT ![p] = new]
        /\ UNCHANGED <<lines, issued, memoriesOf>> /\ jobs' \in 0 .. MaxJobs
    BY <1>2, <1>4 DEF PruneSelect
  <2> HIDE DEF ids
  <2>3. new \in Job
    <3>1. <<>> \in Seq(Runs)
      OBVIOUS
    <3>2. QED BY <2>1, <3>1 DEF Job
  <2> HIDE DEF new
  <2>4. QED BY <2>2, <2>3, NewJobKeepsTypes
<1>5. QED BY <1>1, <1>3, <1>4 DEF TranscriptCall

LEMMA SquishTickKeepsTypes ==
    ASSUME ProcTypes, TranscriptTypeOK, NEW p \in Procs, SquishTick(p)
    PROVE  TranscriptTypeOK'
<1> DEFINE d == "transcript.auto_squish"
           config == call[p].config
<1>1. daemon = d /\ d \in Daemons /\ config \in Config(d)
  <2>1. daemon = d /\ call[p] \in Call(daemon)
    BY CallsAreCalls DEF SquishTick, InTick
  <2>2. QED BY <2>1 DEF Call, Daemons
<1>2. DOMAIN Settings(d) = {"interval_seconds", "batch_runs", "per_run_limit", "max_points"}
      /\ Settings(d)["batch_runs"][2] = 1 /\ Settings(d)["per_run_limit"][2] = 1
  BY DEF Settings, AutoSquishSettings
<1> HIDE DEF d
<1>3. config \in Numbers(d) /\ WithinBounds(d, config)
  BY <1>1, ConfigIsNumbers
<1> HIDE DEF config
<1>4. config["batch_runs"] \in Nat /\ config["per_run_limit"] \in Nat
  <2>1. config["batch_runs"] \in Int /\ config["per_run_limit"] \in Int
    BY <1>2, <1>3 DEF Numbers
  <2>2. 1 <= config["batch_runs"] /\ 1 <= config["per_run_limit"]
    BY <1>2, <1>3 DEF WithinBounds
  <2>3. QED BY <2>1, <2>2
<1>5. BeginSquishTick(p, config.batch_runs, config.per_run_limit)
  BY DEF SquishTick, config
<1>6. SquishJob(PendingRuns(config.batch_runs), config.per_run_limit) \in Job
  BY <1>4, PendingRunsAreRuns, SquishJobIsJob
<1>7. QED BY <1>5, <1>6, NewJobKeepsTypes, SameProcesses DEF BeginSquishTick, TranscriptTypeOK

LEMMA JobStepKeepsTypes ==
    ASSUME TranscriptTypeOK, LineInv', NEW w \in Workers,
           JobStep(w) \/ SquishFails(w) \/ JobCrash(w)
    PROVE  TranscriptTypeOK'
<1>1. UNCHANGED <<issued, jobs>>
  BY DEF JobStep, SquishRead, SquishInsertMemory, SquishMark, EmptySquish, PruneDelete, SquishFails, JobCrash
<1>2. ASSUME job' \in [Workers -> Job \cup {NoJob}] PROVE TranscriptTypeOK'
  BY <1>1, <1>2 DEF LineInv, LinesTyped, TranscriptTypeOK
<1>3. ASSUME NEW s \in {"read", "insert", "mark", "delete"}, NEW ids \in SUBSET LineIds, job[w] # NoJob
      PROVE  [job[w] EXCEPT !.step = s, !.ids = ids] \in Job /\ [job[w] EXCEPT !.step = s] \in Job
  <2>1. job[w] \in Job
    BY <1>3 DEF TranscriptTypeOK
  <2>2. QED BY <2>1 DEF Job
<1>4. CASE job' = [job EXCEPT ![w] = NoJob]
  BY <1>2, <1>4 DEF TranscriptTypeOK
<1>5. CASE job[w] # NoJob /\ NextRun(w)
  BY <1>2, <1>5, NextRunIsJob
<1>6. CASE SquishRead(w)
  <2> DEFINE ids == OldestOf(Unsquished(Head(job[w].todo)), job[w].limit)
  <2>1. ids \in SUBSET LineIds
    BY OldestAreLines DEF Unsquished, Present
  <2>2. job[w] # NoJob /\ (NextRun(w) \/ job' = [job EXCEPT ![w].step = "insert", ![w].ids = ids])
    BY <1>6 DEF SquishRead, Squishing
  <2> HIDE DEF ids
  <2>3. CASE job' = [job EXCEPT ![w].step = "insert", ![w].ids = ids]
    <3>1. job' = [job EXCEPT ![w] = [job[w] EXCEPT !.step = "insert", !.ids = ids]]
      BY <2>3 DEF TranscriptTypeOK
    <3>2. [job[w] EXCEPT !.step = "insert", !.ids = ids] \in Job
      BY <1>3, <2>1, <2>2
    <3>3. QED BY <1>2, <3>1, <3>2 DEF TranscriptTypeOK
  <2>4. QED BY <1>5, <2>2, <2>3
<1>7. CASE SquishInsertMemory(w)
  <2>1. job[w] # NoJob /\ job' = [job EXCEPT ![w].step = "mark"]
    BY <1>7 DEF SquishInsertMemory, Squishing
  <2>2. job' = [job EXCEPT ![w] = [job[w] EXCEPT !.step = "mark"]]
    BY <2>1 DEF TranscriptTypeOK
  <2>3. {} \in SUBSET LineIds
    OBVIOUS
  <2>4. [job[w] EXCEPT !.step = "mark"] \in Job
    BY <1>3, <2>1, <2>3
  <2>5. QED BY <1>2, <2>2, <2>4 DEF TranscriptTypeOK
<1>8. CASE SquishMark(w) \/ SquishFails(w)
  BY <1>5, <1>8 DEF SquishMark, SquishFails, Squishing
<1>9. QED BY <1>4, <1>6, <1>7, <1>8 DEF JobStep, EmptySquish, PruneDelete, JobCrash

LEMMA StepTranscriptTypes ==
    ASSUME ProcTypes, TranscriptTypeOK, LineInv, LineInv', [Next]_vars
    PROVE  TranscriptTypeOK'
<1>1. CASE UNCHANGED transcriptVars
  BY <1>1 DEF transcriptVars, TranscriptTypeOK
<1>2. CASE UNCHANGED vars
  BY <1>1, <1>2 DEF vars
<1>3. ASSUME NEW p \in Procs,
             \/ LaunchProcess(p) \/ Migrate(p) \/ Initialize(p) \/ SnapshotTick(p) \/ TickEnds(p)
             \/ WritingGoesOn(p) \/ EndControlCall(p) \/ Timer(p) \/ ControlCall(p) \/ ImprintCall(p)
      PROVE  UNCHANGED transcriptVars
  BY <1>3 DEF LaunchProcess, Migrate, Initialize, SnapshotTick, TickEnds, WritingGoesOn,
     EndControlCall, Timer, ControlCall, ImprintCall, storeVars
<1>4. ASSUME NEW p \in Procs, JobGoesOn(p) \/ StatementFails(p) \/ Crash(p)
      PROVE  UNCHANGED transcriptVars \/ JobStep(p) \/ SquishFails(p) \/ JobCrash(p)
  BY <1>4 DEF JobGoesOn, StatementFails, Crash
<1>5. QED BY <1>1, <1>2, <1>3, <1>4, SquishTickKeepsTypes, TranscriptCallKeepsTypes, JobStepKeepsTypes,
      SameProcesses DEF Next, Proceed

-----------------------------------------------------------------------------
(* Imprint is well typed. *)

LEMMA ImprintStepKeepsTypes ==
    ASSUME ImprintTypeOK, ImprintInv', NEW k \in Keepers, ImprintStep(k)
    PROVE  ImprintTypeOK'
<1>1. ASSUME NEW new \in Writing \cup {NoWriting}, writing' = [writing EXCEPT ![k] = new],
             files' \subseteq SnapshotIds, promotedIds' \subseteq SnapshotIds, snapshots' \subseteq Snapshot
      PROVE  ImprintTypeOK'
  BY <1>1 DEF ImprintTypeOK, ImprintInv
<1>2. ASSUME NEW file \in BOOLEAN, NEW memory \in BOOLEAN, BeginSnapshot(k, file, memory)
      PROVE  ImprintTypeOK'
  <2> DEFINE id == CHOOSE id \in SnapshotIds : Unused(id)
             new == [kind |-> "snapshot", step |-> "file",
                     of |-> [id |-> id, file |-> file, memory |-> memory]]
  <2>1. id \in SnapshotIds
    <3>1. \E i \in SnapshotIds : Unused(i)
      BY <1>2 DEF BeginSnapshot
    <3>2. QED BY <3>1
  <2>2. writing' = [writing EXCEPT ![k] = new] /\ UNCHANGED <<files, promotedIds, snapshots>>
    BY <1>2 DEF BeginSnapshot
  <2> HIDE DEF id
  <2>3. new \in Writing
    BY <2>1 DEF Writing, Snapshot
  <2> HIDE DEF new
  <2>4. QED BY <1>1, <2>2, <2>3 DEF ImprintTypeOK
<1>3. ASSUME NEW s, Taking(k, s)
      PROVE  /\ writing[k].of \in Snapshot /\ writing[k].of.id \in SnapshotIds
             /\ \A t \in {"file", "memory", "row"} : [writing[k] EXCEPT !.step = t] \in Writing
  <2>1. writing[k] \in [kind : {"snapshot"}, step : {"file", "memory", "row"}, of : Snapshot]
    BY <1>3 DEF Taking, ImprintTypeOK, Writing
  <2>2. QED BY <2>1 DEF Writing, Snapshot
<1>4. CASE WriteSnapshotFile(k)
  <2>1. Taking(k, "file") /\ writing' = [writing EXCEPT ![k] = [writing[k] EXCEPT !.step = "memory"]]
    BY <1>4 DEF WriteSnapshotFile, ImprintTypeOK
  <2>2. files' \subseteq SnapshotIds /\ UNCHANGED <<promotedIds, snapshots>>
    BY <1>3, <1>4, <2>1 DEF WriteSnapshotFile, ImprintTypeOK
  <2>3. [writing[k] EXCEPT !.step = "memory"] \in Writing
    BY <1>3, <2>1
  <2>4. QED BY <1>1, <2>1, <2>2, <2>3 DEF ImprintTypeOK
<1>5. CASE PromoteSummary(k)
  <2>1. Taking(k, "memory") /\ writing' = [writing EXCEPT ![k] = [writing[k] EXCEPT !.step = "row"]]
    BY <1>5 DEF PromoteSummary, ImprintTypeOK
  <2>2. promotedIds' \subseteq SnapshotIds /\ UNCHANGED <<files, snapshots>>
    BY <1>3, <1>5, <2>1 DEF PromoteSummary, ImprintTypeOK
  <2>3. [writing[k] EXCEPT !.step = "row"] \in Writing
    BY <1>3, <2>1
  <2>4. QED BY <1>1, <2>1, <2>2, <2>3 DEF ImprintTypeOK
<1>6. CASE InsertSnapshot(k)
  <2>1. snapshots' \subseteq Snapshot /\ UNCHANGED <<files, promotedIds>>
    BY <1>3, <1>6 DEF InsertSnapshot, ImprintTypeOK
  <2>2. QED BY <1>1, <1>6, <2>1 DEF InsertSnapshot, ImprintTypeOK
<1>7. CASE ReadProfile(k)
  <2>1. [kind |-> "profile", found |-> profile # NoProfile] \in Writing
    BY DEF Writing
  <2>2. QED BY <1>1, <1>7, <2>1 DEF ReadProfile, ImprintTypeOK
<1>8. CASE WriteProfile(k) \/ WritingCrash(k)
  BY <1>1, <1>8 DEF WriteProfile, WritingCrash, ImprintTypeOK
<1>9. QED BY <1>2, <1>4, <1>5, <1>6, <1>7, <1>8 DEF ImprintStep

-----------------------------------------------------------------------------

AllTyped == SchemaInv /\ LineInv /\ ImprintInv /\ DaemonTypeOK /\ TranscriptTypeOK /\ ImprintTypeOK

LEMMA InitTyped == Init => DaemonTypeOK /\ TranscriptTypeOK /\ ImprintTypeOK
<1> SUFFICES ASSUME Init PROVE DaemonTypeOK /\ TranscriptTypeOK /\ ImprintTypeOK
  OBVIOUS
<1>1. TranscriptTypeOK
  BY JobsAssumption DEF Init, TranscriptInit, TranscriptTypeOK
<1>2. ImprintTypeOK
  BY DEF Init, ImprintInit, ImprintTypeOK
<1>3. PICK s \in Scenes : SchemaInit(s.database) /\ DaemonInit(s.daemon, s.focus, s.row, s.calls)
  BY DEF Init
<1>4. /\ daemon \in Daemons /\ focus \subseteq DOMAIN Settings(daemon)
      /\ configRow \in DaemonRow(daemon) \cup {NoDaemonRow} /\ callsLeft \in Nat
  BY <1>3, ScenesAssumption DEF DaemonInit
<1>5. DefaultConfig(daemon) \in Config(daemon)
  BY <1>4, DefaultIsConfig
<1>6. runtime \in [Procs -> Runtime(daemon)]
  <2>1. Stopped(DefaultConfig(daemon)) \in Runtime(daemon)
    BY <1>5 DEF Stopped, Runtime
  <2>2. QED BY <1>3, <2>1 DEF DaemonInit
<1>7. promised \in DaemonState(daemon)
  <2>1. CASE configRow = NoDaemonRow
    BY <1>3, <1>5, <2>1 DEF DaemonInit, DaemonState
  <2>2. CASE configRow # NoDaemonRow
    BY <1>3, <1>4, <2>2, StoredIsState DEF DaemonInit
  <2>3. QED BY <2>1, <2>2
<1>8. DaemonTypeOK
  BY <1>3, <1>4, <1>6, <1>7, MishapsAssumption DEF DaemonInit, DaemonTypeOK
<1>9. QED BY <1>1, <1>2, <1>8

LEMMA AllTypedHolds == Spec => []AllTyped
<1>1. ASSUME SchemaInv, LineInv, ImprintInv, SchemaInv', LineInv', ImprintInv',
             DaemonTypeOK, TranscriptTypeOK, ImprintTypeOK, [Next]_vars
      PROVE  DaemonTypeOK' /\ TranscriptTypeOK' /\ ImprintTypeOK'
  <2>1. ProcTypes
    BY <1>1 DEF ProcTypes, SchemaInv
  <2>2. ImprintTypeOK'
    <3>1. CASE UNCHANGED imprintVars
      BY <1>1, <3>1 DEF imprintVars, ImprintTypeOK
    <3>2. QED BY <1>1, <3>1, NextIsImprintStep, ImprintStepKeepsTypes
  <2>3. QED BY <1>1, <2>1, <2>2, StepDaemonTypes, StepTranscriptTypes
<1>2. AllTyped <=> SchemaInv /\ LineInv /\ ImprintInv /\ DaemonTypeOK /\ TranscriptTypeOK /\ ImprintTypeOK
  BY DEF AllTyped
<1>3. QED BY <1>1, <1>2, InitTyped, SchemaInvHolds, LineInvHolds, ImprintInvHolds, PTL DEF Spec

\* Every reachable state of the server processes is well typed: daemons run with settings
\* within bounds and in order, whatever numbers a row held, and a tick's list of runs is one.
THEOREM ServerTypeCorrect == Spec => []TypeOK
<1>1. AllTyped => TypeOK
  BY DEF AllTyped, TypeOK, SchemaInv
<1>2. QED BY <1>1, AllTypedHolds, PTL

-----------------------------------------------------------------------------
(* What a daemon was promised to be. *)

RunsAs(p, state) ==
    /\ runtime[p].running = state.enabled /\ runtime[p].timer = state.enabled
    /\ runtime[p].config = state.config

\* The row holds the last answer, or a call that got none; without a row nothing was asked.
RowTells ==
    /\ configRow # NoDaemonRow => Stored(configRow) \in {promised} \cup unsettled
    /\ configRow = NoDaemonRow => promised = [enabled |-> FALSE, config |-> DefaultConfig(daemon)]

Serves(p) == boot[p].at = "up" /\ unsettled = {} => RunsAs(p, promised)

\* A start or stop under way is unsettled, the daemon in memory already is what it asks for,
\* and the row too once it was written; only these two write a row.
CallStands(p) ==
    call[p] # NoCall =>
        /\ call[p].step \in {"persist", "answer"} => call[p].kind \in {"start", "stop"}
        /\ call[p].kind \in {"start", "stop"} =>
              LET asked == Asked(call[p].kind, call[p].config) IN
              /\ asked \in unsettled /\ RunsAs(p, asked)
              /\ call[p].step = "answer" => configRow = asked

AloneKept == RowTells /\ \A p \in Procs : Serves(p) /\ CallStands(p)

OnlyStartedRun == IsFiniteSet(started) /\ \A p \in Procs : p \notin started => boot[p].at = "down"

PromiseInv == OnlyStartedRun /\ (Alone => AloneKept)

\* While one process was ever started, the others are down.
LEMMA OthersAreDown ==
    ASSUME ProcTypes, OnlyStartedRun, Alone, NEW p \in Procs, boot[p].at # "down",
           NEW q \in Procs, q # p
    PROVE  boot[q].at = "down" /\ call[q] = NoCall
<1>1. p \in started
  BY DEF OnlyStartedRun
<1>2. started = {p}
  <2>1. Cardinality(started) \in Nat /\ Cardinality(started) # 0 /\ Cardinality(started) <= 1
    BY <1>1, FS_CardinalityType, FS_EmptySet DEF OnlyStartedRun, Alone
  <2>2. Cardinality(started) = 1
    BY <2>1
  <2>3. PICK x : started = {x}
    BY <2>2, FS_Singleton DEF OnlyStartedRun
  <2>4. QED BY <1>1, <2>3
<1>3. boot[q].at = "down"
  BY <1>2 DEF OnlyStartedRun
<1>4. QED BY <1>3 DEF ProcTypes, DaemonTypeOK

\* So a step of that process concerns it alone.
LEMMA OneProcessCounts ==
    ASSUME ProcTypes, PromiseInv, NEW p \in Procs, boot[p].at # "down",
           UNCHANGED started, \A q \in Procs : q # p => boot'[q] = boot[q] /\ call'[q] = call[q],
           Alone => AloneKept /\ RowTells' /\ Serves(p)' /\ CallStands(p)'
    PROVE  PromiseInv'
<1>1. OnlyStartedRun'
  <2>1. p \in started
    BY DEF PromiseInv, OnlyStartedRun
  <2>2. QED BY <2>1 DEF PromiseInv, OnlyStartedRun
<1>2. ASSUME Alone, NEW q \in Procs, q # p PROVE Serves(q)' /\ CallStands(q)'
  <2>1. boot'[q].at = "down" /\ call'[q] = NoCall
    BY <1>2, OthersAreDown DEF PromiseInv
  <2>2. QED BY <2>1 DEF Serves, CallStands
<1>3. Alone' <=> Alone
  BY DEF Alone
<1>4. Alone => AloneKept'
  BY <1>2 DEF AloneKept
<1>5. QED BY <1>1, <1>3, <1>4 DEF PromiseInv

LEMMA LaunchKeepsPromise ==
    ASSUME ProcTypes, PromiseInv, NEW p \in Procs, LaunchProcess(p)
    PROVE  PromiseInv'
<1>1. /\ boot[p].at = "down" /\ boot' = [boot EXCEPT ![p].at = "reading"]
      /\ started' = started \cup {p}
      /\ UNCHANGED <<daemon, configRow, runtime, call, promised, unsettled>>
  BY DEF LaunchProcess, Launch
<1>2. boot'[p].at = "reading" /\ \A q \in Procs : q # p => boot'[q] = boot[q]
  BY <1>1 DEF ProcTypes, SchemaTypeOK
<1>3. OnlyStartedRun'
  <2>1. IsFiniteSet(started')
    BY <1>1, FS_AddElement DEF PromiseInv, OnlyStartedRun
  <2>2. QED BY <1>1, <1>2, <2>1 DEF PromiseInv, OnlyStartedRun
<1>4. Alone' => Alone
  <2>1. IsFiniteSet(started) /\ Cardinality(started) \in Nat
    BY FS_CardinalityType DEF PromiseInv, OnlyStartedRun
  <2>2. Cardinality(started') = IF p \in started THEN Cardinality(started) ELSE Cardinality(started) + 1
    BY <1>1, <2>1, FS_AddElement
  <2>3. QED BY <2>1, <2>2 DEF Alone
<1>5. AloneKept => AloneKept'
  <2>1. RowTells => RowTells'
    BY <1>1 DEF RowTells, Stored
  <2>2. ASSUME NEW q \in Procs, Serves(q), CallStands(q) PROVE Serves(q)' /\ CallStands(q)'
    BY <1>1, <1>2, <2>2 DEF Serves, CallStands, RunsAs
  <2>3. QED BY <2>1, <2>2 DEF AloneKept
<1>6. QED BY <1>3, <1>4, <1>5 DEF PromiseInv

\* Nothing of the daemon changes, and no process comes up.
LEMMA QuietStepKeepsPromise ==
    ASSUME ProcTypes, PromiseInv, UNCHANGED <<daemon, configRow, runtime, call, promised, unsettled, started>>,
           \A q \in Procs : /\ boot'[q].at = "up" => boot[q].at = "up"
                            /\ boot[q].at = "down" => boot'[q].at = "down"
    PROVE  PromiseInv'
<1>1. OnlyStartedRun' /\ (Alone' <=> Alone)
  BY DEF PromiseInv, OnlyStartedRun, Alone
<1>2. RowTells => RowTells'
  BY DEF RowTells, Stored
<1>3. ASSUME NEW q \in Procs, Serves(q), CallStands(q) PROVE Serves(q)' /\ CallStands(q)'
  BY <1>3 DEF Serves, CallStands, RunsAs
<1>4. QED BY <1>1, <1>2, <1>3 DEF PromiseInv, AloneKept

LEMMA MigrateKeepsPromise ==
    ASSUME ProcTypes, PromiseInv, NEW p \in Procs, Migrate(p)
    PROVE  PromiseInv'
<1>1. UNCHANGED <<daemon, configRow, runtime, call, promised, unsettled, started>>
  BY DEF Migrate, daemonVars
<1>2. ASSUME NEW q \in Procs
      PROVE  /\ boot'[q].at = "up" => boot[q].at = "up"
             /\ boot[q].at = "down" => boot'[q].at = "down"
  BY DEF Migrate, ReadApplied, ApplyMigration, MigrationConflict, Die, ReplaySchema, ProcTypes, SchemaTypeOK
<1>3. QED BY <1>1, <1>2, QuietStepKeepsPromise

\* A process that restores its daemon takes it from the row.
LEMMA InitializeKeepsPromise ==
    ASSUME ProcTypes, PromiseInv, NEW p \in Procs, Initialize(p)
    PROVE  PromiseInv'
<1>1. Restore(p)
  BY InitializeIsRestore
<1>2. /\ boot[p].at = "complete" /\ \A q \in Procs : q # p => boot'[q] = boot[q]
      /\ UNCHANGED <<daemon, configRow, call, promised, unsettled, started>> /\ call[p] = NoCall
  BY <1>1 DEF Restore, ProcTypes, SchemaTypeOK, DaemonTypeOK
<1>3. /\ daemon \in Daemons /\ configRow \in DaemonRow(daemon) \cup {NoDaemonRow}
      /\ DefaultConfig(daemon) \in Config(daemon)
  BY DefaultIsConfig DEF ProcTypes, DaemonTypeOK
<1>4. runtime'[p] = IF configRow = NoDaemonRow THEN Stopped(DefaultConfig(daemon))
                    ELSE IF configRow.enabled THEN Armed(Stored(configRow).config)
                    ELSE Stopped(Stored(configRow).config)
  <2>1. configRow # NoDaemonRow =>
          Resolve(Stored(configRow).config, DefaultConfig(daemon)) = Stored(configRow).config
    <3>1. configRow # NoDaemonRow => Stored(configRow).config \in Config(daemon)
      BY <1>3, StoredIsState DEF DaemonState
    <3>2. QED BY <1>3, <3>1, RestoredIsStored
  <2>2. p \in DOMAIN runtime
    BY DEF ProcTypes, DaemonTypeOK
  <2>3. QED BY <1>1, <2>1, <2>2 DEF Restore
<1>5. ASSUME AloneKept PROVE Serves(p)'
  <2>1. CASE unsettled # {}
    BY <1>2, <2>1 DEF Serves
  <2>2. CASE unsettled = {} /\ configRow = NoDaemonRow
    <3>1. promised = [enabled |-> FALSE, config |-> DefaultConfig(daemon)]
      BY <1>5, <2>2 DEF AloneKept, RowTells
    <3>2. QED BY <1>2, <1>4, <2>2, <3>1 DEF Serves, RunsAs, Stopped
  <2>3. CASE unsettled = {} /\ configRow # NoDaemonRow
    <3>1. Stored(configRow) = promised
      BY <1>5, <2>3 DEF AloneKept, RowTells
    <3>2. promised.enabled = configRow.enabled /\ promised.config = Stored(configRow).config
      BY <3>1 DEF Stored
    <3>3. configRow.enabled \in BOOLEAN
      BY <1>3, <2>3 DEF DaemonRow
    <3>4. /\ runtime'[p].running = configRow.enabled /\ runtime'[p].timer = configRow.enabled
          /\ runtime'[p].config = Stored(configRow).config
      <4> DEFINE config == Stored(configRow).config
      <4>1. runtime'[p] = IF configRow.enabled THEN Armed(config) ELSE Stopped(config)
        BY <1>4, <2>3
      <4> HIDE DEF config
      <4>2. CASE configRow.enabled
        <5>1. /\ runtime'[p].running = TRUE /\ runtime'[p].timer = TRUE
              /\ runtime'[p].config = config
          BY <4>1, <4>2 DEF Armed
        <5>2. configRow.enabled = TRUE
          BY <3>3, <4>2
        <5>3. QED BY <5>1, <5>2 DEF config
      <4>3. CASE ~configRow.enabled
        <5>1. /\ runtime'[p].running = FALSE /\ runtime'[p].timer = FALSE
              /\ runtime'[p].config = config
          BY <4>1, <4>3 DEF Stopped
        <5>2. configRow.enabled = FALSE
          BY <3>3, <4>3
        <5>3. QED BY <5>1, <5>2 DEF config
      <4>4. QED BY <4>2, <4>3
    <3>5. promised' = promised
      BY <1>2
    <3>6. QED BY <3>2, <3>4, <3>5 DEF Serves, RunsAs
  <2>4. QED BY <2>1, <2>2, <2>3
<1>6. RowTells => RowTells'
  BY <1>2 DEF RowTells, Stored
<1>7. CallStands(p)'
  BY <1>2 DEF CallStands
<1>8. QED BY <1>2, <1>5, <1>6, <1>7, OneProcessCounts DEF PromiseInv, AloneKept

LEMMA ControlKeepsPromise ==
    ASSUME ProcTypes, PromiseInv, NEW p \in Procs, ControlCall(p)
    PROVE  PromiseInv'
<1>1. /\ boot[p].at = "up" /\ UNCHANGED <<boot, daemon, configRow, promised, started>>
      /\ Start(p) \/ Stop(p) \/ RunOnce(p)
  BY ControlCallIsControl DEF Start, Stop, RunOnce, Ready, schemaVars
<1>2. RowTells /\ unsettled \subseteq unsettled' => RowTells'
  BY <1>1 DEF RowTells, Stored
<1>3. CASE Start(p)
  <2>1. PICK given \in Givens, first \in {"tick", "persist"} :
          LET config == Resolve(given, runtime[p].config) IN
          /\ runtime' = [runtime EXCEPT ![p] = Armed(config)]
          /\ Enter(p, "start", config, first)
          /\ unsettled' = unsettled \cup {Asked("start", config)}
    BY <1>3 DEF Start
  <2> DEFINE config == Resolve(given, runtime[p].config)
             new == [kind |-> "start", config |-> config, step |-> first]
  <2>2. runtime' = [runtime EXCEPT ![p] = Armed(config)] /\ call' = [call EXCEPT ![p] = new]
        /\ unsettled' = unsettled \cup {Asked("start", config)}
    BY <2>1 DEF Enter
  <2> HIDE DEF config
  <2>3. runtime'[p] = Armed(config) /\ call'[p] = new /\ \A q \in Procs : q # p => call'[q] = call[q]
    BY <2>2 DEF ProcTypes, DaemonTypeOK
  <2>4. new.kind = "start" /\ new.config = config /\ new.step # "answer"
    OBVIOUS
  <2> HIDE DEF new
  <2>5. Asked("start", config).enabled = TRUE /\ Asked("start", config).config = config
    BY DEF Asked
  <2>6. CallStands(p)'
    <3>1. /\ Asked(call'[p].kind, call'[p].config) = Asked("start", config)
          /\ call'[p].step # "answer" /\ call'[p].kind = "start"
      BY <2>3, <2>4
    <3>2. Asked("start", config) \in unsettled'
      BY <2>2
    <3>3. runtime'[p].running = TRUE /\ runtime'[p].timer = TRUE /\ runtime'[p].config = config
      BY <2>3 DEF Armed
    <3>4. QED BY <2>5, <3>1, <3>2, <3>3 DEF CallStands, RunsAs
  <2>7. Serves(p)'
    BY <2>2 DEF Serves
  <2>8. QED BY <1>1, <1>2, <2>2, <2>3, <2>6, <2>7, OneProcessCounts DEF PromiseInv, AloneKept
<1>4. CASE Stop(p)
  <2> DEFINE config == runtime[p].config
             new == [kind |-> "stop", config |-> config, step |-> "persist"]
  <2>1. runtime \in [Procs -> Runtime(daemon)] /\ runtime[p] \in Runtime(daemon)
    BY DEF ProcTypes, DaemonTypeOK
  <2>2. runtime' = [runtime EXCEPT ![p].running = FALSE, ![p].timer = FALSE]
        /\ call' = [call EXCEPT ![p] = new] /\ unsettled' = unsettled \cup {Asked("stop", config)}
    BY <1>4 DEF Stop, Enter
  <2>3. runtime'[p].running = FALSE /\ runtime'[p].timer = FALSE /\ runtime'[p].config = config
    BY <2>1, <2>2 DEF Runtime
  <2> HIDE DEF config
  <2>4. call'[p] = new /\ \A q \in Procs : q # p => call'[q] = call[q]
    BY <2>2 DEF ProcTypes, DaemonTypeOK
  <2>5. new.kind = "stop" /\ new.config = config /\ new.step # "answer"
    OBVIOUS
  <2> HIDE DEF new
  <2>6. Asked("stop", config).enabled = FALSE /\ Asked("stop", config).config = config
    BY DEF Asked
  <2>7. CallStands(p)'
    <3>1. /\ Asked(call'[p].kind, call'[p].config) = Asked("stop", config)
          /\ call'[p].step # "answer" /\ call'[p].kind = "stop"
      BY <2>4, <2>5
    <3>2. Asked("stop", config) \in unsettled'
      BY <2>2
    <3>3. QED BY <2>3, <2>6, <3>1, <3>2 DEF CallStands, RunsAs
  <2>8. Serves(p)'
    BY <2>2 DEF Serves
  <2>9. QED BY <1>1, <1>2, <2>2, <2>4, <2>7, <2>8, OneProcessCounts DEF PromiseInv, AloneKept
<1>5. CASE RunOnce(p)
  <2>1. PICK given \in Givens : Enter(p, "run_once", Resolve(given, runtime[p].config), "tick")
    BY <1>5 DEF RunOnce
  <2> DEFINE new == [kind |-> "run_once", config |-> Resolve(given, runtime[p].config), step |-> "tick"]
  <2>2. call'[p] = new /\ \A q \in Procs : q # p => call'[q] = call[q]
    BY <2>1 DEF Enter, ProcTypes, DaemonTypeOK
  <2>3. new.kind = "run_once" /\ new.step = "tick"
    OBVIOUS
  <2> HIDE DEF new
  <2>4. UNCHANGED <<runtime, unsettled>>
    BY <1>5 DEF RunOnce
  <2>5. CallStands(p)'
    BY <2>2, <2>3 DEF CallStands
  <2>6. Serves(p) => Serves(p)'
    BY <1>1, <2>4 DEF Serves, RunsAs
  <2>7. QED BY <1>1, <1>2, <2>2, <2>4, <2>5, <2>6, OneProcessCounts DEF PromiseInv, AloneKept
<1>6. QED BY <1>1, <1>3, <1>4, <1>5

LEMMA EndControlKeepsPromise ==
    ASSUME ProcTypes, PromiseInv, NEW p \in Procs, EndControlCall(p)
    PROVE  PromiseInv'
<1> DEFINE asked == Asked(call[p].kind, call[p].config)
<1>1. /\ UNCHANGED <<boot, daemon, runtime, started>> /\ call[p] # NoCall
      /\ call[p].step \in {"persist", "answer"}
  BY EndControlCallIs DEF schemaVars, Persist, PersistFails, Answered
<1>2. boot[p].at = "up" /\ daemon \in Daemons /\ asked \in DaemonState(daemon)
  BY <1>1, CallsAreCalls, AskedIsState DEF ProcTypes, DaemonTypeOK
<1>3. asked \in DaemonRow(daemon) /\ asked # NoDaemonRow /\ Stored(asked) = asked
  <2>1. DaemonState(daemon) \subseteq DaemonRow(daemon)
    BY DEF DaemonState, DaemonRow, Config
  <2> HIDE DEF asked
  <2>2. QED BY <1>2, <2>1, StoredIsAsked, DaemonNullAssumption
<1>4. AloneKept => /\ asked \in unsettled /\ RunsAs(p, asked)
                   /\ call[p].kind \in {"start", "stop"}
                   /\ call[p].step = "answer" => configRow = asked
  BY <1>1 DEF AloneKept, CallStands
<1> HIDE DEF asked
<1>5. CASE Persist(p)
  <2>1. configRow' = asked /\ UNCHANGED <<promised, unsettled>> /\ call' = [call EXCEPT ![p].step = "answer"]
    BY <1>5, PersistWritesAsked DEF asked, Persist
  <2>2. /\ call'[p].kind = call[p].kind /\ call'[p].config = call[p].config
        /\ \A q \in Procs : q # p => call'[q] = call[q]
    <3>1. call[p] \in Call(daemon)
      BY <1>1, CallsAreCalls
    <3>2. QED BY <2>1, <3>1 DEF Call, ProcTypes, DaemonTypeOK
  <2>3. asked = Asked(call'[p].kind, call'[p].config)
    BY <2>2 DEF asked
  <2>4. AloneKept => CallStands(p)'
    BY <1>1, <1>4, <2>1, <2>2, <2>3 DEF CallStands, RunsAs
  <2>5. AloneKept => RowTells'
    <3>1. Stored(configRow)' = asked
      BY <1>1, <1>3, <2>1 DEF Stored
    <3>2. QED BY <1>3, <1>4, <2>1, <3>1 DEF RowTells
  <2>6. Serves(p) => Serves(p)'
    BY <1>1, <2>1 DEF Serves, RunsAs
  <2>7. QED BY <1>1, <1>2, <2>2, <2>4, <2>5, <2>6, OneProcessCounts DEF PromiseInv, AloneKept
<1>6. CASE PersistFails(p)
  <2>1. UNCHANGED <<configRow, promised, unsettled>> /\ call' = [call EXCEPT ![p] = NoCall]
    BY <1>6 DEF PersistFails
  <2>2. call'[p] = NoCall /\ \A q \in Procs : q # p => call'[q] = call[q]
    BY <2>1 DEF ProcTypes, DaemonTypeOK
  <2>3. CallStands(p)' /\ (Serves(p) => Serves(p)') /\ (RowTells => RowTells')
    BY <1>1, <2>1, <2>2 DEF CallStands, Serves, RunsAs, RowTells, Stored
  <2>4. QED BY <1>1, <1>2, <2>2, <2>3, OneProcessCounts DEF PromiseInv, AloneKept
<1>7. CASE Answered(p)
  <2>1. /\ call[p].step = "answer" /\ promised' = asked /\ unsettled' = {} /\ UNCHANGED configRow
        /\ call' = [call EXCEPT ![p] = NoCall]
    BY <1>7 DEF Answered, asked
  <2>2. call'[p] = NoCall /\ \A q \in Procs : q # p => call'[q] = call[q]
    BY <2>1 DEF ProcTypes, DaemonTypeOK
  <2>3. AloneKept => RowTells'
    <3>1. AloneKept => configRow' = asked /\ Stored(configRow)' = asked
      BY <1>1, <1>3, <1>4, <2>1 DEF Stored
    <3>2. QED BY <1>3, <2>1, <3>1 DEF RowTells
  <2>4. AloneKept => Serves(p)'
    BY <1>1, <1>4, <2>1 DEF Serves, RunsAs
  <2>5. CallStands(p)'
    BY <2>2 DEF CallStands
  <2>6. QED BY <1>1, <1>2, <2>2, <2>3, <2>4, <2>5, OneProcessCounts DEF PromiseInv
<1>8. QED BY <1>5, <1>6, <1>7, EndControlCallIs

LEMMA TickKeepsPromise ==
    ASSUME ProcTypes, PromiseInv, NEW p \in Procs,
           Timer(p) \/ SquishTick(p) \/ SnapshotTick(p) \/ TickEnds(p)
    PROVE  PromiseInv'
<1>1. /\ UNCHANGED <<boot, daemon, configRow, runtime, promised, unsettled, started>>
      /\ boot[p].at = "up"
  <2>1. CASE Timer(p)
    BY <2>1, TimerIs DEF TimerFires, Ready, schemaVars
  <2>2. CASE SquishTick(p) \/ SnapshotTick(p)
    BY <2>2, CallsAreCalls DEF SquishTick, SnapshotTick, InTick, OnlyCallChanges, schemaVars
  <2>3. CASE TickEnds(p)
    BY <2>3, CallsAreCalls DEF TickEnds, EndTick, InTick, schemaVars
  <2>4. QED BY <2>1, <2>2, <2>3
<1>2. (RowTells => RowTells') /\ (Serves(p) => Serves(p)')
  BY <1>1 DEF RowTells, Stored, Serves, RunsAs
<1>3. /\ \A q \in Procs : q # p => call'[q] = call[q]
      /\ CallStands(p) => CallStands(p)'
  <2>1. CASE Timer(p)
    <3> DEFINE new == [kind |-> "timer", config |-> runtime[p].config, step |-> "tick"]
    <3>1. call'[p] = new /\ \A q \in Procs : q # p => call'[q] = call[q]
      BY <2>1, TimerIs DEF TimerFires, Enter, ProcTypes, DaemonTypeOK
    <3>2. new.kind = "timer" /\ new.step = "tick"
      OBVIOUS
    <3> HIDE DEF new
    <3>3. QED BY <3>1, <3>2 DEF CallStands
  <2>2. ASSUME NEW s \in {"working", "persist"}, call[p] # NoCall,
               call' = [call EXCEPT ![p] = [call[p] EXCEPT !.step = s]],
               s = "persist" => call[p].kind = "start"
        PROVE  /\ \A q \in Procs : q # p => call'[q] = call[q]
               /\ CallStands(p) => CallStands(p)'
    <3>1. call[p] \in Call(daemon)
      BY <2>2, CallsAreCalls
    <3>2. /\ call'[p].kind = call[p].kind /\ call'[p].config = call[p].config /\ call'[p].step = s
          /\ \A q \in Procs : q # p => call'[q] = call[q]
      BY <2>2, <3>1 DEF Call, ProcTypes, DaemonTypeOK
    <3>3. CallStands(p) => CallStands(p)'
      BY <1>1, <2>2, <3>2 DEF CallStands, RunsAs, Asked
    <3>4. QED BY <3>2, <3>3
  <2>3. CASE SquishTick(p) \/ SnapshotTick(p)
    <3>1. call[p] # NoCall /\ call' = [call EXCEPT ![p] = [call[p] EXCEPT !.step = "working"]]
      BY <2>3 DEF SquishTick, SnapshotTick, InTick, Work, ProcTypes, DaemonTypeOK
    <3>2. QED BY <2>2, <3>1
  <2>4. CASE TickEnds(p)
    <3> DEFINE next == [call[p] EXCEPT !.step = "persist"]
    <3>1. call[p] # NoCall /\ EndTick(p)
      BY <2>4 DEF TickEnds, EndTick, InTick
    <3>2. call' = [call EXCEPT ![p] = IF call[p].kind = "start" THEN next ELSE NoCall]
      BY <3>1 DEF EndTick, ProcTypes, DaemonTypeOK
    <3>3. CASE call[p].kind = "start"
      <4>1. call' = [call EXCEPT ![p] = [call[p] EXCEPT !.step = "persist"]]
        BY <3>2, <3>3
      <4>2. QED BY <2>2, <3>1, <3>3, <4>1
    <3>4. CASE call[p].kind # "start"
      <4>1. call'[p] = NoCall /\ \A q \in Procs : q # p => call'[q] = call[q]
        BY <3>2, <3>4 DEF ProcTypes, DaemonTypeOK
      <4>2. QED BY <4>1 DEF CallStands
    <3>5. QED BY <3>3, <3>4
  <2>5. QED BY <2>1, <2>3, <2>4
<1>4. QED BY <1>1, <1>2, <1>3, OneProcessCounts DEF PromiseInv, AloneKept

LEMMA CrashKeepsPromise ==
    ASSUME ProcTypes, PromiseInv, NEW p \in Procs, Crash(p)
    PROVE  PromiseInv'
<1>1. /\ UNCHANGED <<daemon, configRow, promised, unsettled, started>> /\ boot[p].at # "down"
      /\ call' = [call EXCEPT ![p] = NoCall]
      /\ boot' = [boot EXCEPT ![p] = [at |-> "down", applied |-> {}]]
  BY DEF Crash, DaemonCrash, Die
<1>2. /\ boot'[p].at = "down" /\ call'[p] = NoCall
      /\ \A q \in Procs : q # p => boot'[q] = boot[q] /\ call'[q] = call[q]
  BY <1>1 DEF ProcTypes, SchemaTypeOK, DaemonTypeOK
<1>3. Serves(p)' /\ CallStands(p)' /\ (RowTells => RowTells')
  BY <1>1, <1>2 DEF Serves, CallStands, RowTells, Stored
<1>4. QED BY <1>1, <1>2, <1>3, OneProcessCounts DEF PromiseInv, AloneKept

LEMMA StepPromiseInv ==
    ASSUME ProcTypes, PromiseInv, [Next]_vars
    PROVE  PromiseInv'
<1>1. ASSUME UNCHANGED <<boot, daemon, configRow, runtime, call, promised, unsettled, started>>
      PROVE  PromiseInv'
  BY <1>1, QuietStepKeepsPromise
<1>2. CASE UNCHANGED vars
  BY <1>1, <1>2 DEF vars, schemaVars, daemonVars
<1>3. ASSUME NEW p \in Procs,
             \/ JobGoesOn(p) \/ WritingGoesOn(p) \/ TranscriptCall(p) \/ ImprintCall(p)
             \/ StatementFails(p)
      PROVE  PromiseInv'
  BY <1>1, <1>3 DEF JobGoesOn, WritingGoesOn, TranscriptCall, ImprintCall, StatementFails, schemaVars,
     daemonVars
<1>4. QED BY <1>2, <1>3, LaunchKeepsPromise, MigrateKeepsPromise, InitializeKeepsPromise,
      ControlKeepsPromise, EndControlKeepsPromise, TickKeepsPromise, CrashKeepsPromise DEF Next, Proceed

LEMMA InitPromiseInv == Init => PromiseInv
<1> SUFFICES ASSUME Init PROVE PromiseInv
  OBVIOUS
<1>1. PICK s \in Scenes : SchemaInit(s.database) /\ DaemonInit(s.daemon, s.focus, s.row, s.calls)
  BY DEF Init
<1>2. OnlyStartedRun
  BY <1>1, FS_EmptySet DEF SchemaInit, DaemonInit, OnlyStartedRun
<1>3. RowTells
  BY <1>1 DEF DaemonInit, RowTells
<1>4. ASSUME NEW p \in Procs PROVE Serves(p) /\ CallStands(p)
  BY <1>1 DEF SchemaInit, DaemonInit, Serves, CallStands
<1>5. QED BY <1>2, <1>3, <1>4 DEF PromiseInv, AloneKept

LEMMA PromiseHolds == Spec => []PromiseInv
<1>1. ASSUME AllTyped, PromiseInv, [Next]_vars PROVE PromiseInv'
  <2>1. ProcTypes
    BY <1>1 DEF AllTyped, ProcTypes, SchemaInv
  <2>2. QED BY <1>1, <2>1, StepPromiseInv
<1>2. QED BY <1>1, InitPromiseInv, AllTypedHolds, PTL DEF Spec

\* What a control call answered is what the daemon is after any crash and restart, for any
\* settings, rows and calls, as long as one process serves the database.
THEOREM AnswersAreKept == Spec => []PromiseKept
<1>1. PromiseInv => PromiseKept
  BY DEF PromiseInv, AloneKept, RowTells, Serves, RunsAs, PromiseKept, Ready
<1>2. QED BY <1>1, PromiseHolds, PTL

-----------------------------------------------------------------------------
(* Lines are squished once. *)

Unmarked(l) == lines[l] # Gone /\ ~lines[l].squished

Batched(p, l) == Squishing(p, "insert") /\ l \in job[p].ids

Owed(p, l) == Squishing(p, "mark") /\ l \in job[p].ids

\* A batch about to be inserted holds unmarked lines; after that they are owed a mark.  The
\* other unmarked lines are in no more memories than there were mishaps.
OnceKept ==
    \A l \in LineIds :
        /\ memoriesOf[l] <= 1 + mishaps
        /\ Unmarked(l) => memoriesOf[l] <= mishaps \/ \E p \in Procs : Owed(p, l)
        /\ \A p \in Procs : Batched(p, l) => Unmarked(l)

\* The same while only p can be at work.
OnceFor(p) ==
    \A l \in LineIds :
        /\ memoriesOf[l] <= 1 + mishaps
        /\ Unmarked(l) => memoriesOf[l] <= mishaps \/ Owed(p, l)
        /\ Batched(p, l) => Unmarked(l)

UnloggedInNone == \A l \in LineIds : l > issued => memoriesOf[l] = 0

OnlyServersWork == \A p \in Procs : job[p] # NoJob => boot[p].at = "up"

OnceInv == UnloggedInNone /\ OnlyServersWork /\ (Alone => OnceKept)

OnceTypes == ProcTypes /\ TranscriptTypeOK /\ LineInv /\ OnlyStartedRun

LEMMA MishapsAreNumbers ==
    ASSUME OnceTypes
    PROVE  mishaps \in Nat /\ memoriesOf \in [LineIds -> Nat] /\ DOMAIN job = Procs
BY MishapsAssumption, SameProcesses DEF OnceTypes, ProcTypes, DaemonTypeOK, TranscriptTypeOK

\* A step that works on no line, with or without a mishap.
LEMMA OtherStepKeepsOnce ==
    ASSUME OnceTypes, OnceInv, UNCHANGED transcriptVars, mishaps' \in Nat, mishaps' >= mishaps,
           Alone' => Alone, \A p \in Procs : boot[p].at = "up" => boot'[p].at = "up"
    PROVE  OnceInv'
<1>1. UnloggedInNone' /\ OnlyServersWork'
  BY DEF OnceInv, UnloggedInNone, OnlyServersWork, transcriptVars
<1>2. ASSUME OnceKept PROVE OnceKept'
  <2>1. \A l \in LineIds :
          /\ memoriesOf'[l] = memoriesOf[l] /\ (Unmarked(l)' <=> Unmarked(l))
          /\ \A p \in Procs : (Owed(p, l)' <=> Owed(p, l)) /\ (Batched(p, l)' <=> Batched(p, l))
    BY DEF transcriptVars, Unmarked, Owed, Batched, Squishing
  <2>2. ASSUME NEW l \in LineIds
        PROVE  memoriesOf[l] <= 1 + mishaps => memoriesOf[l] <= 1 + mishaps'
    BY MishapsAreNumbers
  <2>3. ASSUME NEW l \in LineIds PROVE memoriesOf[l] <= mishaps => memoriesOf[l] <= mishaps'
    BY MishapsAreNumbers
  <2>4. QED BY <1>2, <2>1, <2>2, <2>3 DEF OnceKept
<1>3. QED BY <1>1, <1>2 DEF OnceInv

\* While one process was ever started, what its step does to the lines concerns it alone.
LEMMA WorkerStepKeepsOnce ==
    ASSUME OnceTypes, OnceInv, NEW p \in Procs, boot[p].at # "down", UNCHANGED started,
           \A q \in Procs : q # p => boot'[q] = boot[q] /\ job'[q] = job[q],
           job'[p] # NoJob => boot'[p].at = "up", UnloggedInNone',
           OnceFor(p) => OnceFor(p)'
    PROVE  OnceInv'
<1>1. OnlyServersWork'
  BY DEF OnceInv, OnlyServersWork
<1>2. ASSUME Alone PROVE OnceKept'
  <2>1. ASSUME NEW q \in Procs, q # p PROVE job[q] = NoJob /\ job'[q] = NoJob
    BY <1>2, <2>1, OthersAreDown DEF OnceTypes, OnceInv, OnlyServersWork
  <2>2. \A q \in Procs, l \in LineIds :
          q # p => ~Owed(q, l) /\ ~Batched(q, l) /\ ~Owed(q, l)' /\ ~Batched(q, l)'
    BY <2>1 DEF Owed, Batched, Squishing
  <2>3. OnceFor(p)
    BY <1>2, <2>2 DEF OnceInv, OnceKept, OnceFor
  <2>4. OnceFor(p)'
    BY <2>3
  <2>5. QED BY <2>2, <2>4 DEF OnceKept, OnceFor
<1>3. Alone' <=> Alone
  BY DEF Alone
<1>4. QED BY <1>1, <1>2, <1>3 DEF OnceInv

\* Work that ends in a mishap counts one more for every line.
LEMMA MishapKeepsOnce ==
    ASSUME OnceTypes, NEW p \in Procs, UNCHANGED <<lines, memoriesOf>>, mishaps' = mishaps + 1,
           job'[p] # NoJob => job'[p].step # "insert", OnceFor(p)
    PROVE  OnceFor(p)'
<1>1. ASSUME NEW l \in LineIds PROVE memoriesOf'[l] <= mishaps' /\ memoriesOf'[l] <= 1 + mishaps'
  <2>1. memoriesOf[l] <= 1 + mishaps
    BY DEF OnceFor
  <2>2. QED BY <2>1, MishapsAreNumbers
<1>2. \A l \in LineIds : ~Batched(p, l)'
  BY DEF Batched, Squishing
<1>3. QED BY <1>1, <1>2 DEF OnceFor

\* A job that begins, goes on to its next run or ends owes nothing yet.
LEMMA RestKeepsOnce ==
    ASSUME OnceTypes, NEW p \in Procs, UNCHANGED <<lines, memoriesOf, mishaps>>,
           ~Squishing(p, "mark"), job'[p] # NoJob => job'[p].step \notin {"insert", "mark"}, OnceFor(p)
    PROVE  OnceFor(p)'
<1>1. \A l \in LineIds : /\ ~Batched(p, l)' /\ ~Owed(p, l) /\ (Unmarked(l)' <=> Unmarked(l))
                         /\ memoriesOf'[l] = memoriesOf[l]
  BY DEF Batched, Owed, Unmarked, Squishing
<1>2. QED BY <1>1 DEF OnceFor

LEMMA NextRunRests ==
    ASSUME OnceTypes, NEW p \in Procs, job[p] # NoJob, NextRun(p)
    PROVE  /\ job'[p] # NoJob => job'[p].step = "read"
           /\ \A q \in Procs : q # p => job'[q] = job[q]
<1> DEFINE next == [job[p] EXCEPT !.step = "read", !.todo = Tail(job[p].todo), !.ids = {}]
<1>1. job[p] \in Job
  BY SameProcesses DEF OnceTypes, TranscriptTypeOK
<1>2. next.step = "read"
  BY <1>1 DEF Job
<1>3. job' = [job EXCEPT ![p] = IF Len(job[p].todo) <= 1 THEN NoJob ELSE next]
  BY DEF NextRun
<1> HIDE DEF next
<1>4. QED BY <1>2, <1>3, MishapsAreNumbers

\* A client logs a line: no memory is of it.
LEMMA LogKeepsOnce ==
    ASSUME OnceTypes, UnloggedInNone, NEW p \in Procs, NEW r, NEW squished \in BOOLEAN, LogLine(r, squished),
           UNCHANGED mishaps
    PROVE  /\ UnloggedInNone' /\ (OnceFor(p) => OnceFor(p)')
<1>1. /\ UNCHANGED <<memoriesOf, job>> /\ issued' = issued + 1 /\ issued \in Nat
      /\ lines' = [lines EXCEPT ![issued + 1] = [run |-> r, squished |-> squished, born |-> squished]]
  BY DEF LogLine, OnceTypes, LineInv, LinesTyped
<1>2. UnloggedInNone'
  BY <1>1 DEF UnloggedInNone, LineIds
<1>3. ASSUME NEW l \in LineIds, l = issued + 1
      PROVE  memoriesOf[l] <= mishaps /\ lines[l] = Gone
  <2>1. memoriesOf[l] = 0 /\ lines[l] = Gone
    BY <1>1, <1>3 DEF UnloggedInNone, OnceTypes, LineInv, LinesTyped
  <2>2. QED BY <2>1, MishapsAreNumbers
<1>4. ASSUME NEW l \in LineIds, l # issued + 1 PROVE Unmarked(l)' <=> Unmarked(l)
  BY <1>1, <1>4 DEF Unmarked, OnceTypes, LineInv, LinesTyped
<1>5. ASSUME NEW l \in LineIds PROVE (Owed(p, l)' <=> Owed(p, l)) /\ (Batched(p, l)' <=> Batched(p, l))
  BY <1>1 DEF Owed, Batched, Squishing
<1>6. OnceFor(p) => OnceFor(p)'
  BY <1>1, <1>3, <1>4, <1>5 DEF OnceFor, Unmarked
<1>7. QED BY <1>2, <1>6

\* A batch is read, its memory inserted, its lines marked; retention deletes what it selected.
LEMMA ReadKeepsOnce ==
    ASSUME OnceTypes, NEW p \in Procs, SquishRead(p), UNCHANGED mishaps, OnceFor(p)
    PROVE  OnceFor(p)' /\ \A q \in Procs : q # p => job'[q] = job[q]
<1> DEFINE ids == OldestOf(Unsquished(Head(job[p].todo)), job[p].limit)
           new == [job[p] EXCEPT !.step = "insert", !.ids = ids]
<1>1. job[p] # NoJob /\ job[p].step = "read" /\ UNCHANGED <<lines, memoriesOf, mishaps>>
  BY DEF SquishRead, Squishing
<1>2. CASE NextRun(p)
  BY <1>1, <1>2, NextRunRests, RestKeepsOnce DEF Squishing
<1>3. CASE job' = [job EXCEPT ![p].step = "insert", ![p].ids = ids]
  <2>1. \A l \in ids : Unmarked(l)
    BY DEF OldestOf, Unsquished, Present, Unmarked
  <2>2. job' = [job EXCEPT ![p] = new] /\ job[p] \in Job
    BY <1>1, <1>3, SameProcesses DEF OnceTypes, TranscriptTypeOK
  <2> HIDE DEF ids
  <2>3. new.ids = ids /\ new.step = "insert"
    BY <2>2 DEF Job
  <2> HIDE DEF new
  <2>4. job'[p] = new /\ \A q \in Procs : q # p => job'[q] = job[q]
    BY <2>2, MishapsAreNumbers
  <2>5. \A l \in LineIds : /\ ~Owed(p, l) /\ (Unmarked(l)' <=> Unmarked(l)) /\ memoriesOf'[l] = memoriesOf[l]
                           /\ Batched(p, l)' => Unmarked(l)
    BY <1>1, <2>1, <2>3, <2>4 DEF Owed, Batched, Squishing, Unmarked
  <2>6. QED BY <1>1, <2>4, <2>5 DEF OnceFor
<1>4. QED BY <1>2, <1>3 DEF SquishRead

LEMMA InsertKeepsOnce ==
    ASSUME OnceTypes, NEW p \in Procs, SquishInsertMemory(p), UNCHANGED mishaps, OnceFor(p)
    PROVE  OnceFor(p)' /\ \A q \in Procs : q # p => job'[q] = job[q]
<1> DEFINE new == [job[p] EXCEPT !.step = "mark"]
<1>1. /\ Squishing(p, "insert") /\ UNCHANGED <<lines, mishaps>>
      /\ memoriesOf' = [l \in LineIds |-> IF l \in job[p].ids THEN memoriesOf[l] + 1 ELSE memoriesOf[l]]
      /\ job' = [job EXCEPT ![p].step = "mark"]
  BY DEF SquishInsertMemory
<1>2. job' = [job EXCEPT ![p] = new] /\ job[p] \in Job
  BY <1>1, SameProcesses DEF OnceTypes, TranscriptTypeOK, Squishing
<1>3. new.ids = job[p].ids /\ new.step = "mark" /\ new.kind = "squish" /\ new \in Job
  BY <1>1, <1>2 DEF Job, Squishing
<1> HIDE DEF new
<1>4. job'[p] = new /\ \A q \in Procs : q # p => job'[q] = job[q]
  BY <1>2, MishapsAreNumbers
<1>5. new # NoJob
  BY <1>3, JobsAssumption
<1>6. \A l \in LineIds : /\ ~Owed(p, l) /\ ~Batched(p, l)' /\ (Unmarked(l)' <=> Unmarked(l))
                         /\ l \in job[p].ids => Batched(p, l) /\ Owed(p, l)'
  BY <1>1, <1>3, <1>4, <1>5 DEF Owed, Batched, Squishing, Unmarked
<1>7. ASSUME NEW l \in LineIds, l \in job[p].ids PROVE memoriesOf'[l] <= 1 + mishaps
  <2>1. memoriesOf[l] <= mishaps
    BY <1>6, <1>7 DEF OnceFor
  <2>2. QED BY <1>1, <1>7, <2>1, MishapsAreNumbers
<1>8. \A l \in LineIds : l \notin job[p].ids => memoriesOf'[l] = memoriesOf[l]
  BY <1>1
<1>9. QED BY <1>1, <1>4, <1>6, <1>7, <1>8 DEF OnceFor

LEMMA MarkKeepsOnce ==
    ASSUME OnceTypes, NEW p \in Procs, SquishMark(p), UNCHANGED mishaps, OnceFor(p)
    PROVE  OnceFor(p)' /\ \A q \in Procs : q # p => job'[q] = job[q]
<1>1. /\ job[p] # NoJob /\ NextRun(p) /\ UNCHANGED <<memoriesOf, mishaps>>
      /\ lines' = [l \in LineIds |->
            IF l \in job[p].ids \cap Present THEN [lines[l] EXCEPT !.squished = TRUE] ELSE lines[l]]
  BY DEF SquishMark, Squishing
<1>2. \A l \in LineIds : ~Batched(p, l)'
  BY <1>1, NextRunRests DEF Batched, Squishing
<1>3. ASSUME NEW l \in LineIds, Unmarked(l)' PROVE Unmarked(l) /\ ~Owed(p, l)
  <2>1. CASE l \in job[p].ids \cap Present
    <3> DEFINE line == lines[l]
    <3>1. line \in Line /\ lines'[l] = [line EXCEPT !.squished = TRUE]
      BY <1>1, <2>1 DEF OnceTypes, TranscriptTypeOK, Present
    <3> HIDE DEF line
    <3>2. lines'[l].squished = TRUE
      BY <3>1 DEF Line
    <3>3. QED BY <1>3, <3>2 DEF Unmarked
  <2>2. CASE l \notin job[p].ids \cap Present
    BY <1>1, <1>3, <2>2 DEF Unmarked, Owed, Present
  <2>3. QED BY <2>1, <2>2
<1>4. QED BY <1>1, <1>2, <1>3, NextRunRests DEF OnceFor

LEMMA DeleteKeepsOnce ==
    ASSUME OnceTypes, NEW p \in Procs, PruneDelete(p), UNCHANGED mishaps, OnceFor(p)
    PROVE  OnceFor(p)' /\ \A q \in Procs : q # p => job'[q] = job[q]
<1>1. /\ job[p] # NoJob /\ job[p].step = "delete" /\ UNCHANGED <<memoriesOf, mishaps>>
      /\ job' = [job EXCEPT ![p] = NoJob]
      /\ lines' = [l \in LineIds |-> IF l \in job[p].ids THEN Gone ELSE lines[l]]
  BY DEF PruneDelete
<1>2. job'[p] = NoJob /\ \A q \in Procs : q # p => job'[q] = job[q]
  BY <1>1, MishapsAreNumbers
<1>3. \A l \in LineIds : ~Batched(p, l)' /\ ~Owed(p, l) /\ (Unmarked(l)' => Unmarked(l))
  BY <1>1, <1>2 DEF Batched, Owed, Squishing, Unmarked
<1>4. QED BY <1>1, <1>2, <1>3 DEF OnceFor

LEMMA SettleOnce ==
    ASSUME OnceTypes, OnceInv, NEW p \in Procs, boot[p].at = "up", UNCHANGED <<boot, started, issued>>,
           memoriesOf' = memoriesOf \/ SquishInsertMemory(p),
           OnceFor(p) => OnceFor(p)', \A q \in Procs : q # p => job'[q] = job[q]
    PROVE  OnceInv'
<1>1. UnloggedInNone'
  <2>1. CASE SquishInsertMemory(p)
    <3>1. /\ job[p] # NoJob
          /\ memoriesOf' = [l \in LineIds |-> IF l \in job[p].ids THEN memoriesOf[l] + 1 ELSE memoriesOf[l]]
      BY <2>1 DEF SquishInsertMemory, Squishing
    <3>2. \A l \in LineIds : l \in job[p].ids => l <= issued
      BY <3>1, SameProcesses DEF OnceTypes, LineInv, JobBacked
    <3>3. \A l \in LineIds : l > issued => l \notin job[p].ids
      BY <3>2 DEF LineIds, OnceTypes, LineInv, LinesTyped
    <3>4. QED BY <3>1, <3>3 DEF OnceInv, UnloggedInNone
  <2>2. QED BY <2>1 DEF OnceInv, UnloggedInNone
<1>2. QED BY <1>1, WorkerStepKeepsOnce

\* Only a process that serves works, and what it begins was nothing before.
LEMMA BeginKeepsOnce ==
    ASSUME OnceTypes, OnceInv, NEW p \in Procs, boot[p].at = "up", job[p] = NoJob,
           UNCHANGED <<boot, started, lines, issued, memoriesOf, mishaps>>, NEW new,
           job' = [job EXCEPT ![p] = new], new.step \notin {"insert", "mark"}
    PROVE  OnceInv'
<1>1. job'[p] = new /\ \A q \in Procs : q # p => job'[q] = job[q]
  BY MishapsAreNumbers
<1>2. OnceFor(p) => OnceFor(p)'
  BY <1>1, RestKeepsOnce DEF Squishing
<1>3. QED BY <1>1, <1>2, SettleOnce

LEMMA TranscriptCallKeepsOnce ==
    ASSUME OnceTypes, OnceInv, NEW p \in Procs, TranscriptCall(p)
    PROVE  OnceInv'
<1>1. boot[p].at = "up" /\ job[p] = NoJob /\ UNCHANGED <<boot, started, mishaps>>
  BY DEF TranscriptCall, Idle, Ready, schemaVars, daemonVars
<1>2. ASSUME NEW r, NEW squished \in BOOLEAN, LogLine(r, squished) PROVE OnceInv'
  <2>1. UnloggedInNone' /\ (OnceFor(p) => OnceFor(p)')
    BY <1>1, <1>2, LogKeepsOnce DEF OnceInv
  <2>2. UNCHANGED job
    BY <1>2 DEF LogLine
  <2>3. QED BY <1>1, <2>1, <2>2, WorkerStepKeepsOnce
<1>3. ASSUME NEW r \in Runs, SquishTranscript(p, r, 200) PROVE OnceInv'
  <2> DEFINE new == SquishJob(<<r>>, 200)
  <2>1. job' = [job EXCEPT ![p] = new] /\ UNCHANGED <<lines, issued, memoriesOf>>
    BY <1>3 DEF SquishTranscript
  <2>2. new.step \notin {"insert", "mark"}
    BY DEF SquishJob
  <2> HIDE DEF new
  <2>3. QED BY <1>1, <2>1, <2>2, BeginKeepsOnce
<1>4. ASSUME NEW cutoff \in 1 .. issued, NEW all \in BOOLEAN, PruneSelect(p, cutoff, all, 1000)
      PROVE  OnceInv'
  <2> DEFINE ids == OldestOf({l \in Present : l <= cutoff /\ (all \/ lines[l].squished)}, 1000)
             new == [kind |-> "prune", step |-> "delete", todo |-> <<>>, ids |-> ids,
                     limit |-> 1000, all |-> all]
  <2>1. job' = [job EXCEPT ![p] = new] /\ UNCHANGED <<lines, issued, memoriesOf>>
    BY <1>4 DEF PruneSelect
  <2>2. new.step \notin {"insert", "mark"}
    OBVIOUS
  <2> HIDE DEF new
  <2>3. QED BY <1>1, <2>1, <2>2, BeginKeepsOnce
<1>5. QED BY <1>2, <1>3, <1>4 DEF TranscriptCall

LEMMA SquishTickKeepsOnce ==
    ASSUME OnceTypes, OnceInv, NEW p \in Procs, SquishTick(p)
    PROVE  OnceInv'
<1> DEFINE new == SquishJob(PendingRuns(call[p].config.batch_runs), call[p].config.per_run_limit)
<1>1. boot[p].at = "up"
  BY CallsAreCalls DEF SquishTick, InTick, OnceTypes
<1>2. /\ UNCHANGED <<boot, started, lines, issued, memoriesOf, mishaps>>
      /\ job[p] = NoJob /\ job' = [job EXCEPT ![p] = new]
  BY DEF SquishTick, BeginSquishTick, OnlyCallChanges, schemaVars
<1>3. new.step \notin {"insert", "mark"}
  BY DEF SquishJob
<1> HIDE DEF new
<1>4. QED BY <1>1, <1>2, <1>3, BeginKeepsOnce

LEMMA JobGoesOnKeepsOnce ==
    ASSUME OnceTypes, OnceInv, NEW p \in Procs, JobGoesOn(p)
    PROVE  OnceInv'
<1>1. /\ UNCHANGED <<boot, started, mishaps, issued>> /\ job[p] # NoJob
      /\ memoriesOf' = memoriesOf \/ SquishInsertMemory(p)
  BY DEF JobGoesOn, JobStep, SquishRead, SquishInsertMemory, SquishMark, EmptySquish, PruneDelete,
     Squishing, schemaVars, daemonVars
<1>2. boot[p].at = "up"
  BY <1>1 DEF OnceInv, OnlyServersWork
<1>3. CASE EmptySquish(p)
  <2>1. /\ job' = [job EXCEPT ![p] = NoJob] /\ UNCHANGED <<lines, memoriesOf>> /\ ~Squishing(p, "mark")
    BY <1>3 DEF EmptySquish, Squishing
  <2>2. job'[p] = NoJob /\ \A q \in Procs : q # p => job'[q] = job[q]
    BY <2>1, MishapsAreNumbers
  <2>3. OnceFor(p) => OnceFor(p)'
    BY <1>1, <2>1, <2>2, RestKeepsOnce
  <2>4. QED BY <1>1, <1>2, <2>2, <2>3, SettleOnce
<1>4. ASSUME SquishRead(p) \/ SquishInsertMemory(p) \/ SquishMark(p) \/ PruneDelete(p)
      PROVE  OnceInv'
  <2>1. OnceFor(p) => OnceFor(p)'
    BY <1>1, <1>4, ReadKeepsOnce, InsertKeepsOnce, MarkKeepsOnce, DeleteKeepsOnce
  <2>2. \A q \in Procs : q # p => job'[q] = job[q]
    BY <1>1, <1>4, NextRunRests, MishapsAreNumbers DEF SquishRead, SquishInsertMemory, SquishMark, PruneDelete
  <2>3. QED BY <1>1, <1>2, <2>1, <2>2, SettleOnce
<1>5. QED BY <1>3, <1>4 DEF JobGoesOn, JobStep

LEMMA LossKeepsOnce ==
    ASSUME OnceTypes, OnceInv, NEW p \in Procs, StatementFails(p) \/ Crash(p)
    PROVE  OnceInv'
<1>1. mishaps' = mishaps + 1 /\ mishaps' \in Nat /\ mishaps' >= mishaps /\ UNCHANGED started
  BY MishapsAreNumbers DEF StatementFails, Crash, DaemonCrash
<1>2. CASE StatementFails(p) /\ UNCHANGED transcriptVars
  <2>1. UNCHANGED boot /\ (Alone' <=> Alone)
    BY <1>1, <1>2 DEF StatementFails, schemaVars, Alone
  <2>2. QED BY <1>1, <1>2, <2>1, OtherStepKeepsOnce
<1>3. CASE StatementFails(p) /\ SquishFails(p)
  <2>1. job[p] # NoJob /\ NextRun(p) /\ UNCHANGED <<boot, lines, issued, memoriesOf>>
    BY <1>3 DEF StatementFails, SquishFails, Squishing, schemaVars
  <2>2. boot[p].at = "up"
    BY <2>1 DEF OnceInv, OnlyServersWork
  <2>3. OnceFor(p) => OnceFor(p)'
    BY <1>1, <2>1, NextRunRests, MishapKeepsOnce
  <2>4. QED BY <1>1, <2>1, <2>2, <2>3, NextRunRests, SettleOnce
<1>4. CASE Crash(p)
  <2>1. /\ boot[p].at # "down" /\ UNCHANGED <<lines, issued, memoriesOf>>
        /\ job' = [job EXCEPT ![p] = NoJob]
        /\ boot' = [boot EXCEPT ![p] = [at |-> "down", applied |-> {}]]
    BY <1>4 DEF Crash, JobCrash, Die
  <2>2. job'[p] = NoJob /\ \A q \in Procs : q # p => boot'[q] = boot[q] /\ job'[q] = job[q]
    BY <2>1, MishapsAreNumbers DEF OnceTypes, ProcTypes, SchemaTypeOK
  <2>3. OnceFor(p) => OnceFor(p)'
    BY <1>1, <2>1, <2>2, MishapKeepsOnce
  <2>4. UnloggedInNone'
    BY <2>1 DEF OnceInv, UnloggedInNone
  <2>5. QED BY <1>1, <2>1, <2>2, <2>3, <2>4, WorkerStepKeepsOnce
<1>5. QED BY <1>2, <1>3, <1>4 DEF StatementFails

LEMMA StepOnceInv ==
    ASSUME OnceTypes, OnceInv, [Next]_vars
    PROVE  OnceInv'
<1>1. mishaps \in Nat /\ mishaps >= mishaps
  BY MishapsAreNumbers
<1>2. ASSUME UNCHANGED <<boot, started, mishaps, transcriptVars>> PROVE OnceInv'
  <2>1. Alone' <=> Alone
    BY <1>2 DEF Alone
  <2>2. QED BY <1>1, <1>2, <2>1, OtherStepKeepsOnce
<1>3. CASE UNCHANGED vars
  BY <1>2, <1>3 DEF vars, schemaVars, daemonVars
<1>4. ASSUME NEW p \in Procs,
             \/ SnapshotTick(p) \/ TickEnds(p) \/ WritingGoesOn(p) \/ Timer(p) \/ ControlCall(p)
             \/ ImprintCall(p)
      PROVE  OnceInv'
  <2>1. UNCHANGED <<boot, started, mishaps, transcriptVars>>
    BY <1>4, TimerIs, ControlCallIsControl DEF SnapshotTick, OnlyCallChanges, TickEnds, EndTick,
       WritingGoesOn, TimerFires, ControlCall, Start, Stop, RunOnce, ImprintCall, storeVars, schemaVars, daemonVars
  <2>2. QED BY <1>2, <2>1
<1>5. ASSUME NEW p \in Procs, EndControlCall(p) PROVE OnceInv'
  <2>1. /\ UNCHANGED <<boot, started, transcriptVars>> /\ mishaps' \in Nat /\ mishaps' >= mishaps
    BY <1>1, <1>5, EndControlCallIs DEF Persist, PersistFails, Answered, storeVars, schemaVars
  <2>2. Alone' <=> Alone
    BY <2>1 DEF Alone
  <2>3. QED BY <2>1, <2>2, OtherStepKeepsOnce
<1>6. ASSUME NEW p \in Procs, LaunchProcess(p) \/ Migrate(p) \/ Initialize(p) PROVE OnceInv'
  <2>1. UNCHANGED <<mishaps, transcriptVars>>
    BY <1>6, InitializeIsRestore DEF LaunchProcess, Migrate, Initialize, Restore, storeVars, daemonVars
  <2>2. /\ boot[p].at # "up" /\ \A q \in Procs : q # p => boot'[q] = boot[q]
    BY <1>6, InitializeIsRestore DEF LaunchProcess, Launch, Migrate, ReadApplied, ApplyMigration,
       MigrationConflict, Die, ReplaySchema, Restore, OnceTypes, ProcTypes, SchemaTypeOK
  <2>3. Alone' => Alone
    <3>1. started' = started \/ started' = started \cup {p}
      BY <1>6, InitializeIsRestore DEF LaunchProcess, Migrate, Restore, daemonVars
    <3>2. IsFiniteSet(started) /\ Cardinality(started) \in Nat
      BY FS_CardinalityType DEF OnceTypes, OnlyStartedRun
    <3>3. Cardinality(started \cup {p}) = IF p \in started THEN Cardinality(started) ELSE Cardinality(started) + 1
      BY <3>2, FS_AddElement
    <3>4. QED BY <3>1, <3>2, <3>3 DEF Alone
  <2>4. QED BY <1>1, <2>1, <2>2, <2>3, OtherStepKeepsOnce
<1>7. QED BY <1>3, <1>4, <1>5, <1>6, TranscriptCallKeepsOnce, SquishTickKeepsOnce, JobGoesOnKeepsOnce,
      LossKeepsOnce DEF Next, Proceed

LEMMA InitOnceInv == Init => OnceInv
<1> SUFFICES ASSUME Init PROVE OnceInv
  OBVIOUS
<1>1. /\ lines = [l \in LineIds |-> Gone] /\ memoriesOf = [l \in LineIds |-> 0]
      /\ job = [w \in Procs |-> NoJob] /\ mishaps = 0
  BY SameProcesses DEF Init, TranscriptInit, DaemonInit
<1>2. QED BY <1>1 DEF OnceInv, UnloggedInNone, OnlyServersWork, OnceKept, Unmarked, Batched, Squishing

\* For any lines, runs, jobs and crashes: whoever squishes, a squished line is in a memory,
\* and as long as one process serves the database no line is in more memories than one
\* and one more for each crash or failed statement.
THEOREM LinesAreSquishedOnce == Spec => []MemoriesMatchMarks
<1>1. OnceInv => SquishedOnce
  BY DEF OnceInv, OnceKept, SquishedOnce
<1>2. ASSUME AllTyped, PromiseInv, OnceInv, [Next]_vars PROVE OnceInv'
  <2>1. OnceTypes
    BY <1>2 DEF AllTyped, OnceTypes, ProcTypes, SchemaInv, PromiseInv
  <2>2. QED BY <1>2, <2>1, StepOnceInv
<1>3. MemoriesMatchMarks <=> SquishedIsRemembered /\ SquishedOnce
  BY DEF MemoriesMatchMarks
<1>4. QED BY <1>1, <1>2, <1>3, InitOnceInv, AllTypedHolds, PromiseHolds, MarksAreBacked, PTL DEF Spec

=============================================================================
