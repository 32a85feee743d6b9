---------------------------- MODULE ServerProcess ----------------------------
(***************************************************************************)
(* Server processes from launch to crash: each migrates the schema,        *)
(* restores the daemon from its row, serves calls and runs ticks, and all  *)
(* share one database.  Composes SchemaMigrations, DaemonLifecycle,        *)
(* Transcripts and ImprintStore, as src/src/server.ts does at its start.   *)
(*                                                                         *)
(* The tick of auto-squish is squishRun on the pending runs, the tick of   *)
(* auto-snapshot is captureImprintSnapshot; the ticks of the other daemons *)
(* are modules of their own and one step here.  Clients call the tools     *)
(* that work on the tables of the daemon followed.                         *)
(***************************************************************************)
EXTENDS DaemonLifecycle, Transcripts, ImprintStore

CONSTANT Scenes   \* what a behaviour starts from: database, daemon, its settings and row, and the calls

ASSUME SameProcesses == Workers = Procs /\ Keepers = Procs

ASSUME ScenesAssumption ==
    \A s \in Scenes :
        /\ s.database \in Databases /\ s.daemon \in Daemons
        /\ s.focus \subseteq DOMAIN Settings(s.daemon)
        /\ s.row \in DaemonRow(s.daemon) \cup {NoDaemonRow} /\ s.calls \in Nat

vars == <<schemaVars, daemonVars, transcriptVars, imprintVars>>

storeVars == <<transcriptVars, imprintVars>>

TypeOK == SchemaTypeOK /\ DaemonTypeOK /\ TranscriptTypeOK /\ ImprintTypeOK

Init ==
    /\ \E s \in Scenes : SchemaInit(s.database) /\ DaemonInit(s.daemon, s.focus, s.row, s.calls)
    /\ TranscriptInit /\ ImprintInit

Idle(p) == Ready(p) /\ job[p] = NoJob /\ writing[p] = NoWriting

-----------------------------------------------------------------------------

LaunchProcess(p) ==
    /\ Launch(p)
    /\ started' = started \cup {p}
    /\ UNCHANGED <<daemon, focus, configRow, runtime, call, promised, unsettled, callsLeft, mishaps, storeVars>>

Migrate(p) ==
    /\ ReadApplied(p) \/ ApplyMigration(p) \/ MigrationConflict(p) \/ ReplaySchema(p)
    /\ UNCHANGED <<daemonVars, storeVars>>

Initialize(p) == InitializeDaemon(p) /\ UNCHANGED storeVars

ControlCall(p) ==
    /\ Idle(p)
    /\ \/ AutoSquishControl(p)
       \/ TaskAutoRetryControl(p)
       \/ TrichatAutoRetentionControl(p)
       \/ TrichatTurnWatchdogControl(p)
       \/ ImprintAutoSnapshotControl(p)
    /\ UNCHANGED <<schemaVars, storeVars>>

EndControlCall(p) ==
    /\ PersistDaemon(p) \/ PersistFails(p) \/ Answered(p)
    /\ UNCHANGED <<schemaVars, storeVars>>

Timer(p) == Idle(p) /\ DaemonTimer(p) /\ UNCHANGED <<schemaVars, storeVars>>

Work(p) == call' = [call EXCEPT ![p].step = "working"]

OnlyCallChanges ==
    UNCHANGED <<daemon, focus, configRow, runtime, promised, unsettled, started, callsLeft, mishaps>>

SquishTick(p) ==
    /\ daemon = "transcript.auto_squish"
    /\ InTick(p, "tick")
    /\ BeginSquishTick(p, call[p].config.batch_runs, call[p].config.per_run_limit)
    /\ Work(p) /\ OnlyCallChanges /\ UNCHANGED <<schemaVars, imprintVars>>

SnapshotTick(p) ==
    /\ daemon = "imprint.auto_snapshot"
    /\ InTick(p, "tick")
    /\ BeginSnapshot(p, call[p].config.write_file = 1, call[p].config.promote_summary = 1)
    /\ Work(p) /\ OnlyCallChanges /\ UNCHANGED <<schemaVars, transcriptVars>>

\* The tick is over when its work is; the other daemons' work is not modelled here.  A
\* snapshot tick whose ids are used up stands for one that fails before its first effect.
TickEnds(p) ==
    /\ \/ InTick(p, "working") /\ job[p] = NoJob /\ writing[p] = NoWriting
       \/ InTick(p, "tick") /\ daemon \notin {"transcript.auto_squish", "imprint.auto_snapshot"}
       \/ InTick(p, "tick") /\ daemon = "imprint.auto_snapshot" /\ \A id \in SnapshotIds : ~Unused(id)
    /\ EndTick(p) /\ UNCHANGED <<schemaVars, storeVars>>

JobGoesOn(p) == JobStep(p) /\ UNCHANGED <<schemaVars, daemonVars, imprintVars>>

WritingGoesOn(p) == WritingStep(p) /\ UNCHANGED <<schemaVars, daemonVars, transcriptVars>>

\* A statement throws: the call or this run of the tick ends there.
StatementFails(p) ==
    /\ mishaps < MaxMishaps
    /\ mishaps' = mishaps + 1
    /\ \/ SquishFails(p) /\ UNCHANGED imprintVars
       \/ writing[p] # NoWriting /\ WritingCrash(p) /\ UNCHANGED transcriptVars
    /\ UNCHANGED <<schemaVars, daemon, focus, configRow, runtime, call, promised, unsettled, started, callsLeft>>

TranscriptCall(p) ==
    /\ Idle(p) /\ daemon = "transcript.auto_squish"
    /\ \/ \E r \in Runs \cup {NoRun}, squished \in BOOLEAN : LogLine(r, squished)
       \/ \E r \in Runs : SquishTranscript(p, r, 200)
       \/ \E cutoff \in 1 .. issued, all \in BOOLEAN : PruneSelect(p, cutoff, all, 1000)
    /\ UNCHANGED <<schemaVars, daemonVars, imprintVars>>

ImprintCall(p) ==
    /\ Idle(p) /\ daemon = "imprint.auto_snapshot"
    /\ \/ \E file, memory \in BOOLEAN : BeginSnapshot(p, file, memory)
       \/ ReadProfile(p)
    /\ UNCHANGED <<schemaVars, daemonVars, transcriptVars>>

Crash(p) ==
    /\ boot[p].at # "down" /\ mishaps < MaxMishaps
    /\ Die(p) /\ DaemonCrash(p) /\ JobCrash(p) /\ WritingCrash(p)
    /\ UNCHANGED <<recorded, userVersion, tables>>

-----------------------------------------------------------------------------

Proceed(p) ==
    \/ Migrate(p) \/ Initialize(p)
    \/ SquishTick(p) \/ SnapshotTick(p) \/ TickEnds(p)
    \/ JobGoesOn(p) \/ WritingGoesOn(p) \/ EndControlCall(p)

Next ==
    \E p \in Procs :
        \/ LaunchProcess(p) \/ Proceed(p) \/ Timer(p)
        \/ ControlCall(p) \/ TranscriptCall(p) \/ ImprintCall(p)
        \/ StatementFails(p) \/ Crash(p)

Spec == Init /\ [][Next]_vars

\* A process that stopped is started again, runs what it began, and its timers fire.
FairSpec ==
    Spec /\ \A p \in Procs :
                WF_vars(LaunchProcess(p)) /\ WF_vars(Proceed(p)) /\ WF_vars(Timer(p))

-----------------------------------------------------------------------------

\* Lines are squished once, unless a crash or a failed statement came between memory and
\* mark.  It takes one server process: two ticks of two processes read the same lines.
SquishedOnce == Alone => \A l \in LineIds : memoriesOf[l] <= 1 + mishaps

\* Marks and memories agree, whoever squishes, prunes, dies or fails in between.
MemoriesMatchMarks == SquishedIsRemembered /\ SquishedOnce

\* However often processes lose the race for a migration, every one comes up in the end.
EveryProcessComesUp == \A p \in Procs : []<>(boot[p].at = "up")

Squishable == {l \in Present : lines[l].run # NoRun /\ ~lines[l].squished}

\* While some process runs auto-squish, and writers pause, every line that has a run is
\* squished in the end, also with one run per tick, one line per run, crashes and failures.
SquishDrains ==
    <>[](daemon = "transcript.auto_squish" /\ \E p \in Procs : runtime[p].running)
        => <>[](Squishable = {})
=============================================================================
