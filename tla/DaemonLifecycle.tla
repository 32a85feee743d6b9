--------------------------- MODULE DaemonLifecycle ---------------------------
(***************************************************************************)
(* The interval daemons of the server: how start, stop, run_once and the   *)
(* timer change a daemon in memory, how its settings are kept in table     *)
(* daemon_configs, and how the next process restores it.                   *)
(*                                                                         *)
(* The daemons are copies of one pattern and share nothing, so a behaviour *)
(* follows one of them (variable daemon), with the settings in focus that  *)
(* its callers change.  A tick runs to its end before the process does     *)
(* anything else, so the in_tick flag of these daemons never refuses one;  *)
(* what a tick does is left to the module that composes this one.          *)
(***************************************************************************)
EXTENDS SchemaMigrations, Integers

CONSTANTS
    MaxMishaps,   \* bound on crashes and on statements that fail
    NoDaemonRow,  \* no row in table daemon_configs
    NoCall        \* the process is in no control call and no tick

VARIABLES
    daemon,       \* the daemon followed
    focus,        \* the settings its callers change
    configRow,    \* its row in table daemon_configs
    runtime,      \* runtime[p]: the daemon in the memory of process p
    call,         \* call[p]: the control call or tick process p is in
    promised,     \* what the last answered control call said of the daemon
    unsettled,    \* what calls asked for since then that ended without an answer
    started,      \* the processes that were ever started
    callsLeft,    \* control calls that may still come
    mishaps       \* crashes and failed statements so far

daemonVars == <<daemon, focus, configRow, runtime, call, promised, unsettled, started, callsLeft, mishaps>>

-----------------------------------------------------------------------------
(* Settings: name |-> <<default, least, greatest>>, a flag being 0 or 1 and
   an absent text 0. *)

AutoSquishSettings ==
    [interval_seconds |-> <<60, 5, 3600>>, batch_runs |-> <<10, 1, 200>>,
     per_run_limit |-> <<200, 1, 5000>>, max_points |-> <<8, 3, 20>>]

AutoRetrySettings ==
    [interval_seconds |-> <<60, 5, 3600>>, batch_limit |-> <<20, 1, 500>>,
     base_delay_seconds |-> <<30, 0, 86400>>, max_delay_seconds |-> <<3600, 0, 604800>>]

AutoRetentionSettings ==
    [interval_seconds |-> <<600, 10, 86400>>, older_than_days |-> <<30, 0, 3650>>,
     limit |-> <<1000, 1, 5000>>]

TurnWatchdogSettings ==
    [interval_seconds |-> <<30, 5, 3600>>, stale_after_seconds |-> <<180, 15, 86400>>,
     batch_limit |-> <<10, 1, 200>>]

AutoSnapshotSettings ==
    [profile_id |-> <<0, 0, 1>>, interval_seconds |-> <<900, 30, 86400>>,
     include_recent_memories |-> <<20, 0, 200>>,
     include_recent_transcript_lines |-> <<40, 0, 1000>>,
     write_file |-> <<1, 0, 1>>, promote_summary |-> <<0, 0, 1>>]

Daemons ==
    {"transcript.auto_squish", "task.auto_retry", "trichat.auto_retention",
     "trichat.turn_watchdog", "imprint.auto_snapshot"}

Settings(d) ==
    CASE d = "transcript.auto_squish" -> AutoSquishSettings
      [] d = "task.auto_retry" -> AutoRetrySettings
      [] d = "trichat.auto_retention" -> AutoRetentionSettings
      [] d = "trichat.turn_watchdog" -> TurnWatchdogSettings
      [] d = "imprint.auto_snapshot" -> AutoSnapshotSettings

DefaultConfig(d) == [k \in DOMAIN Settings(d) |-> Settings(d)[k][1]]

Greater(a, b) == IF a >= b THEN a ELSE b
Lesser(a, b) == IF a <= b THEN a ELSE b

\* parseBoundedInt: a stored or given number is brought between its bounds.
Bounded(d, config) ==
    [k \in DOMAIN config |->
        Greater(Settings(d)[k][2], Lesser(Settings(d)[k][3], config[k]))]

\* The greatest delay of automatic retries is at least the first one.
DelaysInOrder(config) ==
    IF "max_delay_seconds" \in DOMAIN config
    THEN [config EXCEPT !.max_delay_seconds = Greater(config.base_delay_seconds, @)]
    ELSE config

\* The resolve...Config functions: what the caller gives wins over what was in force.
Resolve(given, fallback) ==
    DelaysInOrder([k \in DOMAIN fallback |-> IF k \in DOMAIN given THEN given[k] ELSE fallback[k]])

\* Variant: a stored number is taken as it is.
StoredUnbounded(row) == [enabled |-> row.enabled, config |-> row.config]

\* The get...State functions: what a row says, within bounds.
Stored(row) == [enabled |-> row.enabled, config |-> DelaysInOrder(Bounded(daemon, row.config))]

Stopped(config) == [running |-> FALSE, timer |-> FALSE, config |-> config]

\* Variant: the old timer is cleared after the new one was set.
ArmedThenStopped(config) == [running |-> TRUE, timer |-> FALSE, config |-> config]

\* start...Daemon stops the old timer first; the counters of its status are left out.
Armed(config) == [running |-> TRUE, timer |-> TRUE, config |-> config]

\* What callers give: nothing, or one setting in focus at an end of its range.
Givens ==
    {<<>>} \cup UNION {{[x \in {k} |-> Settings(daemon)[k][2]], [x \in {k} |-> Settings(daemon)[k][3]]} : k \in focus}

Alone == Cardinality(started) <= 1

\* Settings in force: all of them, within bounds and in order.
Config(d) == {c \in [DOMAIN Settings(d) -> Int] : c = DelaysInOrder(Bounded(d, c))}

\* What a daemon is told, or said, to be; a row of table daemon_configs holds any numbers.
DaemonState(d) == [enabled : BOOLEAN, config : Config(d)]
DaemonRow(d) == [enabled : BOOLEAN, config : [DOMAIN Settings(d) -> Int]]
Runtime(d) == [running : BOOLEAN, timer : BOOLEAN, config : Config(d)]
Call(d) == [kind : {"start", "stop", "run_once", "timer"}, config : Config(d),
            step : {"tick", "working", "persist", "answer"}]

\* Absence is neither a row nor a call.
ASSUME DaemonNullAssumption == \A d \in Daemons : NoDaemonRow \notin DaemonRow(d) /\ NoCall \notin Call(d)

ASSUME MishapsAssumption == MaxMishaps \in Nat

DaemonTypeOK ==
    /\ daemon \in Daemons /\ focus \subseteq DOMAIN Settings(daemon)
    /\ configRow \in DaemonRow(daemon) \cup {NoDaemonRow}
    /\ runtime \in [Procs -> Runtime(daemon)]
    /\ call \in [Procs -> Call(daemon) \cup {NoCall}]
    /\ \A p \in Procs : boot[p].at # "up" => call[p] = NoCall
    /\ promised \in DaemonState(daemon) /\ unsettled \subseteq DaemonState(daemon)
    /\ started \subseteq Procs /\ callsLeft \in Nat /\ mishaps \in 0 .. MaxMishaps

\* The daemon, and the row an earlier build may have left of it.
DaemonInit(d, ks, row, n) ==
    /\ daemon = d /\ focus = ks /\ configRow = row
    /\ runtime = [p \in Procs |-> Stopped(DefaultConfig(daemon))]
    /\ call = [p \in Procs |-> NoCall]
    /\ promised = IF configRow = NoDaemonRow
                  THEN [enabled |-> FALSE, config |-> DefaultConfig(daemon)]
                  ELSE Stored(configRow)
    /\ unsettled = {} /\ started = {} /\ callsLeft = n /\ mishaps = 0

-----------------------------------------------------------------------------
(* Restoring. *)

\* Variant: the row says whether the daemon runs, and its settings are forgotten.
RestoreDefaults(p) ==
    /\ boot[p].at = "complete"
    /\ runtime' = [runtime EXCEPT ![p] =
          IF configRow = NoDaemonRow \/ ~configRow.enabled THEN Stopped(DefaultConfig(daemon))
          ELSE Armed(DefaultConfig(daemon))]
    /\ boot' = [boot EXCEPT ![p].at = "up"]
    /\ UNCHANGED <<recorded, userVersion, tables, daemon, focus, configRow, call, promised,
                   unsettled, started, callsLeft, mishaps>>

\* What the initialize...Daemon functions do once the schema is complete.
Restore(p) ==
    /\ boot[p].at = "complete"
    /\ runtime' = [runtime EXCEPT ![p] =
          IF configRow = NoDaemonRow THEN Stopped(DefaultConfig(daemon))
          ELSE LET config == Resolve(Stored(configRow).config, DefaultConfig(daemon))
               IN  IF configRow.enabled THEN Armed(config) ELSE Stopped(config)]
    /\ boot' = [boot EXCEPT ![p].at = "up"]
    /\ UNCHANGED <<recorded, userVersion, tables, daemon, focus, configRow, call, promised,
                   unsettled, started, callsLeft, mishaps>>

InitializeAutoSquish(p) == daemon = "transcript.auto_squish" /\ Restore(p)
InitializeAutoRetry(p) == daemon = "task.auto_retry" /\ Restore(p)
InitializeAutoRetention(p) == daemon = "trichat.auto_retention" /\ Restore(p)
InitializeTurnWatchdog(p) == daemon = "trichat.turn_watchdog" /\ Restore(p)
InitializeAutoSnapshot(p) == daemon = "imprint.auto_snapshot" /\ Restore(p)

InitializeDaemon(p) ==
    \/ InitializeAutoSquish(p)
    \/ InitializeAutoRetry(p)
    \/ InitializeAutoRetention(p)
    \/ InitializeTurnWatchdog(p)
    \/ InitializeAutoSnapshot(p)

-----------------------------------------------------------------------------
(* Control calls. *)

Ready(p) == boot[p].at = "up" /\ call[p] = NoCall

Enter(p, kind, config, step) ==
    call' = [call EXCEPT ![p] = [kind |-> kind, config |-> config, step |-> step]]

Asked(kind, config) == [enabled |-> kind = "start", config |-> config]

\* start: the daemon runs from here on; the first tick and the row come after.
Start(p) ==
    /\ Ready(p) /\ callsLeft > 0
    /\ \E given \in Givens, first \in {"tick", "persist"} :
          LET config == Resolve(given, runtime[p].config) IN
          /\ runtime' = [runtime EXCEPT ![p] = Armed(config)]
          /\ Enter(p, "start", config, first)
          /\ unsettled' = unsettled \cup {Asked("start", config)}
    /\ callsLeft' = callsLeft - 1
    /\ UNCHANGED <<daemon, focus, configRow, promised, started, mishaps>>

Stop(p) ==
    /\ Ready(p) /\ callsLeft > 0
    /\ runtime' = [runtime EXCEPT ![p].running = FALSE, ![p].timer = FALSE]
    /\ Enter(p, "stop", runtime[p].config, "persist")
    /\ unsettled' = unsettled \cup {Asked("stop", runtime[p].config)}
    /\ callsLeft' = callsLeft - 1
    /\ UNCHANGED <<daemon, focus, configRow, promised, started, mishaps>>

\* run_once ticks with the settings it was given and keeps none of them.
RunOnce(p) ==
    /\ Ready(p) /\ callsLeft > 0
    /\ \E given \in Givens : Enter(p, "run_once", Resolve(given, runtime[p].config), "tick")
    /\ callsLeft' = callsLeft - 1
    /\ UNCHANGED <<daemon, focus, configRow, runtime, promised, unsettled, started, mishaps>>

Control(p) == Start(p) \/ Stop(p) \/ RunOnce(p)

AutoSquishControl(p) == daemon = "transcript.auto_squish" /\ Control(p)
TaskAutoRetryControl(p) == daemon = "task.auto_retry" /\ Control(p)
TrichatAutoRetentionControl(p) == daemon = "trichat.auto_retention" /\ Control(p)
TrichatTurnWatchdogControl(p) == daemon = "trichat.turn_watchdog" /\ Control(p)
ImprintAutoSnapshotControl(p) == daemon = "imprint.auto_snapshot" /\ Control(p)

\* Variant: stop leaves the flag of the row as it was.
PersistSettings(p) ==
    /\ call[p] # NoCall /\ call[p].step = "persist"
    /\ configRow' = [Asked(call[p].kind, Bounded(daemon, call[p].config)) EXCEPT
                        !.enabled = configRow = NoDaemonRow \/ configRow.enabled]
    /\ call' = [call EXCEPT ![p].step = "answer"]
    /\ UNCHANGED <<daemon, focus, runtime, promised, unsettled, started, callsLeft, mishaps>>

\* The set...State functions: one upsert of flag and settings.
Persist(p) ==
    /\ call[p] # NoCall /\ call[p].step = "persist"
    /\ configRow' = Asked(call[p].kind, DelaysInOrder(Bounded(daemon, call[p].config)))
    /\ call' = [call EXCEPT ![p].step = "answer"]
    /\ UNCHANGED <<daemon, focus, runtime, promised, unsettled, started, callsLeft, mishaps>>

SetAutoSquishState(p) == daemon = "transcript.auto_squish" /\ Persist(p)
SetAutoRetryState(p) == daemon = "task.auto_retry" /\ Persist(p)
SetAutoRetentionState(p) == daemon = "trichat.auto_retention" /\ Persist(p)
SetTurnWatchdogState(p) == daemon = "trichat.turn_watchdog" /\ Persist(p)
SetAutoSnapshotState(p) == daemon = "imprint.auto_snapshot" /\ Persist(p)

PersistDaemon(p) ==
    \/ SetAutoSquishState(p)
    \/ SetAutoRetryState(p)
    \/ SetAutoRetentionState(p)
    \/ SetTurnWatchdogState(p)
    \/ SetAutoSnapshotState(p)

\* The upsert throws: the call fails, and what it changed in memory stays.
PersistFails(p) ==
    /\ call[p] # NoCall /\ call[p].step = "persist" /\ mishaps < MaxMishaps
    /\ call' = [call EXCEPT ![p] = NoCall]
    /\ mishaps' = mishaps + 1
    /\ UNCHANGED <<daemon, focus, configRow, runtime, promised, unsettled, started, callsLeft>>

\* The caller learns what the daemon now is.
Answered(p) ==
    /\ call[p] # NoCall /\ call[p].step = "answer"
    /\ promised' = Asked(call[p].kind, call[p].config)
    /\ unsettled' = {}
    /\ call' = [call EXCEPT ![p] = NoCall]
    /\ UNCHANGED <<daemon, focus, configRow, runtime, started, callsLeft, mishaps>>

-----------------------------------------------------------------------------
(* Ticks. *)

\* The callback of setInterval.
TimerFires(p) ==
    /\ Ready(p) /\ runtime[p].timer
    /\ Enter(p, "timer", runtime[p].config, "tick")
    /\ UNCHANGED <<daemon, focus, configRow, runtime, promised, unsettled, started, callsLeft, mishaps>>

AutoSquishTimer(p) == daemon = "transcript.auto_squish" /\ TimerFires(p)
AutoRetryTimer(p) == daemon = "task.auto_retry" /\ TimerFires(p)
AutoRetentionTimer(p) == daemon = "trichat.auto_retention" /\ TimerFires(p)
TurnWatchdogTimer(p) == daemon = "trichat.turn_watchdog" /\ TimerFires(p)
AutoSnapshotTimer(p) == daemon = "imprint.auto_snapshot" /\ TimerFires(p)

DaemonTimer(p) ==
    \/ AutoSquishTimer(p)
    \/ AutoRetryTimer(p)
    \/ AutoRetentionTimer(p)
    \/ TurnWatchdogTimer(p)
    \/ AutoSnapshotTimer(p)

InTick(p, step) == call[p] # NoCall /\ call[p].step = step

\* A tick catches and notes its errors: start goes on to the row all the same.
EndTick(p) ==
    /\ InTick(p, "tick") \/ InTick(p, "working")
    /\ call' = [call EXCEPT ![p] = IF @.kind = "start" THEN [@ EXCEPT !.step = "persist"] ELSE NoCall]
    /\ UNCHANGED <<daemon, focus, configRow, runtime, promised, unsettled, started, callsLeft, mishaps>>

-----------------------------------------------------------------------------

\* A process stops between two statements: its memory is gone.
DaemonCrash(p) ==
    /\ runtime' = [runtime EXCEPT ![p] = Stopped(DefaultConfig(daemon))]
    /\ call' = [call EXCEPT ![p] = NoCall]
    /\ mishaps' = mishaps + 1
    /\ UNCHANGED <<daemon, focus, configRow, promised, unsettled, started, callsLeft>>

-----------------------------------------------------------------------------

\* What a control call answered is what the daemon is, after any crash and restart: the row
\* holds the last answer or a call that never got one, and a process that serves runs what
\* the last answer said unless such a call came after it.  It is a promise of one server
\* process: a second one stops and configures the daemon from its own memory.
PromiseKept ==
    Alone =>
        /\ configRow # NoDaemonRow => Stored(configRow) \in {promised} \cup unsettled
        /\ \A p \in Procs :
              Ready(p) /\ unsettled = {} =>
                  /\ runtime[p].running = promised.enabled /\ runtime[p].timer = promised.enabled
                  /\ runtime[p].config = promised.config
=============================================================================
