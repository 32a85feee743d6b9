--------------------------- MODULE SchemaMigrations ---------------------------
(***************************************************************************)
(* How a server process brings the database up to date before it serves:   *)
(* Storage.init of src/src/storage.ts.  Every client of the stdio          *)
(* transport starts a process of its own, all on one database file, so     *)
(* several can be in init at once.                                         *)
(*                                                                         *)
(* A migration is a transaction; between two of them, and between reading  *)
(* the applied versions and the first one, other processes run.  What      *)
(* throws in init ends the process, and launchd or the client starts it    *)
(* again.                                                                  *)
(***************************************************************************)
EXTENDS Naturals, FiniteSets

CONSTANT
    Procs         \* server processes

VARIABLES
    recorded,     \* versions in table schema_migrations
    userVersion,  \* PRAGMA user_version
    tables,       \* the tables that exist
    boot          \* boot[p]: how far process p is, and the versions it takes as applied

schemaVars == <<recorded, userVersion, tables, boot>>

-----------------------------------------------------------------------------

CoreTables ==
    {"notes", "transcripts", "transcript_lines", "memories", "adrs", "mutation_journal",
     "policy_evaluations", "run_events", "locks", "decisions", "decision_links",
     "incidents", "incident_events"}

DaemonTables == {"daemon_configs"}

ImprintTables == {"imprint_profiles", "imprint_snapshots"}

TaskTables == {"tasks", "task_events", "task_leases", "task_artifacts"}

TriChatTables == {"trichat_threads", "trichat_messages"}

AdapterTables == {"trichat_adapter_states", "trichat_adapter_events"}

BusTables == {"trichat_bus_events"}

TurnTables == {"trichat_turns", "trichat_turn_artifacts"}

ReliabilityTables == {"trichat_chaos_events", "trichat_slo_snapshots"}

\* The list init hands to applyPendingMigrations, in the order of its versions.
Migrations ==
    <<CoreTables, DaemonTables, ImprintTables, TaskTables, TriChatTables,
      AdapterTables, BusTables, TurnTables, ReliabilityTables>>

Versions == 1 .. 9

AllTables == UNION {Migrations[v] : v \in Versions}

Phases == {"down", "reading", "migrating", "complete", "up"}

SchemaTypeOK ==
    /\ recorded \subseteq Versions
    /\ userVersion \in {0} \cup Versions
    /\ tables \subseteq AllTables
    /\ boot \in [Procs -> [at : Phases, applied : SUBSET Versions]]

Databases == [recorded : SUBSET Versions, userVersion : {0} \cup Versions, tables : SUBSET AllTables]

\* The database the first process finds: a new one, or one of an older build.
SchemaInit(d) ==
    /\ recorded = d.recorded /\ userVersion = d.userVersion /\ tables = d.tables
    /\ boot = [p \in Procs |-> [at |-> "down", applied |-> {}]]

-----------------------------------------------------------------------------

\* A process opens the file and ensures that table schema_migrations exists.
Launch(p) ==
    /\ boot[p].at = "down"
    /\ boot' = [boot EXCEPT ![p].at = "reading"]
    /\ UNCHANGED <<recorded, userVersion, tables>>

\* A version counts as applied when it is recorded or not above user_version, which is all
\* that the first builds kept.
AppliedVersions == recorded \cup (1 .. userVersion)

ReadApplied(p) ==
    /\ boot[p].at = "reading"
    /\ boot' = [boot EXCEPT ![p] = [at |-> "migrating", applied |-> AppliedVersions]]
    /\ UNCHANGED <<recorded, userVersion, tables>>

\* The next version of the list that is not among those read or applied by this process.
NextVersion(p, v) ==
    /\ v \in Versions \ boot[p].applied
    /\ \A w \in Versions \ boot[p].applied : v <= w

\* Variant: INSERT OR IGNORE, so that a version another process has recorded since is run again.
ApplyAgain(p) ==
    /\ boot[p].at = "migrating"
    /\ \E v \in Versions :
          /\ NextVersion(p, v)
          /\ tables' = tables \cup Migrations[v]
          /\ recorded' = recorded \cup {v}
          /\ userVersion' = v
          /\ boot' = [boot EXCEPT ![p].applied = @ \cup {v}]

\* applyMigration: tables, record and user_version in one transaction.
ApplyMigration(p) ==
    /\ boot[p].at = "migrating"
    /\ \E v \in Versions \ recorded :
          /\ NextVersion(p, v)
          /\ tables' = tables \cup Migrations[v]
          /\ recorded' = recorded \cup {v}
          /\ userVersion' = v
          /\ boot' = [boot EXCEPT ![p].applied = @ \cup {v}]

Die(p) == boot' = [boot EXCEPT ![p] = [at |-> "down", applied |-> {}]]

\* Variant: a process whose migration failed goes on trying the same one.
KeepTrying(p) ==
    /\ boot[p].at = "migrating"
    /\ \E v \in recorded : NextVersion(p, v)
    /\ boot' = [boot EXCEPT ![p].at = "migrating"]
    /\ UNCHANGED <<recorded, userVersion, tables>>

\* Another process recorded the version since this one read the list: the INSERT hits the
\* primary key, the transaction rolls back and init throws.
MigrationConflict(p) ==
    /\ boot[p].at = "migrating"
    /\ \E v \in recorded : NextVersion(p, v)
    /\ Die(p)
    /\ UNCHANGED <<recorded, userVersion, tables>>

\* Variant: with nothing left to migrate the process serves at once.
ServeUnchecked(p) ==
    /\ boot[p].at = "migrating" /\ Versions \subseteq boot[p].applied
    /\ boot' = [boot EXCEPT ![p].at = "complete"]
    /\ UNCHANGED <<recorded, userVersion, tables>>

\* ensureRuntimeSchemaCompleteness replays every table definition, whatever the records say.
ReplaySchema(p) ==
    /\ boot[p].at = "migrating" /\ Versions \subseteq boot[p].applied
    /\ tables' = tables \cup AllTables
    /\ boot' = [boot EXCEPT ![p].at = "complete"]
    /\ UNCHANGED <<recorded, userVersion>>

-----------------------------------------------------------------------------

\* A process that serves has every table of every version, and its migration status lists
\* every version as applied: whatever the database it found, and whoever migrated with it.
UpMeansComplete ==
    \A p \in Procs : boot[p].at = "up" => tables = AllTables /\ AppliedVersions = Versions

\* user_version never falls back, although two processes that found the same database work
\* through the same list: a lower version would make the next start migrate again.
VersionNeverFalls == [][userVersion' >= userVersion]_schemaVars
=============================================================================
