--------------------------- MODULE MCServerProcess ---------------------------
(* Instances of the server processes for TLC. *)
EXTENDS ServerProcess

Found(recordedOnes, user, ts) == [recorded |-> recordedOnes, userVersion |-> user, tables |-> ts]

TablesUpTo(k) == UNION {Migrations[v] : v \in 1 .. k}

NewDatabase == Found({}, 0, {})
\* Of a build that kept only user_version.
OldDatabase == Found({}, 4, TablesUpTo(4))
\* Its metadata imported without most of its tables.
ImportedDatabase == Found({}, 9, CoreTables \cup DaemonTables)
FullDatabase == Found(Versions, 9, AllTables)

Scene(database, d, ks, row, n) == [database |-> database, daemon |-> d, focus |-> ks, row |-> row,
     calls |-> n]

Enabled(d, given) ==
    [enabled |-> TRUE,
     config |-> [k \in DOMAIN Settings(d) |-> IF k \in DOMAIN given THEN given[k] ELSE Settings(d)[k][1]]]

FewScenes ==
    {Scene(FullDatabase, "transcript.auto_squish", {}, Enabled("transcript.auto_squish", [batch_runs |-> 1]), 0),
     Scene(FullDatabase, "transcript.auto_squish", {}, Enabled("transcript.auto_squish", [per_run_limit |-> 1]), 0),
     Scene(NewDatabase, "task.auto_retry", {"base_delay_seconds", "max_delay_seconds"}, NoDaemonRow, 2),
     Scene(OldDatabase, "trichat.auto_retention", {"older_than_days"},
           Enabled("trichat.auto_retention", [limit |-> 5001]), 2),
     Scene(ImportedDatabase, "trichat.turn_watchdog", {"stale_after_seconds"}, NoDaemonRow, 2),
     Scene(FullDatabase, "imprint.auto_snapshot", {},
           Enabled("imprint.auto_snapshot", [promote_summary |-> 1]), 0)}
=============================================================================
