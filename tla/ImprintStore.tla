----------------------------- MODULE ImprintStore -----------------------------
(***************************************************************************)
(* Imprint profiles and snapshots: imprint.profile_set and                 *)
(* captureImprintSnapshot of src/src/tools/imprint.ts with their           *)
(* statements in src/src/storage.ts.  A snapshot is a file, a memory and a *)
(* row, written one after the other; a profile is read and then inserted   *)
(* or updated.                                                             *)
(***************************************************************************)
EXTENDS Naturals

CONSTANTS
    Keepers,      \* the processes that write
    SnapshotIds,  \* the random ids of snapshots
    NoProfile, NoWriting

VARIABLES
    files,        \* ids of the snapshots whose file is on disk
    promotedIds,  \* ids of the snapshots whose summary is a memory
    snapshots,    \* rows of table imprint_snapshots
    profile,      \* the row of the profile, or NoProfile
    writing       \* writing[k]: what process k is in the middle of

imprintVars == <<files, promotedIds, snapshots, profile, writing>>

Snapshot == [id : SnapshotIds, file : BOOLEAN, memory : BOOLEAN]
Writing ==
    [kind : {"snapshot"}, step : {"file", "memory", "row"}, of : Snapshot]
    \cup [kind : {"profile"}, found : BOOLEAN]

\* The absent profile is no row.
ASSUME NoProfileAssumption == NoProfile \notin [born : Keepers, by : Keepers]

\* A process that writes nothing is not in a writing.
ASSUME NoWritingAssumption == NoWriting \notin Writing

ImprintTypeOK ==
    /\ files \subseteq SnapshotIds /\ promotedIds \subseteq SnapshotIds
    /\ snapshots \subseteq Snapshot
    /\ profile \in [born : Keepers, by : Keepers] \cup {NoProfile}
    /\ writing \in [Keepers -> Writing \cup {NoWriting}]

ImprintInit ==
    /\ files = {} /\ promotedIds = {} /\ snapshots = {}
    /\ profile = NoProfile
    /\ writing = [k \in Keepers |-> NoWriting]

-----------------------------------------------------------------------------

Unused(id) ==
    /\ id \notin files \cup promotedIds \cup {s.id : s \in snapshots}
    /\ \A k \in Keepers :
          writing[k] # NoWriting /\ writing[k].kind = "snapshot" => writing[k].of.id # id

\* captureImprintSnapshot up to its first effect: what it collects changes nothing.
BeginSnapshot(k, file, memory) ==
    /\ writing[k] = NoWriting
    /\ \E id \in SnapshotIds : Unused(id)
    /\ writing' = [writing EXCEPT ![k] =
          [kind |-> "snapshot", step |-> "file",
           of |-> [id |-> CHOOSE id \in SnapshotIds : Unused(id), file |-> file, memory |-> memory]]]
    /\ UNCHANGED <<files, promotedIds, snapshots, profile>>

Taking(k, step) ==
    writing[k] # NoWriting /\ writing[k].kind = "snapshot" /\ writing[k].step = step

\* The file, if wanted.
WriteSnapshotFile(k) ==
    /\ Taking(k, "file")
    /\ files' = IF writing[k].of.file THEN files \cup {writing[k].of.id} ELSE files
    /\ writing' = [writing EXCEPT ![k].step = "memory"]
    /\ UNCHANGED <<promotedIds, snapshots, profile>>

\* Variant: the row is inserted before the memory it names.
InsertRowEarly(k) ==
    /\ Taking(k, "memory")
    /\ snapshots' = snapshots \cup {writing[k].of}
    /\ writing' = [writing EXCEPT ![k].step = "row"]
    /\ UNCHANGED <<files, promotedIds, profile>>

\* The summary as a memory, if wanted.
PromoteSummary(k) ==
    /\ Taking(k, "memory")
    /\ promotedIds' = IF writing[k].of.memory THEN promotedIds \cup {writing[k].of.id} ELSE promotedIds
    /\ writing' = [writing EXCEPT ![k].step = "row"]
    /\ UNCHANGED <<files, snapshots, profile>>

\* insertImprintSnapshot: the row names the file and the memory.
InsertSnapshot(k) ==
    /\ Taking(k, "row")
    /\ snapshots' = snapshots \cup {writing[k].of}
    /\ writing' = [writing EXCEPT ![k] = NoWriting]
    /\ UNCHANGED <<files, promotedIds, profile>>

\* upsertImprintProfile reads whether the profile exists.
ReadProfile(k) ==
    /\ writing[k] = NoWriting
    /\ writing' = [writing EXCEPT ![k] = [kind |-> "profile", found |-> profile # NoProfile]]
    /\ UNCHANGED <<files, promotedIds, snapshots, profile>>

\* Variant: INSERT OR REPLACE.
ReplaceProfile(k) ==
    /\ writing[k] # NoWriting /\ writing[k].kind = "profile"
    /\ IF writing[k].found THEN profile' = [profile EXCEPT !.by = k]
       ELSE profile' = [born |-> k, by |-> k]
    /\ writing' = [writing EXCEPT ![k] = NoWriting]
    /\ UNCHANGED <<files, promotedIds, snapshots>>

\* It updates the row it found, and inserts when it found none: if another process inserted
\* it since, the primary key refuses and the call fails.
WriteProfile(k) ==
    /\ writing[k] # NoWriting /\ writing[k].kind = "profile"
    /\ \/ writing[k].found /\ profile' = [profile EXCEPT !.by = k]
       \/ ~writing[k].found /\ profile = NoProfile /\ profile' = [born |-> k, by |-> k]
       \/ ~writing[k].found /\ profile # NoProfile /\ UNCHANGED profile
    /\ writing' = [writing EXCEPT ![k] = NoWriting]
    /\ UNCHANGED <<files, promotedIds, snapshots>>

WritingCrash(k) ==
    /\ writing' = [writing EXCEPT ![k] = NoWriting]
    /\ UNCHANGED <<files, promotedIds, snapshots, profile>>

WritingStep(k) ==
    WriteSnapshotFile(k) \/ PromoteSummary(k) \/ InsertSnapshot(k) \/ WriteProfile(k)

-----------------------------------------------------------------------------

\* A snapshot that can be listed has the file and the memory its row names: a process that
\* stops in between leaves a file or a memory nobody names, never the reverse.
SnapshotsAreBacked ==
    \A s \in snapshots : (s.file => s.id \in files) /\ (s.memory => s.id \in promotedIds)

\* The birth of a profile (created_at) is never rewritten, whoever sets the profile at once.
ProfileBirthStays ==
    [][profile # NoProfile => profile' # NoProfile /\ profile'.born = profile.born]_imprintVars
=============================================================================
