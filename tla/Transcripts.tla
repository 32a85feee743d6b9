----------------------------- MODULE Transcripts -----------------------------
(***************************************************************************)
(* Working memory and its distillation: transcript lines are logged,       *)
(* squished into memories, and pruned once squished.  From                 *)
(* src/src/tools/transcript.ts and the transcript part of src/src/storage. *)
(*                                                                         *)
(* squishRun is three statements (read the lines, insert the memory, mark  *)
(* the lines) and no transaction, and pruneTranscriptLines selects before  *)
(* it deletes: between them other processes run, and a process may stop.   *)
(* Line ids are AUTOINCREMENT, so none is given twice, and lines of one    *)
(* run are ordered by id as by timestamp.                                  *)
(***************************************************************************)
EXTENDS Integers, FiniteSets, Sequences

CONSTANTS
    Workers,      \* the processes that work on the lines
    Runs,         \* run ids
    NoRun,        \* a line logged without a run
    MaxLines,     \* bound on the lines ever logged
    MaxJobs,      \* bound on the squish and retention calls of clients
    Gone,         \* a line not logged yet, or deleted
    NoJob

VARIABLES
    lines,        \* lines[l]: the row of line l
    issued,       \* ids given so far
    memoriesOf,   \* memoriesOf[l]: how many memories summarise line l
    job,          \* job[w]: the squish or retention worker w is in
    jobs          \* squish and retention calls of clients so far

transcriptVars == <<lines, issued, memoriesOf, job, jobs>>

LineIds == 1 .. MaxLines
Line == [run : Runs \cup {NoRun}, squished : BOOLEAN, born : BOOLEAN]
Job == [kind : {"squish", "prune"}, step : {"read", "insert", "mark", "delete"},
        todo : Seq(Runs), ids : SUBSET LineIds, limit : Nat, all : BOOLEAN]

TranscriptTypeOK ==
    /\ lines \in [LineIds -> Line \cup {Gone}]
    /\ issued \in 0 .. MaxLines
    /\ memoriesOf \in [LineIds -> Nat]
    /\ job \in [Workers -> Job \cup {NoJob}]
    /\ jobs \in 0 .. MaxJobs

TranscriptInit ==
    /\ lines = [l \in LineIds |-> Gone]
    /\ issued = 0
    /\ memoriesOf = [l \in LineIds |-> 0]
    /\ job = [w \in Workers |-> NoJob]
    /\ jobs = 0

\* A deleted line is no row.
ASSUME GoneAssumption == Gone \notin Line

\* A worker without a job has none; bounds are numbers.
ASSUME JobsAssumption == NoJob \notin Job /\ MaxLines \in Nat /\ MaxJobs \in Nat

-----------------------------------------------------------------------------

Present == {l \in LineIds : lines[l] # Gone}

\* getUnsquishedTranscriptLines before its limit.
Unsquished(r) == {l \in Present : lines[l].run = r /\ ~lines[l].squished}

\* ORDER BY timestamp ASC LIMIT n.
OldestOf(ids, n) == {l \in ids : Cardinality({k \in ids : k < l}) < n}

Newest(r) == CHOOSE l \in Unsquished(r) : \A k \in Unsquished(r) : k <= l

\* listTranscriptRunsWithPending: runs with unsquished lines, the latest line first, at most n.
PendingRuns(n) ==
    LET pending == {r \in Runs : Unsquished(r) # {}}
        place(r) == Cardinality({s \in pending : Newest(s) > Newest(r)}) + 1
        size == IF Cardinality(pending) <= n THEN Cardinality(pending) ELSE n
    IN  [i \in 1 .. size |-> CHOOSE r \in pending : place(r) = i]

\* transcript.log, and the line that transcript.append inserts first.  A client may log a
\* line as squished already.
LogLine(r, squished) ==
    /\ issued < MaxLines
    /\ issued' = issued + 1
    /\ lines' = [lines EXCEPT ![issued + 1] = [run |-> r, squished |-> squished, born |-> squished]]
    /\ UNCHANGED <<memoriesOf, job, jobs>>

SquishJob(todo, limit) ==
    [kind |-> "squish", step |-> "read", todo |-> todo, ids |-> {}, limit |-> limit, all |-> FALSE]

\* transcript.squish of one run.
SquishTranscript(w, r, limit) ==
    /\ jobs < MaxJobs /\ job[w] = NoJob
    /\ job' = [job EXCEPT ![w] = SquishJob(<<r>>, limit)]
    /\ jobs' = jobs + 1
    /\ UNCHANGED <<lines, issued, memoriesOf>>

\* The tick of auto-squish: the runs with pending lines are read once, at its start.
BeginSquishTick(w, batchRuns, limit) ==
    /\ job[w] = NoJob
    /\ job' = [job EXCEPT ![w] = SquishJob(PendingRuns(batchRuns), limit)]
    /\ UNCHANGED <<lines, issued, memoriesOf, jobs>>

Squishing(w, step) == job[w] # NoJob /\ job[w].kind = "squish" /\ job[w].step = step

\* squishRun is over for the first run of the job, with or without an error.
NextRun(w) ==
    LET todo == job[w].todo IN
    job' = [job EXCEPT ![w] =
        IF Len(todo) <= 1 THEN NoJob
        ELSE [job[w] EXCEPT !.step = "read", !.todo = Tail(todo), !.ids = {}]]

\* Variant: the lines are marked first and the memory inserted after that.
SquishMarkFirst(w) ==
    /\ Squishing(w, "read") /\ job[w].todo # <<>>
    /\ LET ids == OldestOf(Unsquished(Head(job[w].todo)), job[w].limit) IN
          /\ ids # {}
          /\ lines' = [l \in LineIds |-> IF l \in ids THEN [lines[l] EXCEPT !.squished = TRUE] ELSE lines[l]]
          /\ job' = [job EXCEPT ![w].step = "insert", ![w].ids = ids]
    /\ UNCHANGED <<issued, memoriesOf, jobs>>

\* squishRun reads the oldest unsquished lines of the run.
SquishRead(w) ==
    /\ Squishing(w, "read") /\ job[w].todo # <<>>
    /\ LET ids == OldestOf(Unsquished(Head(job[w].todo)), job[w].limit) IN
          \/ ids # {} /\ job' = [job EXCEPT ![w].step = "insert", ![w].ids = ids]
          \/ ids = {} /\ NextRun(w)
    /\ UNCHANGED <<lines, issued, memoriesOf, jobs>>

SquishInsertMemory(w) ==
    /\ Squishing(w, "insert")
    /\ memoriesOf' = [l \in LineIds |-> IF l \in job[w].ids THEN memoriesOf[l] + 1 ELSE memoriesOf[l]]
    /\ job' = [job EXCEPT ![w].step = "mark"]
    /\ UNCHANGED <<lines, issued, jobs>>

\* Variant: the first line of the batch stays unmarked.
MarkAllButFirst(w) ==
    /\ Squishing(w, "mark")
    /\ lines' = [l \in LineIds |->
          IF l \in job[w].ids \cap Present /\ \E k \in job[w].ids : k < l
          THEN [lines[l] EXCEPT !.squished = TRUE] ELSE lines[l]]
    /\ NextRun(w)
    /\ UNCHANGED <<issued, memoriesOf, jobs>>

\* markTranscriptLinesSquished: one transaction, by id alone.
SquishMark(w) ==
    /\ Squishing(w, "mark")
    /\ lines' = [l \in LineIds |->
          IF l \in job[w].ids \cap Present THEN [lines[l] EXCEPT !.squished = TRUE] ELSE lines[l]]
    /\ NextRun(w)
    /\ UNCHANGED <<issued, memoriesOf, jobs>>

\* A statement of squishRun throws: the tick notes the error and takes the next run.
SquishFails(w) ==
    /\ Squishing(w, "insert") \/ Squishing(w, "mark")
    /\ NextRun(w)
    /\ UNCHANGED <<lines, issued, memoriesOf, jobs>>

\* A tick that found nothing to do.
EmptySquish(w) ==
    /\ Squishing(w, "read") /\ job[w].todo = <<>>
    /\ job' = [job EXCEPT ![w] = NoJob]
    /\ UNCHANGED <<lines, issued, memoriesOf, jobs>>

\* Variant: pruneTranscriptLines selects lines that are not squished too.
PruneSelectAny(w, cutoff, all, limit) ==
    /\ jobs < MaxJobs /\ job[w] = NoJob
    /\ LET ids == OldestOf({l \in Present : l <= cutoff}, limit) IN
          /\ ids # {}
          /\ job' = [job EXCEPT ![w] = [kind |-> "prune", step |-> "delete", todo |-> <<>>,
                                        ids |-> ids, limit |-> limit, all |-> all]]
    /\ jobs' = jobs + 1
    /\ UNCHANGED <<lines, issued, memoriesOf>>

\* transcript.retention selects: lines up to the cutoff, squished ones unless the caller
\* includes the others, the oldest first.  A dry run stops here.
PruneSelect(w, cutoff, all, limit) ==
    /\ jobs < MaxJobs /\ job[w] = NoJob
    /\ LET ids == OldestOf({l \in Present : l <= cutoff /\ (all \/ lines[l].squished)}, limit) IN
          /\ ids # {}
          /\ job' = [job EXCEPT ![w] = [kind |-> "prune", step |-> "delete", todo |-> <<>>,
                                        ids |-> ids, limit |-> limit, all |-> all]]
    /\ jobs' = jobs + 1
    /\ UNCHANGED <<lines, issued, memoriesOf>>

\* The transaction that deletes what was selected.
PruneDelete(w) ==
    /\ job[w] # NoJob /\ job[w].step = "delete"
    /\ lines' = [l \in LineIds |-> IF l \in job[w].ids THEN Gone ELSE lines[l]]
    /\ job' = [job EXCEPT ![w] = NoJob]
    /\ UNCHANGED <<issued, memoriesOf, jobs>>

JobCrash(w) ==
    /\ job' = [job EXCEPT ![w] = NoJob]
    /\ UNCHANGED <<lines, issued, memoriesOf, jobs>>

JobStep(w) ==
    \/ SquishRead(w) \/ SquishInsertMemory(w) \/ SquishMark(w) \/ EmptySquish(w)
    \/ PruneDelete(w)

-----------------------------------------------------------------------------

\* A squished line is in a memory, unless the client that logged it called it squished: a
\* process that stops halfway leaves the memory without the mark, never the mark without
\* the memory, and no other process can mark what it has not summarised.
SquishedIsRemembered ==
    \A l \in Present : lines[l].squished => lines[l].born \/ memoriesOf[l] > 0

\* Retention deletes no line whose content is in no memory, unless the caller asked for the
\* unsquished ones too, however squish, retention and the clients interleave.
NothingIsForgotten ==
    [][\A l \in LineIds :
          lines[l] # Gone /\ lines'[l] = Gone =>
              \/ lines[l].born \/ memoriesOf[l] > 0
              \/ \E w \in Workers : job[w] # NoJob /\ job[w].all]_transcriptVars
=============================================================================
