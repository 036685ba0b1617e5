----------------------------- MODULE Explanations -----------------------------
(***************************************************************************)
(* The wording of a saved report: ExplanationService.explain_scan           *)
(* (src/app/explanations/service.py) inside one AI task (execute_analysis,   *)
(* src/app/jobs/analysis.py).  ScanJobs has the tasks, this module has what  *)
(* one of them does.                                                         *)
(*                                                                           *)
(* A report has entries 1 .. Entries, the report's own summary and its       *)
(* findings by priority.  Each has lines a local model may exchange for a    *)
(* reviewed alternative; some of them are one list.  A task asks for the     *)
(* unsettled entries in batches, twice each, keeps what was accepted, and    *)
(* saves after each batch.  Every await can be the last: the task can be     *)
(* cancelled, timed out or lost, and a cancelled write goes on in its thread.*)
(***************************************************************************)
EXTENDS Naturals, FiniteSets

CONSTANTS
    Entries,
    Lines, ListLines,   \* the lines of an entry; those of its list
    Plain,              \* the lines of the report's own entry without an alternative
    BatchSize,          \* AI_BATCH_SIZE
    NoRecord,
    MaxTasks,           \* bound: AI tasks of the report
    MaxRefreshes,       \* bound: refreshes of the guidance
    MaxCrashes          \* bound: process crashes

ASSUME EntriesAssumption == Entries \in Nat \ {0} /\ BatchSize \in Nat \ {0}
ASSUME LinesAssumption == ListLines \subseteq Lines /\ Plain \subseteq Lines
ASSUME LimitsAssumption == MaxTasks \in Nat /\ MaxRefreshes \in Nat /\ MaxCrashes \in Nat

VARIABLES
    record,     \* the records saved in the report
    wording,    \* analysis_status
    used,       \* ai_requests_used
    input,      \* which guidance the findings have (their input_hash)
    basis,      \* the guidance the task has loaded
    closed,     \* the report was finished under the task, which is in no registry
    at,         \* where the task is
    mine,       \* records_by_id of the task
    todo,       \* selected entries no batch has begun for
    pending,    \* entries of the batch that still need an answer
    attempt,
    stop,       \* stop_reason
    stray,      \* writes of a cancelled task still in their thread
    calls,      \* history: requests made to the provider
    mixed,      \* history: writes of earlier tasks that came this late, see Mixed
    tasks, refreshes, crashes

report == <<record, wording, used, input>>
task == <<at, basis, closed, mine, todo, pending, attempt, stop>>
counts == <<tasks, refreshes, crashes>>
vars == <<report, task, stray, calls, mixed, counts>>

Ids == 1 .. Entries

\* A line shows the original because that was accepted or because the answer
\* was rejected (rejected_fields), or its reviewed alternative (ai_fields).
Line == {"original", "reviewed", "rejected"}

\* asked: there was an answer; otherwise it is a fallback record.
Record == [line : [Lines -> Line], asked : BOOLEAN, input : 0 .. MaxRefreshes]

\* Late writes: none that still show in the wording, one before the task began,
\* one since.
Mixed == {"no", "before", "now"}

ASSUME RecordAssumption == NoRecord \notin Record

Rejected(r) == {l \in Lines : r.line[l] = "rejected"}

NeedsRetry(r) == Rejected(r) # {} \/ ~r.asked

\* What the next task keeps: ready, not simpler, or answered in part, and for the
\* guidance the report has now.  A record of another provider, model or version of
\* the prompt would be dropped too: the model has one of each, so a restart with
\* another model (which asks for every entry anew) is left out.
Kept(r) == IF r # NoRecord /\ r.asked /\ r.input = input THEN r ELSE NoRecord

Unsettled(rs) == {f \in Ids : rs[f] = NoRecord \/ NeedsRetry(rs[f])}

Fallback == [line |-> [l \in Lines |-> "original"], asked |-> FALSE, input |-> basis]

-----------------------------------------------------------------------------
(* One answer for one entry.  A list can be left out or have a wrong length. *)

Answer == [line : [Lines -> {"original", "reviewed", "other"}],
           list : {"given", "omitted", "short"}]

\* reviewed_choices: the original, and the alternative where there is one.
ReportChoices == [l \in Lines |-> IF l \in Plain THEN {"original"} ELSE {"original", "reviewed"}]

FindingChoices == [l \in Lines |-> {"original", "reviewed"}]

Choices(f) == IF f = 1 THEN ReportChoices ELSE FindingChoices

\* validated_line: one of the choices, or a reason to reject it.
ValidatedLine(f, l, candidate) == IF candidate \in Choices(f)[l] THEN candidate ELSE "rejected"

\* Mutant: only the lines of the list are protected in a retry.
LockedLists(r, l) == r # NoRecord /\ Rejected(r) # {} /\ l \in ListLines \ Rejected(r)

\* field_locked: the previous answer left other lines open, not this one.
Locked(r, l) == r # NoRecord /\ Rejected(r) # {} /\ l \notin Rejected(r)

ListLocked(r) == r # NoRecord /\ Rejected(r) # {} /\ Rejected(r) \cap ListLines = {}

\* accept_list without a usable list: fine only in a first answer that omits it.
ListRefused(r, a) ==
    ~ListLocked(r) /\ (a.list = "short" \/ (a.list = "omitted" /\ r # NoRecord))

Accepted(f, r, a, l) ==
    IF Locked(r, l) THEN r.line[l]
    ELSE IF l \in ListLines /\ ListRefused(r, a) THEN "rejected"
    ELSE IF l \in ListLines /\ a.list = "omitted" THEN "original"
    ELSE ValidatedLine(f, l, a.line[l])

\* _build_validated_record
Validated(f, r, a) ==
    [line |-> [l \in Lines |-> Accepted(f, r, a, l)], asked |-> TRUE, input |-> basis]

-----------------------------------------------------------------------------

Init ==
    /\ record = [f \in Ids |-> NoRecord]
    /\ wording = "not_started" /\ used = 0 /\ input = 0 /\ basis = 0 /\ closed = FALSE
    /\ at = "idle" /\ mine = [f \in Ids |-> NoRecord]
    /\ todo = {} /\ pending = {} /\ attempt = 0 /\ stop = "none"
    /\ stray = {} /\ calls = 0 /\ mixed = "no"
    /\ tasks = 0 /\ refreshes = 0 /\ crashes = 0

\* The entries the task asks for.
Select(rs) == Unsettled(rs)

\* The task loads the report and selects what it asks for.
Start ==
    /\ at = "idle" /\ tasks < MaxTasks
    /\ tasks' = tasks + 1
    /\ at' = "first"
    /\ basis' = input /\ closed' = FALSE
    /\ mine' = [f \in Ids |-> Kept(record[f])]
    /\ todo' = Select(mine')
    /\ pending' = {} /\ attempt' = 0 /\ stop' = "none"
    /\ mixed' = IF mixed = "now" THEN "before" ELSE mixed
    /\ UNCHANGED <<report, stray, calls, refreshes, crashes>>

Batch(s) == {f \in s : Cardinality({g \in s : g < f}) < BatchSize}

\* The next batch, or the end of the loop.
NextBatch(rest) ==
    IF rest = {}
      THEN /\ at' = "final" /\ pending' = {} /\ todo' = {} /\ attempt' = 0
      ELSE /\ at' = "count" /\ attempt' = 1
           /\ pending' = Batch(rest) /\ todo' = rest \ Batch(rest)

FirstWrite ==
    /\ at = "first"
    /\ wording' = "running"
    /\ NextBatch(todo)
    /\ mixed' = IF mixed = "before" THEN "no" ELSE mixed
    /\ UNCHANGED <<record, used, input, basis, closed, mine, stop, stray, calls, counts>>

\* Mutant: the request is counted when it is answered.
CountLater ==
    /\ at = "count" /\ at' = "ask"
    /\ UNCHANGED <<report, basis, closed, mine, todo, pending, attempt, stop, stray, calls, mixed, counts>>

\* ai_requests_used, before the request
CountWrite ==
    /\ at = "count" /\ at' = "ask"
    /\ used' = used + 1
    /\ UNCHANGED <<record, wording, input, basis, closed, mine, todo, pending, attempt, stop, stray,
                   calls, mixed, counts>>

Ask ==
    /\ at = "ask" /\ at' = "answer"
    /\ calls' = calls + 1
    /\ UNCHANGED <<report, basis, closed, mine, todo, pending, attempt, stop, stray, mixed, counts>>

\* Another attempt, unless this was the second.
Failed(reason) ==
    /\ stop' = reason
    /\ IF attempt < 2 THEN at' = "count" /\ attempt' = attempt + 1
                      ELSE at' = "persist" /\ UNCHANGED attempt

\* No provider, a failing write of the counter, a timeout, a transport error or
\* a model that is not ready; an answer for other entries.
AttemptFails ==
    /\ \/ at \in {"count", "answer"} /\ \E reason \in {"invalid", "transport"} : Failed(reason)
    /\ UNCHANGED <<report, basis, closed, mine, todo, pending, stray, calls, mixed, counts>>

Answered ==
    /\ at = "answer"
    /\ \E a \in [pending -> Answer] :
          mine' = [f \in Ids |-> IF f \in pending THEN Validated(f, mine[f], a[f]) ELSE mine[f]]
    /\ pending' = {f \in pending : NeedsRetry(mine'[f])}
    /\ IF pending' = {} THEN at' = "persist" /\ stop' = "none" /\ UNCHANGED attempt
                        ELSE Failed("invalid")
    /\ UNCHANGED <<report, basis, closed, todo, stray, calls, mixed, counts>>

Persist ==
    /\ at = "persist"
    /\ record' = mine
    /\ NextBatch(IF stop = "transport" THEN {} ELSE todo)
    /\ UNCHANGED <<wording, used, input, basis, closed, mine, stop, stray, calls, mixed, counts>>

Filled == [f \in Ids |-> IF mine[f] = NoRecord THEN Fallback ELSE mine[f]]

\* Mutant: an answer for every entry is enough.
OutcomeAnswered(rs) == IF \A f \in Ids : rs[f].asked THEN "ready" ELSE "failed"

Outcome(rs) == IF Unsettled(rs) = {} THEN "ready" ELSE "failed"

FinalWrite ==
    /\ at = "final" /\ at' = "finish"
    /\ record' = Filled /\ wording' = Outcome(Filled)
    /\ UNCHANGED <<used, input, basis, closed, mine, todo, pending, attempt, stop, stray, calls, mixed, counts>>

\* The write under way when the task is cancelled.
Write ==
    CASE at = "first"   -> [record |-> NoRecord, wording |-> "running", counts |-> FALSE]
      [] at = "count"   -> [record |-> NoRecord, wording |-> NoRecord, counts |-> TRUE]
      [] at = "persist" -> [record |-> mine, wording |-> NoRecord, counts |-> FALSE]
      [] at = "final"   -> [record |-> Filled, wording |-> Outcome(Filled), counts |-> FALSE]

\* What the task kept in memory goes with it.
Dropped ==
    /\ basis' = 0 /\ mine' = [f \in Ids |-> NoRecord]
    /\ todo' = {} /\ pending' = {} /\ attempt' = 0 /\ stop' = "none"

\* A cancelled or timed out task, or a write that raised outside of an attempt:
\* execute_analysis still finishes the report.
Interrupt ==
    /\ at \notin {"idle", "finish", "interrupted"}
    /\ at' = "interrupted"
    /\ Dropped
    /\ \/ at \in {"first", "count", "persist", "final"} /\ stray' = stray \cup {Write}
       \/ UNCHANGED stray
    /\ UNCHANGED <<report, closed, calls, mixed, counts>>

StrayWrite ==
    /\ \E w \in stray :
          /\ stray' = stray \ {w}
          /\ record' = IF w.record = NoRecord THEN record ELSE w.record
          /\ wording' = IF w.wording = NoRecord THEN wording ELSE w.wording
          /\ used' = IF w.counts THEN used + 1 ELSE used
    /\ mixed' = "now"
    /\ UNCHANGED <<input, task, calls, counts>>

\* finish, in _finish_explanations: the wording stays ready only in a task that
\* came to its end.
Finish ==
    /\ at \in {"finish", "interrupted"} /\ at' = "idle" /\ Dropped /\ closed' = FALSE
    /\ wording' = IF at = "finish" /\ wording = "ready" THEN "ready" ELSE "failed"
    /\ UNCHANGED <<record, used, input, stray, calls, mixed, counts>>

\* The end of an earlier task, or of the cancel() that waited for it, comes late: it
\* finishes the report under the task that has begun since, and takes that out of the
\* registry.  One analysis slot keeps the work of any further task until this one ends.
FinishedUnder ==
    /\ at # "idle" /\ tasks > 1 /\ ~closed /\ closed' = TRUE
    /\ wording' = "failed"
    /\ UNCHANGED <<record, used, input, at, basis, mine, todo, pending, attempt, stop, stray,
                   calls, mixed, counts>>

\* refresh_guidance, refused while the report is in its analysis or its task is
\* registered: other findings, no wording.
Refresh ==
    /\ at = "idle" \/ closed
    /\ refreshes < MaxRefreshes /\ refreshes' = refreshes + 1
    /\ input' = input + 1
    /\ record' = [f \in Ids |-> NoRecord] /\ wording' = "not_started"
    /\ UNCHANGED <<used, task, stray, calls, mixed, tasks, crashes>>

\* The process dies; reconciliation closes the report.
Crash ==
    /\ at # "idle" /\ crashes < MaxCrashes /\ crashes' = crashes + 1
    /\ at' = "idle" /\ Dropped /\ stray' = {} /\ closed' = FALSE
    /\ wording' = IF wording = "running" THEN "failed" ELSE wording
    /\ UNCHANGED <<record, used, input, calls, mixed, tasks, refreshes>>

Next ==
    \/ Start \/ FirstWrite \/ CountWrite \/ Ask \/ AttemptFails \/ Answered \/ Persist
    \/ FinalWrite \/ Interrupt \/ StrayWrite \/ Finish \/ FinishedUnder \/ Refresh \/ Crash

Spec == Init /\ [][Next]_vars

-----------------------------------------------------------------------------

Wording == {"not_started", "running", "ready", "failed"}

TypeOK ==
    /\ record \in [Ids -> Record \cup {NoRecord}]
    /\ wording \in Wording
    /\ used \in Nat /\ input \in 0 .. MaxRefreshes /\ basis \in 0 .. MaxRefreshes
    /\ closed \in BOOLEAN
    /\ at \in {"idle", "first", "count", "ask", "answer", "persist", "final", "finish",
               "interrupted"}
    /\ mine \in [Ids -> Record \cup {NoRecord}]
    /\ todo \subseteq Ids /\ pending \subseteq Ids /\ attempt \in 0 .. 2
    /\ stop \in {"none", "invalid", "transport"}
    /\ calls \in Nat /\ mixed \in Mixed
    /\ tasks \in 0 .. MaxTasks /\ refreshes \in 0 .. MaxRefreshes /\ crashes \in 0 .. MaxCrashes

Settled(r, l) == Kept(r) # NoRecord /\ r.line[l] # "rejected"

\* A line that was accepted, reviewed or as the original, keeps its wording in
\* every later attempt and every later task, until the guidance is refreshed: a
\* retry asks only for what was rejected.  Excepted is the time from any write of
\* an ended task that its thread does late, whatever it writes, until another task
\* begins: the late write itself can put an older record back, and a task under way
\* has not loaded what the late write saved and replaces it.
AcceptedWordingStays ==
    [][ input' = input /\ mixed' # "now" =>
           \A f \in Ids, l \in Lines :
              Settled(record[f], l) =>
                 record'[f] # NoRecord /\ record'[f].line[l] = record[f].line[l] ]_vars

\* Each request is in the report's counter before it is made, through failing
\* attempts, failing writes, cancellation and crashes.
RequestsAreCounted == calls <= used

\* A report shows its wording as ready only with an answer for every entry, all
\* to the same guidance, and nothing left that a retry would ask for; except
\* after a write of an earlier task, until the next task marks it as running.
ReadyMeansSettled ==
    wording = "ready" /\ mixed = "no" =>
       /\ \A f \in Ids : record[f] # NoRecord /\ record[f].asked /\ Rejected(record[f]) = {}
       /\ \A f, g \in Ids : record[f].input = record[g].input

=============================================================================
