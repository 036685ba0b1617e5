------------------------------- MODULE ScanJobs -------------------------------
(***************************************************************************)
(* The jobs of ScanSupervisor (src/app/jobs/supervisor.py): which scans and *)
(* AI wording tasks run, which of them the registries know, and what the    *)
(* saved reports say of them.                                               *)
(*                                                                          *)
(* A scan is one task (_run) that collects, saves the outcome and then      *)
(* awaits an AI task of its own; a saved report can get further AI tasks    *)
(* (request_explanations).  `main` and `ai` are the tasks there really are, *)
(* `registered` is _analysis_tasks; _tasks and _cancel_events hold exactly  *)
(* the scans whose main task is active.  start, request_explanations,       *)
(* refresh_guidance and delete_reports hold the _admission lock, cancel     *)
(* does not.                                                                *)
(*                                                                          *)
(* The event loop is one thread: an action is what happens between two      *)
(* awaits, or a write that some coroutine awaits in a thread.  HostChecks   *)
(* has the collection this module shortens to its outcome, ReportStore the  *)
(* files behind one write.                                                  *)
(***************************************************************************)
EXTENDS Naturals, FiniteSets

CONSTANTS
    Scans,
    MaxJobs,      \* max_concurrent_scans
    MaxRetries,   \* bound: AI retries of a saved report
    MaxCancels,   \* bound: calls of cancel()
    MaxFaults,    \* bound: writes that raise
    MaxCrashes,   \* bound: process crashes
    NoScan

ASSUME JobsAssumption == MaxJobs \in Nat \ {0} /\ NoScan \notin Scans
ASSUME LimitsAssumption ==
    MaxRetries \in Nat /\ MaxCancels \in Nat /\ MaxFaults \in Nat /\ MaxCrashes \in Nat

\* _run starts at most two AI tasks: after collecting, and after handling an error.
Ids == 1 .. 2 + MaxRetries

VARIABLES
    doc,          \* the saved reports
    main,         \* where each scan's _run is
    stop,         \* each scan's cancel_event
    decided,      \* final_state, from the decision to the save
    handling,     \* _run is inside an except clause
    mine,         \* the AI task _run awaits
    ai,           \* where each AI task is
    ending,       \* the warning code an AI task will finish with
    registered,   \* _analysis_tasks, 0 for no entry
    issued,       \* AI tasks created so far
    stray,        \* writes of AI tasks cancelled while their thread ran
    admission,    \* what holds the admission lock
    canceller,    \* a call of cancel()
    retries, cancels, faults, crashes

task == <<ai, ending, registered, issued>>
run == <<main, decided, handling, mine>>
counts == <<retries, cancels, faults, crashes>>
vars == <<doc, run, stop, task, stray, admission, canceller, counts>>

Outcome == {"completed", "partial", "failed", "cancelled"}

\* In the phases before "analysis" only "checks" is told apart.
Report == [saved   : {"absent", "saved", "trash"},
           state   : Outcome \cup {"queued", "running"},
           phase   : {"checks", "analysis", "finished"},
           outcome : Outcome \cup {"none"},
           wording : {"not_started", "running", "ready", "failed"}]

-----------------------------------------------------------------------------
(* Transitions of a saved report *)

OutcomeSaved(d, o, explain) ==
    [d EXCEPT !.state = IF explain THEN "running" ELSE o,
              !.phase = IF explain THEN "analysis" ELSE "finished",
              !.outcome = o,
              !.wording = IF explain THEN "running" ELSE "not_started"]

Closed(d, s) == [d EXCEPT !.state = s, !.phase = "finished"]

\* Mutant: the outcome is taken from the state that was just overwritten.
AnalysisRequestedLate(d) ==
    [d EXCEPT !.state = "running", !.phase = "analysis", !.wording = "running",
              !.outcome = "running"]

AnalysisRequested(d) ==
    [d EXCEPT !.state = "running", !.phase = "analysis", !.wording = "running",
              !.outcome = d.state]

RetryRequested(d) ==
    [AnalysisRequested(d) EXCEPT !.outcome = IF d.outcome = "none" THEN d.state ELSE d.outcome]

\* Mutant: the status of the job is left out of the last write.
ExplanationsLeftOpen(d, code) == [d EXCEPT !.wording = IF code = "none" THEN @ ELSE "failed"]

\* finish, in _finish_explanations
ExplanationsFinished(d, code) ==
    [d EXCEPT !.phase = "finished",
              !.state = IF code = "cancelled" THEN "cancelled"
                        ELSE IF d.outcome = "none" THEN "completed" ELSE d.outcome,
              !.wording = IF code = "none" /\ d.wording = "ready" THEN "ready" ELSE "failed"]

\* list_incomplete_scan_ids
Incomplete(d) == d.saved = "saved" /\ (d.state \in {"queued", "running"} \/ d.phase = "analysis")

\* interrupted_document; whether a device was saved is the choice of s.
Interrupted(d, s) ==
    IF d.phase = "analysis" /\ d.wording = "running"
      THEN [d EXCEPT !.state = IF d.outcome = "none" THEN "failed" ELSE d.outcome,
                     !.phase = "finished", !.wording = "failed"]
      ELSE IF d.phase = "analysis" /\ d.state \in {"completed", "partial"}
        THEN [d EXCEPT !.phase = "finished"]
        ELSE Closed(d, s)

Ready(d) == d.saved = "saved" /\ d.state \in Outcome /\ d.phase = "finished"

Removable(d) == Ready(d) /\ d.wording # "running"

-----------------------------------------------------------------------------
(* Registries *)

Ended == {"none", "done", "cancelled", "failed"}

Active(s) == main[s] \notin {"none", "offered"}

AnalysisActive(s) == registered[s] # 0 /\ ai[s][registered[s]] \notin Ended

\* active_scan_ids
ActiveScans == {s \in Scans : Active(s) \/ AnalysisActive(s)}

HasCapacity == Cardinality(ActiveScans) < MaxJobs

Free == admission.kind = "free"

Admit(kind, s) == admission' = [kind |-> kind, scan |-> s]

Leave == Admit("free", NoScan)

Idle == [at |-> "idle", scan |-> NoScan, task |-> 0]

Init ==
    /\ doc = [s \in Scans |-> [saved |-> "absent", state |-> "queued", phase |-> "checks",
                               outcome |-> "none", wording |-> "not_started"]]
    /\ main = [s \in Scans |-> "none"]
    /\ stop = [s \in Scans |-> FALSE]
    /\ decided = [s \in Scans |-> "none"]
    /\ handling = [s \in Scans |-> FALSE]
    /\ mine = [s \in Scans |-> 0]
    /\ ai = [s \in Scans |-> [i \in Ids |-> "none"]]
    /\ ending = [s \in Scans |-> [i \in Ids |-> "none"]]
    /\ registered = [s \in Scans |-> 0]
    /\ issued = [s \in Scans |-> 0]
    /\ stray = {}
    /\ admission = [kind |-> "free", scan |-> NoScan]
    /\ canceller = Idle
    /\ retries = 0 /\ cancels = 0 /\ faults = 0 /\ crashes = 0

Save(s, d) == doc' = [doc EXCEPT ![s] = d]

Fault == faults < MaxFaults /\ faults' = faults + 1 /\ UNCHANGED <<retries, cancels, crashes>>

\* self._analysis_tasks[scan_id] = asyncio.create_task(self._run_explanations(scan_id))
CreateAnalysis(s) ==
    LET i == issued[s] + 1
    IN  /\ issued' = [issued EXCEPT ![s] = i]
        /\ registered' = [registered EXCEPT ![s] = i]
        /\ ai' = [ai EXCEPT ![s][i] = "created"]
        /\ UNCHANGED ending

-----------------------------------------------------------------------------
(* Starting a scan *)

CreateReport(s) ==
    /\ main[s] = "none" /\ doc[s].saved = "absent"
    /\ main' = [main EXCEPT ![s] = "offered"]
    /\ Save(s, [doc[s] EXCEPT !.saved = "saved"])
    /\ UNCHANGED <<stop, decided, handling, mine, task, stray, admission, canceller, counts>>

\* Mutant: start does not wait for the admission lock.
StartUnlocked(s) ==
    /\ main[s] = "offered"
    /\ IF HasCapacity
         THEN main' = [main EXCEPT ![s] = "created"] /\ UNCHANGED doc
         ELSE main' = [main EXCEPT ![s] = "none"] /\ Save(s, [doc[s] EXCEPT !.saved = "trash"])
    /\ UNCHANGED <<stop, decided, handling, mine, task, stray, admission, canceller, counts>>

\* ScanSupervisor.start; a scan that is refused loses its report (delete_scan).
Start(s) ==
    /\ Free
    /\ main[s] = "offered"
    /\ IF HasCapacity
         THEN main' = [main EXCEPT ![s] = "created"] /\ UNCHANGED doc
         ELSE main' = [main EXCEPT ![s] = "none"] /\ Save(s, [doc[s] EXCEPT !.saved = "trash"])
    /\ UNCHANGED <<stop, decided, handling, mine, task, stray, admission, canceller, counts>>

-----------------------------------------------------------------------------
(* _run *)

Advance(s, from, to) ==
    /\ main[s] = from
    /\ main' = [main EXCEPT ![s] = to]
    /\ UNCHANGED <<stop, stray, admission, canceller>>

BeginChecks(s) ==
    /\ Advance(s, "created", "checks")
    /\ Save(s, [doc[s] EXCEPT !.state = "running"])
    /\ UNCHANGED <<decided, handling, mine, task, counts>>

\* The collection comes to its end; cancel_event is read here and not again.
Collect(s) ==
    /\ Advance(s, "checks", "outcome")
    /\ \E o \in Outcome :
          /\ (o = "cancelled") = stop[s]
          /\ decided' = [decided EXCEPT ![s] = o]
    /\ UNCHANGED <<doc, handling, mine, task, counts>>

SaveOutcome(s) ==
    /\ Advance(s, "outcome", IF decided[s] = "cancelled" THEN "exit" ELSE "explain")
    /\ Save(s, OutcomeSaved(doc[s], decided[s], decided[s] # "cancelled"))
    /\ decided' = [decided EXCEPT ![s] = "none"]
    /\ UNCHANGED <<handling, mine, task, counts>>

Explain(s) ==
    /\ Advance(s, "explain", "await")
    /\ CreateAnalysis(s)
    /\ mine' = [mine EXCEPT ![s] = issued'[s]]
    /\ UNCHANGED <<doc, decided, handling, counts>>

\* await self._analysis_tasks[scan_id]; an exception out of an except clause
\* ends _run.
AnalysisEnds(s) ==
    /\ \E i \in Ids :
          /\ i = mine[s] /\ ai[s][i] \in Ended
          /\ Advance(s, "await",
                     IF ai[s][i] = "failed" /\ ~handling[s] THEN "handler" ELSE "exit")
    /\ mine' = [mine EXCEPT ![s] = 0]
    /\ UNCHANGED <<doc, decided, handling, task, counts>>

\* A check or a write of the collection raises: QueueCancelled after a user's
\* cancel, anything else at any time.  QueueCancelled with an interrupted network
\* is handled as other errors are.
RunFails(s) ==
    \/ /\ Advance(s, "checks", "handler")
       /\ UNCHANGED <<doc, decided, handling, mine, task, counts>>
    \/ /\ stop[s] /\ Advance(s, "checks", "withdrawn")
       /\ UNCHANGED <<doc, decided, handling, mine, task, counts>>
    \/ /\ Advance(s, "outcome", "handler") /\ Fault
       /\ decided' = [decided EXCEPT ![s] = "none"]
       /\ UNCHANGED <<doc, handling, mine, task>>

\* except QueueCancelled: without an interrupted network the scan is cancelled.
FinishWithdrawn(s) ==
    /\ Advance(s, "withdrawn", "exit")
    /\ Save(s, Closed(doc[s], "cancelled"))
    /\ UNCHANGED <<decided, handling, mine, task, counts>>

\* except Exception: after a size limit no wording is asked for, after a
\* cancel only if the network had changed.
FinishFailed(s) ==
    /\ \E to \in {"exit", "resume"} : Advance(s, "handler", to)
    /\ \E o \in {"partial", "failed"} : Save(s, Closed(doc[s], o))
    /\ handling' = [handling EXCEPT ![s] = TRUE]
    /\ UNCHANGED <<decided, mine, task, counts>>

\* request_analysis_after_failure
Resume(s) ==
    /\ Advance(s, "resume", "explain")
    /\ Save(s, AnalysisRequested(doc[s]))
    /\ UNCHANGED <<decided, handling, mine, task, counts>>

\* A write in an except clause raises.
HandlerFails(s) ==
    /\ \E from \in {"withdrawn", "handler", "resume"} : Advance(s, from, "exit")
    /\ Fault
    /\ UNCHANGED <<doc, decided, handling, mine, task>>

\* finally: the registries forget the scan.
Exit(s) ==
    /\ main[s] = "exit"
    /\ main' = [main EXCEPT ![s] = "none"]
    /\ stop' = [stop EXCEPT ![s] = FALSE]
    /\ handling' = [handling EXCEPT ![s] = FALSE]
    /\ UNCHANGED <<doc, decided, mine, task, stray, admission, canceller, counts>>

-----------------------------------------------------------------------------
(* AI tasks: execute_analysis and explain_scan *)

Move(s, i, from, to) ==
    /\ ai[s][i] = from
    /\ ai' = [ai EXCEPT ![s][i] = to]
    /\ UNCHANGED <<run, stop, issued, admission, canceller>>

End(s, i, code) == ending' = [ending EXCEPT ![s][i] = code]

StartExplanations(s, i) ==
    /\ Move(s, i, "created", "queue")
    /\ UNCHANGED <<doc, ending, registered, stray, counts>>

\* The analysis slot is one for all scans; explain_scan first marks the report.
TakeSlot(s, i) ==
    /\ \A t \in Scans, j \in Ids : ai[t][j] # "model"
    /\ Move(s, i, "queue", "model")
    /\ Save(s, [doc[s] EXCEPT !.wording = "running"])
    /\ UNCHANGED <<ending, registered, stray, counts>>

SaveWording(s, i) ==
    /\ Move(s, i, "model", "finish")
    /\ \E w \in {"ready", "failed"} : Save(s, [doc[s] EXCEPT !.wording = w])
    /\ UNCHANGED <<ending, registered, stray, counts>>

\* QueueExpired, the deadline of the stage, or an error.
ExplainFails(s, i) ==
    /\ \E from \in {"queue", "model"} : Move(s, i, from, "finish")
    /\ End(s, i, "failed")
    /\ UNCHANGED <<doc, registered, stray, counts>>

\* finally: self._analysis_tasks.pop(scan_id, None), whichever task is there
Unregister(s) == registered' = [registered EXCEPT ![s] = 0]

FinishExplanations(s, i) ==
    /\ Move(s, i, "finish", IF ending[s][i] = "cancelled" THEN "cancelled" ELSE "done")
    /\ IF doc[s].saved = "saved" THEN Save(s, ExplanationsFinished(doc[s], ending[s][i]))
                                 ELSE UNCHANGED doc
    /\ Unregister(s)
    /\ UNCHANGED <<ending, stray, counts>>

FinishFails(s, i) ==
    /\ Move(s, i, "finish", "failed")
    /\ Fault /\ Unregister(s)
    /\ UNCHANGED <<doc, ending, stray>>

\* What task.cancel() makes of an AI task: before its first step it ends
\* without running a line of it; its finally clause runs in all other cases.
CancelTask(s, i) ==
    LET at == ai[s][i]
        to == CASE at \in Ended -> at
                [] at \in {"queue", "model"} -> "finish"
                [] OTHER -> "cancelled"
        Left == CASE at = "model"  -> {"running", "ready", "failed"}
                  [] at = "finish" -> {"finish"}
                  [] OTHER -> {}
    IN  /\ ai' = [ai EXCEPT ![s][i] = to]
        /\ ending' = [ending EXCEPT ![s][i] = IF at \in {"queue", "model"} THEN "cancelled" ELSE @]
        /\ registered' = [registered EXCEPT ![s] = IF at = "finish" THEN 0 ELSE @]
        /\ \/ UNCHANGED stray
           \/ \E w \in Left : stray' = stray \cup {[scan |-> s, write |-> w, code |-> ending[s][i]]}

\* The thread of a cancelled write gets the report's file lock, or gives up.
StrayWrite ==
    /\ \E x \in stray :
          /\ stray' = stray \ {x}
          /\ \/ /\ doc[x.scan].saved = "saved"
                /\ Save(x.scan, IF x.write = "finish"
                                  THEN ExplanationsFinished(doc[x.scan], x.code)
                                  ELSE [doc[x.scan] EXCEPT !.wording = x.write])
             \/ UNCHANGED doc
    /\ UNCHANGED <<run, stop, task, admission, canceller, counts>>

-----------------------------------------------------------------------------
(* Operations under the admission lock *)

Unchanged == UNCHANGED <<run, stop, stray, canceller>>

\* request_explanations: the two registry checks
BeginRetry(s) ==
    /\ Free /\ retries < MaxRetries /\ doc[s].saved = "saved"
    /\ ~Active(s) /\ ~AnalysisActive(s)
    /\ Admit("retry", s)
    /\ retries' = retries + 1
    /\ Unchanged /\ UNCHANGED <<doc, task, cancels, faults, crashes>>

\* the report as loaded, then the capacity, decide
CheckRetry(s) ==
    /\ admission = [kind |-> "retry", scan |-> s]
    /\ IF Ready(doc[s]) /\ HasCapacity THEN Admit("save", s) ELSE Leave
    /\ Unchanged /\ UNCHANGED <<doc, task, counts>>

SaveRetry(s) ==
    /\ admission = [kind |-> "save", scan |-> s]
    /\ Save(s, RetryRequested(doc[s]))
    /\ Admit("register", s)
    /\ Unchanged /\ UNCHANGED <<task, counts>>

RetryFails(s) ==
    /\ admission = [kind |-> "save", scan |-> s]
    /\ Fault /\ Leave
    /\ Unchanged /\ UNCHANGED <<doc, task>>

RegisterRetry(s) ==
    /\ admission = [kind |-> "register", scan |-> s]
    /\ CreateAnalysis(s)
    /\ Leave
    /\ Unchanged /\ UNCHANGED <<doc, counts>>

\* delete_reports and refresh_guidance: one registry check, then one step of
\* the store under the report's file lock, which checks the report again.
BeginMaintenance(s) ==
    /\ Free /\ doc[s].saved = "saved"
    /\ s \notin ActiveScans
    /\ \E kind \in {"delete", "refresh"} : Admit(kind, s)
    /\ Unchanged /\ UNCHANGED <<doc, task, counts>>

Delete(s) ==
    /\ admission = [kind |-> "delete", scan |-> s]
    /\ IF Removable(doc[s]) THEN Save(s, [doc[s] EXCEPT !.saved = "trash"]) ELSE UNCHANGED doc
    /\ Leave
    /\ Unchanged /\ UNCHANGED <<task, counts>>

\* New guidance drops the wording; a report that needs none is left as it is.
RefreshGuidance(s) ==
    /\ admission = [kind |-> "refresh", scan |-> s]
    /\ \/ Ready(doc[s]) /\ Save(s, [doc[s] EXCEPT !.wording = "not_started"])
       \/ UNCHANGED doc
    /\ Leave
    /\ Unchanged /\ UNCHANGED <<task, counts>>

-----------------------------------------------------------------------------
(* cancel() *)

BeginCancel(s) ==
    /\ canceller = Idle /\ cancels < MaxCancels
    /\ Active(s) \/ AnalysisActive(s)
    /\ cancels' = cancels + 1
    /\ stop' = [stop EXCEPT ![s] = Active(s)]
    /\ IF registered[s] = 0
         THEN UNCHANGED <<ai, ending, registered, stray, canceller>>
         ELSE /\ CancelTask(s, registered[s])
              /\ canceller' = [at |-> "gather", scan |-> s, task |-> registered[s]]
    /\ UNCHANGED <<doc, run, issued, admission, retries, faults, crashes>>

Cancelling(s, from, to) ==
    /\ canceller.at = from /\ canceller.scan = s
    /\ canceller' = IF to = "idle" THEN Idle ELSE [canceller EXCEPT !.at = to]
    /\ UNCHANGED <<run, stop, ai, ending, issued, stray, admission>>

\* await asyncio.gather(task), then the report is loaded
AwaitTask(s) ==
    /\ \E i \in Ids : i = canceller.task /\ ai[s][i] \in Ended
    /\ Cancelling(s, "gather", IF doc[s].phase = "analysis" THEN "finish" ELSE "pop")
    /\ UNCHANGED <<doc, registered, counts>>

\* Mutant: cancel leaves a report whose task never ran as it is.
NoFinishAfterCancel(s) ==
    /\ Cancelling(s, "finish", "pop")
    /\ UNCHANGED <<doc, registered, counts>>

FinishCancelled(s) ==
    /\ Cancelling(s, "finish", "pop")
    /\ Save(s, ExplanationsFinished(doc[s], "cancelled"))
    /\ UNCHANGED <<registered, counts>>

CancelFails(s) ==
    /\ Cancelling(s, "finish", "idle") /\ Fault
    /\ UNCHANGED <<doc, registered>>

PopTask(s) ==
    /\ Cancelling(s, "pop", "idle")
    /\ Unregister(s)
    /\ UNCHANGED <<doc, counts>>

-----------------------------------------------------------------------------

\* The process dies; reconcile_incomplete closes the reports it left open.
CrashAndReconcile ==
    /\ crashes < MaxCrashes /\ crashes' = crashes + 1
    /\ \E o \in [Scans -> {"partial", "failed"}] :
          doc' = [s \in Scans |-> IF Incomplete(doc[s]) THEN Interrupted(doc[s], o[s]) ELSE doc[s]]
    /\ main' = [s \in Scans |-> "none"]
    /\ stop' = [s \in Scans |-> FALSE]
    /\ decided' = [s \in Scans |-> "none"]
    /\ handling' = [s \in Scans |-> FALSE]
    /\ mine' = [s \in Scans |-> 0]
    /\ ai' = [s \in Scans |-> [i \in Ids |-> IF ai[s][i] = "none" THEN "none" ELSE "done"]]
    /\ registered' = [s \in Scans |-> 0]
    /\ stray' = {}
    /\ Leave
    /\ canceller' = Idle
    /\ UNCHANGED <<ending, issued, retries, cancels, faults>>

Run(s) ==
    \/ BeginChecks(s) \/ Collect(s) \/ SaveOutcome(s) \/ Explain(s) \/ AnalysisEnds(s)
    \/ RunFails(s) \/ FinishWithdrawn(s) \/ FinishFailed(s) \/ Resume(s) \/ HandlerFails(s)
    \/ Exit(s)

RunExplanations(s, i) ==
    \/ StartExplanations(s, i) \/ TakeSlot(s, i) \/ SaveWording(s, i) \/ ExplainFails(s, i)
    \/ FinishExplanations(s, i) \/ FinishFails(s, i)

Administer(s) ==
    \/ CheckRetry(s) \/ SaveRetry(s) \/ RetryFails(s) \/ RegisterRetry(s)
    \/ Delete(s) \/ RefreshGuidance(s)

Cancel(s) == AwaitTask(s) \/ FinishCancelled(s) \/ CancelFails(s) \/ PopTask(s)

Request(s) ==
    \/ CreateReport(s) \/ Start(s) \/ BeginRetry(s) \/ BeginMaintenance(s) \/ BeginCancel(s)

Next ==
    \/ \E s \in Scans : Request(s) \/ Run(s) \/ Administer(s) \/ Cancel(s)
    \/ \E s \in Scans, i \in Ids : RunExplanations(s, i)
    \/ StrayWrite \/ CrashAndReconcile

Spec == Init /\ [][Next]_vars

\* The event loop runs what is ready; every wait has a timeout; the admission
\* lock (asyncio.Lock) is first come, first served.
Fairness ==
    \A s \in Scans :
        /\ WF_vars(Run(s)) /\ WF_vars(Administer(s)) /\ WF_vars(Cancel(s))
        /\ SF_vars(Start(s))
        /\ \A i \in Ids : WF_vars(RunExplanations(s, i))

FairSpec == Spec /\ Fairness

-----------------------------------------------------------------------------

TypeOK ==
    /\ doc \in [Scans -> Report]
    /\ main \in [Scans -> {"none", "offered", "created", "checks", "outcome", "explain", "await",
                           "handler", "withdrawn", "resume", "exit"}]
    /\ stop \in [Scans -> BOOLEAN]
    /\ decided \in [Scans -> Outcome \cup {"none"}]
    /\ handling \in [Scans -> BOOLEAN]
    /\ mine \in [Scans -> {0} \cup Ids]
    /\ ai \in [Scans -> [Ids -> Ended \cup {"created", "queue", "model", "finish"}]]
    /\ ending \in [Scans -> [Ids -> {"none", "failed", "cancelled"}]]
    /\ registered \in [Scans -> {0} \cup Ids]
    /\ issued \in [Scans -> {0} \cup Ids]
    /\ stray \subseteq [scan : Scans, write : {"running", "ready", "failed", "finish"},
                        code : {"none", "failed", "cancelled"}]
    /\ admission \in [kind : {"free", "retry", "save", "register", "delete", "refresh"},
                      scan : Scans \cup {NoScan}]
    /\ canceller \in [at : {"idle", "gather", "finish", "pop"}, scan : Scans \cup {NoScan},
                      task : {0} \cup Ids]
    /\ retries \in 0 .. MaxRetries /\ cancels \in 0 .. MaxCancels
    /\ faults \in 0 .. MaxFaults /\ crashes \in 0 .. MaxCrashes

\* Tasks that really run, whatever the registries say.
Working(s) == Active(s) \/ \E i \in Ids : ai[s][i] \notin Ended

\* A report that says it is queued, running or in analysis has somebody who
\* will finish it: a task, a cancel() or an admission in progress.  Nothing but
\* a failed write leaves one to the next restart.
NoReportIsStuck ==
    faults = 0 =>
        \A s \in Scans : Incomplete(doc[s]) =>
            \/ Working(s) \/ main[s] = "offered"
            \/ canceller.scan = s
            \/ admission = [kind |-> "register", scan |-> s]

\* Admission, AI retries and deletions cannot make the registries hold more
\* jobs than max_concurrent_scans.
RegisteredWithinLimit == Cardinality(ActiveScans) \leq MaxJobs

\* While writes succeed, the outcome a collection saved is never replaced, not
\* by AI tasks, retries, cancellations, restarts or the order they come in.
OutcomeIsKept ==
    [][ \A s \in Scans :
           faults' = 0 /\ doc[s].outcome # "none" => doc'[s].outcome = doc[s].outcome ]_vars

\* docs/decisions.md: "Collection saves its outcome before AI preparation", and
\* test_restart_after_collection_preserves_outcome_and_retryable_ai: a restart
\* during the analysis phase gives the report its saved outcome.
RestartKeepsOutcome ==
    [][ \A s \in Scans :
           crashes' # crashes /\ doc[s].phase = "analysis" /\ doc[s].outcome # "none"
               => doc'[s].state = doc[s].outcome ]_vars

\* docs/architecture-current.md: "Supervisor admission serializes removal with
\* scan/AI retries".  No report is removed while a task still works on it.
RemovalWaitsForJobs ==
    [][ \A s \in Scans :
           main[s] = "none" /\ doc[s].saved = "saved" /\ Working(s)
               => doc'[s].saved = "saved" ]_vars

\* Every report that is queued, running or in analysis is finished or removed in
\* the end, whatever is cancelled or retried meanwhile, unless a write fails or the
\* process ends: then it is left to a restart.
ReportsFinish ==
    \A s \in Scans : Incomplete(doc[s]) ~> (~Incomplete(doc[s]) \/ faults > 0 \/ crashes > 0)

=============================================================================
