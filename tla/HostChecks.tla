------------------------------ MODULE HostChecks ------------------------------
(***************************************************************************)
(* The service-check stage of one scan, from ScanSupervisor._run in        *)
(* src/app/jobs/supervisor.py to the outcome it saves: two workers probe   *)
(* the target hosts, every step of a check is a checkpoint of the report's *)
(* coverage, and a user's cancel, a changed network, an expired budget or  *)
(* queue wait, a failing write or a crash may stop it anywhere.            *)
(*                                                                         *)
(* Workers are coroutines of one thread, so an action is what a coroutine  *)
(* does between two awaits.  A checkpoint runs in a thread of its own:     *)
(* when the coroutine that awaits it is cancelled the write is dropped if  *)
(* its thread had not started, and otherwise carries on with nobody        *)
(* waiting for it.  Those writes are `late`.  HostAttempt records are      *)
(* shielded (_record_host_attempt): a first cancellation waits for them.   *)
(***************************************************************************)
EXTENDS Naturals, FiniteSets

CONSTANTS
    Hosts,       \* the targets that are eligible for a service check
    Workers,     \* min(2, number of hosts) of them: some, if there is a host
    Nowhere,     \* the host of a worker that has taken none
    MaxFaults,   \* bound: writes of the job that raise (lock timeout, limits)
    MaxCrashes   \* bound: process crashes

ASSUME HostsAssumption == IsFiniteSet(Hosts) /\ Nowhere \notin Hosts
ASSUME WorkersAssumption == Hosts # {} => Workers # {}
ASSUME FaultAssumption == MaxFaults \in Nat /\ MaxCrashes \in Nat

VARIABLES
    doc,         \* the saved report: coverage, devices and outcome
    stopping,    \* cancel_event
    guardFailed, \* NetworkGuard.failed, which latches
    spent,       \* the execution budget has run out
    remaining,   \* the iterator the workers share
    pc, host, try, verdict,   \* each worker: its place, host, attempt, result
    cancels,     \* history: how often each worker's task was cancelled
    main,        \* where _run is
    cause,       \* the first exception out of a worker, or of _run itself
    outcome,     \* final_state, decided before it is saved
    late,        \* writes running in threads nobody awaits
    escaped,     \* history: a late write changed a closed report
    launched,    \* history: the <<host, attempt>> probes that were started
    faults, crashes

worker == <<remaining, pc, host, try, verdict, cancels>>
signals == <<stopping, guardFailed, spent>>
history == <<escaped, launched>>
vars == <<doc, signals, worker, main, cause, outcome, late, history, faults, crashes>>

Status == {"pending", "running", "completed", "failed", "skipped", "cancelled"}
Attempts == 1 .. 2
Outcome == {"completed", "partial", "failed", "cancelled"}

-----------------------------------------------------------------------------
(* Coverage *)

With(d, h, s) == [d EXCEPT !.status[h] = s]

MarkRunning(d, h) == With(d, h, "running")

MarkAttempt(d, h, n) == [d EXCEPT !.attempts[h] = n]

AppendAttempt(d, h, n) == [d EXCEPT !.details[h] = @ \cup {n}]

Commit(d, h) ==
    [With(d, h, "completed") EXCEPT !.completed = @ + 1, !.devices = @ \cup {h}]

MarkHostFailure(d, h, cancelled) ==
    IF cancelled THEN With(d, h, "cancelled")
                 ELSE [With(d, h, "failed") EXCEPT !.failed = @ + 1]

Unfinished(d) == {h \in Hosts : d.status[h] \in {"pending", "running"}}

\* Mutant: cancelled checks are counted as failed ones too.
CloseCountingCancelled(d, reason) ==
    [d EXCEPT
        !.status = [h \in Hosts |-> IF h \in Unfinished(d) THEN "cancelled" ELSE @[h]],
        !.failed = @ + Cardinality(Unfinished(d))]

\* A host whose queue wait expired before its first attempt is skipped.
CloseUnfinished(d, reason) ==
    LET Queued == {h \in Unfinished(d) : reason = "QueueExpired" /\ d.attempts[h] = 0}
        Closed(h) == CASE reason = "cancelled" -> "cancelled"
                       [] h \in Queued         -> "skipped"
                       [] OTHER                -> "failed"
    IN  [d EXCEPT
            !.status = [h \in Hosts |-> IF h \in Unfinished(d) THEN Closed(h) ELSE @[h]],
            !.skipped = @ + Cardinality(Queued),
            !.failed = @ + Cardinality({h \in Unfinished(d) : Closed(h) = "failed"})]

Interrupted(d) ==
    [d EXCEPT
        !.status = [h \in Hosts |-> IF h \in Unfinished(d) THEN "cancelled" ELSE @[h]],
        !.outcome = IF d.devices = {} THEN "failed" ELSE "partial"]

\* The writes a worker awaits, or leaves behind.
Apply(op, d) ==
    CASE op.kind = "mark"    -> MarkRunning(d, op.host)
      [] op.kind = "attempt" -> MarkAttempt(d, op.host, op.try)
      [] op.kind = "record"  -> AppendAttempt(d, op.host, op.try)
      [] op.kind = "ok"      -> Commit(d, op.host)
      [] op.kind = "fail"    -> MarkHostFailure(d, op.host, FALSE)
      [] op.kind = "cancel"  -> MarkHostFailure(d, op.host, TRUE)

Writing == {"mark", "attempt", "record", "rescue", "drain", "settle"}

Op(w) ==
    [kind |-> CASE pc[w] \in {"record", "rescue", "drain"} -> "record"
                [] pc[w] = "settle" -> verdict[w]
                [] OTHER -> pc[w],
     host |-> host[w],
     try  |-> try[w]]

-----------------------------------------------------------------------------

Init ==
    /\ doc = [status    |-> [h \in Hosts |-> "pending"],
              attempts  |-> [h \in Hosts |-> 0],
              details   |-> [h \in Hosts |-> {}],
              devices   |-> {},
              completed |-> 0, failed |-> 0, skipped |-> 0,
              outcome   |-> "none"]
    /\ stopping = FALSE /\ guardFailed = FALSE /\ spent = FALSE
    /\ remaining = Hosts
    /\ pc = [w \in Workers |-> "loop"]
    /\ host = [w \in Workers |-> Nowhere]
    /\ try = [w \in Workers |-> 1]
    /\ verdict = [w \in Workers |-> "ok"]
    /\ cancels = [w \in Workers |-> 0]
    /\ main = "gather" /\ cause = "none" /\ outcome = "none"
    /\ late = {} /\ escaped = FALSE /\ launched = {}
    /\ faults = 0 /\ crashes = 0

Over == {"done", "dead"}

At(w, p) == pc[w] = p

Goto(w, p) == pc' = [pc EXCEPT ![w] = p] /\ UNCHANGED cause

\* asyncio.gather hands the first exception to _run.
Raise(w, exception) ==
    /\ pc' = [pc EXCEPT ![w] = "dead"]
    /\ cause' = IF cause = "none" THEN exception ELSE cause

\* What no step of a worker changes.
Alone == UNCHANGED <<stopping, spent, cancels, main, outcome, late, escaped, crashes>>

\* while not cancel_event.is_set(): ip = next(remaining_hosts, None)
TakeHost(w) ==
    /\ At(w, "loop")
    /\ IF stopping \/ remaining = {}
         THEN Goto(w, "done") /\ UNCHANGED <<remaining, host, try>>
         ELSE \E h \in remaining :
                 /\ remaining' = remaining \ {h}
                 /\ host' = [host EXCEPT ![w] = h]
                 /\ try' = [try EXCEPT ![w] = 1]
                 /\ Goto(w, "slot")
    /\ Alone /\ UNCHANGED <<doc, guardFailed, verdict, launched, faults>>

\* capacity_slot and execution_budget.run.  Other jobs hold slots too, so how
\* long the wait takes is open.
LeaveQueue(w) ==
    /\ At(w, "slot")
    /\ \/ stopping /\ Raise(w, "QueueCancelled")
       \/ ~stopping /\ Raise(w, "QueueExpired")
       \/ ~stopping /\ spent /\ Raise(w, "Error")
       \/ ~stopping /\ ~spent /\ Goto(w, "mark")
    /\ Alone /\ UNCHANGED <<doc, guardFailed, remaining, host, try, verdict, launched, faults>>

\* guard.check() before an attempt
CheckGuard(w) ==
    /\ At(w, "check")
    /\ \/ ~guardFailed /\ Goto(w, "attempt") /\ UNCHANGED guardFailed
       \/ guardFailed' = TRUE /\ Raise(w, "Error")
    /\ Alone /\ UNCHANGED <<doc, remaining, host, try, verdict, launched, faults>>

\* The scanner process ends, or _run_scanner raises.
EndProbe(w) ==
    /\ At(w, "probe")
    /\ \/ /\ \E v \in {"ok", "retry", "fail"} :
                /\ v = "retry" => ~guardFailed
                /\ verdict' = [verdict EXCEPT ![w] = v]
          /\ Goto(w, "record")
       \/ Goto(w, "rescue") /\ UNCHANGED verdict
    /\ Alone /\ UNCHANGED <<doc, guardFailed, remaining, host, try, launched, faults>>

\* The write the worker awaits is saved, and the worker goes on.
Saved(w, p) == At(w, p) /\ doc' = Apply(Op(w), doc)

SaveMark(w) ==
    /\ Saved(w, "mark") /\ Goto(w, "check")
    /\ Alone /\ UNCHANGED <<guardFailed, remaining, host, try, verdict, launched, faults>>

\* run_process starts nothing once cancel_event is set.
SaveAttempt(w) ==
    /\ Saved(w, "attempt")
    /\ IF stopping
         THEN Goto(w, "record") /\ UNCHANGED launched
         ELSE Goto(w, "probe") /\ launched' = launched \cup {<<host[w], try[w]>>}
    /\ Alone /\ UNCHANGED <<guardFailed, remaining, host, try, verdict, faults>>

\* Mutant: one retry too many.
RetriesTwice(w) == ~stopping /\ verdict[w] = "retry" /\ try[w] \leq 2

Retries(w) == ~stopping /\ verdict[w] = "retry" /\ try[w] = 1

SaveRecord(w) ==
    /\ Saved(w, "record")
    /\ IF Retries(w)
         THEN /\ try' = [try EXCEPT ![w] = @ + 1]
              /\ Goto(w, "check")
              /\ UNCHANGED verdict
         ELSE /\ verdict' = [verdict EXCEPT ![w] = IF stopping THEN "cancel"
                                                   ELSE IF @ = "ok" THEN "ok" ELSE "fail"]
              /\ Goto(w, "settle")
              /\ UNCHANGED try
    /\ Alone /\ UNCHANGED <<guardFailed, remaining, host, launched, faults>>

SaveResult(w) ==
    /\ Saved(w, "settle") /\ Goto(w, "loop")
    /\ Alone /\ UNCHANGED <<guardFailed, remaining, host, try, verdict, launched, faults>>

\* The record of a probe that raised, or one a cancellation waited for.
SaveLastRecord(w) ==
    /\ \E p \in {"rescue", "drain"} : Saved(w, p)
    /\ Raise(w, "Error")
    /\ Alone /\ UNCHANGED <<guardFailed, remaining, host, try, verdict, launched, faults>>

\* The write raises: StorageLockTimeout, DocumentTooLarge, OSError.
SaveFails(w) ==
    /\ pc[w] \in Writing /\ faults < MaxFaults
    /\ faults' = faults + 1
    /\ Raise(w, "Error")
    /\ Alone /\ UNCHANGED <<doc, guardFailed, remaining, host, try, verdict, launched>>

-----------------------------------------------------------------------------
(* Cancellation of worker tasks *)

\* Mutant: the attempt record is not shielded.
InterruptUnshielded(p) == IF p = "probe" THEN "rescue" ELSE "dead"

\* Where CancelledError leaves a worker: a probe is recorded before the error
\* goes on, and a record that is being saved is waited for.
Interrupt(p) ==
    CASE p = "probe" -> "rescue"
      [] p \in {"record", "rescue"} -> "drain"
      [] OTHER -> "dead"

CancelTasks(S) ==
    /\ pc' = [w \in Workers |-> IF w \in S THEN Interrupt(pc[w]) ELSE pc[w]]
    /\ cancels' = [w \in Workers |-> IF w \in S THEN cancels[w] + 1 ELSE cancels[w]]
    /\ \E L \in SUBSET {w \in S : pc[w] \in Writing /\ Interrupt(pc[w]) = "dead"} :
          late' = late \cup {Op(w) : w \in L}

Inside == {w \in Workers : pc[w] \in Writing \cup {"check", "probe"}}

\* The workers of a job share one budget, and so one deadline (ExecutionBudget).
ExpireBudget ==
    /\ Inside # {} /\ ~spent
    /\ spent' = TRUE
    /\ CancelTasks(Inside)
    /\ cause' = IF cause = "none" /\ (\E w \in Inside : pc'[w] = "dead") THEN "Error" ELSE cause
    /\ UNCHANGED <<doc, stopping, guardFailed, remaining, host, try, verdict, main, outcome,
                   history, faults, crashes>>

\* finally: for task in workers: if not task.done(): task.cancel()
CancelSiblings ==
    /\ main = "gather" /\ cause # "none"
    /\ main' = "unwind"
    /\ CancelTasks({w \in Workers : pc[w] \notin Over})
    /\ UNCHANGED <<doc, signals, remaining, host, try, verdict, cause, outcome,
                   history, faults, crashes>>

\* A write nobody awaits any more reaches the store, or fails there.
LateWrite ==
    /\ \E op \in late :
          /\ late' = late \ {op}
          /\ \/ /\ doc' = Apply(op, doc)
                /\ escaped' = (escaped \/ doc.outcome # "none")
             \/ UNCHANGED <<doc, escaped>>
    /\ UNCHANGED <<signals, worker, main, cause, outcome, launched, faults, crashes>>

-----------------------------------------------------------------------------
(* _run *)

Main(from, to) ==
    /\ main = from /\ main' = to
    /\ UNCHANGED <<stopping, spent, worker, late, history, crashes>>

Gathered ==
    /\ Main("gather", "after")
    /\ \A w \in Workers : pc[w] = "done"
    /\ UNCHANGED <<doc, guardFailed, cause, outcome, faults>>

\* Mutant: _run handles the first exception without waiting for the others.
UnwoundEarly == Main("unwind", "handler") /\ UNCHANGED <<doc, guardFailed, cause, outcome, faults>>

\* Mutant: the workers that had finished are waited for as if cancelled.
UnwoundAllDead ==
    /\ Main("unwind", "handler")
    /\ \A w \in Workers : pc[w] = "dead"
    /\ UNCHANGED <<doc, guardFailed, cause, outcome, faults>>

Unwound ==
    /\ Main("unwind", "handler")
    /\ \A w \in Workers : pc[w] \in Over
    /\ UNCHANGED <<doc, guardFailed, cause, outcome, faults>>

\* Names, details and the guard's last checks.
FinishStage ==
    /\ Main("after", "decide")
    /\ ~guardFailed
    /\ UNCHANGED <<doc, guardFailed, cause, outcome, faults>>

GuardStopsRun ==
    /\ Main("after", "handler")
    /\ guardFailed' = TRUE /\ cause' = "Error"
    /\ UNCHANGED <<doc, outcome, faults>>

\* Also a mutant of FinalState: a stopped scan is judged by its counters alone.
FinalStateByCounts ==
    IF doc.failed > 0 THEN IF doc.completed > 0 THEN "partial" ELSE "failed" ELSE "completed"

FinalState == IF stopping THEN "cancelled" ELSE FinalStateByCounts

DecideOutcome ==
    /\ Main("decide", IF FinalState = "cancelled" THEN "close" ELSE "outcome")
    /\ outcome' = FinalState
    /\ UNCHANGED <<doc, guardFailed, cause, faults>>

CloseCancelled ==
    /\ Main("close", "outcome")
    /\ doc' = CloseUnfinished(doc, "cancelled")
    /\ UNCHANGED <<guardFailed, cause, outcome, faults>>

SaveOutcome ==
    /\ Main("outcome", "end")
    /\ doc' = [doc EXCEPT !.outcome = outcome]
    /\ UNCHANGED <<guardFailed, cause, outcome, faults>>

\* A checkpoint of _run itself raises.
RunFails ==
    /\ faults < MaxFaults /\ faults' = faults + 1
    /\ \E from \in {"after", "close", "outcome"} : Main(from, "handler")
    /\ cause' = "Error"
    /\ UNCHANGED <<doc, guardFailed, outcome>>

\* Mutant: the handler saves the state and leaves coverage as it was.
FinishedUnclosed == [doc EXCEPT !.outcome = IF doc.devices = {} THEN "failed" ELSE "partial"]

\* except QueueCancelled / except Exception: store.finish_scan(...)
Finished ==
    LET user == cause = "QueueCancelled" /\ ~guardFailed
        d == CloseUnfinished(doc, IF user THEN "cancelled" ELSE cause)
    IN  [d EXCEPT !.outcome = IF user THEN "cancelled"
                              ELSE IF doc.devices = {} THEN "failed" ELSE "partial"]

HandleError ==
    /\ Main("handler", "end")
    /\ \/ doc' = Finished /\ UNCHANGED faults
       \/ faults < MaxFaults /\ faults' = faults + 1 /\ UNCHANGED doc
    /\ UNCHANGED <<guardFailed, cause, outcome>>

-----------------------------------------------------------------------------
(* The environment *)

UserCancels ==
    /\ main # "end" /\ ~stopping /\ stopping' = TRUE
    /\ UNCHANGED <<doc, guardFailed, spent, worker, main, cause, outcome, late, history,
                   faults, crashes>>

\* watch_network finds another network, every two seconds until _run decides.
NetworkChanges ==
    /\ main \in {"gather", "unwind", "after"} /\ ~(guardFailed /\ stopping)
    /\ guardFailed' = TRUE /\ stopping' = TRUE
    /\ UNCHANGED <<doc, spent, worker, main, cause, outcome, late, history, faults, crashes>>

\* The process dies and reconcile_incomplete runs before the next one serves.
CrashAndReconcile ==
    /\ crashes < MaxCrashes /\ crashes' = crashes + 1
    /\ main' = "end"
    /\ pc' = [w \in Workers |-> "dead"]
    /\ late' = {}
    /\ doc' = IF doc.outcome = "none" THEN Interrupted(doc) ELSE doc
    /\ UNCHANGED <<signals, remaining, host, try, verdict, cancels, cause, outcome, history, faults>>

Work(w) ==
    \/ TakeHost(w) \/ LeaveQueue(w) \/ CheckGuard(w) \/ EndProbe(w)
    \/ SaveMark(w) \/ SaveAttempt(w) \/ SaveRecord(w) \/ SaveResult(w) \/ SaveLastRecord(w)
    \/ SaveFails(w)

Run ==
    \/ CancelSiblings \/ Gathered \/ Unwound \/ FinishStage \/ GuardStopsRun
    \/ DecideOutcome \/ CloseCancelled \/ SaveOutcome \/ RunFails \/ HandleError

Next ==
    \/ \E w \in Workers : Work(w)
    \/ Run \/ LateWrite \/ ExpireBudget
    \/ UserCancels \/ NetworkChanges \/ CrashAndReconcile

Spec == Init /\ [][Next]_vars

\* The event loop runs what is ready, every wait in it has a timeout.
Fairness == WF_vars(Run) /\ \A w \in Workers : WF_vars(Work(w))

FairSpec == Spec /\ Fairness

-----------------------------------------------------------------------------

OpType == [kind : {"mark", "attempt", "record", "ok", "fail", "cancel"}, host : Hosts, try : Attempts]

TypeOK ==
    /\ doc \in [status    : [Hosts -> Status],
                attempts  : [Hosts -> {0} \cup Attempts],
                details   : [Hosts -> SUBSET Attempts],
                devices   : SUBSET Hosts,
                completed : Nat, failed : Nat, skipped : Nat,
                outcome   : Outcome \cup {"none"}]
    /\ stopping \in BOOLEAN /\ guardFailed \in BOOLEAN /\ spent \in BOOLEAN
    /\ remaining \subseteq Hosts
    /\ pc \in [Workers -> Writing \cup Over \cup {"loop", "slot", "check", "probe"}]
    /\ host \in [Workers -> Hosts \cup {Nowhere}]
    /\ try \in [Workers -> Attempts]
    /\ verdict \in [Workers -> {"ok", "retry", "fail", "cancel"}]
    /\ cancels \in [Workers -> 0 .. 2]
    /\ main \in {"gather", "unwind", "after", "decide", "close", "outcome", "handler", "end"}
    /\ cause \in {"none", "QueueExpired", "QueueCancelled", "Error"}
    /\ outcome \in Outcome \cup {"none"}
    /\ late \subseteq OpType
    /\ escaped \in BOOLEAN
    /\ launched \subseteq Hosts \X Attempts
    /\ faults \in 0 .. MaxFaults /\ crashes \in 0 .. MaxCrashes

Counted(s) == Cardinality({h \in Hosts : doc.status[h] = s})

\* However workers, cancellations, failures and a crash interleave, the three
\* counters of the coverage agree with the status of each host: a host is never
\* counted by its own check and again when the report is closed.  Excepted, here and
\* below, is a report that a late write changed after its close (escaped), be it of a
\* worker cancelled once or twice.
CountsMatchStatuses ==
    ~escaped => /\ doc.completed = Counted("completed")
                /\ doc.failed = Counted("failed")
                /\ doc.skipped = Counted("skipped")

\* A scan saved as completed checked every target; partial and failed tell
\* whether any device was saved.
OutcomeMatchesCoverage ==
    ~escaped => /\ doc.outcome = "completed" => doc.devices = Hosts
                /\ doc.outcome = "partial" => doc.devices # {}
                /\ doc.outcome = "failed" => doc.devices = {}

\* An outcome is saved only when no host is left pending or running.
ClosedMeansSettled ==
    doc.outcome # "none" /\ ~escaped => Unfinished(doc) = {}

\* No scanner process and no check of this job is left when _run is over and
\* its admission is given back.
NoWorkerOutlivesRun ==
    main \in {"handler", "end"} => \A w \in Workers : pc[w] \in Over

\* While storage works, every probe that was started has its HostAttempt record
\* when the job ends, whatever stopped it -- unless its worker was cancelled
\* twice, once by the budget and once by _run.
ProbesAreRecorded ==
    main = "end" /\ faults = 0 /\ crashes = 0 =>
        \A p \in launched :
            \/ p[2] \in doc.details[p[1]]
            \/ \E w \in Workers : host[w] = p[1] /\ cancels[w] = 2

\* Whatever stops it, the stage comes to an end and gives its admission back.
StageEnds == <>(main = "end")

=============================================================================
