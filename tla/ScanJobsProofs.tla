---------------------------- MODULE ScanJobsProofs ----------------------------
(***************************************************************************)
(* Proofs about ScanJobs, for any number of scans and every limit on jobs, *)
(* retries, cancellations, faults and crashes.                             *)
(*                                                                         *)
(* Nearly all that the invariant says is about one scan (ScanInv), and a   *)
(* step disturbs one scan: so each action is looked at for its own scan,   *)
(* and OthersKeep does the rest.  The limit on jobs is the exception; it   *)
(* needs that whoever holds the admission lock after the capacity check    *)
(* still has a place (WithinLimit).                                        *)
(***************************************************************************)
EXTENDS ScanJobs, FiniteSetTheorems, TLAPS

Retrying == admission.kind \in {"retry", "save", "register"}

Pending == IF Retrying THEN 1 ELSE 0

\* The AI tasks that the _run of a scan may still create.
RunsLeft(s) ==
    CASE main[s] = "none" -> IF doc[s].saved = "absent" THEN 2 ELSE 0
      [] main[s] \in {"offered", "created", "checks", "outcome"} -> 2
      [] main[s] = "explain" -> IF handling[s] THEN 1 ELSE 2
      [] main[s] = "await" -> IF handling[s] THEN 0 ELSE 1
      [] main[s] \in {"handler", "resume"} -> 1
      [] main[s] \in {"withdrawn", "exit"} -> 0

IdsSuffice(s) ==
    /\ handling[s] => main[s] \in {"resume", "explain", "await", "exit"}
    /\ main[s] = "resume" => handling[s]
    /\ issued[s] + RunsLeft(s) + Pending \leq 2 + retries

\* A scan that has not got to its outcome had no AI task and has no outcome.
Begins(s) ==
    /\ doc[s].saved = "absent" \/ main[s] \in {"offered", "created", "checks", "outcome", "withdrawn"}
          => /\ issued[s] = 0 /\ doc[s].phase = "checks" /\ doc[s].outcome = "none"
             /\ doc[s].state \in {"queued", "running"}
    /\ faults = 0 /\ main[s] \in {"handler", "resume"} => doc[s].outcome = "none"
    /\ main[s] # "none" => doc[s].saved # "absent"
    /\ main[s] = "outcome" => decided[s] \in Outcome

\* Nothing but an AI task of the scan itself writes into its report unasked.
Issues(s) ==
    issued[s] = 0 =>
        /\ \A i \in Ids : ai[s][i] = "none"
        /\ registered[s] = 0
        /\ \A x \in stray : x.scan # s
        /\ canceller.at # "idle" => canceller.scan # s

Phases(s) ==
    /\ doc[s].phase = "finished" => doc[s].state \in Outcome
    /\ issued[s] > 0 => doc[s].phase # "checks"
    /\ main[s] \in {"explain", "await"} => doc[s].phase # "checks"
    /\ main[s] = "resume" => doc[s].phase = "finished"
    /\ admission = [kind |-> "save", scan |-> s] => doc[s].phase = "finished"
    /\ admission = [kind |-> "register", scan |-> s] => doc[s].phase # "checks"

\* A scan that an admission is about does not run and will not start.
Locked(s) ==
    admission.scan = s =>
        /\ main[s] \in {"none", "offered"} /\ doc[s].saved # "absent"
        /\ admission.kind \in {"save", "register"} => main[s] = "none"

Fails(s) == \A i \in Ids : ai[s][i] = "failed" => faults > 0

\* Somebody who has the report still to finish.
Cared(s) ==
    \/ main[s] \in {"offered", "created", "checks", "outcome", "explain", "handler",
                    "withdrawn", "resume"}
    \/ \E i \in Ids : ai[s][i] \notin Ended
    \/ canceller.scan = s /\ canceller.at \in {"gather", "finish"}
    \/ admission = [kind |-> "register", scan |-> s]

Finishes(s) == faults = 0 /\ Incomplete(doc[s]) => Cared(s)

ScanInv(s) ==
    /\ IdsSuffice(s)
    /\ Begins(s)
    /\ Issues(s)
    /\ Phases(s)
    /\ Locked(s)
    /\ Fails(s)
    /\ Finishes(s)

LockIsNamed == admission.kind = "free" <=> admission.scan = NoScan

Jobs == TypeOK /\ LockIsNamed /\ \A s \in Scans : ScanInv(s)

Places == {"none", "offered", "created", "checks", "outcome", "explain", "await",
           "handler", "withdrawn", "resume", "exit"}

Steps == Ended \cup {"created", "queue", "model", "finish"}

-----------------------------------------------------------------------------
(* Reports *)

LEMMA ReportFields ==
    ASSUME NEW d \in Report
    PROVE  /\ d.saved \in {"absent", "saved", "trash"}
           /\ d.state \in Outcome \cup {"queued", "running"}
           /\ d.phase \in {"checks", "analysis", "finished"}
           /\ d.outcome \in Outcome \cup {"none"}
           /\ d.wording \in {"not_started", "running", "ready", "failed"}
  BY DEF Report

LEMMA SavedEffect ==
    ASSUME NEW d \in Report, NEW v \in {"absent", "saved", "trash"}
    PROVE  LET e == [d EXCEPT !.saved = v] IN
           /\ e \in Report /\ e.saved = v /\ e.state = d.state /\ e.phase = d.phase
           /\ e.outcome = d.outcome
  BY DEF Report

LEMMA StateEffect ==
    ASSUME NEW d \in Report, NEW v \in Outcome \cup {"queued", "running"}
    PROVE  LET e == [d EXCEPT !.state = v] IN
           /\ e \in Report /\ e.saved = d.saved /\ e.state = v /\ e.phase = d.phase
           /\ e.outcome = d.outcome
  BY DEF Report

LEMMA WordingEffect ==
    ASSUME NEW d \in Report, NEW v \in {"not_started", "running", "ready", "failed"}
    PROVE  LET e == [d EXCEPT !.wording = v] IN
           /\ e \in Report /\ e.saved = d.saved /\ e.state = d.state /\ e.phase = d.phase
           /\ e.outcome = d.outcome
  BY DEF Report

LEMMA ClosedEffect ==
    ASSUME NEW d \in Report, NEW o \in Outcome
    PROVE  LET e == Closed(d, o) IN
           /\ e \in Report /\ e.saved = d.saved /\ e.outcome = d.outcome
           /\ e.state = o /\ e.phase = "finished"
  BY DEF Closed, Report

LEMMA RequestedEffect ==
    ASSUME NEW d \in Report, d.state \in Outcome
    PROVE  LET e == AnalysisRequested(d)
               f == RetryRequested(d) IN
           /\ e \in Report /\ e.saved = d.saved /\ e.phase = "analysis" /\ e.outcome = d.state
           /\ f \in Report /\ f.saved = d.saved /\ f.phase = "analysis"
           /\ d.outcome # "none" => f.outcome = d.outcome
  BY DEF AnalysisRequested, RetryRequested, Report

LEMMA ExplanationsFinishedEffect ==
    ASSUME NEW d \in Report, NEW code
    PROVE  LET e == ExplanationsFinished(d, code) IN
           /\ e \in Report /\ e.saved = d.saved /\ e.outcome = d.outcome
           /\ e.phase = "finished" /\ e.state \in Outcome
<1> DEFINE v == IF code = "cancelled" THEN "cancelled"
                ELSE IF d.outcome = "none" THEN "completed" ELSE d.outcome
           w == IF code = "none" /\ d.wording = "ready" THEN "ready" ELSE "failed"
           e == [d EXCEPT !.phase = "finished", !.state = v, !.wording = w]
<1>1. ExplanationsFinished(d, code) = e
  BY DEF ExplanationsFinished
<1>2. v \in Outcome /\ w \in {"not_started", "running", "ready", "failed"}
  BY ReportFields DEF Outcome
<1> HIDE DEF v, w
<1>3. QED  BY <1>1, <1>2 DEF Report

LEMMA InterruptedEffect ==
    ASSUME NEW d \in Report, NEW o \in {"partial", "failed"}
    PROVE  LET e == Interrupted(d, o) IN
           /\ e \in Report /\ e.saved = d.saved /\ e.outcome = d.outcome
           /\ e.phase = "finished" /\ e.state \in Outcome
<1> DEFINE v == IF d.outcome = "none" THEN "failed" ELSE d.outcome
           e == [d EXCEPT !.state = v, !.phase = "finished", !.wording = "failed"]
           f == [d EXCEPT !.phase = "finished"]
<1>1. v \in Outcome
  BY ReportFields DEF Outcome
<1> HIDE DEF v
<1>2. /\ e \in Report /\ e.saved = d.saved /\ e.outcome = d.outcome
      /\ e.phase = "finished" /\ e.state \in Outcome
  BY <1>1 DEF Report
<1>3. /\ f \in Report /\ f.saved = d.saved /\ f.outcome = d.outcome
      /\ f.phase = "finished" /\ f.state = d.state
  BY DEF Report
<1>4. /\ Closed(d, o) \in Report /\ Closed(d, o).saved = d.saved /\ Closed(d, o).outcome = d.outcome
      /\ Closed(d, o).phase = "finished" /\ Closed(d, o).state \in Outcome
  BY ClosedEffect DEF Outcome
<1>5. \/ Interrupted(d, o) = e
      \/ Interrupted(d, o) = f /\ d.state \in {"completed", "partial"}
      \/ Interrupted(d, o) = Closed(d, o)
  BY DEF Interrupted, v
<1>6. QED  BY <1>2, <1>3, <1>4, <1>5 DEF Outcome

-----------------------------------------------------------------------------
(* A step that is about one scan *)

\* Only scan s is disturbed.
OnlyAt(s) ==
    \A t \in Scans : t # s =>
        /\ doc'[t] = doc[t] /\ main'[t] = main[t] /\ handling'[t] = handling[t]
        /\ decided'[t] = decided[t]
        /\ ai'[t] = ai[t] /\ issued'[t] = issued[t] /\ registered'[t] = registered[t]

\* The locks, the canceller and the threads left behind are not another scan's.
SharedKept(s) ==
    /\ \A x \in stray' : x \in stray \/ x.scan = s
    /\ admission' = admission \/ (admission.scan \in {s, NoScan} /\ admission'.scan \in {s, NoScan})
    /\ canceller' = canceller \/ (canceller.scan \in {s, NoScan} /\ canceller'.scan \in {s, NoScan})
    /\ faults' = 0 => faults = 0
    /\ faults > 0 => faults' > 0
    /\ retries + Pending' \leq retries' + Pending

LEMMA Bounds ==
    ASSUME TypeOK
    PROVE  /\ retries \in Nat /\ faults \in Nat /\ Pending \in {0, 1}
           /\ \A s \in Scans : /\ doc[s] \in Report /\ main[s] \in Places /\ issued[s] \in Nat
                               /\ handling[s] \in BOOLEAN /\ RunsLeft(s) \in {0, 1, 2}
<1>1. \A s \in Scans : doc[s] \in Report /\ main[s] \in Places /\ issued[s] \in Nat
                       /\ handling[s] \in BOOLEAN
  BY LimitsAssumption DEF TypeOK, Places, Ids
<1>2. retries \in Nat /\ faults \in Nat /\ Pending \in {0, 1}
  BY LimitsAssumption DEF TypeOK, Pending
<1>3. \A s \in Scans : RunsLeft(s) \in {0, 1, 2}
  BY <1>1 DEF RunsLeft, Places
<1>4. QED  BY <1>1, <1>2, <1>3

LEMMA Shift ==
    ASSUME NEW i \in Nat, NEW l \in Nat, NEW p \in Nat, NEW r \in Nat, NEW q \in Nat, NEW u \in Nat,
           i + l + p \leq 2 + r, r + q \leq u + p
    PROVE  i + l + q \leq 2 + u
  OBVIOUS

LEMMA OthersKeep ==
    ASSUME TypeOK, TypeOK', NEW s, NEW t \in Scans, t # s, ScanInv(t), OnlyAt(s), SharedKept(s)
    PROVE  ScanInv(t)'
<1>1. /\ doc'[t] = doc[t] /\ main'[t] = main[t] /\ handling'[t] = handling[t]
      /\ decided'[t] = decided[t]
      /\ ai'[t] = ai[t] /\ issued'[t] = issued[t] /\ registered'[t] = registered[t]
  BY DEF OnlyAt
<1>2. t # NoScan
  BY JobsAssumption
<1>3. admission' = admission \/ (admission.scan # t /\ admission'.scan # t)
  BY <1>2 DEF SharedKept
<1>4. canceller' = canceller \/ (canceller.scan # t /\ canceller'.scan # t)
  BY <1>2 DEF SharedKept
<1>5. RunsLeft(t)' = RunsLeft(t)
  BY <1>1 DEF RunsLeft
<1>6. IdsSuffice(t)'
  <2>1. retries + Pending' \leq retries' + Pending
    BY DEF SharedKept
  <2>2. /\ retries \in Nat /\ Pending \in {0, 1} /\ issued[t] \in Nat /\ RunsLeft(t) \in {0, 1, 2}
    BY Bounds
  <2>2a. retries' \in Nat /\ Pending' \in {0, 1}
    BY LimitsAssumption DEF TypeOK, Pending
  <2>3. issued[t] + RunsLeft(t) + Pending \leq 2 + retries
    BY DEF ScanInv, IdsSuffice
  <2>4. issued[t] + RunsLeft(t) + Pending' \leq 2 + retries'
    BY <2>1, <2>2, <2>2a, <2>3, Shift, ZenonT(40)
  <2>5. QED  BY <1>1, <1>5, <2>4 DEF ScanInv, IdsSuffice
<1>7. Begins(t)'
  BY <1>1 DEF ScanInv, Begins, SharedKept
<1>8. Issues(t)'
  BY <1>1, <1>4 DEF ScanInv, Issues, SharedKept
<1>9. Phases(t)' /\ Locked(t)'
  BY <1>1, <1>3 DEF ScanInv, Phases, Locked
<1>10. Fails(t)'
  BY <1>1 DEF ScanInv, Fails, SharedKept
<1>11. Finishes(t)'
  BY <1>1, <1>3, <1>4 DEF ScanInv, Finishes, Cared, SharedKept
<1>12. QED  BY <1>6, <1>7, <1>8, <1>9, <1>10, <1>11 DEF ScanInv

\* A new AI task finds a number, and takes the report over.
LEMMA CreateAnalysisEffect ==
    ASSUME TypeOK, NEW s \in Scans, CreateAnalysis(s), issued[s] + 1 \leq 2 + retries
    PROVE  /\ issued[s] + 1 \in Ids /\ issued'[s] = issued[s] + 1
           /\ registered'[s] = issued[s] + 1
           /\ ai'[s] = [ai[s] EXCEPT ![issued[s] + 1] = "created"]
           /\ ai' \in [Scans -> [Ids -> Steps]] /\ ending' = ending
           /\ registered' \in [Scans -> {0} \cup Ids] /\ issued' \in [Scans -> {0} \cup Ids]
           /\ \A t \in Scans : t # s => /\ ai'[t] = ai[t] /\ issued'[t] = issued[t]
                                        /\ registered'[t] = registered[t]
<1>1. issued[s] + 1 \in Ids
  <2>1. issued[s] \in Nat /\ retries \in 0 .. MaxRetries /\ MaxRetries \in Nat
    BY Bounds, LimitsAssumption DEF TypeOK
  <2>2. QED  BY <2>1 DEF Ids
<1>2. /\ ai \in [Scans -> [Ids -> Steps]]
      /\ registered \in [Scans -> {0} \cup Ids] /\ issued \in [Scans -> {0} \cup Ids]
  BY DEF TypeOK, Steps
<1>3. /\ issued' = [issued EXCEPT ![s] = issued[s] + 1]
      /\ registered' = [registered EXCEPT ![s] = issued[s] + 1]
      /\ ai' = [ai EXCEPT ![s][issued[s] + 1] = "created"]
      /\ ending' = ending
  BY DEF CreateAnalysis
<1>4. "created" \in Steps
  BY DEF Steps
<1>5. QED  BY <1>1, <1>2, <1>3, <1>4

-----------------------------------------------------------------------------
(* The steps of _run *)

LEMMA RunFrame ==
    ASSUME TypeOK, NEW s \in Scans, Run(s)
    PROVE  /\ UNCHANGED <<stray, admission, canceller, retries, cancels, crashes>>
           /\ faults' \in Nat /\ faults' \geq faults /\ faults' \in 0 .. MaxFaults
           /\ main' = [main EXCEPT ![s] = main'[s]]
           /\ doc' = [doc EXCEPT ![s] = doc'[s]]
           /\ handling' = [handling EXCEPT ![s] = handling'[s]]
           /\ decided' = [decided EXCEPT ![s] = decided'[s]]
           /\ mine' = [mine EXCEPT ![s] = mine'[s]]
           /\ stop' = [stop EXCEPT ![s] = stop'[s]]
           /\ ~Explain(s) => UNCHANGED task
<1>0. /\ doc \in [Scans -> Report] /\ main \in [Scans -> Places] /\ stop \in [Scans -> BOOLEAN]
      /\ decided \in [Scans -> Outcome \cup {"none"}] /\ handling \in [Scans -> BOOLEAN]
      /\ mine \in [Scans -> {0} \cup Ids] /\ faults \in 0 .. MaxFaults
      /\ MaxFaults \in Nat
  BY LimitsAssumption DEF TypeOK, Places
<1>1. /\ UNCHANGED <<stray, admission, canceller, retries, cancels, crashes>>
      /\ faults' = faults \/ (faults < MaxFaults /\ faults' = faults + 1)
      /\ ~Explain(s) => UNCHANGED task
  BY DEF Run, BeginChecks, Collect, SaveOutcome, Explain, AnalysisEnds, RunFails, FinishWithdrawn,
         FinishFailed, Resume, HandlerFails, Exit, Advance, Fault, counts, task
<1>2. /\ main' = [main EXCEPT ![s] = main'[s]]
      /\ stop' = [stop EXCEPT ![s] = stop'[s]]
  BY <1>0
  DEF Run, BeginChecks, Collect, SaveOutcome, Explain, AnalysisEnds, RunFails, FinishWithdrawn,
      FinishFailed, Resume, HandlerFails, Exit, Advance
<1>3. doc' = [doc EXCEPT ![s] = doc'[s]]
  BY <1>0
  DEF Run, BeginChecks, Collect, SaveOutcome, Explain, AnalysisEnds, RunFails, FinishWithdrawn,
      FinishFailed, Resume, HandlerFails, Exit, Save
<1>4. /\ handling' = [handling EXCEPT ![s] = handling'[s]]
      /\ decided' = [decided EXCEPT ![s] = decided'[s]]
      /\ mine' = [mine EXCEPT ![s] = mine'[s]]
  BY <1>0
  DEF Run, BeginChecks, Collect, SaveOutcome, Explain, AnalysisEnds, RunFails, FinishWithdrawn,
      FinishFailed, Resume, HandlerFails, Exit
<1>5. QED  BY <1>0, <1>1, <1>2, <1>3, <1>4

LEMMA RunOthers ==
    ASSUME TypeOK, NEW s \in Scans, Run(s), Explain(s) => issued[s] + 1 \leq 2 + retries
    PROVE  OnlyAt(s) /\ SharedKept(s)
<1>0. /\ doc \in [Scans -> Report] /\ main \in [Scans -> Places] /\ handling \in [Scans -> BOOLEAN]
      /\ decided \in [Scans -> Outcome \cup {"none"}] /\ faults \in Nat
  BY LimitsAssumption DEF TypeOK, Places
<1>1. /\ UNCHANGED <<stray, admission, canceller, retries>>
      /\ faults' \in Nat /\ faults' \geq faults
      /\ main' = [main EXCEPT ![s] = main'[s]]
      /\ doc' = [doc EXCEPT ![s] = doc'[s]]
      /\ handling' = [handling EXCEPT ![s] = handling'[s]]
      /\ decided' = [decided EXCEPT ![s] = decided'[s]]
      /\ ~Explain(s) => UNCHANGED task
  BY RunFrame
<1>2. \A t \in Scans : t # s => /\ ai'[t] = ai[t] /\ issued'[t] = issued[t]
                                /\ registered'[t] = registered[t]
  <2>1. CASE Explain(s)
    BY <2>1, CreateAnalysisEffect DEF Explain
  <2>2. CASE ~Explain(s)
    BY <1>1, <2>2 DEF task
  <2>3. QED  BY <2>1, <2>2
<1>3. OnlyAt(s)
  BY <1>0, <1>1, <1>2 DEF OnlyAt
<1>4. SharedKept(s)
  <2>1. Pending' = Pending /\ Pending \in Nat /\ retries \in Nat
    BY <1>1, Bounds DEF Pending, Retrying
  <2>2. QED  BY <1>0, <1>1, <2>1 DEF SharedKept
<1>5. QED  BY <1>3, <1>4

\* What a scan may rely on while its _run goes on.
LEMMA RunAlone ==
    ASSUME Jobs, NEW s \in Scans, Run(s)
    PROVE  /\ admission.scan # s
           /\ main[s] \notin {"none", "offered"}
           /\ Explain(s) => issued[s] + 1 \leq 2 + retries
<1>1. main[s] \notin {"none", "offered"}
  BY DEF Run, BeginChecks, Collect, SaveOutcome, Explain, AnalysisEnds, RunFails, FinishWithdrawn,
         FinishFailed, Resume, HandlerFails, Exit, Advance
<1>2. admission.scan # s
  BY <1>1 DEF Jobs, ScanInv, Locked
<1>3. ASSUME Explain(s) PROVE issued[s] + 1 \leq 2 + retries
  <2>1. main[s] = "explain"
    BY <1>3 DEF Explain, Advance
  <2>2. RunsLeft(s) \in {1, 2}
    BY <2>1 DEF RunsLeft
  <2>3. issued[s] + RunsLeft(s) + Pending \leq 2 + retries
    BY DEF Jobs, ScanInv, IdsSuffice
  <2>4. issued[s] \in Nat /\ retries \in Nat /\ Pending \in {0, 1}
    BY Bounds DEF Jobs
  <2>5. QED  BY <2>2, <2>3, <2>4
<1>4. QED  BY <1>1, <1>2, <1>3

\* The part of RunStep that all steps but Explain have in common.
LEMMA RunWithoutTask ==
    ASSUME Jobs, NEW s \in Scans, Run(s), ~Explain(s),
           IdsSuffice(s)', Begins(s)', Finishes(s)',
           doc'[s].phase = "finished" => doc'[s].state \in Outcome,
           doc[s].phase # "checks" => doc'[s].phase # "checks",
           main'[s] \in {"explain", "await"} => doc'[s].phase # "checks",
           main'[s] = "resume" => doc'[s].phase = "finished"
    PROVE  ScanInv(s)'
<1>1. /\ UNCHANGED <<stray, admission, canceller>> /\ UNCHANGED task
      /\ faults' \in Nat /\ faults' \geq faults /\ faults \in Nat
  BY RunFrame, Bounds DEF Jobs
<1>2. admission.scan # s
  BY RunAlone
<1>3. Issues(s)' /\ Fails(s)'
  BY <1>1 DEF task, Jobs, ScanInv, Issues, Fails
<1>4. Locked(s)' /\ Phases(s)'
  BY <1>1, <1>2 DEF task, Jobs, ScanInv, Locked, Phases
<1>5. QED  BY <1>3, <1>4 DEF ScanInv

LEMMA RunStep ==
    ASSUME Jobs, NEW s \in Scans, Run(s)
    PROVE  ScanInv(s)' /\ doc'[s] \in Report /\ main'[s] \in Places
<1>0. /\ TypeOK /\ doc[s] \in Report /\ main[s] \in Places /\ handling[s] \in BOOLEAN
      /\ issued[s] \in Nat /\ retries \in Nat /\ Pending \in {0, 1} /\ faults \in Nat
      /\ doc \in [Scans -> Report] /\ main \in [Scans -> Places] /\ handling \in [Scans -> BOOLEAN]
      /\ decided \in [Scans -> Outcome \cup {"none"}]
  BY Bounds DEF Jobs, TypeOK, Places
<1>1. /\ UNCHANGED <<stray, admission, canceller, retries>>
      /\ faults' \in Nat /\ faults' \geq faults
      /\ ~Explain(s) => UNCHANGED task
      /\ Pending' = Pending
  BY <1>0, RunFrame DEF Pending, Retrying
<1>2. /\ IdsSuffice(s) /\ Begins(s) /\ Issues(s) /\ Phases(s) /\ Locked(s) /\ Fails(s) /\ Finishes(s)
  BY DEF Jobs, ScanInv
<1> USE DEF Advance, Save
<1>3. CASE BeginChecks(s)
  <2>1. /\ main[s] = "created" /\ main'[s] = "checks" /\ handling'[s] = handling[s]
        /\ doc'[s] = [doc[s] EXCEPT !.state = "running"] /\ issued' = issued /\ ~Explain(s)
    BY <1>0, <1>1, <1>3 DEF BeginChecks, task, Explain
  <2>2. /\ doc'[s] \in Report /\ doc'[s].saved = doc[s].saved /\ doc'[s].state = "running"
        /\ doc'[s].phase = doc[s].phase /\ doc'[s].outcome = doc[s].outcome
    <3>1. LET e == [doc[s] EXCEPT !.state = "running"] IN
          /\ e \in Report /\ e.saved = doc[s].saved /\ e.state = "running" /\ e.phase = doc[s].phase
          /\ e.outcome = doc[s].outcome
      BY <1>0, StateEffect
    <3>2. QED  BY <2>1, <3>1
  <2>3. IdsSuffice(s)' /\ Begins(s)' /\ Finishes(s)'
    BY <1>1, <1>2, <2>1, <2>2 DEF IdsSuffice, RunsLeft, Begins, Finishes, Cared
  <2>4. doc'[s].phase = "checks"
    BY <1>2, <2>1, <2>2 DEF Begins
  <2>5. QED  BY <1>2, <2>1, <2>2, <2>3, <2>4, RunWithoutTask DEF Begins, Places
<1>4. CASE Collect(s)
  <2>1. /\ main[s] = "checks" /\ main'[s] = "outcome" /\ handling'[s] = handling[s]
        /\ doc'[s] = doc[s] /\ issued' = issued /\ ~Explain(s)
    BY <1>0, <1>1, <1>4 DEF Collect, task, Explain
  <2>2. IdsSuffice(s)' /\ Begins(s)' /\ Finishes(s)'
    BY <1>0, <1>1, <1>2, <1>4, <2>1 DEF Collect, IdsSuffice, RunsLeft, Begins, Finishes, Cared
  <2>3. QED  BY <1>0, <1>2, <2>1, <2>2, RunWithoutTask DEF Phases, Places
<1>5. CASE SaveOutcome(s)
  <2>0. decided[s] \in Outcome
    BY <1>2, <1>5 DEF SaveOutcome, Begins
  <2>1. /\ main[s] = "outcome" /\ handling'[s] = handling[s]
        /\ main'[s] = IF decided[s] = "cancelled" THEN "exit" ELSE "explain"
        /\ doc'[s] = OutcomeSaved(doc[s], decided[s], decided[s] # "cancelled")
        /\ issued' = issued /\ ~Explain(s)
    BY <1>0, <1>1, <1>5 DEF SaveOutcome, task, Explain
  <2>2. /\ doc'[s] \in Report /\ doc'[s].saved = doc[s].saved
        /\ doc'[s].state = IF decided[s] # "cancelled" THEN "running" ELSE decided[s]
        /\ doc'[s].phase = IF decided[s] # "cancelled" THEN "analysis" ELSE "finished"
    <3>1. CASE decided[s] = "cancelled"
      <4>1. doc'[s] = OutcomeSaved(doc[s], decided[s], FALSE)
        BY <2>1, <3>1
      <4>2. QED  BY <1>0, <2>0, <3>1, <4>1 DEF OutcomeSaved, Report
    <3>2. CASE decided[s] # "cancelled"
      <4>1. doc'[s] = OutcomeSaved(doc[s], decided[s], TRUE)
        BY <2>1, <3>2
      <4>2. QED  BY <1>0, <2>0, <3>2, <4>1 DEF OutcomeSaved, Report
    <3>3. QED  BY <3>1, <3>2
  <2>3. IdsSuffice(s)'
    BY <1>0, <1>1, <1>2, <2>1 DEF IdsSuffice, RunsLeft
  <2>4. Begins(s)'
    BY <1>2, <2>1, <2>2 DEF Begins
  <2>5. Finishes(s)'
    BY <2>1, <2>2 DEF Finishes, Cared, Incomplete
  <2>6. QED  BY <2>0, <2>1, <2>2, <2>3, <2>4, <2>5, RunWithoutTask DEF Places
<1>6. CASE Explain(s)
  <2>1. /\ main[s] = "explain" /\ main'[s] = "await" /\ handling'[s] = handling[s]
        /\ doc'[s] = doc[s] /\ CreateAnalysis(s) /\ admission.scan # s
    BY <1>0, <1>6, RunAlone DEF Explain
  <2>2. /\ issued[s] + 1 \in Ids /\ issued'[s] = issued[s] + 1
        /\ ai'[s] = [ai[s] EXCEPT ![issued[s] + 1] = "created"]
        /\ ai[s] \in [Ids -> Steps]
    BY <1>0, <1>6, <2>1, RunAlone, CreateAnalysisEffect DEF TypeOK, Steps
  <2>3. IdsSuffice(s)'
    <3>1. RunsLeft(s)' + 1 = RunsLeft(s)
      BY <2>1 DEF RunsLeft
    <3>2. RunsLeft(s) \in {0, 1, 2}
      BY <1>0, Bounds
    <3>3. issued'[s] + RunsLeft(s)' + Pending' \leq 2 + retries'
      <4>1. issued[s] + RunsLeft(s) + Pending \leq 2 + retries
        BY <1>2 DEF IdsSuffice
      <4>2. issued'[s] + RunsLeft(s)' = issued[s] + RunsLeft(s) /\ Pending' = Pending /\ retries' = retries
        <5>1. RunsLeft(s)' = RunsLeft(s) - 1
          BY <2>1, <3>2 DEF RunsLeft
        <5>2. QED  BY <1>0, <1>1, <2>2, <3>2, <5>1
      <4>3. QED  BY <4>1, <4>2
    <3>4. QED  BY <1>2, <2>1, <3>3 DEF IdsSuffice
  <2>4. Begins(s)' /\ Issues(s)'
    BY <1>0, <1>2, <2>1, <2>2 DEF Begins, Issues
  <2>5. Phases(s)' /\ Locked(s)'
    BY <1>1, <1>2, <2>1 DEF Phases, Locked
  <2>6. Fails(s)' /\ Finishes(s)'
    BY <1>0, <1>1, <1>2, <2>2 DEF Fails, Finishes, Cared, Ended
  <2>7. QED  BY <1>0, <2>1, <2>3, <2>4, <2>5, <2>6 DEF ScanInv, Places
<1>7. CASE AnalysisEnds(s)
  <2>1. PICK i \in Ids : /\ ai[s][i] \in Ended
                         /\ main'[s] = IF ai[s][i] = "failed" /\ ~handling[s] THEN "handler" ELSE "exit"
    BY <1>0, <1>7 DEF AnalysisEnds
  <2>2. /\ main[s] = "await" /\ handling'[s] = handling[s]
        /\ doc'[s] = doc[s] /\ issued' = issued /\ ai' = ai /\ ~Explain(s)
    BY <1>0, <1>1, <1>7 DEF AnalysisEnds, task, Explain
  <2>3. IdsSuffice(s)'
    BY <1>0, <1>1, <1>2, <2>1, <2>2 DEF IdsSuffice, RunsLeft
  <2>4. Begins(s)'
    <3>1. main'[s] = "handler" => faults > 0
      BY <1>2, <2>1 DEF Fails
    <3>2. QED  BY <1>0, <1>1, <1>2, <2>1, <2>2, <3>1 DEF Begins
  <2>5. Finishes(s)'
    BY <1>0, <1>1, <1>2, <2>1, <2>2 DEF Finishes, Cared
  <2>6. QED  BY <1>0, <1>2, <2>1, <2>2, <2>3, <2>4, <2>5, RunWithoutTask DEF Phases, Places
<1>8. CASE RunFails(s)
  <2>1. /\ doc'[s] = doc[s] /\ handling'[s] = handling[s] /\ issued' = issued /\ ~Explain(s)
        /\ main[s] \in {"checks", "outcome"} /\ main'[s] \in {"handler", "withdrawn"}
    BY <1>0, <1>1, <1>8 DEF RunFails, task, Explain
  <2>2. IdsSuffice(s)' /\ Begins(s)' /\ Finishes(s)'
    <3>1. IdsSuffice(s)'
      BY <1>0, <1>1, <1>2, <2>1 DEF IdsSuffice, RunsLeft
    <3>2. Begins(s)'
      BY <1>2, <2>1 DEF Begins
    <3>3. Finishes(s)'
      BY <2>1 DEF Finishes, Cared
    <3>4. QED  BY <3>1, <3>2, <3>3
  <2>3. QED  BY <1>0, <1>2, <2>1, <2>2, RunWithoutTask DEF Phases, Places
<1>9. CASE FinishWithdrawn(s)
  <2>1. /\ main[s] = "withdrawn" /\ main'[s] = "exit" /\ handling'[s] = handling[s]
        /\ doc'[s] = Closed(doc[s], "cancelled") /\ issued' = issued /\ ~Explain(s)
    BY <1>0, <1>1, <1>9 DEF FinishWithdrawn, task, Explain
  <2>2. /\ doc'[s] \in Report /\ doc'[s].saved = doc[s].saved
        /\ doc'[s].state \in Outcome /\ doc'[s].phase = "finished"
    BY <1>0, <2>1, ClosedEffect DEF Outcome
  <2>3. IdsSuffice(s)'
    BY <1>0, <1>1, <1>2, <2>1 DEF IdsSuffice, RunsLeft
  <2>4. Begins(s)' /\ Finishes(s)'
    BY <1>2, <2>1, <2>2 DEF Begins, Finishes, Incomplete, Outcome
  <2>5. QED  BY <1>0, <2>1, <2>2, <2>3, <2>4, RunWithoutTask DEF Places
<1>10. CASE FinishFailed(s)
  <2>1. PICK o \in {"partial", "failed"} : doc'[s] = Closed(doc[s], o)
    BY <1>0, <1>10 DEF FinishFailed
  <2>2. /\ main[s] = "handler" /\ main'[s] \in {"exit", "resume"} /\ handling'[s] = TRUE
        /\ issued' = issued /\ ~Explain(s)
    BY <1>0, <1>1, <1>10 DEF FinishFailed, task, Explain
  <2>3. /\ doc'[s] \in Report /\ doc'[s].saved = doc[s].saved /\ doc'[s].outcome = doc[s].outcome
        /\ doc'[s].state \in Outcome /\ doc'[s].phase = "finished"
    BY <1>0, <2>1, ClosedEffect DEF Outcome
  <2>4. IdsSuffice(s)'
    BY <1>0, <1>1, <1>2, <2>2 DEF IdsSuffice, RunsLeft
  <2>5. Begins(s)' /\ Finishes(s)'
    BY <1>0, <1>1, <1>2, <2>2, <2>3 DEF Begins, Finishes, Incomplete, Outcome
  <2>6. QED  BY <1>0, <2>2, <2>3, <2>4, <2>5, RunWithoutTask DEF Places
<1>11. CASE Resume(s)
  <2>1. /\ main[s] = "resume" /\ main'[s] = "explain" /\ handling'[s] = handling[s]
        /\ doc'[s] = AnalysisRequested(doc[s]) /\ issued' = issued /\ ~Explain(s)
    BY <1>0, <1>1, <1>11 DEF Resume, task, Explain
  <2>2. doc[s].state \in Outcome
    BY <1>2, <2>1 DEF Phases
  <2>3. /\ doc'[s] \in Report /\ doc'[s].saved = doc[s].saved /\ doc'[s].phase = "analysis"
    BY <1>0, <2>1, <2>2, RequestedEffect
  <2>4. IdsSuffice(s)'
    BY <1>0, <1>1, <1>2, <2>1 DEF IdsSuffice, RunsLeft
  <2>5. Begins(s)' /\ Finishes(s)'
    BY <1>0, <1>1, <1>2, <2>1, <2>3 DEF Begins, Finishes, Cared
  <2>6. QED  BY <1>0, <2>1, <2>3, <2>4, <2>5, RunWithoutTask DEF Places
<1>12. CASE HandlerFails(s)
  <2>1. /\ main[s] \in {"withdrawn", "handler", "resume"} /\ main'[s] = "exit"
        /\ handling'[s] = handling[s] /\ doc'[s] = doc[s] /\ issued' = issued /\ ~Explain(s)
        /\ faults' > 0
    BY <1>0, <1>1, <1>12 DEF HandlerFails, task, Explain, Fault
  <2>2. IdsSuffice(s)'
    BY <1>0, <1>1, <1>2, <2>1 DEF IdsSuffice, RunsLeft
  <2>3. Begins(s)' /\ Finishes(s)'
    BY <1>2, <2>1 DEF Begins, Finishes
  <2>4. QED  BY <1>0, <1>2, <2>1, <2>2, <2>3, RunWithoutTask DEF Phases, Places
<1>13. CASE Exit(s)
  <2>1. /\ main[s] = "exit" /\ main'[s] = "none"
        /\ handling'[s] = FALSE /\ doc'[s] = doc[s] /\ issued' = issued /\ ai' = ai /\ ~Explain(s)
        /\ faults' = faults
    BY <1>0, <1>1, <1>13 DEF Exit, task, Explain, counts
  <2>2. IdsSuffice(s)'
    BY <1>0, <1>1, <1>2, <2>1 DEF IdsSuffice, RunsLeft, Begins
  <2>3. Begins(s)' /\ Finishes(s)'
    BY <1>1, <1>2, <2>1 DEF Begins, Finishes, Cared
  <2>4. QED  BY <1>0, <1>2, <2>1, <2>2, <2>3, RunWithoutTask DEF Phases, Places
<1>14. QED
  BY <1>3, <1>4, <1>5, <1>6, <1>7, <1>8, <1>9, <1>10, <1>11, <1>12, <1>13 DEF Run

LEMMA RunTypes ==
    ASSUME Jobs, NEW s \in Scans, Run(s)
    PROVE  TypeOK'
<1>1. TypeOK /\ doc'[s] \in Report /\ main'[s] \in Places
  BY RunStep DEF Jobs
<1>2. /\ UNCHANGED <<stray, admission, canceller, retries, cancels, crashes>>
      /\ faults' \in 0 .. MaxFaults
      /\ main' = [main EXCEPT ![s] = main'[s]]
      /\ doc' = [doc EXCEPT ![s] = doc'[s]]
      /\ handling' = [handling EXCEPT ![s] = handling'[s]]
      /\ decided' = [decided EXCEPT ![s] = decided'[s]]
      /\ mine' = [mine EXCEPT ![s] = mine'[s]]
      /\ stop' = [stop EXCEPT ![s] = stop'[s]]
      /\ ~Explain(s) => UNCHANGED task
  BY <1>1, RunFrame
<1>3. /\ ai' \in [Scans -> [Ids -> Steps]] /\ ending' \in [Scans -> [Ids -> {"none", "failed", "cancelled"}]]
      /\ registered' \in [Scans -> {0} \cup Ids] /\ issued' \in [Scans -> {0} \cup Ids]
  <2>1. CASE Explain(s)
    <3>1. CreateAnalysis(s) /\ issued[s] + 1 \leq 2 + retries
      BY <2>1, RunAlone DEF Explain
    <3>2. ending \in [Scans -> [Ids -> {"none", "failed", "cancelled"}]]
      BY <1>1 DEF TypeOK
    <3>3. QED  BY <1>1, <3>1, <3>2, CreateAnalysisEffect
  <2>2. CASE ~Explain(s)
    BY <1>1, <1>2, <2>2 DEF task, TypeOK, Steps
  <2>3. QED  BY <2>1, <2>2
<1>4. /\ handling'[s] \in BOOLEAN /\ stop'[s] \in BOOLEAN
      /\ decided'[s] \in Outcome \cup {"none"}
  BY <1>1
  DEF Run, BeginChecks, Collect, SaveOutcome, Explain, AnalysisEnds, RunFails, FinishWithdrawn,
      FinishFailed, Resume, HandlerFails, Exit, Advance, TypeOK
<1>5. mine'[s] \in {0} \cup Ids
  <2>1. CASE Explain(s)
    <3>1. CreateAnalysis(s) /\ issued[s] + 1 \leq 2 + retries
      BY <2>1, RunAlone DEF Explain
    <3>2. issued'[s] \in Ids
      BY <1>1, <3>1, CreateAnalysisEffect
    <3>3. mine'[s] = issued'[s]
      BY <1>1, <2>1 DEF Explain, TypeOK
    <3>4. QED  BY <3>2, <3>3
  <2>2. CASE ~Explain(s)
    BY <1>1, <2>2
    DEF Run, BeginChecks, Collect, SaveOutcome, AnalysisEnds, RunFails, FinishWithdrawn,
        FinishFailed, Resume, HandlerFails, Exit, TypeOK
  <2>3. QED  BY <2>1, <2>2
<1>6. /\ main' \in [Scans -> Places] /\ doc' \in [Scans -> Report] /\ handling' \in [Scans -> BOOLEAN]
      /\ decided' \in [Scans -> Outcome \cup {"none"}] /\ mine' \in [Scans -> {0} \cup Ids]
      /\ stop' \in [Scans -> BOOLEAN]
  BY <1>1, <1>2, <1>4, <1>5, ZenonT(40) DEF TypeOK, Places
<1>7. QED  BY <1>1, <1>2, <1>3, <1>6 DEF TypeOK, Places, Steps

LEMMA JobsRun ==
    ASSUME Jobs, NEW s \in Scans, Run(s)
    PROVE  Jobs'
<1>1. TypeOK /\ TypeOK' /\ LockIsNamed'
  BY RunTypes, RunFrame DEF Jobs, LockIsNamed
<1>2. OnlyAt(s) /\ SharedKept(s)
  BY <1>1, RunOthers, RunAlone
<1>3. \A t \in Scans : t # s => ScanInv(t)'
  BY <1>1, <1>2, OthersKeep DEF Jobs
<1>4. ScanInv(s)'
  BY RunStep
<1>5. QED  BY <1>1, <1>3, <1>4 DEF Jobs

-----------------------------------------------------------------------------
(* The steps of AI tasks, of the writes they leave behind, and of cancel() *)

\* Wording is added to the report, or its analysis is finished.
Worded(s) ==
    /\ doc'[s] \in Report
    /\ doc'[s].saved = doc[s].saved /\ doc'[s].outcome = doc[s].outcome
    /\ \/ doc'[s].phase = doc[s].phase /\ doc'[s].state = doc[s].state
       \/ doc'[s].phase = "finished" /\ doc'[s].state \in Outcome

LEMMA WordedKeeps ==
    ASSUME Jobs, NEW s \in Scans, issued[s] > 0, Worded(s),
           UNCHANGED <<main, handling, decided, issued, admission, retries>>,
           faults' = 0 => faults = 0
    PROVE  IdsSuffice(s)' /\ Begins(s)' /\ Phases(s)' /\ Locked(s)'
<1>1. IdsSuffice(s) /\ Begins(s) /\ Phases(s) /\ Locked(s)
  BY DEF Jobs, ScanInv
<1>2. IdsSuffice(s)'
  BY <1>1 DEF Worded, IdsSuffice, RunsLeft, Pending, Retrying
<1>3. Begins(s)' /\ Phases(s)' /\ Locked(s)'
  BY <1>1 DEF Worded, Begins, Phases, Locked
<1>4. QED  BY <1>2, <1>3

\* Only a report that is not finished needs to be cared for.
LEMMA FinishedIsComplete ==
    ASSUME NEW d, d.phase = "finished", d.state \in Outcome
    PROVE  ~Incomplete(d)
  BY DEF Incomplete, Outcome

LEMMA ExplanationsEffect ==
    ASSUME Jobs, NEW s \in Scans, NEW i \in Ids, RunExplanations(s, i)
    PROVE  /\ UNCHANGED <<main, handling, decided, mine, stop, issued, admission, canceller, stray>>
           /\ UNCHANGED <<retries, cancels, crashes>>
           /\ faults' \in 0 .. MaxFaults /\ faults' \geq faults
           /\ Worded(s) /\ doc' = [doc EXCEPT ![s] = doc'[s]]
           /\ registered' \in {registered, [registered EXCEPT ![s] = 0]}
           /\ ending' \in [Scans -> [Ids -> {"none", "failed", "cancelled"}]]
           /\ ai[s][i] \notin Ended
           /\ \E to \in Steps :
                 /\ ai' = [ai EXCEPT ![s][i] = to]
                 /\ to = "failed" => faults' > 0
                 /\ to \in Ended /\ faults' = 0 => ~Incomplete(doc'[s])
<1>0. /\ doc \in [Scans -> Report] /\ doc[s] \in Report /\ faults \in 0 .. MaxFaults /\ MaxFaults \in Nat
      /\ ending \in [Scans -> [Ids -> {"none", "failed", "cancelled"}]]
      /\ ai \in [Scans -> [Ids -> Steps]]
  BY LimitsAssumption DEF Jobs, TypeOK, Steps
<1> USE DEF Move, run, Steps, Ended
<1>1. CASE StartExplanations(s, i)
  BY <1>0, <1>1 DEF StartExplanations, counts, Worded
<1>2. CASE TakeSlot(s, i)
  <2>1. doc'[s] = [doc[s] EXCEPT !.wording = "running"] /\ doc' = [doc EXCEPT ![s] = doc'[s]]
    BY <1>0, <1>2 DEF TakeSlot, Save
  <2>2. Worded(s)
    BY <1>0, <2>1 DEF Worded, Report
  <2>3. QED  BY <1>0, <1>2, <2>1, <2>2 DEF TakeSlot, counts
<1>3. CASE SaveWording(s, i)
  <2>1. PICK w \in {"ready", "failed"} : doc'[s] = [doc[s] EXCEPT !.wording = w]
    BY <1>0, <1>3 DEF SaveWording, Save
  <2>2. Worded(s)
    BY <1>0, <2>1 DEF Worded, Report
  <2>3. doc' = [doc EXCEPT ![s] = doc'[s]]
    BY <1>0, <1>3 DEF SaveWording, Save
  <2>4. QED  BY <1>0, <1>3, <2>2, <2>3 DEF SaveWording, counts
<1>4. CASE ExplainFails(s, i)
  BY <1>0, <1>4 DEF ExplainFails, End, counts, Worded
<1>5. CASE FinishExplanations(s, i)
  <2> DEFINE to == IF ending[s][i] = "cancelled" THEN "cancelled" ELSE "done"
  <2>0. /\ to \in Steps /\ to # "failed" /\ ai' = [ai EXCEPT ![s][i] = to] /\ ai[s][i] \notin Ended
        /\ UNCHANGED <<main, handling, decided, mine, stop, issued, admission, canceller, stray>>
        /\ UNCHANGED <<retries, cancels, crashes, faults, ending>>
        /\ registered' = [registered EXCEPT ![s] = 0]
    BY <1>5 DEF FinishExplanations, Unregister, counts
  <2> HIDE DEF to
  <2>0a. faults' \in 0 .. MaxFaults /\ faults' \geq faults
    BY <1>0, <2>0
  <2>1. CASE doc[s].saved = "saved"
    <3>1. PICK c : doc' = [doc EXCEPT ![s] = ExplanationsFinished(doc[s], c)]
      BY <1>5, <2>1 DEF FinishExplanations, Save
    <3>2. doc'[s] = ExplanationsFinished(doc[s], c) /\ doc' = [doc EXCEPT ![s] = doc'[s]]
      BY <1>0, <3>1
    <3>3. Worded(s) /\ ~Incomplete(doc'[s])
      BY <1>0, <3>2, ExplanationsFinishedEffect, FinishedIsComplete DEF Worded
    <3>4. \E q \in Steps : /\ ai' = [ai EXCEPT ![s][i] = q]
                           /\ q = "failed" => faults' > 0
                           /\ q \in Ended /\ faults' = 0 => ~Incomplete(doc'[s])
      BY <2>0, <3>3
    <3>5. QED  BY <1>0, <2>0, <2>0a, <3>2, <3>3, <3>4
  <2>2. CASE doc[s].saved # "saved"
    <3>1. doc' = doc /\ ~Incomplete(doc'[s]) /\ Worded(s)
      BY <1>0, <1>5, <2>2 DEF FinishExplanations, Incomplete, Worded
    <3>2. \E q \in Steps : /\ ai' = [ai EXCEPT ![s][i] = q]
                           /\ q = "failed" => faults' > 0
                           /\ q \in Ended /\ faults' = 0 => ~Incomplete(doc'[s])
      BY <2>0, <3>1
    <3>3. QED  BY <1>0, <2>0, <2>0a, <3>1, <3>2
  <2>3. QED  BY <2>1, <2>2
<1>6. CASE FinishFails(s, i)
  <2>1. doc' = doc /\ Worded(s)
    BY <1>0, <1>6 DEF FinishFails, Worded
  <2>2. faults' \in 0 .. MaxFaults /\ faults' > 0 /\ faults' \geq faults
    BY <1>0, <1>6 DEF FinishFails, Fault
  <2>3. QED  BY <1>0, <1>6, <2>1, <2>2 DEF FinishFails, Fault, Unregister, counts
<1>7. QED  BY <1>1, <1>2, <1>3, <1>4, <1>5, <1>6 DEF RunExplanations

LEMMA JobsExplanations ==
    ASSUME Jobs, NEW s \in Scans, NEW i \in Ids, RunExplanations(s, i)
    PROVE  Jobs'
<1>1. /\ UNCHANGED <<main, handling, decided, mine, stop, issued, admission, canceller, stray>>
      /\ UNCHANGED <<retries, cancels, crashes>>
      /\ faults' \in 0 .. MaxFaults /\ faults' \geq faults
      /\ Worded(s) /\ doc' = [doc EXCEPT ![s] = doc'[s]]
      /\ registered' \in {registered, [registered EXCEPT ![s] = 0]}
      /\ ending' \in [Scans -> [Ids -> {"none", "failed", "cancelled"}]]
      /\ ai[s][i] \notin Ended
  BY ExplanationsEffect
<1>2. PICK to \in Steps : /\ ai' = [ai EXCEPT ![s][i] = to]
                          /\ to = "failed" => faults' > 0
                          /\ to \in Ended /\ faults' = 0 => ~Incomplete(doc'[s])
  BY ExplanationsEffect
<1>3. /\ TypeOK /\ LockIsNamed /\ ScanInv(s)
      /\ doc \in [Scans -> Report] /\ ai \in [Scans -> [Ids -> Steps]]
      /\ registered \in [Scans -> {0} \cup Ids] /\ issued[s] \in Nat /\ faults \in Nat
  BY LimitsAssumption, Bounds DEF Jobs, TypeOK, Steps
<1>4. TypeOK'
  <2>1. doc' \in [Scans -> Report] /\ ai' \in [Scans -> [Ids -> Steps]]
        /\ registered' \in [Scans -> {0} \cup Ids]
    BY <1>1, <1>2, <1>3 DEF Worded
  <2>2. QED  BY <1>1, <1>3, <2>1 DEF TypeOK, Steps
<1>5. issued[s] > 0
  BY <1>1, <1>3 DEF ScanInv, Issues, Ended
<1>6. IdsSuffice(s)' /\ Begins(s)' /\ Phases(s)' /\ Locked(s)'
  BY <1>1, <1>3, <1>5, WordedKeeps
<1>7. Issues(s)' /\ Fails(s)'
  BY <1>1, <1>2, <1>3, <1>5 DEF ScanInv, Issues, Fails
<1>8. Finishes(s)'
  BY <1>2, <1>3 DEF Finishes, Cared
<1>9. OnlyAt(s)
  BY <1>1, <1>2, <1>3 DEF OnlyAt
<1>10. SharedKept(s)
  <2>1. retries \in Nat /\ Pending \in {0, 1} /\ Pending' = Pending
    BY <1>1, <1>3, Bounds DEF Pending, Retrying
  <2>2. QED  BY <1>1, <1>3, <2>1 DEF SharedKept
<1>11. \A t \in Scans : t # s => ScanInv(t)'
  BY <1>3, <1>4, <1>9, <1>10, OthersKeep DEF Jobs
<1>12. LockIsNamed' /\ ScanInv(s)'
  BY <1>1, <1>3, <1>6, <1>7, <1>8 DEF LockIsNamed, ScanInv
<1>13. QED  BY <1>4, <1>11, <1>12 DEF Jobs

LEMMA JobsStray ==
    ASSUME Jobs, StrayWrite
    PROVE  Jobs'
<1>1. PICK x \in stray :
          /\ stray' = stray \ {x}
          /\ \/ /\ doc[x.scan].saved = "saved"
                /\ Save(x.scan, IF x.write = "finish"
                                  THEN ExplanationsFinished(doc[x.scan], x.code)
                                  ELSE [doc[x.scan] EXCEPT !.wording = x.write])
             \/ UNCHANGED doc
  BY DEF StrayWrite
<1>2. UNCHANGED <<run, stop, task, admission, canceller, counts>>
  BY DEF StrayWrite
<1> DEFINE s == x.scan
<1>3. /\ TypeOK /\ LockIsNamed /\ s \in Scans /\ doc \in [Scans -> Report]
      /\ x.write \in {"running", "ready", "failed", "finish"}
      /\ stray' \subseteq stray
  BY <1>1 DEF Jobs, TypeOK
<1>4. ScanInv(s) /\ issued[s] \in Nat /\ faults \in Nat /\ retries \in Nat /\ Pending \in {0, 1}
  BY <1>3, Bounds DEF Jobs
<1>5. issued[s] > 0
  BY <1>4 DEF ScanInv, Issues
<1>6. /\ Worded(s) /\ doc' = [doc EXCEPT ![s] = doc'[s]]
      /\ Incomplete(doc'[s]) => Incomplete(doc[s])
  <2>1. CASE doc' = doc
    BY <1>3, <2>1 DEF Worded
  <2>2. CASE doc' = [doc EXCEPT ![s] = ExplanationsFinished(doc[s], x.code)]
    <3>1. doc'[s] = ExplanationsFinished(doc[s], x.code)
      BY <1>3, <2>2
    <3>2. Worded(s) /\ ~Incomplete(doc'[s])
      BY <1>3, <3>1, ExplanationsFinishedEffect, FinishedIsComplete DEF Worded
    <3>3. QED  BY <1>3, <2>2, <3>1, <3>2
  <2>3. CASE x.write # "finish" /\ doc' = [doc EXCEPT ![s] = [doc[s] EXCEPT !.wording = x.write]]
    <3>1. doc'[s] = [doc[s] EXCEPT !.wording = x.write]
      BY <1>3, <2>3
    <3>2. /\ doc'[s] \in Report /\ doc'[s].saved = doc[s].saved /\ doc'[s].state = doc[s].state
          /\ doc'[s].phase = doc[s].phase /\ doc'[s].outcome = doc[s].outcome
      BY <1>3, <2>3, <3>1 DEF Report
    <3>3. QED  BY <1>3, <2>3, <3>1, <3>2 DEF Worded, Incomplete
  <2>4. QED  BY <1>1, <2>1, <2>2, <2>3 DEF Save
<1>7. UNCHANGED <<main, handling, decided, issued, admission, retries, faults, canceller, ai, registered>>
  BY <1>2 DEF run, task, counts
<1>8. TypeOK'
  <2>1. doc' \in [Scans -> Report]
    BY <1>3, <1>6 DEF Worded
  <2>2. stray' \subseteq [scan : Scans, write : {"running", "ready", "failed", "finish"},
                          code : {"none", "failed", "cancelled"}]
    BY <1>3 DEF TypeOK
  <2>3. QED  BY <1>2, <1>3, <2>1, <2>2 DEF run, task, counts, TypeOK
<1>9. IdsSuffice(s)' /\ Begins(s)' /\ Phases(s)' /\ Locked(s)'
  BY <1>3, <1>5, <1>6, <1>7, WordedKeeps
<1>10. Issues(s)' /\ Fails(s)' /\ Finishes(s)'
  BY <1>3, <1>4, <1>6, <1>7 DEF ScanInv, Issues, Fails, Finishes, Cared
<1>11. OnlyAt(s) /\ SharedKept(s)
  BY <1>3, <1>4, <1>6, <1>7 DEF OnlyAt, SharedKept, Pending, Retrying
<1>12. \A t \in Scans : t # s => ScanInv(t)'
  BY <1>3, <1>8, <1>11, OthersKeep DEF Jobs
<1>13. QED  BY <1>3, <1>7, <1>8, <1>9, <1>10, <1>12 DEF Jobs, LockIsNamed, ScanInv

LEMMA JobsCancel ==
    ASSUME Jobs, NEW s \in Scans, Cancel(s)
    PROVE  Jobs'
<1>0. /\ TypeOK /\ LockIsNamed /\ ScanInv(s) /\ doc \in [Scans -> Report] /\ doc[s] \in Report
      /\ registered \in [Scans -> {0} \cup Ids] /\ issued[s] \in Nat /\ faults \in 0 .. MaxFaults
      /\ MaxFaults \in Nat /\ retries \in Nat /\ Pending \in {0, 1}
      /\ canceller \in [at : {"idle", "gather", "finish", "pop"}, scan : Scans \cup {NoScan},
                        task : {0} \cup Ids]
  BY LimitsAssumption, Bounds DEF Jobs, TypeOK
<1>1. /\ canceller.scan = s /\ canceller.at # "idle"
      /\ UNCHANGED <<run, stop, ai, ending, issued, stray, admission, retries, cancels, crashes>>
      /\ canceller' = Idle \/ \E to \in {"finish", "pop"} : canceller' = [canceller EXCEPT !.at = to]
      /\ doc' = [doc EXCEPT ![s] = doc'[s]]
      /\ registered' \in {registered, [registered EXCEPT ![s] = 0]}
      /\ faults' \in 0 .. MaxFaults /\ faults' \geq faults
  BY <1>0 DEF Cancel, AwaitTask, FinishCancelled, CancelFails, PopTask, Cancelling, Save, Unregister,
              Fault, counts
<1>2. canceller' \in [at : {"idle", "gather", "finish", "pop"}, scan : Scans \cup {NoScan},
                      task : {0} \cup Ids]
      /\ canceller'.scan \in {s, NoScan}
  BY <1>0, <1>1 DEF Idle
<1>3. UNCHANGED <<main, handling, decided, issued, admission, retries, ai, stray>>
  BY <1>1 DEF run
<1>4. issued[s] > 0
  BY <1>0, <1>1 DEF ScanInv, Issues
<1>5. Worded(s) /\ Finishes(s)'
  <2>1. CASE AwaitTask(s)
    <3>1. /\ doc' = doc /\ faults' = faults
          /\ canceller' = [canceller EXCEPT !.at = IF doc[s].phase = "analysis" THEN "finish" ELSE "pop"]
      BY <2>1 DEF AwaitTask, Cancelling, counts
    <3>2. CASE doc[s].phase = "analysis"
      BY <1>0, <1>1, <3>1, <3>2 DEF Worded, Finishes, Cared
    <3>3. CASE doc[s].phase # "analysis"
      <4>1. doc[s].phase = "finished" /\ doc[s].state \in Outcome
        BY <1>0, <1>4, <3>3, ReportFields DEF ScanInv, Phases
      <4>2. ~Incomplete(doc[s])
        BY <4>1, FinishedIsComplete
      <4>3. QED  BY <1>0, <3>1, <4>2 DEF Worded, Finishes
    <3>4. QED  BY <3>2, <3>3
  <2>2. CASE FinishCancelled(s)
    <3>1. doc'[s] = ExplanationsFinished(doc[s], "cancelled")
      BY <1>0, <2>2 DEF FinishCancelled, Save
    <3>2. QED  BY <1>0, <3>1, ExplanationsFinishedEffect, FinishedIsComplete DEF Worded, Finishes
  <2>3. CASE CancelFails(s)
    <3>1. doc' = doc /\ faults' > 0
      BY <1>0, <2>3 DEF CancelFails, Fault
    <3>2. QED  BY <1>0, <3>1 DEF Worded, Finishes
  <2>4. CASE PopTask(s)
    <3>1. doc' = doc /\ faults' = faults /\ canceller.at = "pop"
      BY <2>4 DEF PopTask, Cancelling, counts
    <3>2. QED  BY <1>0, <1>3, <3>1 DEF Worded, ScanInv, Finishes, Cared
  <2>5. QED  BY <2>1, <2>2, <2>3, <2>4 DEF Cancel
<1>6. TypeOK'
  <2>1. doc' \in [Scans -> Report] /\ registered' \in [Scans -> {0} \cup Ids]
    BY <1>0, <1>1, <1>5 DEF Worded
  <2>2. QED  BY <1>0, <1>1, <1>2, <2>1 DEF run, TypeOK
<1>7. IdsSuffice(s)' /\ Begins(s)' /\ Phases(s)' /\ Locked(s)'
  BY <1>0, <1>1, <1>3, <1>4, <1>5, WordedKeeps
<1>8. Issues(s)' /\ Fails(s)'
  BY <1>0, <1>1, <1>3, <1>4 DEF ScanInv, Issues, Fails
<1>9. OnlyAt(s)
  BY <1>0, <1>1, <1>3 DEF OnlyAt
<1>10. SharedKept(s)
  BY <1>0, <1>1, <1>2, <1>3 DEF SharedKept, Pending, Retrying
<1>11. \A t \in Scans : t # s => ScanInv(t)'
  BY <1>0, <1>6, <1>9, <1>10, OthersKeep DEF Jobs
<1>12. QED  BY <1>0, <1>3, <1>5, <1>6, <1>7, <1>8, <1>11 DEF Jobs, LockIsNamed, ScanInv

-----------------------------------------------------------------------------
(* Requests, and the steps under the admission lock *)

\* The admission lock comes into the hands of s, or out of them.
LEMMA JobsAt ==
    ASSUME Jobs, TypeOK', NEW s \in Scans, ScanInv(s)', OnlyAt(s), SharedKept(s), LockIsNamed'
    PROVE  Jobs'
<1>1. \A t \in Scans : t # s => ScanInv(t)'
  BY OthersKeep DEF Jobs
<1>2. QED  BY <1>1 DEF Jobs

LEMMA AdmissionType ==
    ASSUME NEW s \in Scans \cup {NoScan},
           NEW kind \in {"free", "retry", "save", "register", "delete", "refresh"}
    PROVE  [kind |-> kind, scan |-> s] \in
               [kind : {"free", "retry", "save", "register", "delete", "refresh"},
                scan : Scans \cup {NoScan}]
  OBVIOUS

LEMMA JobsAdminister ==
    ASSUME Jobs, NEW s \in Scans, Administer(s)
    PROVE  Jobs'
<1>0. /\ TypeOK /\ LockIsNamed /\ ScanInv(s) /\ doc \in [Scans -> Report] /\ doc[s] \in Report
      /\ issued[s] \in Nat /\ faults \in 0 .. MaxFaults /\ MaxFaults \in Nat /\ retries \in Nat
      /\ RunsLeft(s) \in {0, 1, 2} /\ Pending \in {0, 1} /\ main[s] \in Places
      /\ s # NoScan
  BY LimitsAssumption, JobsAssumption, Bounds DEF Jobs, TypeOK
<1>1. /\ IdsSuffice(s) /\ Begins(s) /\ Issues(s) /\ Phases(s) /\ Locked(s) /\ Fails(s) /\ Finishes(s)
      /\ issued[s] + RunsLeft(s) + Pending \leq 2 + retries
  BY <1>0 DEF ScanInv, IdsSuffice
<1>2. /\ UNCHANGED <<main, decided, handling, mine, stop, stray, canceller, retries, cancels, crashes>>
      /\ admission.scan = s
      /\ faults' \in 0 .. MaxFaults /\ faults' \geq faults
      /\ main[s] \in {"none", "offered"} /\ doc[s].saved # "absent"
  BY <1>0, <1>1 DEF Administer, CheckRetry, SaveRetry, RetryFails, RegisterRetry, Delete, RefreshGuidance,
              Unchanged, run, counts, Fault, Locked
<1> USE DEF Admit, Leave, Unchanged, Save
<1>3. CASE CheckRetry(s)
  <2>1. /\ UNCHANGED <<doc, ai, ending, registered, issued, faults>>
        /\ Pending = 1
        /\ \/ /\ Ready(doc[s]) /\ admission' = [kind |-> "save", scan |-> s]
           \/ admission' = [kind |-> "free", scan |-> NoScan]
    BY <1>3 DEF CheckRetry, task, counts, Pending, Retrying
  <2>2. /\ admission' \in [kind : {"free", "retry", "save", "register", "delete", "refresh"},
                          scan : Scans \cup {NoScan}]
        /\ Pending' \leq Pending /\ Pending' \in Nat
    BY <2>1, AdmissionType DEF Pending, Retrying
  <2>3. TypeOK'
    BY <1>0, <1>2, <2>1, <2>2 DEF TypeOK
  <2>4. Ready(doc[s]) => main[s] = "none" /\ doc[s].phase = "finished"
    BY <1>1, <1>2 DEF Ready, Begins, Outcome
  <2>5. IdsSuffice(s)'
    <3>1. RunsLeft(s)' = RunsLeft(s)
      BY <1>2, <2>1 DEF RunsLeft
    <3>2. issued'[s] + RunsLeft(s)' + Pending' \leq 2 + retries'
      BY <1>0, <1>1, <1>2, <2>1, <2>2, <3>1
    <3>3. QED  BY <1>1, <1>2, <3>2 DEF IdsSuffice
  <2>6. ScanInv(s)'
    <3>1. Begins(s)' /\ Issues(s)' /\ Fails(s)'
      BY <1>1, <1>2, <2>1 DEF Begins, Issues, Fails
    <3>2. Phases(s)'
      BY <1>0, <1>1, <1>2, <2>1, <2>4 DEF Phases
    <3>3. Locked(s)'
      BY <1>0, <1>2, <2>1, <2>4 DEF Locked
    <3>4. admission # [kind |-> "register", scan |-> s]
      BY <1>3 DEF CheckRetry
    <3>5. Finishes(s)'
      BY <1>1, <1>2, <2>1, <3>4 DEF Finishes, Cared
    <3>6. QED  BY <2>5, <3>1, <3>2, <3>3, <3>5 DEF ScanInv
  <2>7. OnlyAt(s) /\ SharedKept(s) /\ LockIsNamed'
    <3>1. OnlyAt(s)
      BY <1>2, <2>1 DEF OnlyAt
    <3>2. admission.scan = s /\ admission'.scan \in {s, NoScan}
          /\ (admission'.kind = "free" <=> admission'.scan = NoScan)
      BY <1>0, <1>2, <2>1
    <3>3. retries + Pending' \leq retries' + Pending
      BY <1>0, <1>2, <2>2
    <3>4. SharedKept(s)
      BY <1>2, <2>1, <3>2, <3>3 DEF SharedKept
    <3>5. QED  BY <3>1, <3>2, <3>4 DEF LockIsNamed
  <2>8. QED  BY <2>3, <2>6, <2>7, JobsAt
<1>4. CASE SaveRetry(s)
  <2>1. /\ UNCHANGED <<ai, ending, registered, issued, faults>>
        /\ admission = [kind |-> "save", scan |-> s]
        /\ admission' = [kind |-> "register", scan |-> s]
        /\ doc'[s] = RetryRequested(doc[s]) /\ doc' = [doc EXCEPT ![s] = doc'[s]]
        /\ Pending = 1 /\ Pending' = 1
    BY <1>0, <1>4 DEF SaveRetry, task, counts, Pending, Retrying
  <2>2. main[s] = "none" /\ doc[s].state \in Outcome
    BY <1>1, <2>1 DEF Locked, Phases
  <2>3. doc'[s] \in Report /\ doc'[s].saved = doc[s].saved /\ doc'[s].phase = "analysis"
    BY <1>0, <2>1, <2>2, RequestedEffect
  <2>4. TypeOK'
    <3>1. doc' \in [Scans -> Report]
      BY <1>0, <2>1, <2>3
    <3>2. admission' \in [kind : {"free", "retry", "save", "register", "delete", "refresh"},
                          scan : Scans \cup {NoScan}]
      BY <2>1, AdmissionType
    <3>3. QED  BY <1>0, <1>2, <2>1, <3>1, <3>2 DEF TypeOK
  <2>5. IdsSuffice(s)'
    BY <1>1, <1>2, <2>1, <2>2, <2>3 DEF IdsSuffice, RunsLeft
  <2>6. ScanInv(s)'
    BY <1>0, <1>1, <1>2, <2>1, <2>2, <2>3, <2>5
    DEF ScanInv, Begins, Issues, Phases, Locked, Fails, Finishes, Cared
  <2>7. OnlyAt(s) /\ SharedKept(s) /\ LockIsNamed'
    BY <1>0, <1>2, <2>1 DEF OnlyAt, SharedKept, LockIsNamed
  <2>8. QED  BY <2>4, <2>6, <2>7, JobsAt
<1>5. CASE RetryFails(s)
  <2>1. /\ UNCHANGED <<doc, ai, ending, registered, issued>>
        /\ Pending = 1 /\ Pending' = 0 /\ faults' > 0
        /\ admission' = [kind |-> "free", scan |-> NoScan]
    BY <1>0, <1>5 DEF RetryFails, task, Pending, Retrying, Fault
  <2>2. TypeOK'
    <3>1. admission' \in [kind : {"free", "retry", "save", "register", "delete", "refresh"},
                          scan : Scans \cup {NoScan}]
      BY <2>1, AdmissionType
    <3>2. QED  BY <1>0, <1>2, <2>1, <3>1 DEF TypeOK
  <2>3. IdsSuffice(s)'
    <3>1. RunsLeft(s)' = RunsLeft(s)
      BY <1>2, <2>1 DEF RunsLeft
    <3>2. issued'[s] + RunsLeft(s)' + Pending' \leq 2 + retries'
      BY <1>0, <1>1, <1>2, <2>1, <3>1
    <3>3. QED  BY <1>1, <1>2, <3>2 DEF IdsSuffice
  <2>4. ScanInv(s)'
    BY <1>0, <1>1, <1>2, <2>1, <2>3 DEF ScanInv, Begins, Issues, Phases, Locked, Fails, Finishes
  <2>5. OnlyAt(s) /\ SharedKept(s) /\ LockIsNamed'
    BY <1>0, <1>2, <2>1 DEF OnlyAt, SharedKept, LockIsNamed
  <2>6. QED  BY <2>2, <2>4, <2>5, JobsAt
<1>6. CASE RegisterRetry(s)
  <2>1. /\ admission = [kind |-> "register", scan |-> s]
        /\ admission' = [kind |-> "free", scan |-> NoScan]
        /\ CreateAnalysis(s) /\ doc' = doc /\ faults' = faults /\ Pending = 1 /\ Pending' = 0
    BY <1>6 DEF RegisterRetry, counts, Pending, Retrying
  <2>2. main[s] = "none" /\ doc[s].phase # "checks"
    BY <1>1, <2>1 DEF Locked, Phases
  <2>3. issued[s] + 1 \leq 2 + retries
    BY <1>0, <1>1, <2>1
  <2>4. /\ issued[s] + 1 \in Ids /\ issued'[s] = issued[s] + 1
        /\ ai'[s] = [ai[s] EXCEPT ![issued[s] + 1] = "created"]
        /\ ai' \in [Scans -> [Ids -> Steps]] /\ ending' = ending
        /\ registered' \in [Scans -> {0} \cup Ids] /\ issued' \in [Scans -> {0} \cup Ids]
        /\ \A t \in Scans : t # s => /\ ai'[t] = ai[t] /\ issued'[t] = issued[t]
                                     /\ registered'[t] = registered[t]
    BY <1>0, <2>1, <2>3, CreateAnalysisEffect
  <2>5. TypeOK'
    <3>1. admission' \in [kind : {"free", "retry", "save", "register", "delete", "refresh"},
                          scan : Scans \cup {NoScan}]
      BY <2>1, AdmissionType
    <3>2. QED  BY <1>0, <1>2, <2>1, <2>4, <3>1 DEF TypeOK, Steps
  <2>6. IdsSuffice(s)'
    <3>1. RunsLeft(s)' = RunsLeft(s)
      BY <1>2, <2>1 DEF RunsLeft
    <3>2. issued'[s] + RunsLeft(s)' + Pending' \leq 2 + retries'
      BY <1>0, <1>1, <1>2, <2>1, <2>4, <3>1
    <3>3. QED  BY <1>1, <1>2, <3>2 DEF IdsSuffice
  <2>7. ai[s] \in [Ids -> Steps]
    BY <1>0 DEF TypeOK, Steps
  <2>8. ScanInv(s)'
    BY <1>0, <1>1, <1>2, <2>1, <2>2, <2>4, <2>6, <2>7
    DEF ScanInv, Begins, Issues, Phases, Locked, Fails, Finishes, Cared, Ended
  <2>9. OnlyAt(s) /\ SharedKept(s) /\ LockIsNamed'
    BY <1>0, <1>2, <2>1, <2>4 DEF OnlyAt, SharedKept, LockIsNamed
  <2>10. QED  BY <2>5, <2>8, <2>9, JobsAt
<1>7. CASE Delete(s) \/ RefreshGuidance(s)
  <2>1. /\ UNCHANGED <<ai, ending, registered, issued, faults>>
        /\ admission.kind \in {"delete", "refresh"}
        /\ admission' = [kind |-> "free", scan |-> NoScan] /\ Pending = 0 /\ Pending' = 0
    BY <1>7 DEF Delete, RefreshGuidance, task, counts, Pending, Retrying
  <2>2. /\ doc' = [doc EXCEPT ![s] = doc'[s]]
        /\ \/ doc'[s] = doc[s]
           \/ Ready(doc[s]) /\ doc'[s] = [doc[s] EXCEPT !.saved = "trash"]
           \/ Ready(doc[s]) /\ doc'[s] = [doc[s] EXCEPT !.wording = "not_started"]
    BY <1>0, <1>7 DEF Delete, RefreshGuidance, Removable
  <2>3. /\ doc'[s] \in Report /\ doc'[s].saved # "absent" /\ doc'[s].state = doc[s].state
        /\ doc'[s].phase = doc[s].phase /\ doc'[s].outcome = doc[s].outcome
        /\ Incomplete(doc'[s]) => Incomplete(doc[s])
    BY <1>0, <1>2, <2>2 DEF Report, Incomplete
  <2>4. TypeOK'
    <3>1. admission' \in [kind : {"free", "retry", "save", "register", "delete", "refresh"},
                          scan : Scans \cup {NoScan}]
      BY <2>1, AdmissionType
    <3>2. doc' \in [Scans -> Report]
      BY <1>0, <2>2, <2>3
    <3>3. QED  BY <1>0, <1>2, <2>1, <3>1, <3>2 DEF TypeOK
  <2>5. IdsSuffice(s)'
    BY <1>1, <1>2, <2>1, <2>3 DEF IdsSuffice, RunsLeft
  <2>6. ScanInv(s)'
    BY <1>0, <1>1, <1>2, <2>1, <2>3, <2>5
    DEF ScanInv, Begins, Issues, Phases, Locked, Fails, Finishes, Cared
  <2>7. OnlyAt(s) /\ SharedKept(s) /\ LockIsNamed'
    BY <1>0, <1>2, <2>1, <2>2 DEF OnlyAt, SharedKept, LockIsNamed
  <2>8. QED  BY <2>4, <2>6, <2>7, JobsAt
<1>8. QED  BY <1>3, <1>4, <1>5, <1>6, <1>7 DEF Administer

\* What holds the lock is new; the scan it names does not run.
LEMMA Taken ==
    ASSUME Jobs, NEW s \in Scans, NEW kind \in {"retry", "delete", "refresh"}, Free,
           admission' = [kind |-> kind, scan |-> s],
           doc[s].saved = "saved", main[s] \in {"none", "offered"},
           UNCHANGED <<doc, run, stop, task, stray, canceller, cancels, faults, crashes>>,
           retries' \in 0 .. MaxRetries, retries' = retries + (IF kind = "retry" THEN 1 ELSE 0)
    PROVE  Jobs'
<1>0. /\ TypeOK /\ LockIsNamed /\ ScanInv(s) /\ doc[s] \in Report /\ faults \in Nat
      /\ issued[s] \in Nat /\ retries \in Nat /\ RunsLeft(s) \in {0, 1, 2}
      /\ s # NoScan
  BY JobsAssumption, Bounds DEF Jobs
<1>1. /\ IdsSuffice(s) /\ Begins(s) /\ Issues(s) /\ Phases(s) /\ Locked(s) /\ Fails(s) /\ Finishes(s)
      /\ issued[s] + RunsLeft(s) + Pending \leq 2 + retries
  BY <1>0 DEF ScanInv, IdsSuffice
<1>2. Pending = 0 /\ Pending' = IF kind = "retry" THEN 1 ELSE 0
  BY DEF Free, Pending, Retrying
<1>3. UNCHANGED <<doc, main, handling, decided, ai, issued, registered, stray, canceller, faults>>
  BY DEF run, task
<1>4. TypeOK'
  <2>1. admission' \in [kind : {"free", "retry", "save", "register", "delete", "refresh"},
                        scan : Scans \cup {NoScan}]
    BY AdmissionType
  <2>2. QED  BY <1>0, <2>1 DEF TypeOK, run, task
<1>5. ScanInv(s)'
  <2>1. RunsLeft(s)' = RunsLeft(s)
    BY <1>3 DEF RunsLeft
  <2>2. issued'[s] + RunsLeft(s)' + Pending' \leq 2 + retries'
    BY <1>0, <1>1, <1>2, <1>3, <2>1
  <2>3. IdsSuffice(s)'
    BY <1>1, <1>3, <2>2 DEF IdsSuffice
  <2>4. Begins(s)' /\ Issues(s)' /\ Fails(s)'
    BY <1>1, <1>3 DEF Begins, Issues, Fails
  <2>5. Phases(s)' /\ Locked(s)'
    BY <1>1, <1>3 DEF Phases, Locked
  <2>6. Finishes(s)'
    BY <1>1, <1>3 DEF Finishes, Cared, Free
  <2>7. QED  BY <2>3, <2>4, <2>5, <2>6 DEF ScanInv
<1>6. OnlyAt(s)
  BY <1>3 DEF OnlyAt
<1>7. admission.scan = NoScan
  BY <1>0 DEF LockIsNamed, Free
<1>8. SharedKept(s)
  BY <1>0, <1>2, <1>3, <1>7 DEF SharedKept
<1>9. QED  BY <1>0, <1>4, <1>5, <1>6, <1>8, JobsAt DEF LockIsNamed

LEMMA JobsAdmit ==
    ASSUME Jobs, NEW s \in Scans, BeginRetry(s) \/ BeginMaintenance(s)
    PROVE  Jobs'
<1>1. main[s] \in {"none", "offered"}
  BY DEF BeginRetry, BeginMaintenance, ActiveScans, Active
<1>2. retries \in 0 .. MaxRetries /\ MaxRetries \in Nat
  BY LimitsAssumption DEF Jobs, TypeOK
<1>3. CASE BeginRetry(s)
  <2>1. /\ Free /\ admission' = [kind |-> "retry", scan |-> s] /\ doc[s].saved = "saved"
        /\ UNCHANGED <<doc, run, stop, task, stray, canceller, cancels, faults, crashes>>
    BY <1>3 DEF BeginRetry, Admit, Unchanged
  <2>2. retries' \in 0 .. MaxRetries /\ retries' = retries + 1
    BY <1>2, <1>3 DEF BeginRetry
  <2>3. retries' = retries + (IF "retry" = "retry" THEN 1 ELSE 0)
    BY <2>2
  <2>4. QED  BY <1>1, <2>1, <2>2, <2>3, Taken
<1>4. CASE BeginMaintenance(s)
  <2>1. PICK kind \in {"delete", "refresh"} : Admit(kind, s)
    BY <1>4 DEF BeginMaintenance
  <2>2. retries' = retries + (IF kind = "retry" THEN 1 ELSE 0)
    BY <1>2, <1>4 DEF BeginMaintenance, counts
  <2>3. QED  BY <1>1, <1>2, <1>4, <2>1, <2>2, Taken DEF BeginMaintenance, Admit, Unchanged, counts
<1>5. QED  BY <1>3, <1>4

LEMMA JobsStart ==
    ASSUME Jobs, NEW s \in Scans, CreateReport(s) \/ Start(s)
    PROVE  Jobs'
<1>0. /\ TypeOK /\ LockIsNamed /\ ScanInv(s) /\ doc[s] \in Report /\ faults \in Nat
      /\ issued[s] \in Nat /\ retries \in Nat /\ RunsLeft(s) \in {0, 1, 2} /\ Pending \in {0, 1}
      /\ s # NoScan /\ doc \in [Scans -> Report] /\ main \in [Scans -> Places]
  BY JobsAssumption, Bounds DEF Jobs, TypeOK, Places
<1>1. /\ IdsSuffice(s) /\ Begins(s) /\ Issues(s) /\ Phases(s) /\ Locked(s) /\ Fails(s) /\ Finishes(s)
      /\ issued[s] + RunsLeft(s) + Pending \leq 2 + retries
  BY <1>0 DEF ScanInv, IdsSuffice
<1>2. UNCHANGED <<stop, decided, handling, mine, task, stray, admission, canceller, counts>>
  BY DEF CreateReport, Start
<1>3. UNCHANGED <<decided, handling, ai, issued, registered, stray, admission, canceller, faults, retries>>
      /\ Pending' = Pending
  BY <1>2 DEF task, counts, Pending, Retrying
<1>4. /\ main' = [main EXCEPT ![s] = main'[s]] /\ main'[s] \in Places
      /\ doc' = [doc EXCEPT ![s] = doc'[s]]
      /\ \/ /\ main[s] = "none" /\ doc[s].saved = "absent" /\ main'[s] = "offered"
            /\ doc'[s] = [doc[s] EXCEPT !.saved = "saved"]
         \/ admission.scan # s /\ main[s] = "offered" /\ main'[s] = "created" /\ doc'[s] = doc[s]
         \/ /\ admission.scan # s /\ main[s] = "offered" /\ main'[s] = "none"
            /\ doc'[s] = [doc[s] EXCEPT !.saved = "trash"]
  <2>1. Free => admission.scan # s
    BY <1>0 DEF LockIsNamed, Free
  <2>2. CASE CreateReport(s)
    BY <1>0, <2>2 DEF CreateReport, Save, Places
  <2>3. CASE Start(s) /\ HasCapacity
    BY <1>0, <2>1, <2>3 DEF Start, Save, Places
  <2>4. CASE Start(s) /\ ~HasCapacity
    BY <1>0, <2>1, <2>4 DEF Start, Save, Places
  <2>5. QED  BY <2>2, <2>3, <2>4
<1>5. /\ doc'[s] \in Report /\ doc'[s].saved # "absent" /\ doc'[s].state = doc[s].state
      /\ doc'[s].phase = doc[s].phase /\ doc'[s].outcome = doc[s].outcome
      /\ main'[s] = "none" => doc'[s].saved = "trash"
  <2>1. doc[s] \in Report /\ (main[s] # "none" => doc[s].saved # "absent")
    BY <1>0, <1>1 DEF Begins
  <2>2. CASE doc'[s] = doc[s] /\ main[s] # "none" /\ main'[s] # "none"
    <3>1. doc'[s] \in Report /\ doc'[s].saved # "absent"
      BY <2>1, <2>2
    <3>2. QED  BY <2>2, <3>1
  <2>3. ASSUME NEW v \in {"saved", "trash"}, doc'[s] = [doc[s] EXCEPT !.saved = v]
        PROVE  /\ doc'[s] \in Report /\ doc'[s].saved = v /\ doc'[s].state = doc[s].state
               /\ doc'[s].phase = doc[s].phase /\ doc'[s].outcome = doc[s].outcome
    BY <2>1, <2>3 DEF Report
  <2>4. QED  BY <1>4, <2>2, <2>3
<1>6. TypeOK'
  <2>1. doc' \in [Scans -> Report] /\ main' \in [Scans -> Places]
    BY <1>0, <1>4, <1>5
  <2>2. QED  BY <1>0, <1>2, <2>1 DEF TypeOK, task, counts, Places
<1>7. issued[s] = 0 /\ doc[s].phase = "checks" /\ doc[s].outcome = "none"
      /\ doc[s].state \in {"queued", "running"} /\ ~handling[s]
  BY <1>1, <1>4 DEF Begins, IdsSuffice
<1>8. ScanInv(s)'
  <2>1. RunsLeft(s) = 2 /\ RunsLeft(s)' \in {0, 2}
    BY <1>4, <1>5 DEF RunsLeft
  <2>2. issued'[s] + RunsLeft(s)' + Pending' \leq 2 + retries'
    <3>1. issued'[s] = issued[s] /\ Pending' = Pending /\ retries' = retries
      BY <1>3
    <3>2. QED  BY <1>0, <1>1, <2>1, <3>1
  <2>3. IdsSuffice(s)'
    BY <1>3, <1>4, <1>7, <2>2 DEF IdsSuffice
  <2>4. Begins(s)'
    BY <1>3, <1>4, <1>5, <1>7 DEF Begins
  <2>5. Issues(s)' /\ Fails(s)'
    BY <1>1, <1>3 DEF Issues, Fails
  <2>6. Phases(s)'
    BY <1>1, <1>3, <1>4, <1>5, <1>7 DEF Phases
  <2>7. Locked(s)'
    BY <1>1, <1>3, <1>4, <1>5 DEF Locked
  <2>8. Finishes(s)'
    BY <1>4, <1>5 DEF Finishes, Cared, Incomplete
  <2>9. QED  BY <2>3, <2>4, <2>5, <2>6, <2>7, <2>8 DEF ScanInv
<1>9. OnlyAt(s)
  BY <1>0, <1>3, <1>4 DEF OnlyAt
<1>10. SharedKept(s)
  BY <1>0, <1>3 DEF SharedKept
<1>11. QED  BY <1>0, <1>3, <1>6, <1>8, <1>9, <1>10, JobsAt DEF LockIsNamed

\* A call of cancel() wakes the AI task that is registered.
LEMMA CancelEffect ==
    ASSUME TypeOK, NEW s \in Scans, NEW i \in Ids, CancelTask(s, i)
    PROVE  /\ \E to \in Steps : /\ ai' = [ai EXCEPT ![s][i] = to]
                                /\ to = "failed" => ai[s][i] = "failed"
           /\ ending' \in [Scans -> [Ids -> {"none", "failed", "cancelled"}]]
           /\ registered' \in {registered, [registered EXCEPT ![s] = 0]}
           /\ stray' \subseteq [scan : Scans, write : {"running", "ready", "failed", "finish"},
                                code : {"none", "failed", "cancelled"}]
           /\ \A x \in stray' : x \in stray \/ x.scan = s
<1>0. /\ ai \in [Scans -> [Ids -> Steps]] /\ registered \in [Scans -> {0} \cup Ids]
      /\ ending \in [Scans -> [Ids -> {"none", "failed", "cancelled"}]]
      /\ stray \subseteq [scan : Scans, write : {"running", "ready", "failed", "finish"},
                          code : {"none", "failed", "cancelled"}]
  BY DEF TypeOK, Steps
<1> DEFINE at == ai[s][i]
           to == CASE at \in Ended -> at
                   [] at \in {"queue", "model"} -> "finish"
                   [] OTHER -> "cancelled"
           code == IF at \in {"queue", "model"} THEN "cancelled" ELSE ending[s][i]
           Left == CASE at = "model"  -> {"running", "ready", "failed"}
                     [] at = "finish" -> {"finish"}
                     [] OTHER -> {}
<1>1. /\ ai' = [ai EXCEPT ![s][i] = to]
      /\ ending' = [ending EXCEPT ![s][i] = code]
      /\ registered' = [registered EXCEPT ![s] = IF at = "finish" THEN 0 ELSE registered[s]]
      /\ \/ UNCHANGED stray
         \/ \E w \in Left : stray' = stray \cup {[scan |-> s, write |-> w, code |-> ending[s][i]]}
  BY <1>0 DEF CancelTask
<1>2. at \in Steps
  BY <1>0
<1>3. to \in Steps /\ (to = "failed" => at = "failed")
  BY <1>2 DEF Steps, Ended
<1>4. ending[s][i] \in {"none", "failed", "cancelled"} /\ code \in {"none", "failed", "cancelled"}
  BY <1>0
<1>5. Left \subseteq {"running", "ready", "failed", "finish"}
  OBVIOUS
<1> HIDE DEF at, to, code, Left
<1>6. ending' \in [Scans -> [Ids -> {"none", "failed", "cancelled"}]]
  BY <1>0, <1>1, <1>4
<1>7. registered' \in {registered, [registered EXCEPT ![s] = 0]}
  BY <1>0, <1>1
<1>8. /\ stray' \subseteq [scan : Scans, write : {"running", "ready", "failed", "finish"},
                           code : {"none", "failed", "cancelled"}]
      /\ \A x \in stray' : x \in stray \/ x.scan = s
  BY <1>0, <1>1, <1>4, <1>5, SMTT(30)
<1>9. \E q \in Steps : ai' = [ai EXCEPT ![s][i] = q] /\ (q = "failed" => ai[s][i] = "failed")
  BY <1>1, <1>3 DEF at
<1>10. QED  BY <1>6, <1>7, <1>8, <1>9

LEMMA JobsBeginCancel ==
    ASSUME Jobs, NEW s \in Scans, BeginCancel(s)
    PROVE  Jobs'
<1>0. /\ TypeOK /\ LockIsNamed /\ ScanInv(s) /\ doc[s] \in Report /\ faults \in Nat
      /\ issued[s] \in Nat /\ retries \in Nat /\ RunsLeft(s) \in {0, 1, 2} /\ Pending \in {0, 1}
      /\ ai \in [Scans -> [Ids -> Steps]] /\ registered \in [Scans -> {0} \cup Ids]
      /\ stop \in [Scans -> BOOLEAN] /\ main[s] \in Places
      /\ cancels \in 0 .. MaxCancels /\ MaxCancels \in Nat
  BY LimitsAssumption, Bounds DEF Jobs, TypeOK, Steps
<1>1. /\ IdsSuffice(s) /\ Begins(s) /\ Issues(s) /\ Phases(s) /\ Locked(s) /\ Fails(s) /\ Finishes(s)
  BY <1>0 DEF ScanInv
<1>2. /\ UNCHANGED <<doc, main, decided, handling, mine, issued, admission, retries, faults, crashes>>
      /\ canceller = Idle /\ cancels' \in 0 .. MaxCancels
      /\ stop' \in [Scans -> BOOLEAN]
      /\ Pending' = Pending
  BY <1>0 DEF BeginCancel, run, Pending, Retrying, Active
<1>3. /\ \E i \in Ids, to \in Steps : /\ ai' = ai \/ ai' = [ai EXCEPT ![s][i] = to]
                                      /\ to = "failed" => ai[s][i] = "failed"
      /\ ending' \in [Scans -> [Ids -> {"none", "failed", "cancelled"}]]
      /\ registered' \in {registered, [registered EXCEPT ![s] = 0]}
      /\ stray' \subseteq [scan : Scans, write : {"running", "ready", "failed", "finish"},
                           code : {"none", "failed", "cancelled"}]
      /\ \A x \in stray' : x \in stray \/ x.scan = s
      /\ \/ UNCHANGED <<ai, ending, registered, stray, canceller>> /\ Active(s)
         \/ /\ issued[s] > 0
            /\ canceller' \in [at : {"gather"}, scan : {s}, task : Ids]
  <2>1. CASE registered[s] = 0
    <3>1. UNCHANGED <<ai, ending, registered, stray, canceller>> /\ Active(s)
      BY <2>1 DEF BeginCancel, AnalysisActive
    <3>2. /\ ending \in [Scans -> [Ids -> {"none", "failed", "cancelled"}]]
          /\ stray \subseteq [scan : Scans, write : {"running", "ready", "failed", "finish"},
                              code : {"none", "failed", "cancelled"}]
      BY <1>0 DEF TypeOK
    <3>3. 1 \in Ids /\ "done" \in Steps
      BY LimitsAssumption DEF Ids, Steps, Ended
    <3>4. QED  BY <3>1, <3>2, <3>3
  <2>2. CASE registered[s] # 0
    <3> DEFINE i == registered[s]
    <3>1. i \in Ids
      BY <1>0, <2>2
    <3>2. CancelTask(s, i) /\ canceller' = [at |-> "gather", scan |-> s, task |-> i]
      BY <2>2 DEF BeginCancel
    <3>3. issued[s] > 0
      BY <1>0, <1>1, <2>2 DEF Issues
    <3> HIDE DEF i
    <3>4. canceller' \in [at : {"gather"}, scan : {s}, task : Ids]
      BY <3>1, <3>2
    <3>5. PICK to \in Steps : ai' = [ai EXCEPT ![s][i] = to] /\ (to = "failed" => ai[s][i] = "failed")
      BY <1>0, <3>1, <3>2, CancelEffect
    <3>6. QED  BY <1>0, <3>1, <3>2, <3>3, <3>4, <3>5, CancelEffect
  <2>3. QED  BY <2>1, <2>2
<1>4. ai' \in [Scans -> [Ids -> Steps]] /\ registered' \in [Scans -> {0} \cup Ids]
      /\ \A t \in Scans : t # s => ai'[t] = ai[t] /\ registered'[t] = registered[t]
  <2>1. PICK i \in Ids, to \in Steps : ai' = ai \/ ai' = [ai EXCEPT ![s][i] = to]
    BY <1>3
  <2>2. ai' \in [Scans -> [Ids -> Steps]] /\ \A t \in Scans : t # s => ai'[t] = ai[t]
    BY <1>0, <2>1
  <2>3. registered' \in [Scans -> {0} \cup Ids]
        /\ \A t \in Scans : t # s => registered'[t] = registered[t]
    <3>1. CASE registered' = registered
      BY <1>0, <3>1
    <3>2. CASE registered' = [registered EXCEPT ![s] = 0]
      BY <1>0, <3>2
    <3>3. QED  BY <1>3, <3>1, <3>2
  <2>4. QED  BY <2>2, <2>3
<1>5. canceller' \in [at : {"idle", "gather", "finish", "pop"}, scan : Scans \cup {NoScan},
                      task : {0} \cup Ids]
      /\ canceller'.scan \in {s, NoScan} /\ canceller.scan = NoScan
  BY <1>2, <1>3 DEF Idle
<1>6. TypeOK'
  BY <1>0, <1>2, <1>3, <1>4, <1>5 DEF TypeOK, Steps
<1>7. ScanInv(s)'
  <2>1. IdsSuffice(s)' /\ Begins(s)' /\ Phases(s)' /\ Locked(s)'
    BY <1>1, <1>2 DEF IdsSuffice, RunsLeft, Begins, Phases, Locked
  <2>2. Issues(s)'
    BY <1>1, <1>2, <1>3 DEF Issues
  <2>3. Fails(s)'
    <3>1. \A j \in Ids : ai'[s][j] = "failed" => ai[s][j] = "failed"
      BY <1>0, <1>3
    <3>2. QED  BY <1>1, <1>2, <3>1 DEF Fails
  <2>4. Finishes(s)'
    <3>1. CASE UNCHANGED <<ai, ending, registered, stray, canceller>> /\ Active(s)
      BY <1>1, <1>2, <3>1 DEF Finishes, Cared
    <3>2. CASE canceller' \in [at : {"gather"}, scan : {s}, task : Ids]
      BY <3>2 DEF Finishes, Cared
    <3>3. QED  BY <1>3, <3>1, <3>2
  <2>5. QED  BY <2>1, <2>2, <2>3, <2>4 DEF ScanInv
<1>8. OnlyAt(s)
  BY <1>2, <1>4 DEF OnlyAt
<1>9. SharedKept(s)
  BY <1>0, <1>2, <1>3, <1>5 DEF SharedKept
<1>10. QED  BY <1>0, <1>2, <1>6, <1>7, <1>8, <1>9, JobsAt DEF LockIsNamed

LEMMA JobsRequest ==
    ASSUME Jobs, NEW s \in Scans, Request(s)
    PROVE  Jobs'
  BY JobsStart, JobsAdmit, JobsBeginCancel DEF Request

-----------------------------------------------------------------------------
(* The other steps *)

LEMMA JobsInit ==
    ASSUME Init
    PROVE  Jobs
<1>1. 0 \in {0} \cup Ids /\ "none" \in Steps /\ "none" \in Places
  BY DEF Steps, Ended, Places
<1>2. TypeOK
  <2>1. doc \in [Scans -> Report]
    BY DEF Init, Report, Outcome
  <2>2. /\ main \in [Scans -> Places] /\ stop \in [Scans -> BOOLEAN]
        /\ decided \in [Scans -> Outcome \cup {"none"}] /\ handling \in [Scans -> BOOLEAN]
        /\ mine \in [Scans -> {0} \cup Ids] /\ ai \in [Scans -> [Ids -> Steps]]
        /\ ending \in [Scans -> [Ids -> {"none", "failed", "cancelled"}]]
        /\ registered \in [Scans -> {0} \cup Ids] /\ issued \in [Scans -> {0} \cup Ids]
    BY <1>1 DEF Init
  <2>3. /\ stray \subseteq [scan : Scans, write : {"running", "ready", "failed", "finish"},
                            code : {"none", "failed", "cancelled"}]
        /\ admission \in [kind : {"free", "retry", "save", "register", "delete", "refresh"},
                          scan : Scans \cup {NoScan}]
        /\ canceller \in [at : {"idle", "gather", "finish", "pop"}, scan : Scans \cup {NoScan},
                          task : {0} \cup Ids]
    BY DEF Init, Idle
  <2>4. /\ retries \in 0 .. MaxRetries /\ cancels \in 0 .. MaxCancels
        /\ faults \in 0 .. MaxFaults /\ crashes \in 0 .. MaxCrashes
    BY LimitsAssumption DEF Init
  <2>5. QED  BY <2>1, <2>2, <2>3, <2>4 DEF TypeOK, Places, Steps
<1>3. LockIsNamed
  BY DEF Init, LockIsNamed
<1>4. ASSUME NEW s \in Scans PROVE ScanInv(s)
  <2>1. /\ doc[s] = [saved |-> "absent", state |-> "queued", phase |-> "checks",
                     outcome |-> "none", wording |-> "not_started"]
        /\ main[s] = "none" /\ handling[s] = FALSE /\ issued[s] = 0 /\ registered[s] = 0
        /\ \A i \in Ids : ai[s][i] = "none"
        /\ stray = {} /\ canceller.at = "idle" /\ admission = [kind |-> "free", scan |-> NoScan]
        /\ retries = 0 /\ s # NoScan
    BY JobsAssumption DEF Init, Idle
  <2>2. IdsSuffice(s)
    BY <2>1 DEF IdsSuffice, RunsLeft, Pending, Retrying
  <2>3. Begins(s) /\ Issues(s) /\ Phases(s)
    BY <2>1 DEF Begins, Issues, Phases
  <2>4. Locked(s) /\ Fails(s) /\ Finishes(s)
    BY <2>1 DEF Locked, Fails, Finishes, Incomplete
  <2>5. QED  BY <2>2, <2>3, <2>4 DEF ScanInv
<1>5. QED  BY <1>2, <1>3, <1>4 DEF Jobs

LEMMA JobsCrash ==
    ASSUME Jobs, CrashAndReconcile
    PROVE  Jobs'
<1>0. /\ TypeOK /\ doc \in [Scans -> Report] /\ ai \in [Scans -> [Ids -> Steps]]
      /\ issued \in [Scans -> {0} \cup Ids] /\ retries \in Nat /\ Pending \in {0, 1}
      /\ crashes \in 0 .. MaxCrashes /\ MaxCrashes \in Nat
  BY LimitsAssumption, Bounds DEF Jobs, TypeOK, Steps
<1>1. PICK o \in [Scans -> {"partial", "failed"}] :
          doc' = [s \in Scans |-> IF Incomplete(doc[s]) THEN Interrupted(doc[s], o[s]) ELSE doc[s]]
  BY DEF CrashAndReconcile
<1>2. /\ main' = [s \in Scans |-> "none"] /\ stop' = [s \in Scans |-> FALSE]
      /\ decided' = [s \in Scans |-> "none"] /\ handling' = [s \in Scans |-> FALSE]
      /\ mine' = [s \in Scans |-> 0]
      /\ ai' = [s \in Scans |-> [i \in Ids |-> IF ai[s][i] = "none" THEN "none" ELSE "done"]]
      /\ registered' = [s \in Scans |-> 0] /\ stray' = {}
      /\ admission' = [kind |-> "free", scan |-> NoScan] /\ canceller' = Idle
      /\ UNCHANGED <<ending, issued, retries, cancels, faults>>
      /\ crashes' = crashes + 1 /\ crashes < MaxCrashes
  BY DEF CrashAndReconcile, Leave, Admit
<1>3. \A s \in Scans :
          /\ doc'[s] \in Report /\ doc'[s].saved = doc[s].saved
          /\ \/ doc'[s] = doc[s] /\ ~Incomplete(doc[s])
             \/ /\ Incomplete(doc[s])
                /\ doc'[s].phase = "finished" /\ doc'[s].state \in Outcome
  BY <1>0, <1>1, InterruptedEffect
<1>4. TypeOK'
  <2>1. doc' \in [Scans -> Report]
    BY <1>1, <1>3
  <2>2. ai' \in [Scans -> [Ids -> Steps]]
    BY <1>2 DEF Steps, Ended
  <2>3. /\ admission' \in [kind : {"free", "retry", "save", "register", "delete", "refresh"},
                           scan : Scans \cup {NoScan}]
        /\ canceller' \in [at : {"idle", "gather", "finish", "pop"}, scan : Scans \cup {NoScan},
                           task : {0} \cup Ids]
    BY <1>2 DEF Idle
  <2>4. /\ main' \in [Scans -> Places] /\ stop' \in [Scans -> BOOLEAN]
        /\ decided' \in [Scans -> Outcome \cup {"none"}] /\ handling' \in [Scans -> BOOLEAN]
        /\ mine' \in [Scans -> {0} \cup Ids] /\ registered' \in [Scans -> {0} \cup Ids]
    BY <1>2 DEF Places
  <2>5. stray' \subseteq [scan : Scans, write : {"running", "ready", "failed", "finish"},
                          code : {"none", "failed", "cancelled"}]
    BY <1>2
  <2>6. crashes' \in 0 .. MaxCrashes
    BY <1>0, <1>2
  <2>7. QED  BY <1>0, <1>2, <2>1, <2>2, <2>3, <2>4, <2>5, <2>6 DEF TypeOK, Places, Steps
<1>5. ASSUME NEW s \in Scans PROVE ScanInv(s)'
  <2>1. /\ main'[s] = "none" /\ handling'[s] = FALSE /\ registered'[s] = 0 /\ issued'[s] = issued[s]
        /\ \A i \in Ids : ai'[s][i] = IF ai[s][i] = "none" THEN "none" ELSE "done"
        /\ s # NoScan /\ Pending' = 0 /\ retries' = retries /\ faults' = faults
    BY <1>2, JobsAssumption DEF Pending, Retrying
  <2>2. IdsSuffice(s) /\ Begins(s) /\ Issues(s) /\ Phases(s)
    BY DEF Jobs, ScanInv
  <2>3. /\ doc'[s].saved = doc[s].saved /\ doc[s] \in Report /\ doc'[s] \in Report
        /\ doc'[s] = doc[s] \/ (doc'[s].phase = "finished" /\ doc'[s].state \in Outcome)
        /\ ~Incomplete(doc'[s])
        /\ doc[s].saved = "absent" => doc'[s] = doc[s]
    <3>1. CASE doc'[s] = doc[s] /\ ~Incomplete(doc[s])
      BY <1>0, <3>1 DEF Incomplete
    <3>2. CASE Incomplete(doc[s]) /\ doc'[s].phase = "finished" /\ doc'[s].state \in Outcome
      BY <1>0, <1>3, <3>2, FinishedIsComplete DEF Incomplete
    <3>3. QED  BY <1>3, <3>1, <3>2
  <2>4. IdsSuffice(s)'
    <3>1. RunsLeft(s)' \in {0, 2} /\ (RunsLeft(s)' = 2 => doc[s].saved = "absent")
      BY <2>1, <2>3 DEF RunsLeft
    <3>2. doc[s].saved = "absent" => RunsLeft(s) = 2
      BY <2>2 DEF Begins, RunsLeft
    <3>3. issued[s] + RunsLeft(s) + Pending \leq 2 + retries /\ issued[s] \in Nat /\ RunsLeft(s) \in {0, 1, 2}
      BY <1>0, <2>2, Bounds DEF IdsSuffice
    <3>4. issued'[s] + RunsLeft(s)' + Pending' \leq 2 + retries'
      BY <1>0, <2>1, <3>1, <3>2, <3>3
    <3>5. QED  BY <2>1, <3>4 DEF IdsSuffice
  <2>5. Begins(s)' /\ Phases(s)'
    BY <1>2, <2>1, <2>2, <2>3 DEF Begins, Phases
  <2>6. Issues(s)'
    BY <1>2, <2>1, <2>2 DEF Issues, Idle
  <2>7. Locked(s)' /\ Fails(s)' /\ Finishes(s)'
    BY <1>2, <2>1, <2>3 DEF Locked, Fails, Finishes
  <2>8. QED  BY <2>4, <2>5, <2>6, <2>7 DEF ScanInv
<1>6. QED  BY <1>2, <1>4, <1>5 DEF Jobs, LockIsNamed

LEMMA JobsStutter ==
    ASSUME Jobs, UNCHANGED vars
    PROVE  Jobs'
<1>1. /\ UNCHANGED <<doc, main, decided, handling, mine, stop, ai, ending, registered, issued, stray>>
      /\ UNCHANGED <<admission, canceller, retries, cancels, faults, crashes>>
  BY DEF vars, run, task, counts
<1>2. TypeOK' /\ LockIsNamed'
  BY <1>1 DEF Jobs, TypeOK, LockIsNamed
<1>3. ASSUME NEW s \in Scans PROVE ScanInv(s)'
  <2>1. ScanInv(s)
    BY DEF Jobs
  <2>2. IdsSuffice(s)' /\ Begins(s)' /\ Issues(s)' /\ Phases(s)'
    BY <1>1, <2>1 DEF ScanInv, IdsSuffice, RunsLeft, Pending, Retrying, Begins, Issues, Phases
  <2>3. Locked(s)' /\ Fails(s)' /\ Finishes(s)'
    BY <1>1, <2>1 DEF ScanInv, Locked, Fails, Finishes, Cared
  <2>4. QED  BY <2>2, <2>3 DEF ScanInv
<1>4. QED  BY <1>2, <1>3 DEF Jobs

LEMMA JobsNext ==
    ASSUME Jobs, [Next]_vars
    PROVE  Jobs'
  BY JobsRequest, JobsRun, JobsAdminister, JobsCancel, JobsExplanations, JobsStray, JobsCrash,
     JobsStutter DEF Next

-----------------------------------------------------------------------------
(* Theorems *)

\* What each scan, its report, its AI tasks and the lock say of each other
\* holds in every reachable state: ScanInv, for every scan.
THEOREM Invariance == Spec => []Jobs
<1>1. Init => Jobs
  BY JobsInit
<1>2. Jobs /\ [Next]_vars => Jobs'
  BY JobsNext
<1>3. QED  BY <1>1, <1>2, PTL DEF Spec

\* The type of each variable, with it that no scan needs an AI task more than
\* Ids has.
THEOREM TypeCorrect == Spec => []TypeOK
<1>1. Jobs => TypeOK
  BY DEF Jobs
<1>2. QED  BY <1>1, Invariance, PTL

\* An unfinished report has a task, a cancel() or an admission that will finish
\* it, while no write failed: NoReportIsStuck, which the finally clauses of
\* _run, execute_analysis and cancel are there for.
THEOREM UnfinishedIsCaredFor == Spec => []NoReportIsStuck
<1>1. ASSUME NEW s \in Scans, ScanInv(s), faults = 0, Incomplete(doc[s])
      PROVE  \/ Working(s) \/ main[s] = "offered" \/ canceller.scan = s
             \/ admission = [kind |-> "register", scan |-> s]
  <2>1. Cared(s)
    BY <1>1 DEF ScanInv, Finishes
  <2>2. CASE main[s] \in {"offered", "created", "checks", "outcome", "explain", "handler",
                          "withdrawn", "resume"}
    BY <2>2 DEF Working, Active
  <2>3. CASE \E i \in Ids : ai[s][i] \notin Ended
    BY <2>3 DEF Working
  <2>4. QED  BY <2>1, <2>2, <2>3 DEF Cared
<1>2. Jobs => NoReportIsStuck
  BY <1>1 DEF Jobs, NoReportIsStuck
<1>3. QED  BY <1>2, Invariance, PTL

Keeps(s) == faults' = 0 /\ doc[s].outcome # "none" => doc'[s].outcome = doc[s].outcome

\* One action writes into one report.
LEMMA ElsewhereKept ==
    ASSUME TypeOK, NEW s \in Scans, doc' = doc \/ \E d : Save(s, d), Keeps(s)
    PROVE  \A t \in Scans : Keeps(t)
  BY DEF Save, Keeps, TypeOK

LEMMA RunKeeps ==
    ASSUME Jobs, NEW s \in Scans, Run(s)
    PROVE  \A t \in Scans : Keeps(t)
<1>1. /\ TypeOK /\ doc \in [Scans -> Report] /\ doc[s] \in Report /\ Begins(s)
      /\ faults \in Nat /\ faults' \in Nat /\ faults' \geq faults
      /\ doc' = [doc EXCEPT ![s] = doc'[s]]
  BY Bounds, RunFrame DEF Jobs, ScanInv, TypeOK
<1>2. CASE SaveOutcome(s) \/ Resume(s)
  <2>1. main[s] \in {"outcome", "resume"}
    BY <1>2 DEF SaveOutcome, Resume, Advance
  <2>2. faults = 0 => doc[s].outcome = "none"
    BY <1>1, <2>1 DEF Begins
  <2>3. Keeps(s)
    BY <1>1, <2>2 DEF Keeps
  <2>4. QED  BY <1>1, <2>3 DEF Keeps
<1>3. CASE BeginChecks(s)
  <2>1. doc'[s] = [doc[s] EXCEPT !.state = "running"]
    BY <1>1, <1>3 DEF BeginChecks, Save
  <2>2. Keeps(s)
    BY <1>1, <2>1, StateEffect DEF Keeps
  <2>3. QED  BY <1>1, <2>2 DEF Keeps
<1>4. CASE FinishWithdrawn(s) \/ FinishFailed(s)
  <2>1. PICK o \in Outcome : doc'[s] = Closed(doc[s], o)
    BY <1>1, <1>4 DEF FinishWithdrawn, FinishFailed, Save, Outcome
  <2>2. Keeps(s)
    BY <1>1, <2>1, ClosedEffect DEF Keeps
  <2>3. QED  BY <1>1, <2>2 DEF Keeps
<1>5. CASE Collect(s) \/ Explain(s) \/ AnalysisEnds(s) \/ RunFails(s) \/ HandlerFails(s) \/ Exit(s)
  <2>1. doc' = doc
    BY <1>5 DEF Collect, Explain, AnalysisEnds, RunFails, HandlerFails, Exit
  <2>2. QED  BY <2>1 DEF Keeps
<1>6. QED  BY <1>2, <1>3, <1>4, <1>5 DEF Run

LEMMA CancelKeeps ==
    ASSUME Jobs, NEW s \in Scans, Cancel(s)
    PROVE  \A t \in Scans : Keeps(t)
<1>1. TypeOK /\ doc \in [Scans -> Report] /\ doc[s] \in Report
  BY DEF Jobs, TypeOK
<1>2. CASE FinishCancelled(s)
  <2>1. Save(s, ExplanationsFinished(doc[s], "cancelled"))
    BY <1>2 DEF FinishCancelled
  <2>2. doc'[s] = ExplanationsFinished(doc[s], "cancelled")
    BY <1>1, <2>1 DEF Save
  <2>3. Keeps(s)
    BY <1>1, <2>2, ExplanationsFinishedEffect DEF Keeps
  <2>4. QED  BY <1>1, <2>1, <2>3, ElsewhereKept
<1>3. CASE AwaitTask(s) \/ CancelFails(s) \/ PopTask(s)
  BY <1>3 DEF AwaitTask, CancelFails, PopTask, Keeps
<1>4. QED  BY <1>2, <1>3 DEF Cancel

LEMMA StrayKeeps ==
    ASSUME Jobs, StrayWrite
    PROVE  \A t \in Scans : Keeps(t)
<1>1. TypeOK /\ doc \in [Scans -> Report]
  BY DEF Jobs, TypeOK
<1>2. CASE doc' = doc
  BY <1>2 DEF Keeps
<1>3. CASE doc' # doc
  <2>1. PICK x \in stray : Save(x.scan, IF x.write = "finish"
                                          THEN ExplanationsFinished(doc[x.scan], x.code)
                                          ELSE [doc[x.scan] EXCEPT !.wording = x.write])
    BY <1>3 DEF StrayWrite
  <2>2. x.scan \in Scans /\ x.write \in {"running", "ready", "failed", "finish"}
    BY <1>1 DEF TypeOK
  <2>3. CASE x.write = "finish"
    <3>1. doc'[x.scan] = ExplanationsFinished(doc[x.scan], x.code)
      BY <1>1, <2>1, <2>2, <2>3 DEF Save
    <3>2. Keeps(x.scan)
      BY <1>1, <2>2, <3>1, ExplanationsFinishedEffect DEF Keeps
    <3>3. QED  BY <1>1, <2>1, <2>2, <3>2, ElsewhereKept
  <2>4. CASE x.write # "finish"
    <3>1. doc'[x.scan] = [doc[x.scan] EXCEPT !.wording = x.write]
      BY <1>1, <2>1, <2>2, <2>4 DEF Save
    <3>2. Keeps(x.scan)
      BY <1>1, <2>2, <2>4, <3>1 DEF Keeps, Report
    <3>3. QED  BY <1>1, <2>1, <2>2, <3>2, ElsewhereKept
  <2>5. QED  BY <2>3, <2>4
<1>4. QED  BY <1>2, <1>3

LEMMA AdministerKeeps ==
    ASSUME Jobs, NEW s \in Scans, Administer(s) \/ Request(s)
    PROVE  \A t \in Scans : Keeps(t)
<1>1. /\ TypeOK /\ doc \in [Scans -> Report] /\ doc[s] \in Report /\ Phases(s)
  BY DEF Jobs, ScanInv, TypeOK
<1> USE DEF Save
<1>2. doc' = doc \/ \E d : Save(s, d)
  BY DEF Administer, CheckRetry, SaveRetry, RetryFails, RegisterRetry, Delete, RefreshGuidance,
         Request, CreateReport, Start, BeginRetry, BeginMaintenance, BeginCancel
<1>3. CASE SaveRetry(s)
  <2>1. doc'[s] = RetryRequested(doc[s]) /\ doc[s].state \in Outcome
    BY <1>1, <1>3 DEF SaveRetry, Phases
  <2>2. Keeps(s)
    BY <1>1, <2>1, RequestedEffect DEF Keeps
  <2>3. QED  BY <1>1, <1>2, <2>2, ElsewhereKept
<1>4. CASE ~SaveRetry(s)
  <2>1. \/ doc'[s] = doc[s]
        \/ \E v \in {"saved", "trash"} : doc'[s] = [doc[s] EXCEPT !.saved = v]
        \/ doc'[s] = [doc[s] EXCEPT !.wording = "not_started"]
    BY <1>1, <1>4 DEF Administer, CheckRetry, RetryFails, RegisterRetry, Delete, RefreshGuidance,
         Request, CreateReport, Start, BeginRetry, BeginMaintenance, BeginCancel
  <2>2. doc'[s].outcome = doc[s].outcome
    BY <1>1, <2>1 DEF Report
  <2>3. Keeps(s)
    BY <2>2 DEF Keeps
  <2>4. QED  BY <1>1, <1>2, <2>3, ElsewhereKept
<1>5. QED  BY <1>3, <1>4

LEMMA CrashKeeps ==
    ASSUME Jobs, CrashAndReconcile
    PROVE  \A t \in Scans : Keeps(t)
<1>1. doc \in [Scans -> Report]
  BY DEF Jobs, TypeOK
<1>2. PICK o \in [Scans -> {"partial", "failed"}] :
          doc' = [s \in Scans |-> IF Incomplete(doc[s]) THEN Interrupted(doc[s], o[s]) ELSE doc[s]]
  BY DEF CrashAndReconcile
<1>3. ASSUME NEW t \in Scans PROVE doc'[t].outcome = doc[t].outcome
  <2>1. doc[t] \in Report /\ o[t] \in {"partial", "failed"}
    BY <1>1
  <2>2. QED  BY <1>2, <2>1, InterruptedEffect
<1>4. QED  BY <1>3 DEF Keeps

\* The outcome a collection saved stays in the report: OutcomeIsKept.  Only
\* SaveOutcome, Resume and SaveRetry write that field; the first two meet a
\* report without an outcome (Begins), the third leaves one that is there.
THEOREM OutcomesAreKept == Spec => OutcomeIsKept
<1>1. ASSUME Jobs, Next PROVE \A t \in Scans : Keeps(t)
  <2>1. ASSUME NEW s \in Scans, NEW i \in Ids, RunExplanations(s, i)
        PROVE  \A t \in Scans : Keeps(t)
    <3>1. Worded(s) /\ doc' = [doc EXCEPT ![s] = doc'[s]] /\ doc \in [Scans -> Report]
      BY <1>1, <2>1, ExplanationsEffect DEF Jobs, TypeOK
    <3>2. QED  BY <3>1 DEF Worded, Keeps
  <2>2. QED  BY <1>1, <2>1, RunKeeps, CancelKeeps, StrayKeeps, AdministerKeeps, CrashKeeps DEF Next
<1>2. Jobs /\ [Next]_vars =>
          [\A s \in Scans : faults' = 0 /\ doc[s].outcome # "none"
                               => doc'[s].outcome = doc[s].outcome]_vars
  BY <1>1 DEF Keeps
<1>3. QED  BY <1>2, Invariance, PTL DEF Spec, OutcomeIsKept

-----------------------------------------------------------------------------
(* The limit on jobs *)

\* Whoever has passed the capacity check and holds the lock still has a place.
WithinLimit ==
    /\ IsFiniteSet(ActiveScans)
    /\ Cardinality(ActiveScans) \leq MaxJobs
    /\ admission.kind \in {"save", "register"} => HasCapacity

LEMMA FewerJobs ==
    ASSUME WithinLimit, ActiveScans' \subseteq ActiveScans,
           admission'.kind \in {"save", "register"} =>
               admission.kind \in {"save", "register"} \/ HasCapacity
    PROVE  WithinLimit'
<1> DEFINE A == ActiveScans
           B == ActiveScans'
<1>1. IsFiniteSet(A) /\ B \subseteq A /\ Cardinality(A) \leq MaxJobs
  BY DEF WithinLimit
<1>2. admission'.kind \in {"save", "register"} => Cardinality(A) < MaxJobs
  BY DEF WithinLimit, HasCapacity
<1> HIDE DEF A, B
<1>3. IsFiniteSet(B) /\ Cardinality(B) \leq Cardinality(A)
  BY <1>1, FS_Subset
<1>4. Cardinality(A) \in Nat /\ Cardinality(B) \in Nat /\ MaxJobs \in Nat
  BY <1>1, <1>3, FS_CardinalityType, JobsAssumption
<1>5. Cardinality(B) \leq MaxJobs /\ (admission'.kind \in {"save", "register"} => Cardinality(B) < MaxJobs)
  BY <1>1, <1>2, <1>3, <1>4
<1>6. QED  BY <1>3, <1>5 DEF B, WithinLimit, HasCapacity

LEMMA OneMoreJob ==
    ASSUME WithinLimit, HasCapacity, NEW s, ActiveScans' \subseteq ActiveScans \cup {s},
           admission'.kind = "free"
    PROVE  WithinLimit'
<1> DEFINE A == ActiveScans
           B == ActiveScans'
<1>1. IsFiniteSet(A) /\ B \subseteq A \cup {s} /\ Cardinality(A) < MaxJobs
  BY DEF WithinLimit, HasCapacity
<1> HIDE DEF A, B
<1>2. IsFiniteSet(A \cup {s}) /\ Cardinality(A \cup {s}) \in {Cardinality(A), Cardinality(A) + 1}
  BY <1>1, FS_AddElement
<1>3. IsFiniteSet(B) /\ Cardinality(B) \leq Cardinality(A \cup {s})
  BY <1>1, <1>2, FS_Subset
<1>4. Cardinality(A) \in Nat /\ Cardinality(B) \in Nat /\ MaxJobs \in Nat
  BY <1>1, <1>3, FS_CardinalityType, JobsAssumption
<1>5. Cardinality(B) \leq MaxJobs
  BY <1>1, <1>2, <1>3, <1>4
<1>6. QED  BY <1>3, <1>5 DEF B, WithinLimit

\* A scan whose tasks are left alone stays as active as it was.
LEMMA ActiveOnly ==
    ASSUME NEW s, \A t \in Scans : t # s => /\ main'[t] = main[t] /\ ai'[t] = ai[t]
                                            /\ registered'[t] = registered[t],
           s \in ActiveScans' => s \in ActiveScans
    PROVE  ActiveScans' \subseteq ActiveScans
  BY DEF ActiveScans, Active, AnalysisActive

LEMMA LimitRequest ==
    ASSUME Jobs, WithinLimit, NEW s \in Scans, Request(s)
    PROVE  WithinLimit'
<1>0. main \in [Scans -> Places] /\ ai \in [Scans -> [Ids -> Steps]]
      /\ registered \in [Scans -> {0} \cup Ids]
  BY DEF Jobs, TypeOK, Places, Steps
<1>1. CASE CreateReport(s)
  <2>1. /\ UNCHANGED <<ai, registered, admission>>
        /\ main[s] = "none" /\ main' = [main EXCEPT ![s] = "offered"]
    BY <1>1 DEF CreateReport, task
  <2>2. ActiveScans' \subseteq ActiveScans
    BY <1>0, <2>1 DEF ActiveScans, Active, AnalysisActive
  <2>3. QED  BY <2>1, <2>2, FewerJobs
<1>2. CASE Start(s) /\ HasCapacity
  <2>1. /\ UNCHANGED <<ai, registered, admission>> /\ admission.kind = "free"
        /\ main' = [main EXCEPT ![s] = "created"]
    BY <1>2 DEF Start, task, Free
  <2>2. ActiveScans' \subseteq ActiveScans \cup {s}
    BY <1>0, <2>1 DEF ActiveScans, Active, AnalysisActive
  <2>3. QED  BY <1>2, <2>1, <2>2, OneMoreJob
<1>3. CASE Start(s) /\ ~HasCapacity
  <2>1. /\ UNCHANGED <<ai, registered, admission>>
        /\ main[s] = "offered" /\ main' = [main EXCEPT ![s] = "none"]
    BY <1>3 DEF Start, task
  <2>2. ActiveScans' \subseteq ActiveScans
    BY <1>0, <2>1 DEF ActiveScans, Active, AnalysisActive
  <2>3. QED  BY <2>1, <2>2, FewerJobs
<1>4. CASE BeginRetry(s) \/ BeginMaintenance(s)
  <2>1. UNCHANGED <<ai, registered, main>> /\ admission'.kind \in {"retry", "delete", "refresh"}
    BY <1>4 DEF BeginRetry, BeginMaintenance, Unchanged, Admit, run, task
  <2>2. ActiveScans' \subseteq ActiveScans
    BY <2>1 DEF ActiveScans, Active, AnalysisActive
  <2>3. QED  BY <2>1, <2>2, FewerJobs
<1>5. CASE BeginCancel(s)
  <2>1. UNCHANGED <<main, admission>>
    BY <1>5 DEF BeginCancel, run
  <2>2. CASE registered[s] = 0
    <3>1. UNCHANGED <<ai, registered>>
      BY <1>5, <2>2 DEF BeginCancel
    <3>2. ActiveScans' \subseteq ActiveScans
      BY <2>1, <3>1 DEF ActiveScans, Active, AnalysisActive
    <3>3. QED  BY <2>1, <3>2, FewerJobs
  <2>3. CASE registered[s] # 0
    <3>1. CancelTask(s, registered[s]) /\ registered[s] \in Ids
      BY <1>0, <1>5, <2>3 DEF BeginCancel
    <3>2. /\ \A t \in Scans : t # s => ai'[t] = ai[t] /\ registered'[t] = registered[t]
          /\ ai[s][registered[s]] \in Ended => ai'[s][registered[s]] \in Ended
          /\ registered'[s] \in {0, registered[s]}
      <4> DEFINE i == registered[s]
                 at == ai[s][i]
                 to == CASE at \in Ended -> at
                         [] at \in {"queue", "model"} -> "finish"
                         [] OTHER -> "cancelled"
      <4>1. /\ ai' = [ai EXCEPT ![s][i] = to]
            /\ registered' = [registered EXCEPT ![s] = IF at = "finish" THEN 0 ELSE registered[s]]
        BY <1>0, <3>1 DEF CancelTask
      <4>2. at \in Ended => to \in Ended
        BY DEF Ended
      <4> HIDE DEF to
      <4>3. QED  BY <1>0, <3>1, <4>1, <4>2
    <3>3. s \in ActiveScans' => s \in ActiveScans
      BY <2>1, <3>2 DEF ActiveScans, Active, AnalysisActive
    <3>4. ActiveScans' \subseteq ActiveScans
      BY <2>1, <3>2, <3>3, ActiveOnly
    <3>5. QED  BY <2>1, <3>4, FewerJobs
  <2>4. QED  BY <2>2, <2>3
<1>6. QED  BY <1>1, <1>2, <1>3, <1>4, <1>5 DEF Request

LEMMA LimitAdminister ==
    ASSUME Jobs, WithinLimit, NEW s \in Scans, Administer(s)
    PROVE  WithinLimit'
<1>1. CASE RegisterRetry(s)
  <2>1. /\ admission.kind = "register" /\ admission'.kind = "free" /\ main' = main /\ CreateAnalysis(s)
    BY <1>1 DEF RegisterRetry, Leave, Admit, Unchanged, run
  <2>2. \A t \in Scans : t # s => ai'[t] = ai[t] /\ registered'[t] = registered[t]
    BY <2>1 DEF CreateAnalysis, Jobs, TypeOK
  <2>3. ActiveScans' \subseteq ActiveScans \cup {s}
    BY <2>1, <2>2 DEF ActiveScans, Active, AnalysisActive
  <2>4. HasCapacity
    BY <2>1 DEF WithinLimit
  <2>5. QED  BY <2>1, <2>3, <2>4, OneMoreJob
<1>2. CASE ~RegisterRetry(s)
  <2>1. UNCHANGED <<main, ai, registered>>
    BY <1>2 DEF Administer, CheckRetry, SaveRetry, RetryFails, Delete, RefreshGuidance, Unchanged,
                run, task
  <2>2. admission'.kind \in {"save", "register"} => admission.kind \in {"save", "register"} \/ HasCapacity
    BY <1>2 DEF Administer, CheckRetry, SaveRetry, RetryFails, Delete, RefreshGuidance, Admit, Leave
  <2>3. ActiveScans' \subseteq ActiveScans
    BY <2>1 DEF ActiveScans, Active, AnalysisActive
  <2>4. QED  BY <2>2, <2>3, FewerJobs
<1>3. QED  BY <1>1, <1>2

LEMMA LimitRun ==
    ASSUME Jobs, WithinLimit, NEW s \in Scans, Run(s)
    PROVE  WithinLimit'
<1>1. TypeOK /\ main[s] \notin {"none", "offered"} /\ OnlyAt(s) /\ admission' = admission
  BY RunAlone, RunOthers, RunFrame DEF Jobs
<1>2. s \in ActiveScans
  BY <1>1 DEF ActiveScans, Active
<1>3. ActiveScans' \subseteq ActiveScans
  BY <1>1, <1>2, ActiveOnly DEF OnlyAt
<1>4. QED  BY <1>1, <1>3, FewerJobs

LEMMA LimitExplanations ==
    ASSUME Jobs, WithinLimit, NEW s \in Scans, NEW i \in Ids, RunExplanations(s, i)
    PROVE  WithinLimit'
<1>0. ai \in [Scans -> [Ids -> Steps]] /\ registered \in [Scans -> {0} \cup Ids]
  BY DEF Jobs, TypeOK, Steps
<1>1. /\ UNCHANGED <<main, admission>> /\ ai[s][i] \notin Ended
      /\ registered' \in {registered, [registered EXCEPT ![s] = 0]}
      /\ \E to \in Steps : ai' = [ai EXCEPT ![s][i] = to]
  BY ExplanationsEffect
<1>2. /\ \A t \in Scans : t # s => ai'[t] = ai[t]
      /\ \A j \in Ids : j # i => ai'[s][j] = ai[s][j]
  BY <1>0, <1>1
<1>3. \A t \in Scans : registered'[t] \in {0, registered[t]} /\ (t # s => registered'[t] = registered[t])
  <2>1. CASE registered' = registered
    BY <2>1
  <2>2. CASE registered' = [registered EXCEPT ![s] = 0]
    BY <1>0, <2>2
  <2>3. QED  BY <1>1, <2>1, <2>2
<1>4. s \in ActiveScans' => s \in ActiveScans
  BY <1>0, <1>1, <1>2, <1>3 DEF ActiveScans, Active, AnalysisActive
<1>5. ActiveScans' \subseteq ActiveScans
  BY <1>1, <1>2, <1>3, <1>4, ActiveOnly
<1>6. QED  BY <1>1, <1>5, FewerJobs

LEMMA LimitElse ==
    ASSUME Jobs, WithinLimit, StrayWrite \/ CrashAndReconcile \/ \E s \in Scans : Cancel(s)
    PROVE  WithinLimit'
<1>0. registered \in [Scans -> {0} \cup Ids]
  BY DEF Jobs, TypeOK
<1>1. CASE StrayWrite
  <2>1. UNCHANGED <<main, ai, registered, admission>>
    BY <1>1 DEF StrayWrite, run, task
  <2>2. ActiveScans' \subseteq ActiveScans
    BY <2>1 DEF ActiveScans, Active, AnalysisActive
  <2>3. QED  BY <2>1, <2>2, FewerJobs
<1>2. CASE CrashAndReconcile
  <2>1. /\ main' = [s \in Scans |-> "none"] /\ registered' = [s \in Scans |-> 0]
        /\ admission'.kind = "free"
    BY <1>2 DEF CrashAndReconcile, Leave, Admit
  <2>2. ActiveScans' \subseteq ActiveScans
    BY <2>1 DEF ActiveScans, Active, AnalysisActive
  <2>3. QED  BY <2>1, <2>2, FewerJobs
<1>3. ASSUME NEW s \in Scans, Cancel(s) PROVE WithinLimit'
  <2>1. /\ UNCHANGED <<main, ai, admission>>
        /\ registered' = registered \/ registered' = [registered EXCEPT ![s] = 0]
    BY <1>3 DEF Cancel, AwaitTask, FinishCancelled, CancelFails, PopTask, Cancelling, Unregister, run
  <2>2. \A t \in Scans : registered'[t] \in {0, registered[t]}
    BY <1>0, <2>1
  <2>3. ActiveScans' \subseteq ActiveScans
    BY <2>1, <2>2 DEF ActiveScans, Active, AnalysisActive
  <2>4. QED  BY <2>1, <2>3, FewerJobs
<1>4. QED  BY <1>1, <1>2, <1>3

\* No more scans than max_concurrent_scans are registered: RegisteredWithinLimit.
\* start and request_explanations check the capacity and use it in different
\* steps; between them nobody else can, for they hold the admission lock.
THEOREM LimitIsKept == Spec => []RegisteredWithinLimit
<1>1. Init => WithinLimit
  <2> SUFFICES ASSUME Init PROVE WithinLimit
    OBVIOUS
  <2>2. ActiveScans = {} /\ admission.kind = "free"
    <3>1. \A s \in Scans : main[s] = "none" /\ registered[s] = 0
      BY DEF Init
    <3>2. admission.kind = "free"
      BY DEF Init
    <3>3. QED  BY <3>1, <3>2 DEF ActiveScans, Active, AnalysisActive
  <2>3. IsFiniteSet(ActiveScans) /\ Cardinality(ActiveScans) = 0
    BY <2>2, FS_EmptySet
  <2>4. QED  BY <2>2, <2>3, JobsAssumption DEF WithinLimit
<1>2. Jobs /\ WithinLimit /\ [Next]_vars => WithinLimit'
  <2>1. ASSUME Jobs, WithinLimit, Next PROVE WithinLimit'
    BY <2>1, LimitRequest, LimitRun, LimitAdminister, LimitExplanations, LimitElse DEF Next
  <2>2. ASSUME WithinLimit, UNCHANGED vars PROVE WithinLimit'
    <3>1. UNCHANGED <<main, ai, registered, admission>>
      BY <2>2 DEF vars, run, task
    <3>2. ActiveScans' \subseteq ActiveScans
      BY <3>1 DEF ActiveScans, Active, AnalysisActive
    <3>3. QED  BY <2>2, <3>1, <3>2, FewerJobs
  <2>3. QED  BY <2>1, <2>2
<1>3. WithinLimit => RegisteredWithinLimit
  BY DEF WithinLimit, RegisteredWithinLimit
<1>4. QED  BY <1>1, <1>2, <1>3, Invariance, PTL DEF Spec

=============================================================================
