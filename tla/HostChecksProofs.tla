--------------------------- MODULE HostChecksProofs ---------------------------
(***************************************************************************)
(* Proofs about HostChecks, for any number of hosts, workers, faults and   *)
(* crashes.                                                                *)
(*                                                                         *)
(* The argument: every host belongs to one worker at most, or to a write   *)
(* that a cancelled worker left behind (HostsAreDivided, LateIsOrphaned),  *)
(* and what somebody still has to settle is unfinished in the coverage     *)
(* (ClaimedIsOpen).  So no two writes settle the same host, and the        *)
(* counters agree with the statuses (Agrees) until a late write changes a  *)
(* report that is already closed.                                          *)
(***************************************************************************)
EXTENDS HostChecks, FiniteSetTheorems, TLAPS

Report == [status    : [Hosts -> Status],
           attempts  : [Hosts -> {0} \cup Attempts],
           details   : [Hosts -> SUBSET Attempts],
           devices   : SUBSET Hosts,
           completed : Nat, failed : Nat, skipped : Nat,
           outcome   : Outcome \cup {"none"}]

Live == {"pending", "running"}

In(d, s) == {h \in Hosts : d.status[h] = s}

\* The counters and the devices of a report tell the same as its statuses.
Agrees(d) ==
    /\ d.completed = Cardinality(In(d, "completed"))
    /\ d.failed = Cardinality(In(d, "failed"))
    /\ d.skipped = Cardinality(In(d, "skipped"))
    /\ d.devices = In(d, "completed")

-----------------------------------------------------------------------------
(* Reports *)

LEMMA ReportFields ==
    ASSUME NEW d \in Report
    PROVE  /\ d.status \in [Hosts -> Status] /\ d.details \in [Hosts -> SUBSET Attempts]
           /\ d.attempts \in [Hosts -> {0} \cup Attempts]
           /\ d.completed \in Nat /\ d.failed \in Nat /\ d.skipped \in Nat
           /\ d.devices \subseteq Hosts /\ d.outcome \in Outcome \cup {"none"}
  BY DEF Report

LEMMA InIsFinite ==
    ASSUME NEW d, NEW s
    PROVE  IsFiniteSet(In(d, s)) /\ Cardinality(In(d, s)) \in Nat
<1>1. In(d, s) \subseteq Hosts /\ IsFiniteSet(Hosts)
  BY HostsAssumption DEF In
<1>2. QED  BY <1>1, FS_Subset, FS_CardinalityType

LEMMA InGrows ==
    ASSUME NEW S, IsFiniteSet(S), NEW T, IsFiniteSet(T), S \cap T = {}
    PROVE  Cardinality(S \cup T) = Cardinality(S) + Cardinality(T)
<1>1. Cardinality(S \cap T) = 0
  BY FS_EmptySet
<1>2. Cardinality(S) \in Nat /\ Cardinality(T) \in Nat
  BY FS_CardinalityType
<1>3. Cardinality(S \cup T) = Cardinality(S) + Cardinality(T) - Cardinality(S \cap T)
  BY FS_Union
<1>4. QED  BY <1>1, <1>2, <1>3

\* The status a write of kind k gives its host, which had status s.
StatusAfter(k, s) ==
    CASE k = "mark"   -> "running"
      [] k = "ok"     -> "completed"
      [] k = "fail"   -> "failed"
      [] k = "cancel" -> "cancelled"
      [] OTHER        -> s

LEMMA ApplyEffect ==
    ASSUME NEW d \in Report, NEW op \in OpType
    PROVE  LET e == Apply(op, d) IN
           /\ e \in Report
           /\ e.outcome = d.outcome
           /\ e.status = [d.status EXCEPT ![op.host] = StatusAfter(op.kind, @)]
           /\ \A h \in Hosts : d.details[h] \subseteq e.details[h]
           /\ op.kind = "record" => op.try \in e.details[op.host]
<1> DEFINE e == Apply(op, d)
<1>1. op.kind \in {"mark", "attempt", "record", "ok", "fail", "cancel"} /\ op.host \in Hosts
      /\ op.try \in Attempts
  BY DEF OpType
<1>2. CASE op.kind = "mark"
  BY <1>1, <1>2 DEF Apply, MarkRunning, With, StatusAfter, Report, Status
<1>3. CASE op.kind = "attempt"
  BY <1>1, <1>3 DEF Apply, MarkAttempt, StatusAfter, Report
<1>4. CASE op.kind = "record"
  BY <1>1, <1>4 DEF Apply, AppendAttempt, StatusAfter, Report
<1>2a. ASSUME NEW s \in Status
      PROVE  /\ With(d, op.host, s) \in Report
             /\ With(d, op.host, s).status = [d.status EXCEPT ![op.host] = s]
             /\ With(d, op.host, s).outcome = d.outcome /\ With(d, op.host, s).details = d.details
  BY <1>1 DEF With, Report
<1>5. CASE op.kind = "ok"
  <2> DEFINE t == With(d, op.host, "completed")
  <2>1. /\ t \in Report /\ t.status = [d.status EXCEPT ![op.host] = "completed"]
        /\ t.outcome = d.outcome /\ t.details = d.details
    BY <1>2a DEF Status
  <2>2. e = [t EXCEPT !.completed = @ + 1, !.devices = @ \cup {op.host}]
    BY <1>5 DEF Apply, Commit
  <2> HIDE DEF t
  <2>3. /\ e \in Report /\ e.status = t.status /\ e.outcome = t.outcome /\ e.details = t.details
    <3>1. t.completed + 1 \in Nat /\ t.devices \cup {op.host} \in SUBSET Hosts
      BY <1>1, <2>1, ReportFields
    <3> DEFINE u == [t EXCEPT !.completed = @ + 1, !.devices = @ \cup {op.host}]
    <3>2. u \in Report
      BY <2>1, <3>1 DEF Report
    <3>3. u.status = t.status /\ u.outcome = t.outcome /\ u.details = t.details
      BY <2>1 DEF Report
    <3>4. QED  BY <2>2, <3>2, <3>3
  <2>4. StatusAfter(op.kind, d.status[op.host]) = "completed"
    BY <1>5 DEF StatusAfter
  <2>5. QED  BY <1>5, <2>1, <2>3, <2>4
<1>6. CASE op.kind = "fail"
  <2> DEFINE t == With(d, op.host, "failed")
  <2>1. /\ t \in Report /\ t.status = [d.status EXCEPT ![op.host] = "failed"]
        /\ t.outcome = d.outcome /\ t.details = d.details
    BY <1>2a DEF Status
  <2>2. e = [t EXCEPT !.failed = @ + 1]
    BY <1>6 DEF Apply, MarkHostFailure
  <2> HIDE DEF t
  <2>3. /\ e \in Report /\ e.status = t.status /\ e.outcome = t.outcome /\ e.details = t.details
    BY <2>1, <2>2 DEF Report
  <2>4. StatusAfter(op.kind, d.status[op.host]) = "failed"
    BY <1>6 DEF StatusAfter
  <2>5. QED  BY <1>6, <2>1, <2>3, <2>4
<1>7. CASE op.kind = "cancel"
  BY <1>1, <1>7 DEF Apply, MarkHostFailure, With, StatusAfter, Report, Status
<1>8. QED  BY <1>1, <1>2, <1>3, <1>4, <1>5, <1>6, <1>7

\* A write about a host nobody has settled yet keeps the counters right.
LEMMA ApplyAgrees ==
    ASSUME NEW d \in Report, NEW op \in OpType, Agrees(d), d.status[op.host] \in Live
    PROVE  Agrees(Apply(op, d))
<1> DEFINE e == Apply(op, d)
           h == op.host
<1>1. /\ e \in Report /\ h \in Hosts
      /\ e.status = [d.status EXCEPT ![h] = StatusAfter(op.kind, @)]
      /\ op.kind \in {"mark", "attempt", "record", "ok", "fail", "cancel"}
  BY ApplyEffect DEF OpType
<1>2. /\ e.completed = IF op.kind = "ok" THEN d.completed + 1 ELSE d.completed
      /\ e.failed = IF op.kind = "fail" THEN d.failed + 1 ELSE d.failed
      /\ e.skipped = d.skipped
      /\ e.devices = IF op.kind = "ok" THEN d.devices \cup {h} ELSE d.devices
  BY <1>1 DEF Apply, MarkRunning, MarkAttempt, AppendAttempt, Commit, MarkHostFailure, With, Report
<1>3. /\ In(e, "completed") = IF op.kind = "ok" THEN In(d, "completed") \cup {h} ELSE In(d, "completed")
      /\ In(e, "failed") = IF op.kind = "fail" THEN In(d, "failed") \cup {h} ELSE In(d, "failed")
      /\ In(e, "skipped") = In(d, "skipped")
      /\ h \notin In(d, "completed") /\ h \notin In(d, "failed")
  BY <1>1, ReportFields DEF In, Live, StatusAfter
<1>4. \A s \in Status : h \notin In(d, s) => Cardinality(In(d, s) \cup {h}) = Cardinality(In(d, s)) + 1
  BY InIsFinite, FS_AddElement
<1>5. QED  BY <1>2, <1>3, <1>4, Zenon DEF Agrees, Status

\* Closing a report settles every host and counts each of them once.
LEMMA CloseEffect ==
    ASSUME NEW d \in Report, NEW reason
    PROVE  LET e == CloseUnfinished(d, reason) IN
           /\ e \in Report
           /\ e.outcome = d.outcome /\ e.details = d.details /\ e.devices = d.devices
           /\ Unfinished(e) = {}
           /\ Agrees(d) => Agrees(e)
<1> DEFINE U == Unfinished(d)
           Q == {h \in U : reason = "QueueExpired" /\ d.attempts[h] = 0}
           Closed(h) == CASE reason = "cancelled" -> "cancelled"
                          [] h \in Q              -> "skipped"
                          [] OTHER                -> "failed"
           F == {h \in U : Closed(h) = "failed"}
           st == [h \in Hosts |-> IF h \in U THEN Closed(h) ELSE d.status[h]]
           e == [d EXCEPT !.status = st,
                          !.skipped = @ + Cardinality(Q),
                          !.failed = @ + Cardinality(F)]
<1>1. CloseUnfinished(d, reason) = e
  BY ReportFields DEF CloseUnfinished
<1>2. U \subseteq Hosts /\ Q \subseteq Hosts /\ F \subseteq Hosts
  BY DEF Unfinished
<1>3. /\ IsFiniteSet(Q) /\ IsFiniteSet(F)
      /\ Cardinality(Q) \in Nat /\ Cardinality(F) \in Nat
  BY <1>2, HostsAssumption, FS_Subset, FS_CardinalityType
<1>4. \A h \in Hosts : Closed(h) \in {"cancelled", "skipped", "failed"}
  OBVIOUS
<1>5. st \in [Hosts -> Status]
  BY <1>4, ReportFields DEF Status
<1>6. /\ e.status = st /\ e.skipped = d.skipped + Cardinality(Q)
      /\ e.failed = d.failed + Cardinality(F) /\ e.completed = d.completed
      /\ e.outcome = d.outcome /\ e.details = d.details /\ e.devices = d.devices
  BY DEF Report
<1>7. e \in Report
  <2> HIDE DEF st, Q, F
  <2>1. d.skipped + Cardinality(Q) \in Nat /\ d.failed + Cardinality(F) \in Nat
    BY <1>3, ReportFields
  <2>2. QED  BY <1>5, <2>1 DEF Report
<1>8. Unfinished(e) = {}
  BY <1>4, <1>6 DEF Unfinished
<1>9. ASSUME Agrees(d) PROVE Agrees(e)
  <2>1. In(e, "completed") = In(d, "completed")
    BY <1>4, <1>6 DEF In, Unfinished
  <2>2. In(e, "failed") = In(d, "failed") \cup F /\ In(d, "failed") \cap F = {}
    BY <1>2, <1>4, <1>6 DEF In, Unfinished
  <2>3. In(e, "skipped") = In(d, "skipped") \cup Q /\ In(d, "skipped") \cap Q = {}
    BY <1>2, <1>4, <1>6 DEF In, Unfinished
  <2>4. /\ Cardinality(In(e, "failed")) = Cardinality(In(d, "failed")) + Cardinality(F)
        /\ Cardinality(In(e, "skipped")) = Cardinality(In(d, "skipped")) + Cardinality(Q)
    BY <1>3, <2>2, <2>3, InIsFinite, InGrows
  <2>5. QED  BY <1>6, <1>9, <2>1, <2>4 DEF Agrees
<1>10. QED  BY <1>1, <1>6, <1>7, <1>8, <1>9

\* So does the reconciliation after a crash, which cancels what was not done.
LEMMA InterruptedEffect ==
    ASSUME NEW d \in Report
    PROVE  LET e == Interrupted(d) IN
           /\ e \in Report /\ e.details = d.details /\ e.devices = d.devices
           /\ e.outcome = IF d.devices = {} THEN "failed" ELSE "partial"
           /\ Unfinished(e) = {}
           /\ Agrees(d) => Agrees(e)
<1> DEFINE st == [h \in Hosts |-> IF h \in Unfinished(d) THEN "cancelled" ELSE d.status[h]]
           o == IF d.devices = {} THEN "failed" ELSE "partial"
           e == [d EXCEPT !.status = st, !.outcome = o]
<1>1. Interrupted(d) = e
  BY DEF Interrupted
<1>2. st \in [Hosts -> Status] /\ o \in Outcome
  BY ReportFields DEF Status, Outcome
<1>3. /\ e.status = st /\ e.outcome = o
      /\ e.completed = d.completed /\ e.failed = d.failed /\ e.skipped = d.skipped
      /\ e.details = d.details /\ e.devices = d.devices
  BY DEF Report
<1>4. e \in Report
  BY <1>2, ReportFields DEF Report
<1>5. Unfinished(e) = {}
  BY <1>3 DEF Unfinished
<1>6. \A s \in {"completed", "failed", "skipped"} : In(e, s) = In(d, s)
  BY <1>3 DEF In, Unfinished
<1>7. QED  BY <1>1, <1>3, <1>4, <1>5, <1>6 DEF Agrees

-----------------------------------------------------------------------------
(* Who does what *)

Places == Writing \cup Over \cup {"loop", "slot", "check", "probe"}

\* A worker that is neither between two hosts nor over has one.
Has(w) == pc[w] \notin Over \cup {"loop"}

PhaseIsReached ==
    /\ main \in {"after", "decide", "close", "outcome"} => \A w \in Workers : pc[w] = "done"
    /\ main \in {"handler", "end"} => \A w \in Workers : pc[w] \in Over
    /\ doc.outcome # "none" => main = "end"
    /\ escaped => doc.outcome # "none"

CancelledWorkersStop ==
    \A w \in Workers :
        /\ cancels[w] > 0 => pc[w] \in {"rescue", "drain", "dead"}
        /\ pc[w] = "drain" => cancels[w] > 0
        /\ cancels[w] \leq (IF spent THEN 1 ELSE 0) + (IF main = "gather" THEN 0 ELSE 1)

HostsAreDivided ==
    /\ \A w \in Workers : host[w] \notin remaining
    /\ \A w \in Workers : Has(w) => host[w] \in Hosts
    /\ \A w \in Workers : pc[w] = "settle" => verdict[w] # "retry"
    /\ \A v, w \in Workers : host[v] = host[w] /\ host[v] \in Hosts => v = w

LateIsOrphaned ==
    /\ \A op \in late : \E w \in Workers : pc[w] = "dead" /\ host[w] = op.host
    /\ \A o, p \in late : o.host = p.host => o = p

Division ==
    /\ TypeOK
    /\ PhaseIsReached
    /\ CancelledWorkersStop
    /\ HostsAreDivided
    /\ LateIsOrphaned

LEMMA OpIsTyped ==
    ASSUME Division, NEW w \in Workers, pc[w] \in Writing
    PROVE  /\ Op(w) \in OpType /\ Op(w).host = host[w] /\ Op(w).try = try[w]
           /\ pc[w] \in {"mark", "attempt"} => Op(w).kind = pc[w]
           /\ pc[w] \in {"record", "rescue", "drain"} => Op(w).kind = "record"
           /\ pc[w] = "settle" => Op(w).kind = verdict[w] /\ verdict[w] \in {"ok", "fail", "cancel"}
           /\ host[w] \in Hosts
<1>1. host[w] \in Hosts /\ try[w] \in Attempts /\ verdict[w] \in {"ok", "retry", "fail", "cancel"}
  BY DEF Division, TypeOK, HostsAreDivided, Has, Writing, Over
<1>2. pc[w] = "settle" => verdict[w] # "retry"
  BY DEF Division, HostsAreDivided
<1>3. QED  BY <1>1, <1>2 DEF Op, OpType, Writing

LEMMA SavedEffect ==
    ASSUME Division, NEW w \in Workers, NEW p \in Writing, Saved(w, p)
    PROVE  /\ pc[w] = p /\ doc' = Apply(Op(w), doc) /\ Op(w) \in OpType
           /\ doc \in Report /\ doc' \in Report /\ doc'.outcome = doc.outcome
<1>1. doc \in Report
  BY DEF Division, TypeOK, Report
<1>2. QED  BY <1>1, OpIsTyped, ApplyEffect DEF Saved, At

\* What every step of a worker has in common.
Moves(w, p) ==
    /\ pc[w] \notin Over /\ p \in Places /\ p # "drain"
    /\ pc' = [pc EXCEPT ![w] = p]
    /\ pc[w] \in {"rescue", "drain"} => p = "dead"
    /\ UNCHANGED <<stopping, spent, cancels, main, outcome, late, escaped, crashes>>
    /\ \/ /\ pc[w] = "loop" /\ p = "slot"
          /\ \E h \in remaining : /\ remaining' = remaining \ {h}
                                  /\ host' = [host EXCEPT ![w] = h]
       \/ /\ remaining' = remaining /\ host' = host
          /\ p \notin Over \cup {"loop"} => Has(w)
    /\ \A v \in Workers : v # w => verdict'[v] = verdict[v]
    /\ p = "settle" => verdict'[w] # "retry" /\ (verdict'[w] = "cancel" => stopping)
    /\ pc[w] = "settle" => p \in {"loop", "dead"}
    /\ p = "loop" => pc[w] = "settle" /\ doc' = Apply(Op(w), doc)
    /\ p = "done" => pc[w] = "loop" /\ (stopping \/ remaining = {})
    /\ doc' = doc \/ (pc[w] \in Writing /\ doc' = Apply(Op(w), doc))

LEMMA WorkMoves ==
    ASSUME Division, NEW w \in Workers, Work(w)
    PROVE  \E p \in Places : Moves(w, p)
<1> USE DEF Goto, Raise, Alone, At, Has, Places, Writing, Over
<1>0. verdict \in [Workers -> {"ok", "retry", "fail", "cancel"}] /\ pc[w] \in Places
  BY DEF Division, TypeOK
<1>1. CASE TakeHost(w)
  <2>1. CASE stopping \/ remaining = {}
    <3>1. Moves(w, "done")
      BY <1>1, <2>1 DEF TakeHost, Moves
    <3>2. QED  BY <3>1
  <2>2. CASE ~(stopping \/ remaining = {})
    <3>1. Moves(w, "slot")
      BY <1>1, <2>2 DEF TakeHost, Moves
    <3>2. QED  BY <3>1
  <2>3. QED  BY <2>1, <2>2
<1>2. CASE LeaveQueue(w)
  <2>1. Moves(w, "dead") \/ Moves(w, "mark")
    BY <1>2 DEF LeaveQueue, Moves
  <2>2. QED  BY <2>1
<1>3. CASE CheckGuard(w)
  <2>1. Moves(w, "dead") \/ Moves(w, "attempt")
    BY <1>3 DEF CheckGuard, Moves
  <2>2. QED  BY <2>1
<1>4. CASE EndProbe(w)
  <2>1. Moves(w, "record") \/ Moves(w, "rescue")
    BY <1>0, <1>4 DEF EndProbe, Moves
  <2>2. QED  BY <2>1
<1>5. CASE SaveMark(w)
  <2>1. Moves(w, "check")
    BY <1>5 DEF SaveMark, Moves, Saved
  <2>2. QED  BY <2>1
<1>6. CASE SaveAttempt(w)
  <2>1. Moves(w, "record") \/ Moves(w, "probe")
    BY <1>6 DEF SaveAttempt, Moves, Saved
  <2>2. QED  BY <2>1
<1>7. CASE SaveRecord(w)
  <2>1. Moves(w, "check") \/ Moves(w, "settle")
    BY <1>0, <1>7 DEF SaveRecord, Moves, Saved
  <2>2. QED  BY <2>1
<1>8. CASE SaveResult(w)
  <2>1. Moves(w, "loop")
    BY <1>8 DEF SaveResult, Moves, Saved
  <2>2. QED  BY <2>1
<1>9. CASE SaveLastRecord(w)
  <2>1. Moves(w, "dead")
    BY <1>9 DEF SaveLastRecord, Moves, Saved
  <2>2. QED  BY <2>1
<1>10. CASE SaveFails(w)
  <2>1. Moves(w, "dead")
    BY <1>10 DEF SaveFails, Moves
  <2>2. QED  BY <2>1
<1>11. QED
  BY <1>1, <1>2, <1>3, <1>4, <1>5, <1>6, <1>7, <1>8, <1>9, <1>10 DEF Work

LEMMA MovesKeepsReport ==
    ASSUME Division, NEW w \in Workers, NEW p \in Places, Moves(w, p)
    PROVE  doc \in Report /\ doc' \in Report /\ doc'.outcome = doc.outcome
<1>1. doc \in Report
  BY DEF Division, TypeOK, Report
<1>2. CASE doc' = doc
  BY <1>1, <1>2
<1>3. CASE pc[w] \in Writing /\ doc' = Apply(Op(w), doc)
  BY <1>1, <1>3, OpIsTyped, ApplyEffect
<1>4. QED  BY <1>1, <1>2, <1>3 DEF Moves

\* The variables a step of a worker may also change keep their types.
LEMMA WorkTypes ==
    ASSUME Division, NEW w \in Workers, Work(w)
    PROVE  TypeOK'
<1>1. TypeOK
  BY DEF Division
<1>2. PICK p \in Places : Moves(w, p)
  BY WorkMoves
<1>3. pc' \in [Workers -> Places] /\ cancels' \in [Workers -> 0 .. 2] /\ late' \subseteq OpType
      /\ stopping' \in BOOLEAN /\ spent' \in BOOLEAN /\ escaped' \in BOOLEAN
      /\ main' \in {"gather", "unwind", "after", "decide", "close", "outcome", "handler", "end"}
      /\ outcome' \in Outcome \cup {"none"} /\ crashes' \in 0 .. MaxCrashes
      /\ remaining' \subseteq Hosts /\ host' \in [Workers -> Hosts \cup {Nowhere}]
  BY <1>1, <1>2 DEF TypeOK, Moves, Places
<1>4. doc' \in Report
  BY <1>2, MovesKeepsReport
<1>5. faults' \in 0 .. MaxFaults
  BY <1>1, FaultAssumption
  DEF TypeOK, Work, TakeHost, LeaveQueue, CheckGuard, EndProbe, SaveMark, SaveAttempt, SaveRecord,
      SaveResult, SaveLastRecord, SaveFails
<1>5a. /\ guardFailed' \in BOOLEAN
       /\ cause' \in {"none", "QueueExpired", "QueueCancelled", "Error"}
  BY <1>1
  DEF TypeOK, Work, TakeHost, LeaveQueue, CheckGuard, EndProbe, SaveMark, SaveAttempt, SaveRecord,
      SaveResult, SaveLastRecord, SaveFails, Goto, Raise
<1>6. /\ try' \in [Workers -> Attempts]
      /\ verdict' \in [Workers -> {"ok", "retry", "fail", "cancel"}]
  BY <1>1
  DEF TypeOK, Work, TakeHost, LeaveQueue, CheckGuard, EndProbe, SaveMark, SaveAttempt, SaveRecord,
      SaveResult, SaveLastRecord, SaveFails, Attempts, Retries
<1>7. launched' \subseteq Hosts \X Attempts
  <2>1. pc[w] = "attempt" => host[w] \in Hosts /\ try[w] \in Attempts
    BY <1>1 DEF Division, HostsAreDivided, Has, Over, TypeOK
  <2>2. launched' = launched \/ (pc[w] = "attempt" /\ launched' = launched \cup {<<host[w], try[w]>>})
    BY DEF Work, TakeHost, LeaveQueue, CheckGuard, EndProbe, SaveMark, SaveAttempt, SaveRecord,
           SaveResult, SaveLastRecord, SaveFails, Saved, At
  <2>3. QED  BY <1>1, <2>1, <2>2 DEF TypeOK
<1>8. QED  BY <1>3, <1>4, <1>5, <1>5a, <1>6, <1>7 DEF TypeOK, Report, Places

LEMMA DivisionWork ==
    ASSUME Division, NEW w \in Workers, Work(w)
    PROVE  Division'
<1>1. PICK p \in Places : Moves(w, p)
  BY WorkMoves
<1>2. /\ TypeOK /\ TypeOK'
      /\ pc \in [Workers -> Places] /\ host \in [Workers -> Hosts \cup {Nowhere}] /\ remaining \subseteq Hosts
  BY WorkTypes DEF Division, TypeOK, Places
<1>3. doc'.outcome = doc.outcome
  BY <1>1, MovesKeepsReport
<1>4. PhaseIsReached'
  BY <1>1, <1>2, <1>3 DEF Division, PhaseIsReached, Moves, Over
<1>5. CancelledWorkersStop'
  BY <1>1, <1>2 DEF Division, CancelledWorkersStop, Moves, Over, TypeOK
<1>6. HostsAreDivided'
  BY <1>1, <1>2, HostsAssumption DEF Division, HostsAreDivided, Moves, Has, Over
<1>7. LateIsOrphaned'
  BY <1>1, <1>2 DEF Division, LateIsOrphaned, Moves, Over
<1>8. QED  BY <1>2, <1>4, <1>5, <1>6, <1>7 DEF Division

\* The tasks in S are cancelled: each of them is on its way out, and what it
\* leaves behind is the write it was waiting for.
LEMMA TasksCancelled ==
    ASSUME Division, NEW S, S \subseteq {w \in Workers : pc[w] \notin Over}, CancelTasks(S)
    PROVE  /\ pc' \in [Workers -> Places] /\ cancels' \in [Workers -> Nat]
           /\ late' \subseteq OpType
           /\ \A w \in S : /\ pc'[w] \in {"rescue", "drain", "dead"}
                           /\ pc[w] \in {"rescue", "drain"} => pc'[w] # "rescue"
                           /\ Has(w)' => Has(w)
                           /\ cancels'[w] = cancels[w] + 1
           /\ \A w \in Workers \ S : pc'[w] = pc[w] /\ cancels'[w] = cancels[w]
           /\ \A op \in late' :
                 op \in late \/ \E w \in S : pc[w] \in Writing /\ pc'[w] = "dead" /\ op = Op(w)
<1>1. /\ pc \in [Workers -> Places] /\ cancels \in [Workers -> Nat] /\ late \subseteq OpType
      /\ S \subseteq Workers
  BY DEF Division, TypeOK, Places
<1>2. \A w \in Workers : Interrupt(pc[w]) \in {"rescue", "drain", "dead"}
  BY DEF Interrupt
<1>3. /\ pc' = [w \in Workers |-> IF w \in S THEN Interrupt(pc[w]) ELSE pc[w]]
      /\ cancels' = [w \in Workers |-> IF w \in S THEN cancels[w] + 1 ELSE cancels[w]]
  BY DEF CancelTasks
<1>4. PICK L \in SUBSET {w \in S : pc[w] \in Writing /\ Interrupt(pc[w]) = "dead"} :
          late' = late \cup {Op(w) : w \in L}
  BY DEF CancelTasks
<1>5. \A op \in late' :
          op \in late \/ \E w \in S : pc[w] \in Writing /\ pc'[w] = "dead" /\ op = Op(w)
  BY <1>1, <1>3, <1>4
<1>6. late' \subseteq OpType
  BY <1>1, <1>5, OpIsTyped
<1>7. pc' \in [Workers -> Places] /\ cancels' \in [Workers -> Nat]
  BY <1>1, <1>2, <1>3 DEF Places, Writing, Over
<1>8. \A w \in S : Has(w)' => Has(w)
  BY <1>1, <1>3 DEF Has, Interrupt, Over
<1>9. \A w \in S : pc[w] \in {"rescue", "drain"} => pc'[w] # "rescue"
  BY <1>1, <1>3 DEF Interrupt
<1>10. QED  BY <1>1, <1>2, <1>3, <1>5, <1>6, <1>7, <1>8, <1>9

\* Cancelling worker tasks keeps hosts apart, and the writes left behind too.
LEMMA TasksCancelledApart ==
    ASSUME Division, NEW S, S \subseteq {w \in Workers : pc[w] \notin Over}, CancelTasks(S),
           UNCHANGED <<remaining, host, verdict>>
    PROVE  HostsAreDivided' /\ LateIsOrphaned'
<1>1. \A w \in Workers : pc'[w] = pc[w] \/ (w \in S /\ pc'[w] \in {"rescue", "drain", "dead"})
  BY TasksCancelled
<1>2. \A w \in Workers : Has(w)' => Has(w)
  BY TasksCancelled DEF Has
<1>3. HostsAreDivided'
  BY <1>1, <1>2 DEF Division, HostsAreDivided, Has
<1>4. \A op \in late' :
          \/ op \in late
          \/ \E w \in S : pc'[w] = "dead" /\ op = Op(w) /\ op.host = host[w] /\ host[w] \in Hosts
  BY TasksCancelled, OpIsTyped
<1>5. \A op \in late : \E v \in Workers \ S : pc'[v] = "dead" /\ host[v] = op.host
  BY TasksCancelled DEF Division, LateIsOrphaned, Over
<1>6. \A v, w \in Workers : host[v] = host[w] /\ host[v] \in Hosts => v = w
  BY DEF Division, HostsAreDivided
<1>7. \A o, p \in late' : o.host = p.host => o = p
  <2> SUFFICES ASSUME NEW o \in late', NEW p \in late', o.host = p.host PROVE o = p
    OBVIOUS
  <2>1. CASE o \in late /\ p \in late
    BY <2>1 DEF Division, LateIsOrphaned
  <2>2. CASE o \in late /\ p \notin late
    BY <2>2, <1>4, <1>5, <1>6
  <2>3. CASE o \notin late /\ p \in late
    BY <2>3, <1>4, <1>5, <1>6
  <2>4. CASE o \notin late /\ p \notin late
    BY <2>4, <1>4, <1>6
  <2>5. QED  BY <2>1, <2>2, <2>3, <2>4
<1>8. QED  BY <1>3, <1>4, <1>5, <1>7 DEF LateIsOrphaned

LEMMA CancelsAtMostTwice ==
    ASSUME CancelledWorkersStop', cancels' \in [Workers -> Nat]
    PROVE  \A w \in Workers : cancels'[w] \leq 2
<1> DEFINE a == IF spent' THEN 1 ELSE 0
           b == IF main' = "gather" THEN 0 ELSE 1
<1>1. a \in 0 .. 1 /\ b \in 0 .. 1
  OBVIOUS
<1>2. \A w \in Workers : cancels'[w] \in Nat /\ cancels'[w] \leq a + b
  BY DEF CancelledWorkersStop
<1> HIDE DEF a, b
<1>3. QED  BY <1>1, <1>2

LEMMA DivisionExpire ==
    ASSUME Division, ExpireBudget
    PROVE  Division'
<1>1. /\ Inside \subseteq {w \in Workers : pc[w] \notin Over} /\ CancelTasks(Inside)
      /\ UNCHANGED <<remaining, host, verdict>>
  BY DEF ExpireBudget, Inside, Over, Writing
<1>2. HostsAreDivided' /\ LateIsOrphaned'
  BY <1>1, TasksCancelledApart
<1>3. \A w \in Workers :
          \/ w \in Inside /\ cancels'[w] = cancels[w] + 1 /\ pc'[w] \in {"rescue", "drain", "dead"}
             /\ pc[w] \notin Over
          \/ pc'[w] = pc[w] /\ cancels'[w] = cancels[w]
  BY <1>1, TasksCancelled
<1>4. \A w \in Workers : cancels[w] \in Nat
  BY DEF Division, TypeOK
<1>5. ~spent /\ spent' /\ main' = main /\ doc' = doc /\ escaped' = escaped
  BY DEF ExpireBudget, history
<1>6. CancelledWorkersStop'
  BY <1>3, <1>4, <1>5 DEF Division, CancelledWorkersStop
<1>7. PhaseIsReached'
  BY <1>3, <1>5 DEF Division, PhaseIsReached, Over
<1>8. TypeOK'
  <2>1. pc' \in [Workers -> Places] /\ late' \subseteq OpType /\ cancels' \in [Workers -> Nat]
    BY <1>1, TasksCancelled
  <2>2. \A w \in Workers : cancels'[w] \leq 2
    BY <1>6, <2>1, CancelsAtMostTwice
  <2>3. cancels' \in [Workers -> 0 .. 2]
    BY <2>1, <2>2
  <2>4. cause' \in {"none", "QueueExpired", "QueueCancelled", "Error"}
    BY DEF ExpireBudget, Division, TypeOK
  <2>5. QED
    BY <1>5, <2>1, <2>3, <2>4 DEF ExpireBudget, history, Division, TypeOK, Places
<1>9. QED  BY <1>2, <1>6, <1>7, <1>8 DEF Division

LEMMA DivisionSiblings ==
    ASSUME Division, CancelSiblings
    PROVE  Division'
<1> DEFINE S == {w \in Workers : pc[w] \notin Over}
<1>1. CancelTasks(S) /\ UNCHANGED <<remaining, host, verdict>>
  BY DEF CancelSiblings
<1>2. HostsAreDivided' /\ LateIsOrphaned'
  BY <1>1, TasksCancelledApart
<1>3. \A w \in Workers :
          \/ cancels'[w] = cancels[w] + 1 /\ pc'[w] \in {"rescue", "drain", "dead"}
          \/ pc'[w] = pc[w] /\ cancels'[w] = cancels[w]
  BY <1>1, TasksCancelled
<1>4. \A w \in Workers : cancels[w] \in Nat
  BY DEF Division, TypeOK
<1>5. main = "gather" /\ main' = "unwind" /\ doc' = doc /\ spent' = spent /\ escaped' = escaped
  BY DEF CancelSiblings, history, signals
<1>6. CancelledWorkersStop'
  BY <1>3, <1>4, <1>5 DEF Division, CancelledWorkersStop
<1>7. PhaseIsReached'
  BY <1>5 DEF Division, PhaseIsReached
<1>8. TypeOK'
  <2>1. pc' \in [Workers -> Places] /\ late' \subseteq OpType /\ cancels' \in [Workers -> Nat]
    BY <1>1, TasksCancelled
  <2>2. \A w \in Workers : cancels'[w] \leq 2
    BY <1>6, <2>1, CancelsAtMostTwice
  <2>3. cancels' \in [Workers -> 0 .. 2]
    BY <2>1, <2>2
  <2>4. QED
    BY <1>5, <2>1, <2>3 DEF CancelSiblings, signals, history, Division, TypeOK, Places
<1>9. QED  BY <1>2, <1>6, <1>7, <1>8 DEF Division

\* Whoever has done all its work has left no write behind.
LEMMA NothingIsLate ==
    ASSUME Division, \A w \in Workers : pc[w] = "done"
    PROVE  late = {}
  BY DEF Division, LateIsOrphaned

LEMMA MainTypes ==
    ASSUME Division, Run, ~CancelSiblings
    PROVE  /\ doc \in Report /\ doc' \in Report
           /\ UNCHANGED <<stopping, spent, worker, late, history, crashes>>
           /\ main # "end" /\ main' \in {"after", "decide", "close", "outcome", "handler", "end"}
           /\ doc'.outcome # doc.outcome => main' = "end"
<1>0. doc \in Report /\ outcome \in Outcome \cup {"none"}
  BY DEF Division, TypeOK, Report
<1>1. CASE Gathered \/ Unwound \/ FinishStage \/ GuardStopsRun \/ DecideOutcome \/ RunFails
  BY <1>0, <1>1 DEF Gathered, Unwound, FinishStage, GuardStopsRun, DecideOutcome, RunFails, Main
<1>2. CASE CloseCancelled
  BY <1>0, <1>2, CloseEffect DEF CloseCancelled, Main
<1>3. CASE SaveOutcome
  BY <1>0, <1>3 DEF SaveOutcome, Main, Report
<1>4. CASE HandleError
  <2>1. CASE doc' = doc
    BY <1>0, <1>4, <2>1 DEF HandleError, Main
  <2>2. CASE doc' = Finished
    <3>1. PICK r \in {"cancelled", cause}, o \in Outcome :
              doc' = [CloseUnfinished(doc, r) EXCEPT !.outcome = o]
      <4> DEFINE user == cause = "QueueCancelled" /\ ~guardFailed
                 r == IF user THEN "cancelled" ELSE cause
                 o == IF user THEN "cancelled" ELSE IF doc.devices = {} THEN "failed" ELSE "partial"
      <4>1. doc' = [CloseUnfinished(doc, r) EXCEPT !.outcome = o]
        BY <2>2 DEF Finished
      <4>2. r \in {"cancelled", cause} /\ o \in Outcome
        BY DEF Outcome
      <4> HIDE DEF r, o
      <4>3. QED  BY <4>1, <4>2
    <3>2. doc' \in Report
      <4> DEFINE e == CloseUnfinished(doc, r)
      <4>1. e \in Report
        BY <1>0, CloseEffect
      <4> HIDE DEF e
      <4>2. [e EXCEPT !.outcome = o] \in Report
        BY <4>1 DEF Report
      <4>3. QED  BY <3>1, <4>2 DEF e
    <3>3. QED  BY <1>0, <1>4, <3>2 DEF HandleError, Main
  <2>3. QED  BY <1>4, <2>1, <2>2 DEF HandleError
<1>5. QED  BY <1>1, <1>2, <1>3, <1>4 DEF Run

LEMMA DivisionRun ==
    ASSUME Division, Run
    PROVE  Division'
<1>1. CASE CancelSiblings
  BY <1>1, DivisionSiblings
<1>2. CASE ~CancelSiblings
  <2>1. /\ doc' \in Report
        /\ UNCHANGED <<stopping, spent, worker, late, history, crashes>>
        /\ main # "end" /\ main' \in {"after", "decide", "close", "outcome", "handler", "end"}
        /\ doc'.outcome # doc.outcome => main' = "end"
    BY <1>2, MainTypes
  <2>2. faults' \in 0 .. MaxFaults
    <3>1. faults \in 0 .. MaxFaults /\ (faults' = faults \/ (faults < MaxFaults /\ faults' = faults + 1))
      BY <1>2
      DEF Run, Gathered, Unwound, FinishStage, GuardStopsRun, DecideOutcome, CloseCancelled,
          SaveOutcome, RunFails, HandleError, Division, TypeOK
    <3>2. QED  BY <3>1, FaultAssumption
  <2>2a. /\ guardFailed' \in BOOLEAN /\ outcome' \in Outcome \cup {"none"}
         /\ cause' \in {"none", "QueueExpired", "QueueCancelled", "Error"}
    BY <1>2
    DEF Run, Gathered, Unwound, FinishStage, GuardStopsRun, DecideOutcome, CloseCancelled,
        SaveOutcome, RunFails, HandleError, FinalState, FinalStateByCounts, Outcome, Division, TypeOK
  <2>3. TypeOK'
    BY <2>1, <2>2, <2>2a DEF worker, history, Division, TypeOK, Report
  <2>4. PhaseIsReached'
    <3>1. /\ main' \in {"after", "decide", "close", "outcome"} => \A w \in Workers : pc[w] = "done"
          /\ main' \in {"handler", "end"} => \A w \in Workers : pc[w] \in Over
      BY <1>2
      DEF Run, Gathered, Unwound, FinishStage, GuardStopsRun, DecideOutcome, CloseCancelled,
          SaveOutcome, RunFails, HandleError, Main, Division, PhaseIsReached, Over
    <3>2. pc' = pc /\ escaped' = escaped
      BY <2>1 DEF worker, history
    <3>3. doc.outcome = "none" /\ ~escaped
      BY <2>1 DEF Division, PhaseIsReached, TypeOK
    <3>4. QED  BY <2>1, <3>1, <3>2, <3>3 DEF PhaseIsReached
  <2>5. CancelledWorkersStop'
    BY <2>1 DEF worker, Division, CancelledWorkersStop, TypeOK
  <2>6. HostsAreDivided' /\ LateIsOrphaned'
    BY <2>1 DEF worker, Division, HostsAreDivided, Has, LateIsOrphaned
  <2>7. QED  BY <2>3, <2>4, <2>5, <2>6 DEF Division
<1>3. QED  BY <1>1, <1>2

LEMMA LateWriteEffect ==
    ASSUME Division, LateWrite
    PROVE  /\ doc \in Report /\ doc' \in Report /\ doc'.outcome = doc.outcome
           /\ \E op \in late : /\ op \in OpType /\ late' = late \ {op}
                               /\ \/ doc' = doc /\ escaped' = escaped
                                  \/ /\ doc' = Apply(op, doc)
                                     /\ escaped' = (escaped \/ doc.outcome # "none")
<1>1. doc \in Report /\ late \subseteq OpType
  BY DEF Division, TypeOK, Report
<1>2. PICK op \in late : /\ late' = late \ {op}
                         /\ \/ doc' = doc /\ escaped' = escaped
                            \/ /\ doc' = Apply(op, doc)
                               /\ escaped' = (escaped \/ doc.outcome # "none")
  BY DEF LateWrite
<1>3. op \in OpType
  BY <1>1
<1>4. doc' \in Report /\ doc'.outcome = doc.outcome
  BY <1>1, <1>2, <1>3, ApplyEffect, ZenonT(40)
<1>5. QED  BY <1>1, <1>2, <1>3, <1>4

LEMMA DivisionEnvironment ==
    ASSUME Division, LateWrite \/ UserCancels \/ NetworkChanges \/ CrashAndReconcile
    PROVE  Division'
<1>0. doc \in Report
  BY DEF Division, TypeOK, Report
<1>1. CASE LateWrite
  <2>1. doc' \in Report /\ doc'.outcome = doc.outcome
    BY <1>1, LateWriteEffect
  <2>2. PICK op \in late : /\ late' = late \ {op}
                           /\ \/ escaped' = escaped
                              \/ escaped' = (escaped \/ doc.outcome # "none")
    BY <1>1, LateWriteEffect
  <2>3. UNCHANGED <<signals, worker, main, cause, outcome, launched, faults, crashes>>
    BY <1>1 DEF LateWrite
  <2>4. escaped \in BOOLEAN /\ escaped' \in BOOLEAN
    BY <2>2 DEF Division, TypeOK
  <2>5. TypeOK'
    BY <2>1, <2>2, <2>3, <2>4 DEF signals, worker, Division, TypeOK, Report
  <2>6. PhaseIsReached'
    <3>1. escaped' => escaped \/ doc.outcome # "none"
      BY <2>2
    <3>2. QED  BY <2>1, <2>3, <3>1 DEF worker, Division, PhaseIsReached
  <2>7. CancelledWorkersStop' /\ HostsAreDivided' /\ LateIsOrphaned'
    BY <2>2, <2>3 DEF signals, worker, Division, CancelledWorkersStop, HostsAreDivided, Has, LateIsOrphaned
  <2>8. QED  BY <2>5, <2>6, <2>7 DEF Division
<1>2. CASE UserCancels \/ NetworkChanges
  <2>1. /\ UNCHANGED <<doc, spent, worker, main, cause, outcome, late, history, faults, crashes>>
        /\ stopping' = TRUE /\ (guardFailed' = guardFailed \/ guardFailed' = TRUE)
    BY <1>2 DEF UserCancels, NetworkChanges
  <2>2. TypeOK'
    BY <2>1, ZenonT(40) DEF worker, history, Division, TypeOK
  <2>3. PhaseIsReached' /\ CancelledWorkersStop'
    BY <2>1 DEF worker, history, Division, PhaseIsReached, CancelledWorkersStop
  <2>4. HostsAreDivided' /\ LateIsOrphaned'
    BY <2>1 DEF worker, Division, HostsAreDivided, Has, LateIsOrphaned
  <2>5. QED  BY <2>2, <2>3, <2>4 DEF Division
<1>3. CASE CrashAndReconcile
  <2>1. doc' \in Report /\ doc'.outcome # "none" /\ doc.outcome # "none" => doc' = doc
    BY <1>0, <1>3, InterruptedEffect DEF CrashAndReconcile
  <2>2. /\ pc' = [w \in Workers |-> "dead"] /\ late' = {} /\ main' = "end" /\ crashes' = crashes + 1
        /\ crashes < MaxCrashes
        /\ UNCHANGED <<signals, remaining, host, try, verdict, cancels, cause, outcome, history, faults>>
    BY <1>3 DEF CrashAndReconcile
  <2>3. TypeOK'
    <3>1. crashes' \in 0 .. MaxCrashes
      BY <2>2, FaultAssumption DEF Division, TypeOK
    <3>2. doc' \in Report
      BY <1>0, <1>3, InterruptedEffect DEF CrashAndReconcile
    <3>3. QED  BY <2>2, <3>1, <3>2 DEF signals, history, Division, TypeOK, Report, Over
  <2>4. PhaseIsReached'
    <3>1. doc'.outcome # "none"
      BY <1>0, <1>3, InterruptedEffect DEF CrashAndReconcile
    <3>2. QED  BY <2>2, <3>1 DEF history, Division, PhaseIsReached, Over
  <2>5. CancelledWorkersStop'
    BY <2>2 DEF signals, Division, CancelledWorkersStop, TypeOK
  <2>6. HostsAreDivided' /\ LateIsOrphaned'
    BY <2>2 DEF Division, HostsAreDivided, Has, Over, LateIsOrphaned
  <2>7. QED  BY <2>3, <2>4, <2>5, <2>6 DEF Division
<1>4. QED  BY <1>1, <1>2, <1>3

LEMMA DivisionInit == Init => Division
<1> SUFFICES ASSUME Init PROVE Division
  OBVIOUS
<1>1. TypeOK
  <2>1. doc \in Report
    BY DEF Init, Report, Status, Outcome
  <2>2. faults \in 0 .. MaxFaults /\ crashes \in 0 .. MaxCrashes
    BY FaultAssumption DEF Init
  <2>3. try \in [Workers -> Attempts]
    BY DEF Init, Attempts
  <2>4. /\ pc \in [Workers -> Places] /\ host \in [Workers -> Hosts \cup {Nowhere}]
        /\ verdict \in [Workers -> {"ok", "retry", "fail", "cancel"}]
        /\ cancels \in [Workers -> 0 .. 2]
    BY DEF Init, Places
  <2>5. /\ stopping \in BOOLEAN /\ guardFailed \in BOOLEAN /\ spent \in BOOLEAN
        /\ remaining \subseteq Hosts
        /\ main = "gather" /\ cause = "none" /\ outcome = "none"
        /\ late = {} /\ escaped \in BOOLEAN /\ launched = {}
    BY DEF Init
  <2>6. QED  BY <2>1, <2>2, <2>3, <2>4, <2>5 DEF TypeOK, Report, Places
<1>2. QED
  BY <1>1, HostsAssumption DEF Init, Division, PhaseIsReached, CancelledWorkersStop,
         HostsAreDivided, Has, LateIsOrphaned, Over

LEMMA DivisionNext == Division /\ [Next]_vars => Division'
<1> SUFFICES ASSUME Division, [Next]_vars PROVE Division'
  OBVIOUS
<1>1. CASE UNCHANGED vars
  BY <1>1 DEF vars, signals, worker, history, Division, TypeOK, PhaseIsReached,
              CancelledWorkersStop, HostsAreDivided, Has, LateIsOrphaned
<1>2. QED
  BY <1>1, DivisionWork, DivisionRun, DivisionExpire, DivisionEnvironment DEF Next

-----------------------------------------------------------------------------
(* What the coverage says *)

CountsHold == ~escaped => Agrees(doc)

\* What somebody will still settle is not settled yet.
ClaimedIsOpen ==
    doc.outcome = "none" =>
        /\ \A w \in Workers : Has(w) => doc.status[host[w]] \in Live
        /\ \A op \in late : doc.status[op.host] \in Live
        /\ main \in {"gather", "unwind"} => \A h \in remaining : doc.status[h] \in Live

\* A host that was taken is checked, unless its worker or the user gave up.
NothingIsLost ==
    /\ main \in {"gather", "unwind", "after", "decide"} =>
          \A h \in Hosts \ remaining :
              \/ \E w \in Workers : host[w] = h /\ pc[w] \notin {"loop", "done"}
              \/ doc.status[h] \in {"completed", "failed"}
              \/ stopping
    /\ \A w \in Workers : pc[w] = "done" => stopping \/ remaining = {}
    /\ \A w \in Workers : pc[w] = "settle" /\ verdict[w] = "cancel" => stopping

Fits(o, d) ==
    /\ Unfinished(d) = {}
    /\ o = "completed" => d.devices = Hosts
    /\ o = "partial" => d.devices # {}
    /\ o = "failed" => d.devices = {}

OutcomeIsDue ==
    /\ main = "close" => outcome = "cancelled"
    /\ main = "outcome" => Fits(outcome, doc)
    /\ doc.outcome # "none" /\ ~escaped => Fits(doc.outcome, doc)

Coverage == CountsHold /\ ClaimedIsOpen /\ NothingIsLost /\ OutcomeIsDue

LEMMA CoverageWork ==
    ASSUME Division, Coverage, NEW w \in Workers, Work(w)
    PROVE  Coverage'
<1>1. PICK p \in Places : Moves(w, p)
  BY WorkMoves
<1>2. doc \in Report /\ doc' \in Report /\ doc'.outcome = doc.outcome
  BY <1>1, MovesKeepsReport
<1>3. /\ main \in {"gather", "unwind"} /\ main' = main /\ doc.outcome = "none"
      /\ ~escaped /\ ~escaped'
  BY <1>1 DEF Moves, Division, PhaseIsReached, TypeOK, Over
<1>4. /\ pc \in [Workers -> Places] /\ host \in [Workers -> Hosts \cup {Nowhere}]
      /\ remaining \subseteq Hosts /\ late \subseteq OpType /\ late' = late /\ stopping' = stopping
      /\ doc.status \in [Hosts -> Status]
  BY <1>1, <1>2 DEF Division, TypeOK, Places, Moves, Report
<1>5. /\ \A h \in Hosts : h # host[w] => doc'.status[h] = doc.status[h]
      /\ doc' # doc => /\ Has(w) /\ Op(w) \in OpType /\ Op(w).host = host[w] /\ host[w] \in Hosts
                       /\ doc.status[host[w]] \in Live
                       /\ doc' = Apply(Op(w), doc)
                       /\ doc'.status[host[w]] = StatusAfter(Op(w).kind, doc.status[host[w]])
  <2>1. CASE doc' = doc
    BY <2>1
  <2>2. CASE pc[w] \in Writing /\ doc' = Apply(Op(w), doc)
    <3>1. Op(w) \in OpType /\ Op(w).host = host[w] /\ host[w] \in Hosts
      BY <2>2, OpIsTyped
    <3>2. doc'.status = [doc.status EXCEPT ![host[w]] = StatusAfter(Op(w).kind, @)]
      BY <1>2, <2>2, <3>1, ApplyEffect
    <3>3. Has(w)
      BY <2>2 DEF Has, Writing, Over
    <3>4. QED  BY <1>3, <1>4, <2>2, <3>1, <3>2, <3>3 DEF Coverage, ClaimedIsOpen
  <2>3. QED  BY <1>1, <2>1, <2>2 DEF Moves
<1>6. CountsHold'
  BY <1>2, <1>3, <1>5, ApplyAgrees DEF Coverage, CountsHold
<1>7. ClaimedIsOpen'
  <2>1. ASSUME NEW v \in Workers, Has(v)' PROVE doc'.status[host'[v]] \in Live
    <3>1. CASE v # w
      <4>1. Has(v) /\ host'[v] = host[v] /\ host[v] \in Hosts /\ host[v] # host[w]
        BY <1>1, <1>4, <2>1, <3>1 DEF Moves, Has, Division, HostsAreDivided
      <4>2. QED  BY <1>3, <1>5, <4>1 DEF Coverage, ClaimedIsOpen
    <3>2. CASE v = w /\ pc[w] = "loop"
      <4>1. doc' = doc /\ host'[w] \in remaining
        BY <1>1, <1>4, <2>1, <3>2 DEF Moves, Has, Writing, Over
      <4>2. QED  BY <1>3, <3>2, <4>1 DEF Coverage, ClaimedIsOpen
    <3>3. CASE v = w /\ pc[w] # "loop"
      <4>1. /\ host' = host /\ p \notin Over \cup {"loop"} /\ Has(w) /\ pc[w] # "settle"
        BY <1>1, <1>4, <2>1, <3>3 DEF Moves, Has, Over
      <4>2. doc' # doc => Op(w).kind \in {"mark", "attempt", "record"}
        BY <1>1, <4>1, OpIsTyped DEF Moves, Writing
      <4>3. doc.status[host[w]] \in Live
        BY <1>3, <4>1 DEF Coverage, ClaimedIsOpen
      <4>4. QED  BY <1>5, <3>3, <4>1, <4>2, <4>3 DEF StatusAfter, Live
    <3>4. QED  BY <3>1, <3>2, <3>3
  <2>2. ASSUME NEW op \in late' PROVE doc'.status[op.host] \in Live
    <3>1. PICK v \in Workers : pc[v] = "dead" /\ host[v] = op.host
      BY <1>4, <2>2 DEF Division, LateIsOrphaned
    <3>2. op.host \in Hosts /\ op.host # host[w]
      BY <1>1, <1>4, <2>2, <3>1 DEF OpType, Division, HostsAreDivided, Moves, Over
    <3>3. QED  BY <1>3, <1>4, <1>5, <2>2, <3>2 DEF Coverage, ClaimedIsOpen
  <2>3. ASSUME NEW h \in remaining' PROVE doc'.status[h] \in Live
    <3>1. h \in remaining /\ h # host[w]
      BY <1>1, <2>3 DEF Moves, Division, HostsAreDivided
    <3>2. QED  BY <1>3, <1>4, <1>5, <3>1 DEF Coverage, ClaimedIsOpen
  <2>4. QED  BY <2>1, <2>2, <2>3 DEF ClaimedIsOpen
<1>8. NothingIsLost'
  <2>1. ASSUME NEW h \in Hosts \ remaining', ~stopping
        PROVE  \/ \E v \in Workers : host'[v] = h /\ pc'[v] \notin {"loop", "done"}
               \/ doc'.status[h] \in {"completed", "failed"}
    <3>1. CASE h \in remaining
      BY <1>1, <1>4, <2>1, <3>1 DEF Moves
    <3>2. CASE h \notin remaining /\ \E v \in Workers : host[v] = h /\ pc[v] \notin {"loop", "done"}
      <4>1. PICK v \in Workers : host[v] = h /\ pc[v] \notin {"loop", "done"}
        BY <3>2
      <4>2. CASE v # w
        BY <1>1, <1>4, <4>1, <4>2 DEF Moves
      <4>3. CASE v = w /\ p # "loop"
        BY <1>1, <1>4, <4>1, <4>3 DEF Moves
      <4>4. CASE v = w /\ p = "loop"
        <5>1. pc[w] = "settle" /\ doc' = Apply(Op(w), doc)
          BY <1>1, <4>4 DEF Moves
        <5>2. Op(w).kind \in {"ok", "fail"}
          BY <2>1, <5>1, OpIsTyped DEF Writing, Coverage, NothingIsLost
        <5>3. Op(w) \in OpType /\ Op(w).host = h
          BY <4>1, <4>4, <5>1, OpIsTyped DEF Writing
        <5>4. doc'.status = [doc.status EXCEPT ![h] = StatusAfter(Op(w).kind, @)]
          BY <1>2, <5>1, <5>3, ApplyEffect
        <5>5. QED  BY <1>4, <5>2, <5>4 DEF StatusAfter
      <4>5. QED  BY <4>2, <4>3, <4>4
    <3>3. CASE h \notin remaining /\ doc.status[h] \in {"completed", "failed"}
      BY <1>5, <2>1, <3>3 DEF Live
    <3>4. QED  BY <1>3, <2>1, <3>1, <3>2, <3>3 DEF Coverage, NothingIsLost
  <2>2. \A v \in Workers : pc'[v] = "done" => stopping \/ remaining' = {}
    BY <1>1, <1>4 DEF Moves, Coverage, NothingIsLost
  <2>3. \A v \in Workers : pc'[v] = "settle" /\ verdict'[v] = "cancel" => stopping
    BY <1>1, <1>4 DEF Moves, Coverage, NothingIsLost
  <2>4. QED  BY <1>4, <2>1, <2>2, <2>3 DEF NothingIsLost
<1>9. OutcomeIsDue'
  BY <1>2, <1>3 DEF OutcomeIsDue
<1>10. QED  BY <1>6, <1>7, <1>8, <1>9 DEF Coverage

\* Cancelling tasks changes no report, and whose check is cut short has it open.
LEMMA CoverageTasksCancelled ==
    ASSUME Division, Coverage, NEW S, S \subseteq {w \in Workers : pc[w] \notin Over}, CancelTasks(S),
           UNCHANGED <<doc, escaped, remaining, host, verdict, stopping, outcome>>,
           main' = main \/ (main = "gather" /\ main' = "unwind")
    PROVE  Coverage'
<1>1. \A w \in Workers : pc'[w] = pc[w] \/ (w \in S /\ pc'[w] \in {"rescue", "drain", "dead"})
  BY TasksCancelled
<1>2. \A w \in Workers : Has(w)' => Has(w)
  BY TasksCancelled DEF Has
<1>3. CountsHold' /\ OutcomeIsDue'
  BY DEF Coverage, CountsHold, Agrees, In, OutcomeIsDue, Fits, Unfinished
<1>4. \A op \in late' : op \in late \/ \E w \in Workers : Has(w) /\ op.host = host[w]
  BY TasksCancelled, OpIsTyped DEF Has, Writing, Over
<1>5. ClaimedIsOpen'
  BY <1>2, <1>4 DEF Coverage, ClaimedIsOpen
<1>6. NothingIsLost'
  BY <1>1 DEF Coverage, NothingIsLost
<1>7. QED  BY <1>3, <1>5, <1>6 DEF Coverage

\* A write left behind settles a host that is nobody else's.
LEMMA CoverageLateWrite ==
    ASSUME Division, Coverage, LateWrite
    PROVE  Coverage'
<1>1. doc \in Report /\ doc' \in Report /\ doc'.outcome = doc.outcome
  BY LateWriteEffect
<1>2. PICK op \in late : /\ op \in OpType /\ late' = late \ {op}
                         /\ \/ doc' = doc /\ escaped' = escaped
                            \/ /\ doc' = Apply(op, doc)
                               /\ escaped' = (escaped \/ doc.outcome # "none")
  BY LateWriteEffect
<1>3. UNCHANGED <<signals, worker, main, cause, outcome, launched, faults, crashes>>
  BY DEF LateWrite
<1>4. PICK v \in Workers : pc[v] = "dead" /\ host[v] = op.host
  BY <1>2 DEF Division, LateIsOrphaned
<1>5. main \notin {"after", "decide", "close", "outcome"}
  BY <1>4 DEF Division, PhaseIsReached
<1>6. op.host \in Hosts /\ doc.status \in [Hosts -> Status] /\ late \subseteq OpType
      /\ remaining \subseteq Hosts
  BY <1>1, <1>2 DEF OpType, Report, Division, TypeOK
<1>7. CASE doc' = doc /\ escaped' = escaped
  <2>1. CountsHold' /\ OutcomeIsDue' /\ ClaimedIsOpen'
    BY <1>2, <1>3, <1>7 DEF worker, Coverage, CountsHold, Agrees, In, OutcomeIsDue, Fits, Unfinished,
                            ClaimedIsOpen, Has
  <2>2. NothingIsLost'
    BY <1>2, <1>3, <1>7 DEF signals, worker, Coverage, NothingIsLost
  <2>3. QED  BY <2>1, <2>2 DEF Coverage
<1>8. CASE doc' = Apply(op, doc) /\ doc.outcome = "none"
  <2>1. doc'.status = [doc.status EXCEPT ![op.host] = StatusAfter(op.kind, @)]
    BY <1>1, <1>2, <1>8, ApplyEffect
  <2>2. doc.status[op.host] \in Live
    BY <1>2, <1>8 DEF Coverage, ClaimedIsOpen
  <2>3. ~escaped
    BY <1>8 DEF Division, PhaseIsReached
  <2>4. CountsHold'
    BY <1>1, <1>2, <1>8, <2>2, <2>3, ApplyAgrees DEF Coverage, CountsHold
  <2>5. \A w \in Workers : Has(w) => host[w] \in Hosts /\ host[w] # op.host
    BY <1>4, <1>6 DEF Division, HostsAreDivided, Has, Over
  <2>6. \A o \in late' : o \in late /\ o.host \in Hosts /\ o.host # op.host
    BY <1>2, <1>6 DEF Division, LateIsOrphaned, OpType
  <2>7. \A h \in remaining : h \in Hosts /\ h # op.host
    BY <1>4, <1>6 DEF Division, HostsAreDivided
  <2>8. \A h \in Hosts : h # op.host => doc'.status[h] = doc.status[h]
    BY <1>6, <2>1
  <2>9. ClaimedIsOpen'
    BY <1>3, <1>8, <2>5, <2>6, <2>7, <2>8 DEF worker, Coverage, ClaimedIsOpen, Has
  <2>10. NothingIsLost'
    <3>1. \A h \in Hosts : doc.status[h] \in {"completed", "failed"} => doc'.status[h] = doc.status[h]
      BY <2>2, <2>8 DEF Live
    <3>2. QED  BY <1>3, <3>1 DEF signals, worker, Coverage, NothingIsLost
  <2>11. OutcomeIsDue'
    BY <1>1, <1>3, <1>5, <1>8 DEF OutcomeIsDue
  <2>12. QED  BY <2>4, <2>9, <2>10, <2>11 DEF Coverage
<1>9. CASE escaped' /\ doc.outcome # "none"
  <2>1. main = "end"
    BY <1>9 DEF Division, PhaseIsReached
  <2>2. CountsHold' /\ ClaimedIsOpen' /\ OutcomeIsDue'
    BY <1>1, <1>3, <1>9, <2>1 DEF CountsHold, ClaimedIsOpen, OutcomeIsDue
  <2>3. NothingIsLost'
    BY <1>3, <2>1 DEF signals, worker, Coverage, NothingIsLost
  <2>4. QED  BY <2>2, <2>3 DEF Coverage
<1>10. QED  BY <1>2, <1>7, <1>8, <1>9

\* When every worker has run out of hosts and nobody stopped the scan, every
\* host was checked, and the counters tell how.
LEMMA AllChecked ==
    ASSUME Division, Coverage, main = "decide", ~stopping
    PROVE  Fits(FinalStateByCounts, doc)
<1>1. /\ \A w \in Workers : pc[w] = "done"
      /\ doc.outcome = "none" /\ ~escaped
  BY DEF Division, PhaseIsReached
<1>2. doc \in Report /\ Agrees(doc)
  BY <1>1 DEF Division, TypeOK, Report, Coverage, CountsHold
<1>3. \A h \in Hosts : doc.status[h] \in {"completed", "failed"}
  <2> SUFFICES ASSUME NEW h \in Hosts PROVE doc.status[h] \in {"completed", "failed"}
    OBVIOUS
  <2>1. PICK w \in Workers : TRUE
    BY WorkersAssumption
  <2>2. remaining = {}
    BY <1>1, <2>1 DEF Coverage, NothingIsLost
  <2>3. QED  BY <1>1, <2>2 DEF Coverage, NothingIsLost
<1>4. Unfinished(doc) = {}
  BY <1>3 DEF Unfinished
<1>5. In(doc, "completed") \cup In(doc, "failed") = Hosts
  BY <1>3 DEF In
<1>6. /\ doc.failed = 0 <=> In(doc, "failed") = {}
      /\ doc.completed = 0 <=> In(doc, "completed") = {}
  <2>1. \A s : Cardinality(In(doc, s)) = 0 <=> In(doc, s) = {}
    BY InIsFinite, FS_EmptySet
  <2>2. QED  BY <1>2, <2>1 DEF Agrees
<1>7. doc.devices = In(doc, "completed")
  BY <1>2 DEF Agrees
<1>8. doc.failed \in Nat /\ doc.completed \in Nat
  BY <1>2, ReportFields
<1>9. QED  BY <1>4, <1>5, <1>6, <1>7, <1>8 DEF FinalStateByCounts, Fits

\* The error handler closes the report and saves an outcome that fits it.
LEMMA FinishedFits ==
    ASSUME Division, Coverage, main = "handler", doc' = Finished
    PROVE  Agrees(doc') /\ doc'.outcome # "none" /\ Fits(doc'.outcome, doc')
<1> DEFINE user == cause = "QueueCancelled" /\ ~guardFailed
           r == IF user THEN "cancelled" ELSE cause
           o == IF user THEN "cancelled" ELSE IF doc.devices = {} THEN "failed" ELSE "partial"
           e == CloseUnfinished(doc, r)
<1>1. doc \in Report /\ Agrees(doc)
  BY DEF Division, TypeOK, PhaseIsReached, Report, Coverage, CountsHold
<1>2. doc' = [e EXCEPT !.outcome = o]
  BY DEF Finished
<1>3. e \in Report /\ e.devices = doc.devices /\ Unfinished(e) = {} /\ Agrees(e)
  BY <1>1, CloseEffect
<1> HIDE DEF e
<1>4. /\ doc'.outcome = o /\ doc'.status = e.status /\ doc'.devices = e.devices
      /\ doc'.completed = e.completed /\ doc'.failed = e.failed /\ doc'.skipped = e.skipped
  BY <1>2, <1>3 DEF Report
<1>5. Agrees(doc') /\ Unfinished(doc') = {}
  BY <1>3, <1>4 DEF Agrees, In, Unfinished
<1>6. QED  BY <1>3, <1>4, <1>5 DEF Fits

LEMMA CoverageRun ==
    ASSUME Division, Coverage, Run
    PROVE  Coverage'
<1>1. CASE CancelSiblings
  <2>1. CancelTasks({w \in Workers : pc[w] \notin Over})
    BY <1>1 DEF CancelSiblings
  <2>2. /\ UNCHANGED <<doc, escaped, remaining, host, verdict, stopping, outcome>>
        /\ main = "gather" /\ main' = "unwind"
    BY <1>1 DEF CancelSiblings, signals, history
  <2>3. QED  BY <2>1, <2>2, CoverageTasksCancelled
<1> SUFFICES ASSUME ~CancelSiblings PROVE Coverage'
  BY <1>1
<1>2. /\ doc \in Report /\ doc' \in Report /\ main # "end"
      /\ UNCHANGED <<stopping, spent, worker, late, history, crashes>>
  BY MainTypes
<1>3. UNCHANGED <<stopping, remaining, pc, host, verdict, late, escaped>>
  BY <1>2 DEF worker, history
<1>4. doc.outcome = "none" /\ ~escaped /\ ~escaped'
  BY <1>2, <1>3 DEF Division, PhaseIsReached, TypeOK
<1>5. \A w \in Workers : pc'[w] = "settle" /\ verdict'[w] = "cancel" => stopping'
  BY <1>3 DEF Coverage, NothingIsLost
<1>6. \A w \in Workers : pc'[w] = "done" => stopping' \/ remaining' = {}
  BY <1>3 DEF Coverage, NothingIsLost
<1>7. CASE doc' = doc /\ main' # "outcome" /\ main' # "close"
           /\ (main' \in {"gather", "unwind", "after", "decide"}
                 => main \in {"gather", "unwind", "after", "decide"})
           /\ main' \notin {"gather", "unwind"}
  <2>1. CountsHold' /\ OutcomeIsDue'
    BY <1>3, <1>4, <1>7 DEF Coverage, CountsHold, Agrees, In, OutcomeIsDue
  <2>2. ClaimedIsOpen'
    BY <1>3, <1>4, <1>7 DEF Coverage, ClaimedIsOpen, Has
  <2>3. NothingIsLost'
    BY <1>3, <1>5, <1>6, <1>7 DEF Coverage, NothingIsLost
  <2>4. QED  BY <2>1, <2>2, <2>3 DEF Coverage
<1>8. CASE DecideOutcome
  <2>1. /\ main = "decide" /\ outcome' = FinalState /\ doc' = doc
        /\ main' = IF FinalState = "cancelled" THEN "close" ELSE "outcome"
    BY <1>8 DEF DecideOutcome, Main
  <2>2. main' = "outcome" => Fits(outcome', doc')
    BY <2>1, AllChecked DEF FinalState, FinalStateByCounts
  <2>3. CountsHold' /\ OutcomeIsDue'
    BY <1>3, <1>4, <2>1, <2>2 DEF Coverage, CountsHold, Agrees, In, OutcomeIsDue
  <2>4. ClaimedIsOpen' /\ NothingIsLost'
    BY <1>3, <1>4, <1>5, <1>6, <2>1 DEF Coverage, ClaimedIsOpen, Has, NothingIsLost
  <2>5. QED  BY <2>3, <2>4 DEF Coverage
<1>9. CASE CloseCancelled
  <2>1. /\ main = "close" /\ main' = "outcome" /\ outcome' = outcome
        /\ doc' = CloseUnfinished(doc, "cancelled")
    BY <1>9 DEF CloseCancelled, Main
  <2>2. Unfinished(doc') = {} /\ Agrees(doc') /\ doc'.outcome = "none"
    BY <1>2, <1>4, <2>1, CloseEffect DEF Coverage, CountsHold
  <2>3. outcome = "cancelled"
    BY <2>1 DEF Coverage, OutcomeIsDue
  <2>4. (\A w \in Workers : pc[w] = "done") /\ late = {}
    BY <2>1, NothingIsLate DEF Division, PhaseIsReached
  <2>5. CountsHold' /\ OutcomeIsDue'
    BY <2>1, <2>2, <2>3 DEF CountsHold, OutcomeIsDue, Fits
  <2>6. ClaimedIsOpen' /\ NothingIsLost'
    BY <1>3, <1>5, <1>6, <2>1, <2>4 DEF ClaimedIsOpen, Has, Over, NothingIsLost
  <2>7. QED  BY <2>5, <2>6 DEF Coverage
<1>10. CASE SaveOutcome
  <2>1. main = "outcome" /\ main' = "end" /\ outcome' = outcome /\ doc' = [doc EXCEPT !.outcome = outcome]
    BY <1>10 DEF SaveOutcome, Main
  <2>2. /\ doc'.outcome = outcome /\ doc'.status = doc.status /\ doc'.devices = doc.devices
        /\ doc'.completed = doc.completed /\ doc'.failed = doc.failed /\ doc'.skipped = doc.skipped
    BY <1>2, <2>1 DEF Report
  <2>3. Fits(outcome, doc)
    BY <2>1 DEF Coverage, OutcomeIsDue
  <2>4. Fits(doc'.outcome, doc')
    BY <2>2, <2>3 DEF Fits, Unfinished
  <2>5. CountsHold' /\ OutcomeIsDue'
    BY <1>3, <1>4, <2>1, <2>2, <2>4 DEF Coverage, CountsHold, Agrees, In, OutcomeIsDue
  <2>6. (\A w \in Workers : pc[w] = "done") /\ late = {}
    BY <2>1, NothingIsLate DEF Division, PhaseIsReached
  <2>7. ClaimedIsOpen' /\ NothingIsLost'
    BY <1>3, <1>5, <1>6, <2>1, <2>6 DEF ClaimedIsOpen, Has, Over, NothingIsLost
  <2>8. QED  BY <2>5, <2>7 DEF Coverage
<1>11. CASE HandleError /\ doc' = Finished
  <2>1. main = "handler" /\ main' = "end"
    BY <1>11 DEF HandleError, Main
  <2>2. Agrees(doc') /\ doc'.outcome # "none" /\ Fits(doc'.outcome, doc')
    BY <1>11, <2>1, FinishedFits
  <2>3. CountsHold' /\ OutcomeIsDue' /\ ClaimedIsOpen'
    BY <2>1, <2>2 DEF CountsHold, OutcomeIsDue, ClaimedIsOpen
  <2>4. NothingIsLost'
    BY <1>3, <1>5, <1>6, <2>1 DEF NothingIsLost
  <2>5. QED  BY <2>3, <2>4 DEF Coverage
<1>12. CASE Gathered \/ Unwound \/ FinishStage \/ GuardStopsRun \/ RunFails
            \/ (HandleError /\ doc' = doc)
  <2>1. doc' = doc /\ main' # "outcome" /\ main' # "close" /\ main' \notin {"gather", "unwind"}
        /\ (main' \in {"gather", "unwind", "after", "decide"}
                 => main \in {"gather", "unwind", "after", "decide"})
    BY <1>12 DEF Gathered, Unwound, FinishStage, GuardStopsRun, RunFails, HandleError, Main
  <2>2. QED  BY <1>7, <2>1
<1>13. QED
  BY <1>8, <1>9, <1>10, <1>11, <1>12 DEF Run, HandleError

LEMMA CoverageEnvironment ==
    ASSUME Division, Coverage, UserCancels \/ NetworkChanges \/ CrashAndReconcile
    PROVE  Coverage'
<1>1. CASE UserCancels \/ NetworkChanges
  <2>1. /\ UNCHANGED <<doc, remaining, pc, host, verdict, main, outcome, late, escaped>>
        /\ stopping' = TRUE
    BY <1>1 DEF UserCancels, NetworkChanges, worker, history
  <2>2. CountsHold' /\ OutcomeIsDue'
    BY <2>1 DEF Coverage, CountsHold, Agrees, In, OutcomeIsDue, Fits, Unfinished
  <2>3. ClaimedIsOpen' /\ NothingIsLost'
    BY <2>1 DEF Coverage, ClaimedIsOpen, Has, NothingIsLost
  <2>4. QED  BY <2>2, <2>3 DEF Coverage
<1>2. CASE CrashAndReconcile
  <2>1. /\ main' = "end" /\ pc' = [w \in Workers |-> "dead"] /\ escaped' = escaped
        /\ doc' = IF doc.outcome = "none" THEN Interrupted(doc) ELSE doc
    BY <1>2 DEF CrashAndReconcile, history
  <2>2. doc \in Report
    BY DEF Division, TypeOK, Report
  <2>3. CASE doc.outcome = "none"
    <3>1. Agrees(doc)
      BY <2>3 DEF Division, PhaseIsReached, Coverage, CountsHold
    <3>2. doc' = Interrupted(doc)
      BY <2>1, <2>3
    <3>3. /\ Agrees(doc') /\ Unfinished(doc') = {} /\ doc'.devices = doc.devices
          /\ doc'.outcome = IF doc.devices = {} THEN "failed" ELSE "partial"
      BY <2>2, <3>1, <3>2, InterruptedEffect
    <3>4. QED
      BY <2>1, <3>3 DEF Coverage, CountsHold, ClaimedIsOpen, NothingIsLost, OutcomeIsDue, Fits
  <2>4. CASE doc.outcome # "none"
    <3>1. doc' = doc
      BY <2>1, <2>4
    <3>2. CountsHold'
      BY <2>1, <3>1 DEF Coverage, CountsHold
    <3>3. OutcomeIsDue' /\ ClaimedIsOpen'
      BY <2>1, <2>4, <3>1 DEF Coverage, OutcomeIsDue, ClaimedIsOpen
    <3>4. NothingIsLost'
      BY <2>1 DEF NothingIsLost
    <3>5. QED  BY <3>2, <3>3, <3>4 DEF Coverage
  <2>5. QED  BY <2>3, <2>4
<1>3. QED  BY <1>1, <1>2

LEMMA CoverageInit == Init => Coverage
<1> SUFFICES ASSUME Init PROVE Coverage
  OBVIOUS
<1>1. \A s : s # "pending" => In(doc, s) = {}
  BY DEF Init, In
<1>2. Cardinality({}) = 0
  BY FS_EmptySet
<1>3. Agrees(doc)
  BY <1>1, <1>2 DEF Agrees, Init
<1>4. QED
  BY <1>3 DEF Init, Coverage, CountsHold, ClaimedIsOpen, Live, Has, Over, NothingIsLost, OutcomeIsDue

LEMMA CoverageNext == Division /\ Coverage /\ [Next]_vars => Coverage'
<1> SUFFICES ASSUME Division, Coverage, [Next]_vars PROVE Coverage'
  OBVIOUS
<1>1. CASE UNCHANGED vars
  BY <1>1 DEF vars, signals, worker, history, Coverage, CountsHold, Agrees, In, ClaimedIsOpen, Has,
              NothingIsLost, OutcomeIsDue, Fits, Unfinished
<1>2. CASE ExpireBudget
  <2>1. /\ Inside \subseteq {w \in Workers : pc[w] \notin Over} /\ CancelTasks(Inside)
        /\ UNCHANGED <<doc, escaped, remaining, host, verdict, stopping, main, outcome>>
    BY <1>2 DEF ExpireBudget, Inside, Over, Writing, history
  <2>2. QED  BY <2>1, CoverageTasksCancelled
<1>3. QED
  BY <1>1, <1>2, CoverageWork, CoverageRun, CoverageLateWrite, CoverageEnvironment DEF Next

-----------------------------------------------------------------------------
(* The records of probes *)

Keeping == {"probe", "record", "rescue", "drain"}

\* The probe of host h and attempt n is recorded, or will be.
Kept(h, n) ==
    \/ n \in doc.details[h]
    \/ \E w \in Workers : host[w] = h /\ cancels[w] = 2
    \/ \E w \in Workers : host[w] = h /\ try[w] = n /\ pc[w] \in Keeping

ProbesAreKept == faults = 0 /\ crashes = 0 => \A p \in launched : Kept(p[1], p[2])

\* A step that ends no worker and loses no record keeps the probes.
LEMMA KeptOn ==
    ASSUME ProbesAreKept, launched' = launched,
           faults' = 0 => faults = 0, crashes' = 0 => crashes = 0,
           launched \subseteq Hosts \X Attempts,
           \A h \in Hosts : doc.details[h] \subseteq doc'.details[h],
           \A w \in Workers :
               /\ host'[w] = host[w] /\ try'[w] = try[w]
               /\ cancels[w] = 2 => cancels'[w] = 2
               /\ pc[w] \in Keeping => pc'[w] \in Keeping \/ cancels'[w] = 2
    PROVE  ProbesAreKept'
<1> SUFFICES ASSUME faults' = 0, crashes' = 0, NEW p \in launched PROVE Kept(p[1], p[2])'
  BY DEF ProbesAreKept
<1>1. p[1] \in Hosts /\ Kept(p[1], p[2])
  BY DEF ProbesAreKept
<1>2. CASE p[2] \in doc.details[p[1]]
  BY <1>1, <1>2 DEF Kept
<1>3. CASE \E w \in Workers : host[w] = p[1] /\ cancels[w] = 2
  BY <1>3 DEF Kept
<1>4. CASE \E w \in Workers : host[w] = p[1] /\ try[w] = p[2] /\ pc[w] \in Keeping
  BY <1>4 DEF Kept
<1>5. QED  BY <1>1, <1>2, <1>3, <1>4 DEF Kept

LEMMA DetailsGrow ==
    ASSUME Division, NEW w \in Workers, Work(w)
    PROVE  \A h \in Hosts : doc.details[h] \subseteq doc'.details[h]
<1>1. PICK p \in Places : Moves(w, p)
  BY WorkMoves
<1>2. doc \in Report
  BY <1>1, MovesKeepsReport
<1>3. QED  BY <1>1, <1>2, OpIsTyped, ApplyEffect DEF Moves

LEMMA ProbesWork ==
    ASSUME Division, ProbesAreKept, NEW w \in Workers, Work(w)
    PROVE  ProbesAreKept'
<1> SUFFICES ASSUME faults' = 0, crashes' = 0, NEW p \in launched' PROVE Kept(p[1], p[2])'
  BY DEF ProbesAreKept
<1>0. /\ pc \in [Workers -> Places] /\ host \in [Workers -> Hosts \cup {Nowhere}]
      /\ try \in [Workers -> Attempts] /\ launched \subseteq Hosts \X Attempts
      /\ faults \in Nat /\ launched' \subseteq Hosts \X Attempts
  BY WorkTypes, FaultAssumption DEF Division, TypeOK, Places
<1>1. PICK q \in Places : Moves(w, q)
  BY WorkMoves
<1>2. faults = 0 /\ crashes = 0 /\ cancels' = cancels /\ ~SaveFails(w)
  BY <1>0, <1>1
  DEF Moves, Work, TakeHost, LeaveQueue, CheckGuard, EndProbe, SaveMark, SaveAttempt, SaveRecord,
      SaveResult, SaveLastRecord, SaveFails
<1>3. /\ launched' = launched
      \/ /\ launched' = launched \cup {<<host[w], try[w]>>}
         /\ pc'[w] = "probe" /\ host' = host /\ try' = try
  BY <1>0
  DEF Work, TakeHost, LeaveQueue, CheckGuard, EndProbe, SaveMark, SaveAttempt, SaveRecord,
      SaveResult, SaveLastRecord, SaveFails, Goto
<1>4. \A v \in Workers : v # w => pc'[v] = pc[v] /\ host'[v] = host[v] /\ try'[v] = try[v]
  BY <1>0, <1>1
  DEF Moves, Work, TakeHost, LeaveQueue, CheckGuard, EndProbe, SaveMark, SaveAttempt, SaveRecord,
      SaveResult, SaveLastRecord, SaveFails
<1>5. \A v \in Workers : cancels[v] = 2 => host'[v] = host[v]
  BY <1>0, <1>1, <1>4 DEF Moves, Division, CancelledWorkersStop
<1>6. ASSUME pc[w] \in Keeping
      PROVE  \/ pc'[w] \in Keeping /\ host'[w] = host[w] /\ try'[w] = try[w]
             \/ try[w] \in doc'.details[host[w]]
  <2>1. CASE pc[w] = "probe"
    <3>1. EndProbe(w)
      BY <1>2, <2>1 DEF Work, TakeHost, LeaveQueue, CheckGuard, SaveMark, SaveAttempt, SaveRecord,
                        SaveResult, SaveLastRecord, Saved, At
    <3>2. QED  BY <1>0, <3>1 DEF EndProbe, Goto, Keeping
  <2>2. CASE pc[w] # "probe"
    <3>1. SaveRecord(w) \/ SaveLastRecord(w)
      BY <1>2, <1>6, <2>2
      DEF Keeping, Work, TakeHost, LeaveQueue, CheckGuard, EndProbe, SaveMark, SaveAttempt,
          SaveResult, Saved, At
    <3>2. doc' = Apply(Op(w), doc)
      BY <3>1 DEF SaveRecord, SaveLastRecord, Saved
    <3>3. Op(w).kind = "record" /\ Op(w) \in OpType /\ Op(w).host = host[w] /\ Op(w).try = try[w]
      BY <1>6, <2>2, OpIsTyped DEF Keeping, Writing
    <3>4. QED  BY <1>1, <3>2, <3>3, MovesKeepsReport, ApplyEffect
  <2>3. QED  BY <2>1, <2>2
<1>7. CASE p \in launched
  <2>1. p[1] \in Hosts /\ Kept(p[1], p[2])
    BY <1>0, <1>2, <1>7 DEF ProbesAreKept
  <2>2. CASE p[2] \in doc.details[p[1]]
    BY <2>1, <2>2, DetailsGrow DEF Kept
  <2>3. CASE \E v \in Workers : host[v] = p[1] /\ cancels[v] = 2
    BY <1>2, <1>5, <2>3 DEF Kept
  <2>4. CASE \E v \in Workers : host[v] = p[1] /\ try[v] = p[2] /\ pc[v] \in Keeping
    <3>1. PICK v \in Workers : host[v] = p[1] /\ try[v] = p[2] /\ pc[v] \in Keeping
      BY <2>4
    <3>2. CASE v # w
      BY <1>4, <3>1, <3>2 DEF Kept
    <3>3. CASE v = w
      BY <1>6, <3>1, <3>3 DEF Kept
    <3>4. QED  BY <3>2, <3>3
  <2>5. QED  BY <2>1, <2>2, <2>3, <2>4 DEF Kept
<1>8. CASE p \notin launched
  BY <1>3, <1>8 DEF Kept, Keeping
<1>9. QED  BY <1>7, <1>8

LEMMA ProbesTasksCancelled ==
    ASSUME Division, Division', ProbesAreKept,
           NEW S, S \subseteq {w \in Workers : pc[w] \notin Over}, CancelTasks(S),
           UNCHANGED <<doc, host, try, launched, faults, crashes>>
    PROVE  ProbesAreKept'
<1>1. \A w \in Workers :
          /\ pc[w] = "drain" => cancels[w] > 0
          /\ cancels[w] \in 0 .. 2 /\ cancels'[w] \in 0 .. 2 /\ pc[w] \in Places
  BY DEF Division, CancelledWorkersStop, TypeOK, Places
<1>2. /\ pc' = [w \in Workers |-> IF w \in S THEN Interrupt(pc[w]) ELSE pc[w]]
      /\ cancels' = [w \in Workers |-> IF w \in S THEN cancels[w] + 1 ELSE cancels[w]]
  BY DEF CancelTasks
<1>3. \A w \in Workers : pc[w] \in Keeping => pc'[w] \in Keeping \/ cancels'[w] = 2
  BY <1>1, <1>2 DEF Interrupt, Keeping
<1>4. \A w \in Workers : cancels[w] = 2 => cancels'[w] = 2
  BY <1>1, <1>2
<1>5. launched \subseteq Hosts \X Attempts
  BY DEF Division, TypeOK
<1>6. QED  BY <1>3, <1>4, <1>5, KeptOn

LEMMA ProbesNext == Division /\ ProbesAreKept /\ [Next]_vars => ProbesAreKept'
<1> SUFFICES ASSUME Division, ProbesAreKept, [Next]_vars PROVE ProbesAreKept'
  OBVIOUS
<1>0. doc \in Report /\ launched \subseteq Hosts \X Attempts /\ faults \in Nat /\ crashes \in Nat
      /\ Division'
  BY DivisionNext, FaultAssumption DEF Division, TypeOK, Report
<1>1. CASE ExpireBudget
  <2>1. /\ Inside \subseteq {w \in Workers : pc[w] \notin Over} /\ CancelTasks(Inside)
        /\ UNCHANGED <<doc, host, try, launched, faults, crashes>>
    BY <1>1 DEF ExpireBudget, Inside, Over, Writing, history
  <2>2. QED  BY <1>0, <2>1, ProbesTasksCancelled
<1>2. CASE CancelSiblings
  <2>1. /\ CancelTasks({w \in Workers : pc[w] \notin Over})
        /\ UNCHANGED <<doc, host, try, launched, faults, crashes>>
    BY <1>2 DEF CancelSiblings, history
  <2>2. QED  BY <1>0, <2>1, ProbesTasksCancelled
<1>3. CASE Run /\ ~CancelSiblings
  <2>1. UNCHANGED <<pc, host, try, cancels, launched, crashes>>
    BY <1>3, MainTypes DEF worker, history
  <2>2. faults' = 0 => faults = 0
    BY <1>0, <1>3 DEF Run, Gathered, Unwound, FinishStage, GuardStopsRun, DecideOutcome,
                      CloseCancelled, SaveOutcome, RunFails, HandleError
  <2>3. doc'.details = doc.details
    <3>1. CASE Gathered \/ Unwound \/ FinishStage \/ GuardStopsRun \/ DecideOutcome \/ RunFails
      BY <3>1 DEF Gathered, Unwound, FinishStage, GuardStopsRun, DecideOutcome, RunFails
    <3>2. CASE CloseCancelled
      BY <1>0, <3>2, CloseEffect DEF CloseCancelled
    <3>3. CASE SaveOutcome
      BY <1>0, <3>3 DEF SaveOutcome, Report
    <3>4. CASE HandleError
      <4>1. CASE doc' = doc
        BY <4>1
      <4>2. CASE doc' = Finished
        <5> DEFINE user == cause = "QueueCancelled" /\ ~guardFailed
                   r == IF user THEN "cancelled" ELSE cause
                   o == IF user THEN "cancelled"
                        ELSE IF doc.devices = {} THEN "failed" ELSE "partial"
                   e == CloseUnfinished(doc, r)
        <5>1. doc' = [e EXCEPT !.outcome = o]
          BY <4>2 DEF Finished
        <5>2. e \in Report /\ e.details = doc.details
          BY <1>0, CloseEffect
        <5> HIDE DEF e
        <5>3. QED  BY <5>1, <5>2 DEF Report
      <4>3. QED  BY <3>4, <4>1, <4>2 DEF HandleError
    <3>5. QED  BY <1>3, <3>1, <3>2, <3>3, <3>4 DEF Run
  <2>4. QED  BY <1>0, <2>1, <2>2, <2>3, KeptOn
<1>4. CASE LateWrite
  <2>1. UNCHANGED <<pc, host, try, cancels, launched, faults, crashes>>
    BY <1>4 DEF LateWrite, worker
  <2>2. \A h \in Hosts : doc.details[h] \subseteq doc'.details[h]
    BY <1>0, <1>4, LateWriteEffect, ApplyEffect
  <2>3. QED  BY <1>0, <2>1, <2>2, KeptOn
<1>5. CASE UserCancels \/ NetworkChanges \/ UNCHANGED vars
  <2>1. UNCHANGED <<doc, pc, host, try, cancels, launched, faults, crashes>>
    BY <1>5 DEF UserCancels, NetworkChanges, vars, worker, history
  <2>2. QED  BY <1>0, <2>1, KeptOn
<1>6. CASE CrashAndReconcile
  BY <1>0, <1>6 DEF CrashAndReconcile, ProbesAreKept
<1>7. QED
  BY <1>1, <1>2, <1>3, <1>4, <1>5, <1>6, ProbesWork DEF Next

-----------------------------------------------------------------------------
(* The results *)

Inv == Division /\ Coverage /\ ProbesAreKept

\* The invariant holds in every reachable state of the stage.
THEOREM Invariance == Spec => []Inv
<1>1. Init => Inv
  BY DivisionInit, CoverageInit DEF Inv, ProbesAreKept, Init
<1>2. Inv /\ [Next]_vars => Inv'
  BY DivisionNext, CoverageNext, ProbesNext DEF Inv
<1>3. QED  BY <1>1, <1>2, PTL DEF Spec

\* Report, workers, _run and the writes left behind keep their types.
THEOREM TypeCorrect == Spec => []TypeOK
<1>1. Inv => TypeOK
  BY DEF Inv, Division
<1>2. QED  BY <1>1, Invariance, PTL

\* When _run gets to its error handler or its end, gather has seen every worker
\* finish: the process of no check outlives the admission of the job.
THEOREM WorkersEndFirst == Spec => []NoWorkerOutlivesRun
<1>1. Inv => NoWorkerOutlivesRun
  BY DEF Inv, Division, PhaseIsReached, NoWorkerOutlivesRun
<1>2. QED  BY <1>1, Invariance, PTL

\* The counters of the coverage agree with the statuses of the hosts, however
\* checks, cancellations and the closing of the report interleave.
THEOREM CountersAgree == Spec => []CountsMatchStatuses
<1>1. Inv => CountsMatchStatuses
  BY DEF Inv, Coverage, CountsHold, Agrees, In, CountsMatchStatuses, Counted
<1>2. QED  BY <1>1, Invariance, PTL

\* The saved outcome tells whether all, some or none of the hosts were checked.
THEOREM OutcomesFit == Spec => []OutcomeMatchesCoverage
<1>1. Inv => OutcomeMatchesCoverage
  BY DEF Inv, Coverage, OutcomeIsDue, Fits, OutcomeMatchesCoverage
<1>2. QED  BY <1>1, Invariance, PTL

\* A report with an outcome has no host pending or running.
THEOREM ClosedReportsAreSettled == Spec => []ClosedMeansSettled
<1>1. Inv => ClosedMeansSettled
  BY DEF Inv, Coverage, OutcomeIsDue, Fits, ClosedMeansSettled
<1>2. QED  BY <1>1, Invariance, PTL

\* The shield around the saving of a HostAttempt keeps the record of every
\* probe whose worker is cancelled no more than once.
THEOREM ProbesHaveRecords == Spec => []ProbesAreRecorded
<1>1. Inv => ProbesAreRecorded
  <2> SUFFICES ASSUME Inv, main = "end", faults = 0, crashes = 0, NEW p \in launched
               PROVE  \/ p[2] \in doc.details[p[1]]
                      \/ \E w \in Workers : host[w] = p[1] /\ cancels[w] = 2
    BY DEF ProbesAreRecorded
  <2>1. \A w \in Workers : pc[w] \notin Keeping
    BY DEF Inv, Division, PhaseIsReached, Over, Keeping
  <2>2. Kept(p[1], p[2])
    BY DEF Inv, ProbesAreKept
  <2>3. QED  BY <2>1, <2>2 DEF Kept
<1>2. QED  BY <1>1, Invariance, PTL

=============================================================================
