-------------------------- MODULE ExplanationsProofs --------------------------
(***************************************************************************)
(* Proofs about Explanations, for any number of entries, lines, tasks,      *)
(* refreshes and crashes and any size of a batch.                           *)
(*                                                                          *)
(* The argument: what a task keeps in memory is answered for the guidance   *)
(* it has loaded (MineInv), what it still asks for has rejected lines or no      *)
(* record (OpenInv), and it keeps every line the saved report has settled   *)
(* (KeepInv), since it has loaded them and a retry locks the lines that     *)
(* were not rejected.  Only a write of an earlier task can come between.     *)
(***************************************************************************)
EXTENDS Explanations, TLAPS

\* The writes a cancelled task leaves to its thread.
LateWrite ==
    [record : [Ids -> Record \cup {NoRecord}] \cup {NoRecord},
     wording : Wording \cup {NoRecord}, counts : BOOLEAN]

Types == TypeOK /\ stray \subseteq LateWrite /\ input = refreshes

CountsInv == calls <= used /\ (at = "ask" => calls < used)

\* The awaits of a task that still works on its records.
Working == {"first", "count", "ask", "answer", "persist", "final"}

MineInv == \A f \in Ids : mine[f] # NoRecord => mine[f].asked /\ mine[f].input = basis

OpenInv ==
    /\ todo \cap pending = {}
    /\ \A f \in todo \cup pending : mine[f] # NoRecord => Rejected(mine[f]) # {}

IdleInv == at = "idle" => mine = [f \in Ids |-> NoRecord]

KeepInv ==
    at \in Working /\ mixed # "now" =>
       \A f \in Ids, l \in Lines :
          Settled(record[f], l) => mine[f] # NoRecord /\ mine[f].line[l] = record[f].line[l]

RunningInv == at \in Working \ {"first"} /\ mixed = "no" => wording # "ready"

Task == MineInv /\ OpenInv /\ IdleInv

Inv == Types /\ Task /\ KeepInv /\ RunningInv /\ ReadyMeansSettled

-----------------------------------------------------------------------------
(* Answers and batches *)

LEMMA ChoicesKnown ==
    ASSUME NEW f \in Ids, NEW l \in Lines
    PROVE  Choices(f)[l] \subseteq {"original", "reviewed"}
BY DEF Choices, ReportChoices, FindingChoices

LEMMA AcceptedType ==
    ASSUME NEW f \in Ids, NEW r \in Record \cup {NoRecord}, NEW a \in Answer, NEW l \in Lines
    PROVE  Accepted(f, r, a, l) \in Line
<1>1. CASE Locked(r, l)
      BY <1>1 DEF Accepted, Locked, Record
<1>2. CASE ~Locked(r, l)
      BY <1>2, ChoicesKnown DEF Accepted, ValidatedLine, Line
<1> QED BY <1>1, <1>2

LEMMA ValidatedType ==
    ASSUME Types, NEW f \in Ids, NEW r \in Record \cup {NoRecord}, NEW a \in Answer
    PROVE  Validated(f, r, a) \in Record
BY AcceptedType DEF Types, TypeOK, Validated, Record

\* A retry keeps the lines that were not rejected.
LEMMA ValidatedKeeps ==
    ASSUME NEW f \in Ids, NEW r \in Record, NEW a \in Answer, NEW l \in Lines,
           Rejected(r) # {}, l \notin Rejected(r)
    PROVE  Validated(f, r, a).line[l] = r.line[l]
BY RecordAssumption DEF Validated, Accepted, Locked

LEMMA BatchType == ASSUME NEW s PROVE Batch(s) \subseteq s
BY DEF Batch

LEMMA NextBatchType ==
    ASSUME NEW rest \in SUBSET Ids, NextBatch(rest)
    PROVE  /\ at' \in {"final", "count"}
           /\ pending' \subseteq rest /\ todo' \subseteq rest /\ todo' \cap pending' = {}
           /\ attempt' \in 0 .. 2
BY BatchType DEF NextBatch

LEMMA FilledType == ASSUME Types PROVE Filled \in [Ids -> Record]
<1>1. Fallback \in Record
      BY DEF Fallback, Record, Line, Types, TypeOK
<1> QED BY <1>1 DEF Filled, Types, TypeOK

LEMMA KeptType == ASSUME Types, NEW f \in Ids PROVE Kept(record[f]) \in Record \cup {NoRecord}
BY DEF Kept, Types, TypeOK

-----------------------------------------------------------------------------
(* Types *)

TaskType ==
    /\ mine \in [Ids -> Record \cup {NoRecord}]
    /\ todo \subseteq Ids /\ pending \subseteq Ids /\ attempt \in 0 .. 2
    /\ stop \in {"none", "invalid", "transport"}
    /\ basis \in 0 .. MaxRefreshes

LEMMA DroppedType == ASSUME Dropped PROVE TaskType'
BY LimitsAssumption DEF Dropped, TaskType

LEMMA WriteType ==
    ASSUME Types, at \in {"first", "count", "persist", "final"}
    PROVE  Write \in LateWrite
<1>1. CASE at = "final"
      BY <1>1, FilledType DEF Write, LateWrite, Outcome, Wording
<1> QED BY <1>1 DEF Write, LateWrite, Wording, Types, TypeOK

LEMMA FailedType ==
    ASSUME Types, NEW reason \in {"invalid", "transport"}, Failed(reason)
    PROVE  /\ at' \in {"count", "persist"} /\ attempt' \in 0 .. 2
           /\ stop' \in {"none", "invalid", "transport"}
BY DEF Failed, Types, TypeOK

LEMMA InitTypes == Init => Types
<1> SUFFICES ASSUME Init PROVE Types
    OBVIOUS
<1>1. closed \in BOOLEAN
      BY Zenon DEF Init
<1> QED BY <1>1, LimitsAssumption DEF Init, Types, TypeOK, Wording, Mixed

LEMMA NextTypes == Types /\ [Next]_vars => Types'
<1> SUFFICES ASSUME Types, [Next]_vars PROVE Types'
    OBVIOUS
<1> USE DEF Types
<1>1. CASE Start
  <2>1. mine' \in [Ids -> Record \cup {NoRecord}]
        BY <1>1, KeptType DEF Start
  <2>2. todo' \subseteq Ids
        BY <1>1 DEF Start, Select, Unsettled
  <2>3. closed' \in BOOLEAN
        BY <1>1, Zenon DEF Start
  <2> QED BY <1>1, <2>1, <2>2, <2>3, LimitsAssumption DEF Start, TypeOK, Mixed, report
<1>2. CASE FirstWrite
      BY <1>2, NextBatchType DEF FirstWrite, TypeOK, Wording, Mixed, counts
<1>3. CASE CountWrite
      BY <1>3 DEF CountWrite, TypeOK, counts
<1>4. CASE Ask
      BY <1>4 DEF Ask, TypeOK, counts, report
<1>5. CASE AttemptFails
      BY <1>5, FailedType DEF AttemptFails, TypeOK, counts, report
<1>6. CASE Answered
  <2>1. PICK a \in [pending -> Answer] :
           mine' = [f \in Ids |-> IF f \in pending THEN Validated(f, mine[f], a[f]) ELSE mine[f]]
        BY <1>6 DEF Answered
  <2>2. mine' \in [Ids -> Record \cup {NoRecord}]
        BY <2>1, ValidatedType DEF TypeOK
  <2>3. /\ at' \in {"count", "persist"} /\ attempt' \in 0 .. 2
        /\ stop' \in {"none", "invalid", "transport"}
        BY <1>6, FailedType DEF Answered, TypeOK
  <2> QED BY <1>6, <2>2, <2>3 DEF Answered, TypeOK, counts, report
<1>7. CASE Persist
  <2>1. NextBatch(IF stop = "transport" THEN {} ELSE todo)
        BY <1>7 DEF Persist
  <2>2. (IF stop = "transport" THEN {} ELSE todo) \in SUBSET Ids
        BY DEF TypeOK
  <2>3. /\ at' \in {"final", "count"} /\ pending' \subseteq Ids /\ todo' \subseteq Ids
        /\ attempt' \in 0 .. 2
        BY <2>1, <2>2, NextBatchType
  <2> QED BY <1>7, <2>3 DEF Persist, TypeOK, counts
<1>8. CASE FinalWrite
      BY <1>8, FilledType DEF FinalWrite, Outcome, TypeOK, Wording, counts
<1>9. CASE Interrupt
  <2>1. stray' \subseteq LateWrite
        BY <1>9, WriteType DEF Interrupt
  <2> QED BY <1>9, <2>1, DroppedType DEF Interrupt, TaskType, TypeOK, counts, report
<1>10. CASE StrayWrite
  <2>1. PICK w \in stray :
           /\ record' = IF w.record = NoRecord THEN record ELSE w.record
           /\ wording' = IF w.wording = NoRecord THEN wording ELSE w.wording
           /\ used' = IF w.counts THEN used + 1 ELSE used
           /\ stray' = stray \ {w}
        BY <1>10 DEF StrayWrite
  <2>2. /\ record' \in [Ids -> Record \cup {NoRecord}]
        /\ wording' \in Wording /\ used' \in Nat /\ stray' \subseteq LateWrite
        BY <2>1 DEF LateWrite, TypeOK
  <2> QED BY <1>10, <2>2 DEF StrayWrite, TypeOK, Mixed, counts, task
<1>11. CASE Finish
  <2>1. closed' \in BOOLEAN
        BY <1>11, Zenon DEF Finish
  <2> QED BY <1>11, <2>1, DroppedType DEF Finish, TaskType, TypeOK, Wording, counts
<1>12. CASE Refresh
      BY <1>12, LimitsAssumption DEF Refresh, TypeOK, Wording, task
<1>13. CASE Crash
  <2>1. closed' \in BOOLEAN
        BY <1>13, Zenon DEF Crash
  <2> QED BY <1>13, <2>1, DroppedType, LimitsAssumption DEF Crash, TaskType, TypeOK, Wording
<1>14. CASE FinishedUnder
  <2>1. closed' \in BOOLEAN
        BY <1>14, Zenon DEF FinishedUnder
  <2> QED BY <1>14, <2>1 DEF FinishedUnder, TypeOK, Wording, counts
<1>15. CASE UNCHANGED vars
      BY <1>15 DEF vars, report, task, counts, TypeOK
<1> QED BY <1>1, <1>2, <1>3, <1>4, <1>5, <1>6, <1>7, <1>8, <1>9, <1>10, <1>11, <1>12, <1>13, <1>14,
           <1>15
        DEF Next

\* The state of the report, of the task and of the writes left behind keeps its
\* type, for any entries, tasks, refreshes and crashes.
THEOREM TypeCorrect == Spec => []TypeOK
<1>1. Types => TypeOK
      BY DEF Types
<1> QED BY <1>1, InitTypes, NextTypes, PTL DEF Spec

-----------------------------------------------------------------------------
(* The counter of requests *)

LEMMA NextCounts == Types /\ CountsInv /\ [Next]_vars => CountsInv'
<1> SUFFICES ASSUME Types, CountsInv, [Next]_vars PROVE CountsInv'
    OBVIOUS
<1>0. used \in Nat /\ calls \in Nat
      BY DEF Types, TypeOK
<1>1. CASE CountWrite
      BY <1>0, <1>1 DEF CountWrite, CountsInv
<1>2. CASE Ask
      BY <1>0, <1>2 DEF Ask, CountsInv, report
<1>3. CASE StrayWrite
  <2>1. used' \in {used, used + 1} /\ at' = at /\ calls' = calls
        BY <1>3 DEF StrayWrite, task
  <2> QED BY <1>0, <2>1 DEF CountsInv
<1>4. CASE FirstWrite \/ Persist
  <2>1. \A rest : NextBatch(rest) => at' # "ask"
        BY DEF NextBatch
  <2>2. at' # "ask" /\ used' = used /\ calls' = calls
        BY <1>4, <2>1 DEF FirstWrite, Persist
  <2> QED BY <2>2 DEF CountsInv
<1>5. CASE Start \/ AttemptFails \/ Answered \/ FinalWrite \/ Interrupt \/ Finish \/ Crash
  <2>1. used' = used /\ calls' = calls
        BY <1>5 DEF Start, AttemptFails, Answered, FinalWrite, Interrupt, Finish, Crash, report
  <2>2. AttemptFails \/ Answered => at' # "ask"
        BY FailedType DEF AttemptFails, Answered
  <2>3. at' # "ask"
        BY <1>5, <2>2 DEF Start, FinalWrite, Interrupt, Finish, Crash
  <2> QED BY <2>1, <2>3 DEF CountsInv
<1>6. CASE FinishedUnder \/ Refresh \/ UNCHANGED vars
      BY <1>6 DEF FinishedUnder, Refresh, vars, report, task, CountsInv
<1> QED BY <1>1, <1>2, <1>3, <1>4, <1>5, <1>6 DEF Next

\* Every request to the model is in the report's counter before it is made,
\* through attempts and writes that fail, cancelled tasks and crashes.
THEOREM RequestsCounted == Spec => []RequestsAreCounted
<1>1. Init => CountsInv
      BY DEF Init, CountsInv
<1>2. CountsInv => RequestsAreCounted
      BY DEF CountsInv, RequestsAreCounted
<1> QED BY <1>1, <1>2, InitTypes, NextTypes, NextCounts, PTL DEF Spec

-----------------------------------------------------------------------------
(* What a task has in memory *)

LEMMA InitInv == Init => Inv
<1> SUFFICES ASSUME Init PROVE Inv
    OBVIOUS
<1>1. Types
      BY InitTypes
<1> QED BY <1>1 DEF Inv, Init, Task, MineInv, OpenInv, IdleInv, KeepInv, RunningInv, Working,
              ReadyMeansSettled

\* A task that has dropped its records knows nothing that could be wrong.
LEMMA DroppedTask == ASSUME Dropped PROVE Task'
BY DEF Dropped, Task, MineInv, OpenInv, IdleInv

LEMMA UnchangedTask ==
    ASSUME Task, mine' = mine, basis' = basis, todo' \subseteq todo, at' # "idle",
           pending' \subseteq todo \cup pending, todo' \cap pending' = {}
    PROVE  Task'
BY DEF Task, MineInv, OpenInv, IdleInv

LEMMA AnsweredTask ==
    ASSUME Types, Task, Answered
    PROVE  /\ Task'
           /\ \A f \in Ids, l \in Lines :
                 mine[f] # NoRecord /\ l \notin Rejected(mine[f]) =>
                    mine'[f] # NoRecord /\ mine'[f].line[l] = mine[f].line[l]
<1>1. PICK a \in [pending -> Answer] :
         mine' = [f \in Ids |-> IF f \in pending THEN Validated(f, mine[f], a[f]) ELSE mine[f]]
      BY DEF Answered
<1>2. /\ basis' = basis /\ todo' = todo /\ at' \in {"persist", "count"}
      /\ pending' = {f \in pending : NeedsRetry(mine'[f])}
      BY DEF Answered, Failed, report
<1>3. pending \subseteq Ids /\ todo \subseteq Ids /\ mine \in [Ids -> Record \cup {NoRecord}]
      BY DEF Types, TypeOK
<1>4. \A f \in pending : mine'[f].asked /\ mine'[f].input = basis
      BY <1>1, <1>3 DEF Validated
<1>5. MineInv'
      BY <1>1, <1>2, <1>3, <1>4 DEF Task, MineInv
<1>6. OpenInv'
  <2>1. \A f \in pending' : Rejected(mine'[f]) # {}
        BY <1>2, <1>4 DEF NeedsRetry
  <2>2. \A f \in todo' : mine'[f] = mine[f]
        BY <1>1, <1>2, <1>3 DEF Task, OpenInv
  <2> QED BY <1>2, <2>1, <2>2 DEF Task, OpenInv
<1>7. ASSUME NEW f \in Ids, NEW l \in Lines, mine[f] # NoRecord, l \notin Rejected(mine[f])
      PROVE  mine'[f] # NoRecord /\ mine'[f].line[l] = mine[f].line[l]
  <2>1. CASE f \in pending
    <3>1. mine[f] \in Record /\ Rejected(mine[f]) # {}
          BY <1>3, <1>7, <2>1 DEF Task, OpenInv
    <3>2. mine'[f] = Validated(f, mine[f], a[f])
          BY <1>1, <2>1
    <3>3. mine'[f] \in Record
          BY <3>1, <3>2, <2>1, <1>1, ValidatedType
    <3> QED BY <1>1, <1>7, <2>1, <3>1, <3>2, <3>3, ValidatedKeeps, RecordAssumption
  <2> QED BY <1>1, <1>7, <2>1
<1>8. IdleInv'
      BY <1>2 DEF IdleInv
<1> QED BY <1>5, <1>6, <1>7, <1>8 DEF Task

LEMMA StartTask ==
    ASSUME Types, Start
    PROVE  /\ Task'
           /\ \A f \in Ids, l \in Lines :
                 Settled(record[f], l) =>
                    mine'[f] # NoRecord /\ mine'[f].line[l] = record[f].line[l]
<1>1. /\ mine' = [f \in Ids |-> Kept(record[f])] /\ todo' = Select(mine')
      /\ pending' = {} /\ basis' = input /\ at' = "first"
      BY DEF Start, report
<1>2. MineInv'
      BY <1>1 DEF MineInv, Kept
<1>3. OpenInv'
      BY <1>1 DEF OpenInv, Select, Unsettled, NeedsRetry, Kept
<1>4. IdleInv'
      BY <1>1 DEF IdleInv
<1>5. \A f \in Ids : Kept(record[f]) # NoRecord => mine'[f] = record[f]
      BY <1>1 DEF Kept
<1>6. \A f \in Ids : Kept(record[f]) # NoRecord => record[f] # NoRecord
      BY DEF Kept
<1> QED BY <1>2, <1>3, <1>4, <1>5, <1>6 DEF Task, Settled

LEMMA NextTask == Types /\ Task /\ [Next]_vars => Task'
<1> SUFFICES ASSUME Types, Task, [Next]_vars PROVE Task'
    OBVIOUS
<1>0. todo \subseteq Ids /\ pending \subseteq Ids
      BY DEF Types, TypeOK
<1>1. CASE Start
      BY <1>1, StartTask
<1>2. CASE Answered
      BY <1>2, AnsweredTask
<1>3. CASE FirstWrite
  <2>1. NextBatch(todo) /\ mine' = mine /\ basis' = basis
        BY <1>3 DEF FirstWrite
  <2>2. at' \in {"final", "count"} /\ pending' \subseteq todo /\ todo' \subseteq todo /\ todo' \cap pending' = {}
        BY <1>0, <2>1, NextBatchType
  <2> QED BY <2>1, <2>2, UnchangedTask
<1>4. CASE Persist
  <2>1. NextBatch(IF stop = "transport" THEN {} ELSE todo) /\ mine' = mine /\ basis' = basis
        BY <1>4 DEF Persist
  <2>2. (IF stop = "transport" THEN {} ELSE todo) \in SUBSET Ids
        BY <1>0
  <2>3. at' \in {"final", "count"} /\ pending' \subseteq todo /\ todo' \subseteq todo /\ todo' \cap pending' = {}
        BY <2>1, <2>2, NextBatchType
  <2> QED BY <2>1, <2>3, UnchangedTask
<1>5. CASE CountWrite \/ Ask \/ AttemptFails \/ FinalWrite
  <2>1. /\ mine' = mine /\ basis' = basis /\ todo' = todo /\ pending' = pending
        /\ CountWrite \/ Ask \/ FinalWrite => at' # "idle"
        BY <1>5 DEF CountWrite, Ask, AttemptFails, FinalWrite, report
  <2>2. AttemptFails => at' # "idle"
        BY FailedType DEF AttemptFails
  <2> QED BY <1>5, <2>1, <2>2, UnchangedTask DEF Task, OpenInv
<1>6. CASE Interrupt \/ Finish \/ Crash
      BY <1>6, DroppedTask DEF Interrupt, Finish, Crash
<1>7. CASE StrayWrite \/ FinishedUnder \/ Refresh \/ UNCHANGED vars
  <2>1. UNCHANGED <<at, basis, mine, todo, pending>>
        BY <1>7 DEF StrayWrite, FinishedUnder, Refresh, vars, task
  <2> QED BY <2>1 DEF Task, MineInv, OpenInv, IdleInv
<1> QED BY <1>1, <1>2, <1>3, <1>4, <1>5, <1>6, <1>7 DEF Next

-----------------------------------------------------------------------------
(* What it knows of the report *)

LEMMA NextKeep == Types /\ Task /\ KeepInv /\ [Next]_vars => KeepInv'
<1> SUFFICES ASSUME Types, Task, KeepInv, [Next]_vars PROVE KeepInv'
    OBVIOUS
<1>1. CASE Start
  <2>1. record' = record /\ input' = input
        BY <1>1 DEF Start, report
  <2> QED BY <1>1, <2>1, StartTask DEF KeepInv, Settled, Kept
<1>2. CASE Answered
  <2>1. record' = record /\ input' = input /\ mixed' = mixed /\ at = "answer"
        BY <1>2 DEF Answered, report
  <2>2. ASSUME mixed # "now", NEW f \in Ids, NEW l \in Lines, Settled(record[f], l)
        PROVE  mine'[f] # NoRecord /\ mine'[f].line[l] = record[f].line[l]
    <3>1. mine[f] # NoRecord /\ mine[f].line[l] = record[f].line[l]
          BY <2>1, <2>2 DEF KeepInv, Working
    <3>2. l \notin Rejected(mine[f])
          BY <2>2, <3>1 DEF Settled, Rejected
    <3> QED BY <1>2, <3>1, <3>2, AnsweredTask
  <2> QED BY <2>1, <2>2 DEF KeepInv, Settled, Kept
<1>3. CASE FirstWrite \/ CountWrite \/ Ask \/ AttemptFails
  <2>1. record' = record /\ input' = input /\ mine' = mine /\ at \in Working
        BY <1>3 DEF FirstWrite, CountWrite, Ask, AttemptFails, report, Working
  <2>2. mixed' # "now" => mixed # "now"
        BY <1>3 DEF FirstWrite, CountWrite, Ask, AttemptFails
  <2> QED BY <2>1, <2>2 DEF KeepInv, Settled, Kept
<1>4. CASE Persist
  <2>1. record' = mine /\ mine' = mine
        BY <1>4 DEF Persist
  <2> QED BY <2>1 DEF KeepInv, Settled, Kept
<1>5. CASE FinalWrite \/ Interrupt \/ Finish
      BY <1>5 DEF FinalWrite, Interrupt, Finish, KeepInv, Working
<1>6. CASE StrayWrite
      BY <1>6 DEF StrayWrite, KeepInv
<1>7. CASE Refresh
      BY <1>7 DEF Refresh, KeepInv, Settled, Kept
<1>8. CASE Crash
      BY <1>8 DEF Crash, KeepInv, Working
<1>9. CASE FinishedUnder \/ UNCHANGED vars
      BY <1>9 DEF FinishedUnder, vars, report, task, KeepInv, Settled, Kept
<1> QED BY <1>1, <1>2, <1>3, <1>4, <1>5, <1>6, <1>7, <1>8, <1>9 DEF Next

LEMMA NextRunning == Types /\ RunningInv /\ [Next]_vars => RunningInv'
<1> SUFFICES ASSUME Types, RunningInv, [Next]_vars PROVE RunningInv'
    OBVIOUS
<1>1. CASE FirstWrite
      BY <1>1 DEF FirstWrite, RunningInv
<1>2. CASE Start \/ FinalWrite \/ Interrupt \/ Finish
      BY <1>2 DEF Start, FinalWrite, Interrupt, Finish, RunningInv, Working
<1>3. CASE CountWrite \/ Ask \/ AttemptFails \/ Answered \/ Persist
  <2>1. wording' = wording /\ mixed' = mixed /\ at \in Working \ {"first"}
        BY <1>3 DEF CountWrite, Ask, AttemptFails, Answered, Persist, report, Working
  <2> QED BY <2>1 DEF RunningInv
<1>4. CASE StrayWrite
      BY <1>4 DEF StrayWrite, RunningInv
<1>5. CASE FinishedUnder \/ Refresh \/ Crash
      BY <1>5 DEF FinishedUnder, Refresh, Crash, RunningInv, Working
<1>6. CASE UNCHANGED vars
      BY <1>6 DEF vars, report, task, RunningInv
<1> QED BY <1>1, <1>2, <1>3, <1>4, <1>5, <1>6 DEF Next

-----------------------------------------------------------------------------
(* The wording that is shown *)

LEMMA FinalIsSettled ==
    ASSUME Types, Task, Outcome(Filled) = "ready", NEW f \in Ids
    PROVE  Filled[f] # NoRecord /\ Filled[f].asked /\ Rejected(Filled[f]) = {} /\ Filled[f].input = basis
<1>1. Unsettled(Filled) = {}
      BY DEF Outcome
<1>2. Filled[f] # NoRecord /\ Filled[f].asked /\ Rejected(Filled[f]) = {}
      BY <1>1 DEF Unsettled, NeedsRetry
<1>3. mine[f] # NoRecord /\ Filled[f] = mine[f]
      BY <1>2 DEF Filled, Fallback
<1> QED BY <1>2, <1>3 DEF Task, MineInv

LEMMA NextReady ==
    Types /\ Task /\ RunningInv /\ ReadyMeansSettled /\ [Next]_vars => ReadyMeansSettled'
<1> SUFFICES ASSUME Types, Task, RunningInv, ReadyMeansSettled, [Next]_vars
             PROVE ReadyMeansSettled'
    OBVIOUS
<1>1. CASE FinalWrite
  <2>1. record' = Filled /\ wording' = Outcome(Filled)
        BY <1>1 DEF FinalWrite
  <2> QED BY <2>1, FinalIsSettled DEF ReadyMeansSettled, Rejected
<1>2. CASE FirstWrite
      BY <1>2 DEF FirstWrite, ReadyMeansSettled
<1>3. CASE StrayWrite
      BY <1>3 DEF StrayWrite, ReadyMeansSettled
<1>4. CASE Persist
  <2>1. wording' = wording /\ mixed' = mixed /\ at \in Working \ {"first"}
        BY <1>4 DEF Persist, Working
  <2> QED BY <2>1 DEF RunningInv, ReadyMeansSettled
<1>5. CASE Refresh
      BY <1>5 DEF Refresh, ReadyMeansSettled
<1>6. CASE \/ Start \/ CountWrite \/ Ask \/ AttemptFails \/ Answered \/ Interrupt \/ Finish
           \/ FinishedUnder \/ Crash \/ UNCHANGED vars
  <2>1. record' = record
        BY <1>6 DEF Start, CountWrite, Ask, AttemptFails, Answered, Interrupt, Finish,
                    FinishedUnder, Crash, vars, report
  <2>2. wording' = "ready" => wording = "ready"
        BY <1>6 DEF Start, CountWrite, Ask, AttemptFails, Answered, Interrupt, Finish,
                    FinishedUnder, Crash, vars, report
  <2>3. mixed' = "no" => mixed = "no"
        BY <1>6 DEF Start, CountWrite, Ask, AttemptFails, Answered, Interrupt, Finish,
                    FinishedUnder, Crash, vars
  <2> QED BY <2>1, <2>2, <2>3 DEF ReadyMeansSettled, Rejected
<1> QED BY <1>1, <1>2, <1>3, <1>4, <1>5, <1>6 DEF Next

LEMMA Invariance == Spec => []Inv
<1>1. Inv /\ [Next]_vars => Inv'
      BY NextTypes, NextTask, NextKeep, NextRunning, NextReady DEF Inv
<1> QED BY <1>1, InitInv, PTL DEF Spec

\* Wording shows as ready only when every entry has an answer, all to the same
\* guidance, with nothing left to retry, whatever was interrupted before and also
\* when the report was finished or its guidance refreshed under the task.
THEOREM ReadyIsSettled == Spec => []ReadyMeansSettled
<1>1. Inv => ReadyMeansSettled
      BY DEF Inv
<1> QED BY <1>1, Invariance, PTL

-----------------------------------------------------------------------------
(* The wording that was accepted *)

Keeps(f, l) == record'[f] # NoRecord /\ record'[f].line[l] = record[f].line[l]

LEMMA StepKeeps ==
    ASSUME Inv, [Next]_vars, input' = input, mixed' # "now",
           NEW f \in Ids, NEW l \in Lines, Settled(record[f], l)
    PROVE  Keeps(f, l)
<1> USE DEF Keeps, Inv
<1>1. record[f] # NoRecord
      BY DEF Settled, Kept
<1>2. CASE record' = record
      BY <1>1, <1>2
<1>3. CASE Persist
  <2>1. record' = mine /\ mixed' = mixed /\ at \in Working
        BY <1>3 DEF Persist, Working
  <2> QED BY <2>1 DEF KeepInv
<1>4. CASE FinalWrite
  <2>1. record' = Filled /\ mixed' = mixed /\ at \in Working
        BY <1>4 DEF FinalWrite, Working
  <2>2. mine[f] # NoRecord /\ mine[f].line[l] = record[f].line[l]
        BY <2>1 DEF KeepInv
  <2> QED BY <2>1, <2>2 DEF Filled
<1>5. CASE StrayWrite
      BY <1>5 DEF StrayWrite
<1>6. CASE Refresh
      BY <1>6 DEF Refresh, Types, TypeOK
<1>7. CASE \/ Start \/ FirstWrite \/ CountWrite \/ Ask \/ AttemptFails \/ Answered \/ Interrupt
           \/ Finish \/ FinishedUnder \/ Crash \/ UNCHANGED vars
  <2>1. record' = record
        BY <1>7 DEF Start, FirstWrite, CountWrite, Ask, AttemptFails, Answered, Interrupt, Finish,
                    FinishedUnder, Crash, vars, report
  <2> QED BY <1>2, <2>1
<1> QED BY <1>3, <1>4, <1>5, <1>6, <1>7 DEF Next

\* A line whose wording was accepted keeps it through every attempt and every
\* task, until the guidance is refreshed or a late write of an earlier task comes.
THEOREM AcceptedStays == Spec => AcceptedWordingStays
<1>1. ASSUME Inv, [Next]_vars, input' = input, mixed' # "now"
      PROVE  \A f \in Ids, l \in Lines : Settled(record[f], l) => Keeps(f, l)
      BY <1>1, StepKeeps
<1>2. Inv /\ [Next]_vars =>
        [ input' = input /\ mixed' # "now" =>
             \A f \in Ids, l \in Lines :
                Settled(record[f], l) =>
                   record'[f] # NoRecord /\ record'[f].line[l] = record[f].line[l] ]_vars
      BY <1>1 DEF Keeps
<1> QED BY <1>2, Invariance, PTL DEF Spec, AcceptedWordingStays

=============================================================================
