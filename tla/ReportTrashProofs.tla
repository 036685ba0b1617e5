-------------------------- MODULE ReportTrashProofs --------------------------
(***************************************************************************)
(* Proofs about ReportTrash and about the cache that ReportLibrary adds to  *)
(* it, for any reports, names in the trash, limits, batches and crashes.    *)
(*                                                                          *)
(* The argument: between the checks of a removal and its rename the report  *)
(* stays as it was checked, since its file lock is held (MoveInv), and no   *)
(* job is registered for it, since the batch holds the admission lock       *)
(* (JobInv).  The registry alone would not do: a report whose start is      *)
(* still being decided has no registered job, but it is never finished.     *)
(* What was last saved of a report is then moved and never copied           *)
(* (PlaceInv).                                                              *)
(*                                                                          *)
(* A report that the cache, or a load in progress, knows can leave its      *)
(* folder only into a copy whose removal has yet to evict it, which waits   *)
(* for the load; so a fingerprint that still fits was taken of the same     *)
(* revision, open or closed as it is now.                                   *)
(***************************************************************************)
EXTENDS ReportLibrary, FiniteSetTheorems, TLAPS

OpType ==
    [at : {"none", "batch", "delete", "restore", "check", "move", "evict"},
     kind : {"delete", "restore"},
     scan : Reports \cup {Absent}, slot : Slots \cup {Absent},
     reviewed : Revision \cup {Absent}, cancelled : BOOLEAN]

\* The fields of a call that its step relies on.
OpInv ==
    /\ op.at # "none" <=> admission = "trash"
    /\ op.at \in {"delete", "check", "evict"} => op.kind = "delete"
    /\ op.at = "restore" => op.kind = "restore" /\ op.slot \in Slots
    /\ op.at \in {"delete", "check", "move", "evict"} => op.scan \in Reports
    /\ op.at \in {"delete", "check", "move"} /\ op.kind = "delete" => op.reviewed \in Revision
    /\ op.at = "move" => op.slot \in Slots

\* Between the checks and the rename, the files are as they were checked.
MoveInv ==
    /\ op.at = "check" => Exists(op.scan)
    /\ op.at = "move" =>
         IF op.kind = "delete"
           THEN /\ Exists(op.scan) /\ Finished(folder[op.scan])
                /\ Revisions(folder[op.scan]) = op.reviewed
                /\ folder[op.scan].receipt = [slot |-> op.slot, reviewed |-> op.reviewed]
           ELSE Restorable(op.slot) /\ archive[op.slot].scan = op.scan /\ ~Exists(op.scan)

JobInv ==
    /\ JobKeepsReport
    /\ \A r \in Reports : job[r] = "starting" => ~Finished(folder[r])
    /\ op.at \in {"delete", "check", "move"} /\ op.kind = "delete" => ~Registered(op.scan)
    /\ admission \in Reports => Loadable(admission) /\ job[admission] = "none"

\* The tail of a cancel() and the AI tasks in no registry are of reports whose
\* scan was once admitted.
CancelInv ==
    \A r \in Reports :
       loose[r] > 0 \/ (canceller.at # "idle" /\ canceller.scan = r)
         => saved[r] # Absent /\ job[r] # "starting"

In(t, r) == archive[t] # Absent /\ archive[t].scan = r

\* What was last saved of a report, in its folder or in one place of the trash.
Here(r) == Loadable(r) /\ saved[r] = Revisions(folder[r]) /\ \A t \in Slots : ~In(t, r)

There(r) ==
    /\ ~Loadable(r)
    /\ \E t \in Slots : /\ In(t, r) /\ saved[r] = Revisions(archive[t].content)
                        /\ \A u \in Slots : In(u, r) => u = t

Nowhere(r) == ~Loadable(r) /\ \A t \in Slots : ~In(t, r)

Placed(r) == IF saved[r] = Absent THEN Nowhere(r) ELSE Here(r) \/ There(r)

PlaceInv == \A r \in Reports : Placed(r)

Inv == TypeOK /\ OpInv /\ MoveInv /\ ArchivedAsReviewed /\ JobInv /\ CancelInv /\ PlaceInv

-----------------------------------------------------------------------------
(* Types *)

LEMMA InitType == Init => TypeOK
BY LimitAssumption DEF Init, TypeOK, Idle, NoCancel

LEMMA RevisionsType == ASSUME NEW c \in Content PROVE Revisions(c) \in Revision
BY DEF Content, Revisions, Revision

LEMMA PutType ==
    ASSUME TypeOK, NEW r \in Reports, NEW c \in Content, Put(r, c)
    PROVE  /\ folder' \in [Reports -> Content \cup {Absent}]
           /\ saved' \in [Reports -> Revision \cup {Absent}]
BY RevisionsType DEF Put, TypeOK

LEMMA LoadableType ==
    ASSUME TypeOK, NEW r \in Reports, Loadable(r)
    PROVE  folder[r] \in Content /\ folder[r].rev \in 1 .. MaxRev
BY RevisionAssumption DEF TypeOK, Loadable, Exists, Content

LEMMA WrittenType ==
    ASSUME NEW c \in Content, NEW n \in 0 .. MaxRev, NEW o \in BOOLEAN, NEW s \in BOOLEAN
    PROVE  [c EXCEPT !.rev = n, !.open = o, !.sidecar = s] \in Content
BY DEF Content

\* A report that is written under its lock: a new revision, or the same one with a sidecar.
Grows(c, d) ==
    c.rev < d.rev \/ (c.rev = d.rev /\ c.open = d.open /\ (c.sidecar => d.sidecar))

LEMMA NextRevision ==
    ASSUME NEW c \in Content, c.rev < MaxRev, NEW o \in BOOLEAN,
           NEW d, d = [c EXCEPT !.rev = @ + 1, !.open = o, !.sidecar = FALSE]
    PROVE  d \in Content /\ Grows(c, d)
<1>1. c.rev + 1 \in 0 .. MaxRev /\ c.rev < c.rev + 1
      BY RevisionAssumption DEF Content
<1>2. d = [c EXCEPT !.rev = c.rev + 1, !.open = o, !.sidecar = FALSE]
      OBVIOUS
<1>3. d \in Content /\ d.rev = c.rev + 1
      BY <1>1, <1>2 DEF Content
<1> QED BY <1>1, <1>3 DEF Grows

LEMMA CloseWrites ==
    ASSUME TypeOK, NEW r \in Reports, Close(r)
    PROVE  /\ Loadable(r) /\ folder[r] \in Content
           /\ \E c \in Content :
                 Put(r, c) /\ Grows(folder[r], c) /\ c.rev > 0 /\ Finished(c)
<1>1. Loadable(r) /\ folder[r] \in Content /\ folder[r].rev \in 1 .. MaxRev
      BY LoadableType DEF Close
<1>2. CASE folder[r].rev < MaxRev /\ Put(r, [folder[r] EXCEPT !.rev = @ + 1, !.open = FALSE, !.sidecar = FALSE])
  <2> DEFINE c == [folder[r] EXCEPT !.rev = @ + 1, !.open = FALSE, !.sidecar = FALSE]
  <2>1. c \in Content /\ Grows(folder[r], c)
        BY <1>1, <1>2, NextRevision
  <2>2. c.rev = folder[r].rev + 1 /\ ~c.open
        BY <1>1 DEF Content
  <2>3. c.rev > 0 /\ Finished(c)
        BY <1>1, <2>2, RevisionAssumption DEF Finished
  <2> QED BY <1>1, <1>2, <2>1, <2>3
<1>3. CASE Put(r, [folder[r] EXCEPT !.sidecar = TRUE])
  <2> DEFINE c == [folder[r] EXCEPT !.sidecar = TRUE]
  <2>1. c \in Content /\ c.rev = folder[r].rev /\ c.open = folder[r].open /\ c.sidecar
        BY <1>1 DEF Content
  <2>2. Grows(folder[r], c) /\ c.rev > 0 /\ Finished(c)
        BY <1>1, <2>1, RevisionAssumption DEF Grows, Finished
  <2> QED BY <1>1, <1>3, <2>1, <2>2
<1> QED BY <1>2, <1>3 DEF Close

\* The steps of a cancel() and of the AI tasks that it forgot.
Cancelling(r) ==
    \/ CancelWaited(r) \/ CancelLoads(r) \/ CancelCloses(r) \/ CancelPops(r)
    \/ LooseFinish(r) \/ LooseEnd(r)

\* Of a report they write at most an end, and a job that was registered they
\* unregister or bring to its end.
LEMMA CancelWrites ==
    ASSUME NEW r \in Reports, Cancelling(r)
    PROVE  /\ UNCHANGED <<archive, late, admission, op, crashes>>
           /\ UNCHANGED <<disk, saved>> \/ (Close(r) /\ job' = job)
           /\ Close(r) => UNCHANGED <<disk, saved>> \/ loose[r] > 0
                           \/ (canceller.at # "idle" /\ canceller.scan = r)
BY DEF Cancelling, CancelWaited, CancelLoads, CancelCloses, CancelPops, LooseFinish, LooseEnd,
       CancelStep, Close, Put, disk

LEMMA CancelJob ==
    ASSUME TypeOK, NEW r \in Reports, Cancelling(r)
    PROVE  /\ job' = job \/ \E what \in {"none", "ending"} :
                                Registered(r) /\ job' = [job EXCEPT ![r] = what]
           /\ loose' \in [Reports -> Nat]
           /\ canceller' \in [at : {"idle", "load", "close", "pop"}, scan : Reports \cup {Absent}]
<1>1. ASSUME NEW from, NEW to \in {"idle", "load", "close", "pop"}, CancelStep(r, from, to)
      PROVE  canceller' \in [at : {"idle", "load", "close", "pop"}, scan : Reports \cup {Absent}]
      BY <1>1 DEF CancelStep, NoCancel
<1>2. CASE CancelWaited(r) \/ CancelLoads(r) \/ CancelCloses(r)
  <2>1. canceller' \in [at : {"idle", "load", "close", "pop"}, scan : Reports \cup {Absent}]
        BY <1>1, <1>2 DEF CancelWaited, CancelLoads, CancelCloses
  <2>2. loose' = loose
        BY <1>2 DEF CancelWaited, CancelLoads, CancelCloses
  <2>3. job' = job \/ \E what \in {"none", "ending"} : Registered(r) /\ job' = [job EXCEPT ![r] = what]
        BY <1>2 DEF CancelWaited, CancelLoads, CancelCloses, Becomes, Registered
  <2> QED BY <2>1, <2>2, <2>3 DEF TypeOK
<1>3. ASSUME NEW n \in Nat, Loosen(r, n)
      PROVE  /\ job' = job \/ (Registered(r) /\ job' = [job EXCEPT ![r] = "none"])
             /\ loose' \in [Reports -> Nat]
      BY <1>3 DEF Loosen, Becomes, Registered, TypeOK
<1>4. CASE CancelPops(r)
  <2>1. loose[r] \in Nat
        BY DEF TypeOK
  <2> QED BY <1>1, <1>3, <1>4, <2>1 DEF CancelPops
<1>5. CASE LooseFinish(r)
      BY <1>5 DEF LooseFinish, cancelling, TypeOK
<1>6. CASE LooseEnd(r)
  <2>1. loose[r] - 1 \in Nat
        BY <1>6 DEF LooseEnd, TypeOK
  <2> QED BY <1>3, <1>6, <2>1 DEF LooseEnd, TypeOK
<1> QED BY <1>2, <1>4, <1>5, <1>6 DEF Cancelling

LEMMA IdleType == Idle \in OpType
BY DEF Idle, OpType

LEMMA DoneType ==
    ASSUME TypeOK, Done
    PROVE  /\ op' \in OpType
           /\ admission' \in Reports \cup {"free", "trash"}
<1>1. op \in OpType
      BY DEF TypeOK, OpType
<1>3. [op EXCEPT !.at = "batch", !.scan = Absent, !.slot = Absent, !.reviewed = Absent] \in OpType
      BY <1>1 DEF OpType
<1> QED BY IdleType, <1>3 DEF Done, TypeOK

\* A step of the jobs saves nothing, or one report: a new one, or a later revision.
LEMMA WorkWrites ==
    ASSUME TypeOK, JobInv, NEW r \in Reports, Work(r)
    PROVE  \/ /\ UNCHANGED saved
              /\ UNCHANGED disk \/ Refuse(r) \/ LateOutput(r)
           \/ \E c \in Content :
                 /\ Put(r, c) /\ c.rev > 0
                 /\ saved[r] = Absent \/ (Loadable(r) /\ Grows(folder[r], c))
<1>1. CASE Create(r)
  <2> DEFINE c == [rev |-> 1, open |-> TRUE, sidecar |-> FALSE, notes |-> 1, receipt |-> NoReceipt]
  <2>1. c \in Content /\ c.rev > 0
        BY RevisionAssumption DEF Content
  <2> QED BY <1>1, <2>1 DEF Create
<1>2. CASE Save(r) \/ RetryOpen(r)
  <2>1. CASE UNCHANGED <<disk, saved>>
        BY <2>1
  <2>2. CASE ~UNCHANGED <<disk, saved>>
    <3> DEFINE new(o) == [folder[r] EXCEPT !.rev = @ + 1, !.open = o, !.sidecar = FALSE]
    <3>1. PICK o \in BOOLEAN : Put(r, new(o)) /\ folder[r].rev < MaxRev
      <4>1. (~Finished(folder[r])) \in BOOLEAN
            OBVIOUS
      <4> QED BY <1>2, <2>2, <4>1 DEF Save, RetryOpen, disk
    <3>2. Loadable(r) /\ folder[r] \in Content /\ folder[r].rev \in 1 .. MaxRev
          BY <1>2, LoadableType DEF Save, RetryOpen, JobInv
    <3>3. new(o) \in Content /\ Grows(folder[r], new(o))
          BY <3>1, <3>2, NextRevision
    <3>4. new(o).rev > 0
          BY <3>2, <3>3, RevisionAssumption DEF Grows, Content
    <3> HIDE DEF new
    <3> QED BY <3>1, <3>2, <3>3, <3>4
  <2> QED BY <2>1, <2>2
<1>3. CASE EditNotes(r)
  <2> DEFINE c == [folder[r] EXCEPT !.notes = @ + 1]
  <2>1. /\ Loadable(r) /\ folder[r] \in Content /\ folder[r].rev \in 1 .. MaxRev
        /\ folder[r].notes < MaxNotes
        BY <1>3, LoadableType DEF EditNotes
  <2>2. c \in Content /\ Grows(folder[r], c) /\ c.rev > 0
        BY <2>1, RevisionAssumption DEF Content, Grows
  <2> QED BY <1>3, <2>1, <2>2 DEF EditNotes
<1>4. CASE Finish(r) \/ Cancelling(r)
      BY <1>4, CloseWrites, CancelWrites DEF Finish
<1>5. CASE Start(r) \/ Refuse(r) \/ Exit(r) \/ LateOutput(r) \/ RetryBegin(r)
      BY <1>5 DEF Start, Refuse, Exit, LateOutput, RetryBegin
<1> QED BY <1>1, <1>2, <1>3, <1>4, <1>5 DEF Work, Cancelling

LEMMA WorkFolderType ==
    ASSUME TypeOK, JobInv, NEW r \in Reports, Work(r)
    PROVE  /\ folder' \in [Reports -> Content \cup {Absent}]
           /\ archive' \in [Slots -> Archive \cup {Absent}]
           /\ saved' \in [Reports -> Revision \cup {Absent}]
<1>1. CASE UNCHANGED saved /\ UNCHANGED disk
      BY <1>1 DEF disk, TypeOK
<1>2. CASE Refuse(r)
  <2>1. folder[r] \in Content
        BY <1>2, LoadableType DEF Refuse, JobInv, JobKeepsReport
  <2>2. [scan |-> r, named |-> FALSE, content |-> folder[r]] \in Archive
        BY <2>1 DEF Archive
  <2> QED BY <1>2, <2>2 DEF Refuse, TypeOK
<1>3. CASE LateOutput(r)
  <2>1. [rev |-> 0, open |-> FALSE, sidecar |-> FALSE, notes |-> 1, receipt |-> NoReceipt] \in Content
        BY RevisionAssumption DEF Content
  <2> QED BY <1>3, <2>1 DEF LateOutput, TypeOK
<1>4. ASSUME NEW c \in Content, Put(r, c)
      PROVE  /\ folder' \in [Reports -> Content \cup {Absent}]
             /\ archive' = archive
             /\ saved' \in [Reports -> Revision \cup {Absent}]
      BY <1>4, PutType DEF Put
<1> QED BY <1>1, <1>2, <1>3, <1>4, WorkWrites DEF TypeOK

LEMMA WorkType ==
    ASSUME TypeOK, JobInv, NEW r \in Reports, Work(r)
    PROVE  TypeOK'
<1>1. CASE Cancelling(r)
  <2>1. job' \in [Reports -> {"none", "starting", "scan", "wording", "ending"}]
        BY <1>1, CancelJob DEF TypeOK
  <2> QED BY <1>1, <2>1, WorkFolderType, CancelJob, CancelWrites DEF TypeOK
<1>2. CASE ~Cancelling(r)
  <2>1. UNCHANGED <<cancelling, op, crashes>>
        BY <1>2 DEF Work, Cancelling, Create, Start, Refuse, Save, Finish, Close, Exit, LateOutput,
                    RetryBegin, RetryOpen, EditNotes, Put
  <2>2. job' \in [Reports -> {"none", "starting", "scan", "wording", "ending"}]
        BY <1>2 DEF Work, Cancelling, Create, Start, Refuse, Save, Finish, Exit, LateOutput,
                    RetryBegin, RetryOpen, EditNotes, Becomes, TypeOK
  <2>3. late' \subseteq Reports /\ admission' \in Reports \cup {"free", "trash"}
        BY <1>2 DEF Work, Cancelling, Create, Start, Refuse, Save, Finish, Exit, LateOutput,
                    RetryBegin, RetryOpen, EditNotes, TypeOK
  <2> QED BY <2>1, <2>2, <2>3, WorkFolderType DEF cancelling, TypeOK
<1> QED BY <1>1, <1>2

LEMMA CallType ==
    ASSUME TypeOK, Call
    PROVE  TypeOK'
<1>0. op \in OpType
      BY DEF TypeOK, OpType
<1>1. op' \in OpType /\ admission' \in Reports \cup {"free", "trash"}
  <2>1. ASSUME NEW kind \in {"delete", "restore"}, Begin(kind)
        PROVE  op' \in OpType /\ admission' = "trash"
    <3>1. op' = [Idle EXCEPT !.at = "batch", !.kind = kind]
          BY <2>1 DEF Begin
    <3> QED BY <2>1, <3>1, IdleType DEF Begin, OpType
  <2>2. ASSUME NEW r \in Reports, Target(r)
        PROVE  op' \in OpType /\ admission' = admission
    <3>1. Revisions(folder[r]) \in Revision
          BY <2>2, LoadableType, RevisionsType DEF Target
    <3>2. op' = [op EXCEPT !.at = "delete", !.scan = r, !.reviewed = Revisions(folder[r])]
          BY <2>2 DEF Target
    <3>3. op' \in OpType
          BY <1>0, <3>1, <3>2 DEF OpType
    <3> QED BY <2>2, <3>3 DEF Target
  <2>3. ASSUME NEW t \in Slots, RestoreTarget(t)
        PROVE  op' \in OpType /\ admission' = admission
        BY <1>0, <2>3 DEF RestoreTarget, OpType
  <2>4. CASE End
        BY <2>4, IdleType DEF End
  <2>5. CASE Cancel
    <3>1. op' \in OpType
          BY <1>0, <2>5 DEF Cancel, OpType
    <3> QED BY <2>5, <3>1 DEF Cancel, TypeOK
  <2> QED BY <2>1, <2>2, <2>3, <2>4, <2>5 DEF Call, TypeOK
<1>2. UNCHANGED <<disk, job, cancelling, late, saved, crashes>>
      BY DEF Call, Begin, Target, RestoreTarget, End, Cancel
<1> QED BY <1>1, <1>2 DEF disk, cancelling, TypeOK, OpType

LEMMA ThreadType ==
    ASSUME TypeOK, OpInv, MoveInv, Thread \/ Evict
    PROVE  TypeOK'
<1>0. op \in OpType
      BY DEF TypeOK, OpType
<1>1. CASE Lock
  <2>1. op' \in OpType
        BY <1>0, <1>1 DEF Lock, Step, OpType
  <2> QED BY <1>1, <2>1 DEF Lock, disk, cancelling, TypeOK, OpType
<1>2. CASE WriteReceipt
  <2>1. PICK t \in Slots :
          /\ op' = [op EXCEPT !.at = "move", !.slot = t]
          /\ folder' = [folder EXCEPT ![op.scan].receipt = [slot |-> t, reviewed |-> op.reviewed]]
        BY <1>2 DEF WriteReceipt
  <2>2. op' \in OpType
        BY <1>0, <2>1 DEF OpType
  <2>3. op.scan \in Reports /\ [slot |-> t, reviewed |-> op.reviewed] \in Receipt /\ Exists(op.scan)
    <3>1. op.scan \in Reports /\ op.reviewed \in Revision
          BY <1>2 DEF WriteReceipt, OpInv
    <3>2. Exists(op.scan)
          BY <1>2 DEF WriteReceipt, MoveInv
    <3> QED BY <3>1, <3>2 DEF Receipt
  <2>4. folder' \in [Reports -> Content \cup {Absent}]
    <3>1. [folder[op.scan] EXCEPT !.receipt = [slot |-> t, reviewed |-> op.reviewed]] \in Content
          BY <2>3 DEF TypeOK, Exists, Content
    <3> QED BY <2>1, <2>3, <3>1 DEF TypeOK
  <2> QED BY <1>2, <2>2, <2>4 DEF WriteReceipt, cancelling, TypeOK, OpType
<1>3. CASE MoveAway
  <2>1. folder[op.scan] \in Content /\ op.scan \in Reports /\ op.slot \in Slots
        BY <1>3 DEF MoveAway, OpInv, MoveInv, Exists, TypeOK
  <2>2. [scan |-> op.scan, named |-> TRUE, content |-> folder[op.scan]] \in Archive
        BY <2>1 DEF Archive
  <2>3. op' \in OpType
        BY <1>0, <1>3 DEF MoveAway, Step, OpType
  <2>4. archive' \in [Slots -> Archive \cup {Absent}] /\ folder' \in [Reports -> Content \cup {Absent}]
        BY <1>3, <2>2 DEF MoveAway, TypeOK
  <2> QED BY <1>3, <2>3, <2>4 DEF MoveAway, cancelling, TypeOK, OpType
<1>4. CASE CheckCopy
  <2>1. archive[op.slot].scan \in Reports
        BY <1>4 DEF CheckCopy, OpInv, Restorable, TypeOK, Archive
  <2>2. op' \in OpType
        BY <1>0, <1>4, <2>1 DEF CheckCopy, OpType
  <2> QED BY <1>4, <2>2 DEF CheckCopy, disk, cancelling, TypeOK, OpType
<1>5. CASE MoveBack
  <2>1. archive[op.slot].content \in Content
        BY <1>5 DEF MoveBack, OpInv, MoveInv, Restorable, TypeOK, Archive
  <2>2. archive' \in [Slots -> Archive \cup {Absent}] /\ folder' \in [Reports -> Content \cup {Absent}]
        BY <1>5, <2>1 DEF MoveBack, TypeOK
  <2> QED BY <1>5, <2>2, DoneType DEF MoveBack, cancelling, TypeOK, OpType
<1>6. CASE Fail \/ Evict
      BY <1>6, DoneType DEF Fail, Evict, disk, cancelling, TypeOK, OpType
<1> QED BY <1>1, <1>2, <1>3, <1>4, <1>5, <1>6 DEF Thread

Closed(r) ==
    IF Loadable(r) /\ ~Finished(folder[r])
      THEN [folder[r] EXCEPT !.rev = @ + 1, !.open = FALSE]
      ELSE folder[r]

LEMMA ClosedType ==
    ASSUME TypeOK, Crash, NEW r \in Reports
    PROVE  /\ Closed(r) \in Content \cup {Absent}
           /\ Loadable(r) => Closed(r) \in Content
           /\ folder'[r] = Closed(r)
           /\ saved'[r] = IF Loadable(r) THEN Revisions(Closed(r)) ELSE saved[r]
<1>1. CASE Loadable(r) /\ ~Finished(folder[r])
  <2>0. folder[r].rev < MaxRev
        BY <1>1 DEF Crash
  <2>1. folder[r] \in Content /\ folder[r].rev + 1 \in 0 .. MaxRev
        BY <1>1, <2>0, LoadableType, RevisionAssumption
  <2>2. [folder[r] EXCEPT !.rev = @ + 1, !.open = FALSE] \in Content
        BY <2>1 DEF Content
  <2> QED BY <1>1, <2>2 DEF Crash, Closed
<1>2. CASE ~(Loadable(r) /\ ~Finished(folder[r]))
      BY <1>2, LoadableType DEF Crash, Closed, TypeOK
<1> QED BY <1>1, <1>2

LEMMA CrashType ==
    ASSUME TypeOK, Crash
    PROVE  TypeOK'
<1>1. folder' = [r \in Reports |-> Closed(r)]
      BY DEF Crash, Closed
<1>2. saved' = [r \in Reports |-> IF Loadable(r) THEN Revisions(Closed(r)) ELSE saved[r]]
      BY <1>1 DEF Crash, Closed
<1>3. /\ folder' \in [Reports -> Content \cup {Absent}]
      /\ saved' \in [Reports -> Revision \cup {Absent}]
      BY <1>1, <1>2, ClosedType, RevisionsType DEF TypeOK
<1>4. /\ crashes < MaxCrashes /\ crashes' = crashes + 1
      /\ job' = [r \in Reports |-> "none"]
      /\ loose' = [r \in Reports |-> 0] /\ canceller' = NoCancel
      /\ late' = {} /\ admission' = "free" /\ op' = Idle /\ archive' = archive
      BY DEF Crash
<1> QED BY <1>3, <1>4, IdleType, LimitAssumption DEF TypeOK, OpType, NoCancel

LEMMA NextType ==
    ASSUME TypeOK, OpInv, MoveInv, JobInv, [Next]_vars
    PROVE  TypeOK'
<1>1. CASE UNCHANGED vars
      BY <1>1 DEF vars, disk, cancelling, TypeOK
<1> QED BY <1>1, WorkType, CallType, ThreadType, CrashType DEF Next

-----------------------------------------------------------------------------
(* The call in progress *)

\* What a step of the jobs leaves alone.
LEMMA WorkKeepsOp ==
    ASSUME NEW r \in Reports, Work(r)
    PROVE  /\ op' = op /\ crashes' = crashes
           /\ archive' = archive \/ Refuse(r)
           /\ folder' = folder \/ (~Locked(r) /\ \E c : folder' = [folder EXCEPT ![r] = c])
<1>1. CASE Cancelling(r)
      BY <1>1, CancelWrites DEF Close, Put, disk
<1>2. CASE ~Cancelling(r)
      BY <1>2 DEF Work, Cancelling, Create, Start, Refuse, Save, Finish, Close, Exit, LateOutput,
                  RetryBegin, RetryOpen, EditNotes, Put, disk
<1> QED BY <1>1, <1>2

LEMMA WorkKeepsOthers ==
    ASSUME TypeOK, NEW r \in Reports, Work(r), NEW s \in Reports, s # r \/ Locked(r)
    PROVE  folder'[s] = folder[s]
BY WorkKeepsOp DEF TypeOK

\* A batch in progress keeps the admission lock from scans and AI retries.
LEMMA WorkKeepsAdmission ==
    ASSUME TypeOK, NEW r \in Reports, Work(r)
    PROVE  (admission' = "trash") <=> (admission = "trash")
<1>1. CASE Cancelling(r)
      BY <1>1, CancelWrites
<1>2. CASE ~Cancelling(r)
      BY <1>2, NamesAssumption DEF Work, Cancelling, Create, Start, Refuse, Save, Finish, Exit,
                                   LateOutput, RetryBegin, RetryOpen, EditNotes, Put
<1> QED BY <1>1, <1>2

LEMMA WorkKeepsArchive ==
    ASSUME TypeOK, NEW r \in Reports, Work(r), NEW t \in Slots, archive[t] # Absent
    PROVE  archive'[t] = archive[t]
BY WorkKeepsOp DEF Refuse, TypeOK

LEMMA DoneOp ==
    ASSUME TypeOK, Done, OpInv, op.at # "none"
    PROVE  OpInv' /\ op'.at \in {"none", "batch"}
<1>1. CASE op.cancelled
      BY <1>1 DEF Done, Idle, OpInv
<1>2. CASE ~op.cancelled
  <2>1. op'.at = "batch" /\ admission' = admission
        BY <1>2 DEF Done, TypeOK
  <2> QED BY <2>1 DEF OpInv
<1> QED BY <1>1, <1>2

LEMMA NextOp ==
    ASSUME TypeOK, OpInv, [Next]_vars
    PROVE  OpInv'
<1>0. op \in OpType
      BY DEF TypeOK, OpType
<1>1. ASSUME NEW r \in Reports, Work(r)
      PROVE  OpInv'
      BY <1>1, WorkKeepsOp, WorkKeepsAdmission DEF OpInv
<1>2. CASE Call
  <2>1. ASSUME NEW kind \in {"delete", "restore"}, Begin(kind)
        PROVE  OpInv'
        BY <2>1 DEF Begin, Idle, OpInv
  <2>2. ASSUME NEW r \in Reports, Target(r)
        PROVE  OpInv'
    <3>1. Revisions(folder[r]) \in Revision
          BY <2>2, LoadableType, RevisionsType DEF Target
    <3>2. op' = [op EXCEPT !.at = "delete", !.scan = r, !.reviewed = Revisions(folder[r])]
          BY <2>2 DEF Target
    <3> QED BY <1>0, <2>2, <3>1, <3>2 DEF Target, OpInv, OpType
  <2>3. ASSUME NEW t \in Slots, RestoreTarget(t)
        PROVE  OpInv'
        BY <1>0, <2>3 DEF RestoreTarget, OpInv, OpType
  <2>4. CASE End
        BY <2>4 DEF End, Idle, OpInv
  <2>5. CASE Cancel
        BY <1>0, <2>5 DEF Cancel, OpInv, OpType
  <2> QED BY <1>2, <2>1, <2>2, <2>3, <2>4, <2>5 DEF Call
<1>3. CASE Lock \/ WriteReceipt \/ MoveAway
      BY <1>0, <1>3 DEF Lock, WriteReceipt, MoveAway, Step, OpInv, OpType
<1>4. CASE CheckCopy
  <2>1. archive[op.slot].scan \in Reports
        BY <1>4 DEF CheckCopy, OpInv, Restorable, TypeOK, Archive
  <2> QED BY <1>0, <1>4, <2>1 DEF CheckCopy, OpInv, OpType
<1>5. CASE MoveBack \/ Fail \/ Evict
      BY <1>5, DoneOp DEF MoveBack, Fail, Evict
<1>6. CASE Crash
      BY <1>6 DEF Crash, Idle, OpInv
<1>7. CASE UNCHANGED vars
      BY <1>7 DEF vars, OpInv
<1> QED BY <1>1, <1>2, <1>3, <1>4, <1>5, <1>6, <1>7 DEF Next, Thread

LEMMA DoneMove == ASSUME TypeOK, Done PROVE op'.at \in {"none", "batch"}
<1>1. CASE op.cancelled
      BY <1>1 DEF Done, Idle
<1>2. CASE ~op.cancelled
      BY <1>2 DEF Done, TypeOK
<1> QED BY <1>1, <1>2

LEMMA NextMove ==
    ASSUME TypeOK, OpInv, MoveInv, [Next]_vars
    PROVE  MoveInv'
<1>0. op \in OpType
      BY DEF TypeOK, OpType
<1>1. ASSUME NEW r \in Reports, Work(r)
      PROVE  MoveInv'
  <2>1. op' = op
        BY <1>1, WorkKeepsOp
  <2>2. ASSUME op.at \in {"check", "move"}
        PROVE  op.scan \in Reports /\ folder'[op.scan] = folder[op.scan]
    <3>1. op.scan \in Reports /\ Locked(op.scan)
          BY <2>2 DEF OpInv, Locked
    <3> QED BY <1>1, <3>1, WorkKeepsOthers
  <2>3. ASSUME op.at = "move", op.kind # "delete"
        PROVE  archive'[op.slot] = archive[op.slot]
    <3>1. op.slot \in Slots /\ archive[op.slot] # Absent
          BY <2>3 DEF OpInv, MoveInv, Restorable
    <3> QED BY <1>1, <3>1, WorkKeepsArchive
  <2> QED BY <2>1, <2>2, <2>3 DEF MoveInv, Exists, Finished, Revisions, Restorable
<1>2. CASE Call
  <2>1. CASE Cancel
    <3>1. op' = [op EXCEPT !.cancelled = TRUE] /\ folder' = folder /\ archive' = archive
          BY <2>1 DEF Cancel, disk
    <3>2. /\ op'.at = op.at /\ op'.kind = op.kind /\ op'.scan = op.scan /\ op'.slot = op.slot
          /\ op'.reviewed = op.reviewed
          BY <1>0, <3>1 DEF OpType
    <3> QED BY <3>1, <3>2 DEF MoveInv, Exists, Finished, Revisions, Restorable
  <2>2. CASE \/ \E kind \in {"delete", "restore"} : Begin(kind)
             \/ \E r \in Reports : Target(r)
             \/ \E t \in Slots : RestoreTarget(t)
             \/ End
    <3>1. op'.at \notin {"check", "move"}
      <4>1. ASSUME NEW kind \in {"delete", "restore"}, Begin(kind)
            PROVE  op'.at = "batch"
            BY <4>1 DEF Begin, Idle
      <4>2. ASSUME NEW r \in Reports, Target(r)
            PROVE  op'.at = "delete"
            BY <1>0, <4>2 DEF Target, OpType
      <4>3. ASSUME NEW t \in Slots, RestoreTarget(t)
            PROVE  op'.at = "restore"
            BY <1>0, <4>3 DEF RestoreTarget, OpType
      <4>4. ASSUME End
            PROVE  op'.at = "none"
            BY <4>4 DEF End, Idle
      <4> QED BY <2>2, <4>1, <4>2, <4>3, <4>4
    <3> QED BY <3>1 DEF MoveInv
  <2> QED BY <1>2, <2>1, <2>2 DEF Call
<1>3. CASE Lock
  <2>1. op'.at = "check" /\ op'.scan = op.scan /\ folder' = folder /\ Exists(op.scan)
        BY <1>0, <1>3 DEF Lock, Step, disk, OpType
  <2> QED BY <2>1 DEF MoveInv, Exists
<1>4. CASE WriteReceipt
  <2>1. PICK t \in Slots :
          /\ op' = [op EXCEPT !.at = "move", !.slot = t]
          /\ folder' = [folder EXCEPT ![op.scan].receipt = [slot |-> t, reviewed |-> op.reviewed]]
        BY <1>4 DEF WriteReceipt
  <2>2. /\ op'.at = "move" /\ op'.kind = "delete" /\ op'.scan = op.scan /\ op'.slot = t
        /\ op'.reviewed = op.reviewed
        BY <1>0, <1>4, <2>1 DEF WriteReceipt, OpType
  <2>3. op.scan \in Reports /\ folder[op.scan] \in Content
        BY <1>4 DEF WriteReceipt, OpInv, MoveInv, Exists, TypeOK
  <2>4. folder'[op.scan] = [folder[op.scan] EXCEPT !.receipt = [slot |-> t, reviewed |-> op.reviewed]]
        BY <2>1, <2>3 DEF TypeOK
  <2>5. [slot |-> t, reviewed |-> op.reviewed] \in Receipt
        BY <1>4 DEF WriteReceipt, OpInv, Receipt
  <2>6. folder'[op.scan] \in Content
        BY <2>3, <2>4, <2>5 DEF Content
  <2>7. Finished(folder[op.scan]) /\ Revisions(folder[op.scan]) = op.reviewed
        BY <1>4 DEF WriteReceipt
  <2>8. /\ folder'[op.scan].receipt = [slot |-> t, reviewed |-> op.reviewed]
        /\ Finished(folder'[op.scan]) /\ Revisions(folder'[op.scan]) = op.reviewed
        BY <2>3, <2>4, <2>7 DEF Finished, Revisions, Content
  <2> QED BY <2>2, <2>6, <2>8, AbsentAssumption DEF MoveInv, Exists, Finished, Revisions
<1>5. CASE CheckCopy
  <2>1. op'.at = "move" /\ op'.kind = "restore" /\ op'.scan = archive[op.slot].scan /\ op'.slot = op.slot
        BY <1>0, <1>5 DEF CheckCopy, OpInv, OpType
  <2>2. folder' = folder /\ archive' = archive /\ Restorable(op.slot) /\ ~Exists(archive[op.slot].scan)
        BY <1>5 DEF CheckCopy, disk
  <2> QED BY <2>1, <2>2 DEF MoveInv, Exists, Restorable, Finished, Revisions
<1>6. CASE MoveAway
  <2>1. op'.at = "evict"
        BY <1>0, <1>6 DEF MoveAway, Step, OpType
  <2> QED BY <2>1 DEF MoveInv
<1>9. CASE Crash
  <2>1. op'.at = "none"
        BY <1>9 DEF Crash, Idle
  <2> QED BY <2>1 DEF MoveInv
<1>7. CASE MoveBack \/ Fail \/ Evict
      BY <1>7, DoneMove DEF MoveBack, Fail, Evict, MoveInv
<1>8. CASE UNCHANGED vars
      BY <1>8 DEF vars, disk, MoveInv, Exists, Finished, Revisions, Restorable
<1> QED BY <1>1, <1>2, <1>3, <1>4, <1>5, <1>6, <1>7, <1>8, <1>9 DEF Next, Thread

-----------------------------------------------------------------------------
(* The trash *)

LEMMA NextArchive ==
    ASSUME TypeOK, OpInv, MoveInv, ArchivedAsReviewed, [Next]_vars
    PROVE  ArchivedAsReviewed'
<1>1. CASE archive' = archive
      BY <1>1 DEF ArchivedAsReviewed, Restorable, Finished, Revisions
<1>2. ASSUME NEW r \in Reports, Refuse(r)
      PROVE  ArchivedAsReviewed'
      BY <1>2 DEF Refuse, ArchivedAsReviewed, Restorable, Finished, Revisions, TypeOK
<1>3. CASE MoveAway
  <2>1. archive' = [archive EXCEPT ![op.slot] = [scan |-> op.scan, named |-> TRUE,
                                                 content |-> folder[op.scan]]]
        BY <1>3 DEF MoveAway
  <2>2. /\ op.slot \in Slots /\ op.scan \in Reports /\ op.reviewed \in Revision
        /\ Finished(folder[op.scan]) /\ Revisions(folder[op.scan]) = op.reviewed
        /\ folder[op.scan].receipt = [slot |-> op.slot, reviewed |-> op.reviewed]
        BY <1>3 DEF MoveAway, OpInv, MoveInv
  <2>3. [slot |-> op.slot, reviewed |-> op.reviewed] # NoReceipt
        BY <2>2, AbsentAssumption DEF Receipt
  <2>4. [scan |-> op.scan, named |-> TRUE, content |-> folder[op.scan]] \in Archive
        BY <1>3, <2>2 DEF MoveAway, MoveInv, Exists, Archive, TypeOK
  <2>5. archive'[op.slot] = [scan |-> op.scan, named |-> TRUE, content |-> folder[op.scan]]
        BY <2>1, <2>2 DEF TypeOK
  <2>6. Restorable(op.slot)'
    <3>1. op.slot = op'.slot
          BY <1>3 DEF MoveAway, Step, TypeOK
    <3> QED BY <2>2, <2>3, <2>4, <2>5, <3>1, AbsentAssumption DEF Restorable, Finished, Revisions
  <2>7. ASSUME NEW t \in Slots, t # op.slot
        PROVE  archive'[t] = archive[t]
        BY <2>1, <2>7 DEF TypeOK
  <2>8. op'.slot = op.slot
        BY <1>3 DEF MoveAway, Step, TypeOK
  <2> QED BY <2>6, <2>7, <2>8 DEF ArchivedAsReviewed, Restorable, Finished, Revisions
<1>4. CASE MoveBack
      BY <1>4 DEF MoveBack, ArchivedAsReviewed, Restorable, Finished, Revisions, TypeOK
<1>5. CASE Call \/ Lock \/ WriteReceipt \/ CheckCopy \/ Fail \/ Evict \/ Crash \/ UNCHANGED vars
  <2>1. archive' = archive
        BY <1>5 DEF Call, Begin, Target, RestoreTarget, End, Cancel, Lock, WriteReceipt, CheckCopy,
                    Fail, Evict, Crash, vars, disk
  <2> QED BY <1>1, <2>1
<1>6. ASSUME NEW r \in Reports, Work(r)
      PROVE  ArchivedAsReviewed'
      BY <1>1, <1>2, <1>6, WorkKeepsOp
<1> QED BY <1>3, <1>4, <1>5, <1>6 DEF Next, Thread

-----------------------------------------------------------------------------
(* The jobs *)

\* A step for one report keeps JobInv if it keeps that report's part of it.
LEMMA JobsOf ==
    ASSUME TypeOK, OpInv, JobInv, NEW r \in Reports, Work(r),
           \A s \in Reports \ {r} : job'[s] = job[s],
           job'[r] # "none" => Loadable(r)',
           job'[r] = "starting" => ~Finished(folder'[r]),
           Registered(r)' => Registered(r) \/ op.at = "none",
           admission' \in {admission, "free"},
           admission = r => admission' = "free" \/ (Loadable(r)' /\ job'[r] = "none")
    PROVE  JobInv'
<1>1. op' = op
      BY WorkKeepsOp
<1>2. ASSUME NEW s \in Reports, s # r
      PROVE  folder'[s] = folder[s] /\ (Loadable(s)' <=> Loadable(s)) /\ (Registered(s)' <=> Registered(s))
      BY <1>2, WorkKeepsOthers DEF Loadable, Exists, Registered
<1>3. JobKeepsReport'
      BY <1>2 DEF JobInv, JobKeepsReport
<1>4. \A s \in Reports : job'[s] = "starting" => ~Finished(folder'[s])
      BY <1>2 DEF JobInv
<1>5. (op.at \in {"delete", "check", "move"} /\ op.kind = "delete" => ~Registered(op.scan))'
  <2>1. op.at \in {"delete", "check", "move"} => op.scan \in Reports /\ op.at # "none"
        BY DEF OpInv
  <2> QED BY <1>1, <1>2, <2>1 DEF JobInv, Registered
<1>6. (admission \in Reports => Loadable(admission) /\ job[admission] = "none")'
  <2>1. CASE admission' = "free"
        BY <2>1, NamesAssumption
  <2>2. CASE admission' = admission /\ admission \in Reports
    <3>1. CASE admission = r
          BY <2>1, <2>2, <3>1 DEF Loadable, Exists
    <3>2. CASE admission # r
          BY <1>2, <2>2, <3>2 DEF JobInv, Loadable, Exists
    <3> QED BY <3>1, <3>2
  <2> QED BY <2>1, <2>2
<1> QED BY <1>3, <1>4, <1>5, <1>6 DEF JobInv, Finished

LEMMA NextJobWork ==
    ASSUME TypeOK, OpInv, MoveInv, JobInv, CancelInv, PlaceInv, NEW r \in Reports, Work(r)
    PROVE  JobInv'
<1>1. CASE Create(r)
  <2>1. ~Loadable(r) /\ job[r] = "none" /\ admission # r
        BY <1>1 DEF Create, PlaceInv, Placed, Nowhere, JobInv, JobKeepsReport
  <2>2. folder'[r] = [rev |-> 1, open |-> TRUE, sidecar |-> FALSE, notes |-> 1, receipt |-> NoReceipt]
        BY <1>1 DEF Create, Put, TypeOK
  <2>3. folder'[r] \in Content /\ folder'[r].rev = 1 /\ folder'[r].open /\ ~folder'[r].sidecar
        BY <2>2, RevisionAssumption DEF Content
  <2>4. Loadable(r)' /\ ~Finished(folder'[r])
        BY <2>3, AbsentAssumption DEF Loadable, Exists, Finished
  <2>5. job' = [job EXCEPT ![r] = "starting"] /\ admission' = admission
        BY <1>1 DEF Create, Becomes
  <2> QED BY <2>1, <2>4, <2>5, JobsOf DEF Registered, TypeOK
<1>2. CASE Start(r)
  <2>1. op.at = "none" /\ admission' = admission /\ admission # r
        BY <1>2, NamesAssumption DEF Start, OpInv
  <2>2. job' = [job EXCEPT ![r] = "scan"] /\ folder' = folder /\ job[r] = "starting"
        BY <1>2 DEF Start, Becomes, disk
  <2> QED BY <2>1, <2>2, JobsOf DEF JobInv, JobKeepsReport, Loadable, Exists, TypeOK
<1>3. CASE Refuse(r)
  <2>1. job[r] = "starting" /\ job' = [job EXCEPT ![r] = "none"] /\ admission' = admission
        BY <1>3 DEF Refuse, Becomes
  <2> QED BY <2>1, JobsOf DEF JobInv, Registered, TypeOK
<1>4. CASE Save(r)
  <2>1. folder[r] \in Content /\ folder[r].rev \in 1 .. MaxRev /\ folder[r].rev + 1 \in 0 .. MaxRev
        BY <1>4, LoadableType, RevisionAssumption DEF Save
  <2>2. folder'[r] = [folder[r] EXCEPT !.rev = @ + 1, !.open = ~Finished(folder[r]), !.sidecar = FALSE]
        BY <1>4 DEF Save, Put, TypeOK
  <2>3. /\ folder'[r].rev = folder[r].rev + 1 /\ ~folder'[r].sidecar
        /\ folder'[r].open = ~Finished(folder[r])
        BY <2>1, <2>2 DEF Content
  <2>4. folder'[r] # Absent
    <3>1. (~Finished(folder[r])) \in BOOLEAN
          OBVIOUS
    <3>2. [folder[r] EXCEPT !.rev = @ + 1, !.open = ~Finished(folder[r]), !.sidecar = FALSE] \in Content
          BY <2>1, <3>1, WrittenType
    <3> QED BY <2>2, <3>2, AbsentAssumption
  <2>5. Loadable(r)' /\ (Finished(folder'[r]) <=> Finished(folder[r]))
    <3>1. folder'[r].rev > 0
          BY <2>1, <2>3
    <3>2. (folder'[r].rev > 0) /\ ~folder'[r].sidecar /\ (folder'[r].open <=> ~Finished(folder[r]))
          BY <2>3, <3>1
    <3>3. Finished(folder'[r]) <=> Finished(folder[r])
          BY ONLY <3>2, Zenon DEF Finished
    <3> QED BY <2>4, <3>1, <3>3 DEF Loadable, Exists
  <2>6. job' = job /\ admission' = admission /\ job[r] # "starting"
        BY <1>4 DEF Save, Working, CancelInv
  <2> QED BY <2>5, <2>6, JobsOf DEF JobInv, Registered
<1>5. CASE Finish(r)
  <2>1. PICK c \in Content : Put(r, c) /\ c.rev > 0
        BY <1>5, CloseWrites DEF Finish
  <2>2. folder'[r] = c
        BY <2>1 DEF Put, TypeOK
  <2>5. Loadable(r)'
        BY <2>1, <2>2, AbsentAssumption DEF Loadable, Exists
  <2>6. /\ job' = [job EXCEPT ![r] = "ending"] /\ admission' = admission /\ Registered(r)
        BY <1>5 DEF Finish, Becomes, Registered
  <2>7. admission # r
        BY <2>6 DEF JobInv, Registered
  <2> QED BY <2>5, <2>6, <2>7, JobsOf DEF TypeOK
<1>6. CASE Exit(r)
  <2>1. job' = [job EXCEPT ![r] = "none"] /\ admission' = admission /\ Registered(r)
        BY <1>6 DEF Exit, Becomes, Registered
  <2>2. admission # r
        BY <2>1 DEF JobInv, Registered
  <2> QED BY <2>1, <2>2, JobsOf DEF Registered, TypeOK
<1>7. CASE LateOutput(r)
  <2>1. job' = job /\ admission' = admission
        BY <1>7 DEF LateOutput
  <2>2. Loadable(r) => folder' = folder
        BY <1>7 DEF LateOutput, Loadable
  <2>3. job[r] # "none" \/ admission = r => Loadable(r)
        BY DEF JobInv, JobKeepsReport
  <2> QED BY <2>1, <2>2, <2>3, JobsOf DEF JobInv, JobKeepsReport, Loadable, Exists, Registered
<1>8. CASE RetryBegin(r)
  <2>1. /\ folder' = folder /\ job' = job /\ op' = op /\ admission' = r /\ op.at = "none"
        /\ Loadable(r) /\ Finished(folder[r]) /\ ~Registered(r)
        BY <1>8 DEF RetryBegin, disk, OpInv
  <2>2. job[r] = "none"
        BY <2>1 DEF JobInv, Registered, TypeOK
  <2> QED BY <2>1, <2>2 DEF JobInv, JobKeepsReport, Loadable, Exists, Registered, Finished
<1>9. CASE RetryOpen(r)
  <2>1. op.at = "none" /\ admission = r /\ admission' = "free" /\ Loadable(r)
        BY <1>9, NamesAssumption DEF RetryOpen, OpInv, JobInv
  <2>2. CASE job' = job /\ folder' = folder
        BY <2>1, <2>2, JobsOf DEF JobInv, JobKeepsReport, Loadable, Exists
  <2>3. CASE folder[r].rev < MaxRev /\ Becomes(r, "wording")
             /\ Put(r, [folder[r] EXCEPT !.rev = @ + 1, !.open = TRUE, !.sidecar = FALSE])
    <3>1. folder[r] \in Content /\ folder[r].rev \in 1 .. MaxRev /\ folder[r].rev + 1 \in 0 .. MaxRev
          BY <2>1, <2>3, LoadableType, RevisionAssumption
    <3>2. folder'[r] = [folder[r] EXCEPT !.rev = @ + 1, !.open = TRUE, !.sidecar = FALSE]
          BY <2>3 DEF Put, TypeOK
    <3>3. folder'[r].rev = folder[r].rev + 1
          BY <3>1, <3>2 DEF Content
    <3>4. folder'[r] # Absent
      <4>1. [folder[r] EXCEPT !.rev = @ + 1, !.open = TRUE, !.sidecar = FALSE] \in Content
            BY <3>1, WrittenType
      <4> QED BY <3>2, <4>1, AbsentAssumption
    <3>5. Loadable(r)'
          BY <3>1, <3>3, <3>4, RevisionAssumption DEF Loadable, Exists
    <3> QED BY <2>1, <2>3, <3>5, JobsOf DEF Becomes, TypeOK
  <2> QED BY <1>9, <2>2, <2>3 DEF RetryOpen, disk
<1>10. CASE EditNotes(r)
  <2>1. folder[r] \in Content /\ Loadable(r) /\ folder[r].notes + 1 \in 1 .. MaxNotes
    <3>1. folder[r] \in Content /\ folder[r].notes < MaxNotes /\ Loadable(r)
          BY <1>10, LoadableType DEF EditNotes
    <3> QED BY <3>1, RevisionAssumption DEF Content
  <2>2. folder'[r] = [folder[r] EXCEPT !.notes = @ + 1]
        BY <1>10 DEF EditNotes, Put, TypeOK
  <2>3. /\ folder'[r].rev = folder[r].rev /\ folder'[r].open = folder[r].open
        /\ folder'[r].sidecar = folder[r].sidecar
        BY <2>1, <2>2 DEF Content
  <2>4. folder'[r] # Absent
    <3>1. [folder[r] EXCEPT !.notes = @ + 1] \in Content
          BY <2>1 DEF Content
    <3> QED BY <2>2, <3>1, AbsentAssumption
  <2>5. Loadable(r)' /\ (Finished(folder'[r]) <=> Finished(folder[r]))
        BY <2>1, <2>3, <2>4 DEF Loadable, Exists, Finished
  <2>6. job' = job /\ admission' = admission
        BY <1>10 DEF EditNotes
  <2> QED BY <2>5, <2>6, JobsOf DEF JobInv, JobKeepsReport, Registered
<1>11. CASE Cancelling(r)
  <2>1. /\ admission' = admission
        /\ UNCHANGED <<disk, saved>> \/ (Close(r) /\ job' = job)
        BY <1>11, CancelWrites
  <2>2. CASE UNCHANGED <<disk, saved>>
    <3>1. Loadable(r)' <=> Loadable(r)
          BY <2>2 DEF disk, Loadable, Exists
    <3>2. CASE job' = job
          BY <2>1, <2>2, <3>1, <3>2, JobsOf DEF JobInv, JobKeepsReport, disk, Registered
    <3>3. CASE job' # job
      <4>1. PICK what \in {"none", "ending"} : Registered(r) /\ job' = [job EXCEPT ![r] = what]
            BY <1>11, <3>3, CancelJob
      <4>2. admission # r /\ Loadable(r)
            BY <4>1 DEF JobInv, JobKeepsReport, Registered
      <4> QED BY <2>1, <3>1, <4>1, <4>2, JobsOf DEF TypeOK
    <3> QED BY <3>2, <3>3
  <2>3. CASE Close(r) /\ job' = job /\ ~UNCHANGED <<disk, saved>>
    <3>1. PICK c \in Content : Put(r, c) /\ c.rev > 0
          BY <2>3, CloseWrites
    <3>2. folder'[r] = c
          BY <3>1 DEF Put, TypeOK
    <3>3. Loadable(r)'
          BY <3>1, <3>2, AbsentAssumption DEF Loadable, Exists
    <3>4. job[r] # "starting"
          BY <1>11, <2>3, CancelWrites DEF CancelInv
    <3> QED BY <2>1, <2>3, <3>3, <3>4, JobsOf DEF JobInv, Registered
  <2> QED BY <2>1, <2>2, <2>3
<1> QED BY <1>1, <1>2, <1>3, <1>4, <1>5, <1>6, <1>7, <1>8, <1>9, <1>10, <1>11 DEF Work, Cancelling

\* A job keeps the report it uses, finished or not.
Undisturbed(r) ==
    job[r] # "none" => Loadable(r)' /\ (Finished(folder'[r]) <=> Finished(folder[r]))

\* A step of the call leaves the jobs alone: what it does to the report it holds
\* decides.
LEMMA JobsStay ==
    ASSUME TypeOK, JobInv, job' = job,
           \A r \in Reports : Undisturbed(r),
           admission' \notin Reports,
           (op.at \in {"delete", "check", "move"} /\ op.kind = "delete" => ~Registered(op.scan))'
    PROVE  JobInv'
<1>1. JobKeepsReport'
      BY DEF JobKeepsReport, Undisturbed
<1>2. \A r \in Reports : job'[r] = "starting" => ~Finished(folder'[r])
      BY DEF JobInv, Undisturbed
<1> QED BY <1>1, <1>2 DEF JobInv

LEMMA NextJobCall ==
    ASSUME TypeOK, OpInv, JobInv, Call
    PROVE  JobInv'
<1>0. op \in OpType
      BY DEF TypeOK, OpType
<1>1. /\ folder' = folder /\ job' = job
      BY DEF Call, Begin, Target, RestoreTarget, End, Cancel, disk
<1>2. \A r \in Reports : Undisturbed(r)
      BY <1>1 DEF JobInv, JobKeepsReport, Undisturbed, Loadable, Exists
<1>3. ASSUME NEW kind \in {"delete", "restore"}, Begin(kind)
      PROVE  op'.at = "batch" /\ admission' = "trash"
      BY <1>3 DEF Begin, Idle
<1>4. ASSUME NEW r \in Reports, Target(r)
      PROVE  admission' = "trash" /\ op'.scan = r /\ ~Registered(r)
      BY <1>0, <1>4 DEF Target, OpInv, OpType
<1>5. ASSUME NEW t \in Slots, RestoreTarget(t)
      PROVE  admission' = "trash" /\ op'.at = "restore"
      BY <1>0, <1>5 DEF RestoreTarget, OpInv, OpType
<1>6. CASE End
  <2>1. admission' = "free" /\ op'.at = "none"
        BY <1>6 DEF End, Idle
  <2> QED BY <1>1, <1>2, <2>1, JobsStay, NamesAssumption
<1>7. CASE Cancel
  <2>1. /\ admission' = "trash" /\ op'.at = op.at /\ op'.kind = op.kind /\ op'.scan = op.scan
        BY <1>0, <1>7 DEF Cancel, OpInv, OpType
  <2>2. (op.at \in {"delete", "check", "move"} /\ op.kind = "delete" => ~Registered(op.scan))'
        BY <1>1, <2>1 DEF JobInv, Registered
  <2> QED BY <1>1, <1>2, <2>1, <2>2, JobsStay, NamesAssumption
<1>8. ASSUME NEW kind \in {"delete", "restore"}, Begin(kind)
      PROVE  JobInv'
      BY <1>1, <1>2, <1>3, <1>8, JobsStay, NamesAssumption
<1>9. ASSUME NEW r \in Reports, Target(r)
      PROVE  JobInv'
  <2>1. (op.at \in {"delete", "check", "move"} /\ op.kind = "delete" => ~Registered(op.scan))'
        BY <1>1, <1>4, <1>9 DEF Registered
  <2> QED BY <1>1, <1>2, <1>4, <1>9, <2>1, JobsStay, NamesAssumption
<1>10. ASSUME NEW t \in Slots, RestoreTarget(t)
       PROVE  JobInv'
       BY <1>1, <1>2, <1>5, <1>10, JobsStay, NamesAssumption
<1> QED BY <1>6, <1>7, <1>8, <1>9, <1>10 DEF Call

LEMMA NextJobThread ==
    ASSUME TypeOK, OpInv, MoveInv, JobInv, Thread \/ Evict
    PROVE  JobInv'
<1>0. op \in OpType /\ job' = job
      BY DEF TypeOK, OpType, Thread, Lock, WriteReceipt, MoveAway, CheckCopy, MoveBack, Fail, Evict
<1>1. op.at # "none" /\ admission = "trash"
      BY DEF Thread, Lock, WriteReceipt, MoveAway, CheckCopy, MoveBack, Fail, Evict, OpInv
<1>2. CASE MoveBack \/ Fail \/ Evict
  <2>1. op'.at \in {"none", "batch"} /\ admission' \in {"free", "trash"}
    <3>1. Done
          BY <1>2 DEF MoveBack, Fail, Evict
    <3>2. admission' \in {admission, "free"}
          BY <3>1 DEF Done
    <3> QED BY <1>1, <3>1, <3>2, DoneMove
  <2>2. admission' \notin Reports
        BY <2>1, NamesAssumption
  <2>3. CASE folder' = folder
        BY <1>0, <2>1, <2>2, <2>3, JobsStay DEF JobInv, JobKeepsReport, Undisturbed, Loadable, Exists
  <2>4. CASE MoveBack
    <3>1. op.scan \in Reports /\ ~Exists(op.scan)
          BY <2>4 DEF MoveBack, OpInv, MoveInv
    <3>2. job[op.scan] = "none"
          BY <3>1 DEF JobInv, JobKeepsReport, Loadable
    <3>3. \A r \in Reports : r # op.scan => folder'[r] = folder[r]
          BY <2>4 DEF MoveBack, TypeOK
    <3>4. \A r \in Reports : Undisturbed(r)
          BY <3>2, <3>3 DEF JobInv, JobKeepsReport, Undisturbed, Loadable, Exists
    <3> QED BY <1>0, <2>1, <2>2, <3>4, JobsStay
  <2>5. CASE Fail \/ Evict
    <3>1. folder' = folder
          BY <2>5 DEF Fail, Evict, disk
    <3> QED BY <2>3, <3>1
  <2> QED BY <1>2, <2>4, <2>5
<1>3. CASE Lock
  <2>1. /\ folder' = folder /\ admission' = "trash" /\ op'.scan = op.scan /\ op'.kind = op.kind
        /\ op.at = "delete"
        BY <1>0, <1>1, <1>3 DEF Lock, Step, disk, OpType
  <2>2. (op.at \in {"delete", "check", "move"} /\ op.kind = "delete" => ~Registered(op.scan))'
        BY <1>0, <2>1 DEF JobInv, Registered
  <2> QED BY <1>0, <2>1, <2>2, JobsStay, NamesAssumption DEF JobInv, JobKeepsReport, Undisturbed, Loadable, Exists
<1>4. CASE WriteReceipt
  <2>1. PICK t \in Slots :
          /\ op' = [op EXCEPT !.at = "move", !.slot = t]
          /\ folder' = [folder EXCEPT ![op.scan].receipt = [slot |-> t, reviewed |-> op.reviewed]]
        BY <1>4 DEF WriteReceipt
  <2>2. /\ op'.scan = op.scan /\ op'.kind = op.kind /\ admission' = "trash"
        /\ op.at = "check" /\ op.kind = "delete"
        BY <1>0, <1>1, <1>4, <2>1 DEF WriteReceipt, OpType
  <2>3. op.scan \in Reports /\ folder[op.scan] \in Content /\ Finished(folder[op.scan])
        BY <1>4 DEF WriteReceipt, OpInv, MoveInv, Exists, TypeOK
  <2>4. job[op.scan] = "none"
        BY <2>2, <2>3 DEF JobInv, Registered, TypeOK
  <2>5. \A r \in Reports : r # op.scan => folder'[r] = folder[r]
        BY <2>1 DEF TypeOK
  <2>6. \A r \in Reports : Undisturbed(r)
        BY <2>4, <2>5 DEF JobInv, JobKeepsReport, Undisturbed, Loadable, Exists
  <2>7. (op.at \in {"delete", "check", "move"} /\ op.kind = "delete" => ~Registered(op.scan))'
        BY <1>0, <2>2, <2>4 DEF Registered
  <2> QED BY <1>0, <2>2, <2>6, <2>7, JobsStay, NamesAssumption
<1>5. CASE MoveAway
  <2>1. /\ op.scan \in Reports /\ op.at = "move" /\ op.kind = "delete" /\ Finished(folder[op.scan])
        BY <1>5 DEF MoveAway, OpInv, MoveInv
  <2>2. job[op.scan] = "none"
        BY <2>1 DEF JobInv, Registered, TypeOK
  <2>3. \A r \in Reports : r # op.scan => folder'[r] = folder[r]
        BY <1>5 DEF MoveAway, TypeOK
  <2>4. \A r \in Reports : Undisturbed(r)
        BY <2>2, <2>3 DEF JobInv, JobKeepsReport, Undisturbed, Loadable, Exists
  <2>5. op'.at = "evict" /\ admission' = "trash"
        BY <1>0, <1>1, <1>5 DEF MoveAway, Step, OpType
  <2> QED BY <1>0, <2>4, <2>5, JobsStay, NamesAssumption
<1>6. CASE CheckCopy
  <2>1. op'.kind = "restore" /\ admission' = "trash" /\ folder' = folder
        BY <1>0, <1>1, <1>6 DEF CheckCopy, OpInv, disk, OpType
  <2> QED BY <1>0, <2>1, JobsStay, NamesAssumption DEF JobInv, JobKeepsReport, Undisturbed, Loadable, Exists
<1> QED BY <1>2, <1>3, <1>4, <1>5, <1>6 DEF Thread, MoveBack, Fail, Evict

LEMMA NextJob ==
    ASSUME TypeOK, OpInv, MoveInv, JobInv, CancelInv, PlaceInv, [Next]_vars
    PROVE  JobInv'
<1>1. CASE Crash
      BY <1>1, NamesAssumption DEF Crash, Idle, JobInv, JobKeepsReport
<1>2. CASE UNCHANGED vars
      BY <1>2 DEF vars, disk, JobInv, JobKeepsReport, Loadable, Exists, Registered, Finished
<1> QED BY <1>1, <1>2, NextJobWork, NextJobCall, NextJobThread DEF Next

-----------------------------------------------------------------------------
(* Where a report is *)

\* A report whose folder keeps its revisions, and whose places in the trash stay,
\* is where it was.
LEMMA PlacedStays ==
    ASSUME NEW r \in Reports, Placed(r), saved'[r] = saved[r],
           Loadable(r)' <=> Loadable(r),
           Loadable(r) => Revisions(folder'[r]) = Revisions(folder[r]),
           \A t \in Slots : In(t, r) => archive'[t] = archive[t],
           \A t \in Slots : In(t, r)' => In(t, r)
    PROVE  Placed(r)'
<1>1. \A t \in Slots : In(t, r)' <=> In(t, r)
      BY DEF In
<1>2. CASE saved[r] = Absent
      BY <1>1, <1>2 DEF Placed, Nowhere, In
<1>3. CASE saved[r] # Absent /\ Here(r)
      BY <1>1, <1>3 DEF Placed, Here, In
<1>4. CASE saved[r] # Absent /\ There(r)
  <2>1. PICK t \in Slots : /\ In(t, r) /\ saved[r] = Revisions(archive[t].content)
                           /\ \A u \in Slots : In(u, r) => u = t
        BY <1>4 DEF There
  <2>2. archive'[t] = archive[t]
        BY <2>1
  <2>3. /\ In(t, r)' /\ saved'[r] = Revisions(archive'[t].content)
        /\ \A u \in Slots : In(u, r)' => u = t
        BY <1>1, <2>1, <2>2
  <2>4. There(r)'
        BY <1>4, <2>3 DEF There, In, Revisions
  <2> QED BY <1>4, <2>4 DEF Placed
<1> QED BY <1>2, <1>3, <1>4 DEF Placed

\* A write of a report that no copy of is in the trash.
LEMMA PutPlaced ==
    ASSUME TypeOK, PlaceInv, NEW r \in Reports, NEW c \in Content, Put(r, c), c.rev > 0,
           Loadable(r) \/ saved[r] = Absent
    PROVE  PlaceInv'
<1>1. ASSUME NEW s \in Reports, s # r
      PROVE  Placed(s)'
      BY <1>1, PlacedStays DEF Put, PlaceInv, Loadable, Exists, In, TypeOK
<1>2. folder'[r] = c /\ saved'[r] = Revisions(c) /\ archive' = archive
      BY DEF Put, TypeOK
<1>3. \A t \in Slots : ~In(t, r)
      BY DEF PlaceInv, Placed, Nowhere, Here, There
<1>4. saved'[r] # Absent /\ Loadable(r)'
      BY <1>2, RevisionsType, AbsentAssumption DEF Loadable, Exists
<1>5. Placed(r)'
      BY <1>2, <1>3, <1>4 DEF Placed, Here, In
<1> QED BY <1>1, <1>5 DEF PlaceInv

LEMMA NextPlaceWork ==
    ASSUME TypeOK, JobInv, PlaceInv, NEW r \in Reports, Work(r)
    PROVE  PlaceInv'
<1>1. ASSUME NEW c \in Content, Put(r, c), c.rev > 0, saved[r] = Absent \/ Loadable(r)
      PROVE  PlaceInv'
      BY <1>1, PutPlaced
<1>2. CASE Refuse(r)
  <2>1. PICK t \in Slots :
          /\ archive[t] = Absent
          /\ archive' = [archive EXCEPT ![t] = [scan |-> r, named |-> FALSE, content |-> folder[r]]]
        BY <1>2 DEF Refuse
  <2>2. folder' = [folder EXCEPT ![r] = Absent] /\ saved' = saved /\ Loadable(r)
        BY <1>2 DEF Refuse, JobInv, JobKeepsReport
  <2>3. [scan |-> r, named |-> FALSE, content |-> folder[r]] \in Archive
        BY <2>2, LoadableType DEF Archive
  <2>4. archive'[t] = [scan |-> r, named |-> FALSE, content |-> folder[r]] /\ archive'[t] # Absent
        BY <2>1, <2>3, AbsentAssumption DEF TypeOK
  <2>5. \A u \in Slots : u # t => archive'[u] = archive[u]
        BY <2>1 DEF TypeOK
  <2>6. ASSUME NEW s \in Reports, s # r
        PROVE  Placed(s)'
        BY <2>1, <2>2, <2>4, <2>5, <2>6, PlacedStays DEF PlaceInv, Loadable, Exists, In, TypeOK
  <2>7. Here(r) /\ saved[r] # Absent
        BY <2>2 DEF PlaceInv, Placed, Nowhere, There
  <2>8. Placed(r)'
    <3>1. ~Loadable(r)'
          BY <2>2 DEF Loadable, Exists, TypeOK
    <3>2. /\ In(t, r)' /\ saved'[r] = Revisions(archive'[t].content)
          /\ \A u \in Slots : In(u, r)' => u = t
          BY <2>2, <2>4, <2>5, <2>7 DEF Here, In
    <3>3. There(r)'
          BY <3>1, <3>2 DEF There, In, Revisions
    <3> QED BY <2>2, <2>7, <3>3 DEF Placed
  <2> QED BY <2>6, <2>8 DEF PlaceInv
<1>7. CASE LateOutput(r)
  <2>1. archive' = archive /\ saved' = saved
        BY <1>7 DEF LateOutput
  <2>2. CASE folder' = folder
        BY <2>1, <2>2, PlacedStays DEF PlaceInv, Loadable, Exists, In
  <2>3. CASE ~Exists(r) /\ folder' = [folder EXCEPT ![r] =
                 [rev |-> 0, open |-> FALSE, sidecar |-> FALSE, notes |-> 1, receipt |-> NoReceipt]]
    <3>1. folder'[r].rev = 0
          BY <2>3 DEF TypeOK
    <3>2. ~Loadable(r) /\ ~Loadable(r)'
          BY <2>3, <3>1 DEF Loadable
    <3>3. \A s \in Reports : (Loadable(s)' <=> Loadable(s)) /\ (Loadable(s) => folder'[s] = folder[s])
          BY <2>3, <3>2 DEF Loadable, Exists, TypeOK
    <3> QED BY <2>1, <3>3, PlacedStays DEF PlaceInv, In
  <2> QED BY <1>7, <2>2, <2>3 DEF LateOutput
<1>8. CASE UNCHANGED <<disk, saved>>
      BY <1>8, PlacedStays DEF PlaceInv, Loadable, Exists, In, disk
<1> QED BY <1>1, <1>2, <1>7, <1>8, WorkWrites

LEMMA NextPlaceThread ==
    ASSUME TypeOK, OpInv, MoveInv, PlaceInv, WriteReceipt \/ MoveAway \/ MoveBack
    PROVE  PlaceInv'
<1>1. CASE WriteReceipt
  <2>1. PICK t \in Slots :
          folder' = [folder EXCEPT ![op.scan].receipt = [slot |-> t, reviewed |-> op.reviewed]]
        BY <1>1 DEF WriteReceipt
  <2>2. archive' = archive /\ saved' = saved
        BY <1>1 DEF WriteReceipt
  <2>3. op.scan \in Reports /\ folder[op.scan] \in Content /\ op.reviewed \in Revision
        BY <1>1 DEF WriteReceipt, OpInv, MoveInv, Exists, TypeOK
  <2>4. folder'[op.scan] = [folder[op.scan] EXCEPT !.receipt = [slot |-> t, reviewed |-> op.reviewed]]
        BY <2>1, <2>3 DEF TypeOK
  <2>5. folder'[op.scan] \in Content
        BY <2>3, <2>4 DEF Content, Receipt
  <2>6. folder'[op.scan].rev = folder[op.scan].rev /\ folder'[op.scan].notes = folder[op.scan].notes
        BY <2>3, <2>4 DEF Content
  <2>7. \A s \in Reports : /\ Loadable(s)' <=> Loadable(s)
                           /\ Revisions(folder'[s]) = Revisions(folder[s])
    <3>1. ASSUME NEW s \in Reports
          PROVE  (Loadable(s)' <=> Loadable(s)) /\ Revisions(folder'[s]) = Revisions(folder[s])
      <4>1. CASE s = op.scan
            BY <2>3, <2>5, <2>6, <4>1, AbsentAssumption DEF Loadable, Exists, Revisions
      <4>2. CASE s # op.scan
        <5>1. folder'[s] = folder[s]
              BY <2>1, <4>2 DEF TypeOK
        <5> QED BY <5>1 DEF Loadable, Exists
      <4> QED BY <4>1, <4>2
    <3> QED BY <3>1
  <2> QED BY <2>2, <2>7, PlacedStays DEF PlaceInv, In
<1>2. CASE MoveAway
  <2>1. archive' = [archive EXCEPT ![op.slot] = [scan |-> op.scan, named |-> TRUE,
                                                 content |-> folder[op.scan]]]
        BY <1>2 DEF MoveAway
  <2>2. /\ folder' = [folder EXCEPT ![op.scan] = Absent] /\ saved' = saved
        /\ op.scan \in Reports /\ op.slot \in Slots /\ archive[op.slot] = Absent
        BY <1>2 DEF MoveAway, OpInv, Used
  <2>3. Loadable(op.scan)
        BY <1>2 DEF MoveAway, MoveInv, Loadable, Finished
  <2>4. [scan |-> op.scan, named |-> TRUE, content |-> folder[op.scan]] \in Archive
        BY <2>2, <2>3, LoadableType DEF Archive
  <2>5. /\ archive'[op.slot] = [scan |-> op.scan, named |-> TRUE, content |-> folder[op.scan]]
        /\ archive'[op.slot] # Absent
        BY <2>1, <2>2, <2>4, AbsentAssumption DEF TypeOK
  <2>6. \A u \in Slots : u # op.slot => archive'[u] = archive[u]
        BY <2>1 DEF TypeOK
  <2>7. ASSUME NEW s \in Reports, s # op.scan
        PROVE  Placed(s)'
        BY <2>2, <2>5, <2>6, <2>7, PlacedStays DEF PlaceInv, Loadable, Exists, In, TypeOK
  <2>8. ASSUME NEW s \in Reports, s = op.scan
        PROVE  Placed(s)'
    <3>1. Here(s) /\ saved[s] # Absent
          BY <2>3, <2>8 DEF PlaceInv, Placed, Nowhere, There
    <3>2. ~Loadable(s)'
          BY <2>2, <2>8 DEF Loadable, Exists, TypeOK
    <3>3. \E t \in Slots : /\ In(t, s)' /\ saved'[s] = Revisions(archive'[t].content)
                           /\ \A u \in Slots : In(u, s)' => u = t
          BY <2>2, <2>5, <2>6, <2>8, <3>1 DEF Here, In
    <3>4. There(s)'
          BY <3>2, <3>3 DEF There, In, Revisions
    <3> QED BY <2>2, <3>1, <3>4 DEF Placed
  <2> QED BY <2>7, <2>8 DEF PlaceInv
<1>3. CASE MoveBack
  <2>1. /\ folder' = [folder EXCEPT ![op.scan] = archive[op.slot].content] /\ saved' = saved
        /\ archive' = [archive EXCEPT ![op.slot] = Absent]
        /\ op.scan \in Reports /\ op.slot \in Slots
        BY <1>3 DEF MoveBack, OpInv
  <2>2. /\ archive[op.slot] # Absent /\ archive[op.slot].scan = op.scan /\ ~Exists(op.scan)
        /\ Finished(archive[op.slot].content)
        BY <1>3 DEF MoveBack, MoveInv, Restorable
  <2>3. archive[op.slot].content \in Content
        BY <2>1, <2>2 DEF TypeOK, Archive
  <2>4. ASSUME NEW s \in Reports, s # op.scan
        PROVE  Placed(s)'
        BY <2>1, <2>2, <2>4, PlacedStays DEF PlaceInv, Loadable, Exists, In, TypeOK
  <2>5. ASSUME NEW s \in Reports, s = op.scan
        PROVE  Placed(s)'
    <3>1. There(s) /\ saved[s] # Absent
          BY <2>1, <2>2, <2>5 DEF PlaceInv, Placed, Nowhere, Here, Loadable, In
    <3>2. saved[s] = Revisions(archive[op.slot].content) /\ \A u \in Slots : In(u, s) => u = op.slot
          BY <2>1, <2>2, <2>5, <3>1 DEF There, In
    <3>3. folder'[s] = archive[op.slot].content
          BY <2>1, <2>5 DEF TypeOK
    <3>4. Loadable(s)'
          BY <2>2, <2>3, <3>3, AbsentAssumption DEF Loadable, Exists, Finished
    <3>5. \A u \in Slots : ~In(u, s)'
          BY <2>1, <3>2 DEF In, TypeOK
    <3>6. Here(s)'
          BY <2>1, <3>2, <3>3, <3>4, <3>5 DEF Here, Revisions
    <3> QED BY <2>1, <3>1, <3>6 DEF Placed
  <2> QED BY <2>4, <2>5 DEF PlaceInv
<1> QED BY <1>1, <1>2, <1>3

LEMMA NextPlaceCrash ==
    ASSUME TypeOK, PlaceInv, Crash
    PROVE  PlaceInv'
<1>1. archive' = archive
      BY DEF Crash
<1>2. ASSUME NEW r \in Reports
      PROVE  Placed(r)'
  <2>1. folder'[r] = Closed(r) /\ saved'[r] = IF Loadable(r) THEN Revisions(Closed(r)) ELSE saved[r]
        BY <1>2, ClosedType
  <2>2. CASE ~Loadable(r)
    <3>1. folder'[r] = folder[r] /\ saved'[r] = saved[r]
          BY <2>1, <2>2 DEF Closed
    <3> QED BY <1>1, <3>1, PlacedStays DEF PlaceInv, Loadable, Exists, In
  <2>3. CASE Loadable(r)
    <3>1. \A t \in Slots : ~In(t, r)
          BY <2>3 DEF PlaceInv, Placed, Nowhere, Here, There
    <3>2. folder'[r] \in Content /\ saved'[r] = Revisions(folder'[r])
          BY <2>1, <2>3, ClosedType
    <3>3. folder'[r].rev > 0
          BY <2>1, <2>3, LoadableType DEF Closed, Content
    <3>4. Loadable(r)' /\ saved'[r] # Absent
          BY <3>2, <3>3, RevisionsType, AbsentAssumption DEF Loadable, Exists
    <3> QED BY <1>1, <3>1, <3>2, <3>4 DEF Placed, Here, In
  <2> QED BY <2>2, <2>3
<1> QED BY <1>2 DEF PlaceInv

LEMMA NextPlace ==
    ASSUME TypeOK, OpInv, MoveInv, JobInv, PlaceInv, [Next]_vars
    PROVE  PlaceInv'
<1>1. CASE UNCHANGED <<disk, saved>>
      BY <1>1, PlacedStays DEF PlaceInv, Loadable, Exists, In, disk
<1>2. CASE Call \/ Lock \/ CheckCopy \/ Fail \/ Evict \/ UNCHANGED vars
      BY <1>1, <1>2 DEF Call, Begin, Target, RestoreTarget, End, Cancel, Lock, CheckCopy, Fail, Evict, vars
<1> QED BY <1>2, NextPlaceWork, NextPlaceThread, NextPlaceCrash DEF Next, Thread

-----------------------------------------------------------------------------
(* The tail of a cancel() *)

\* What was saved once was saved.
LEMMA SavedStays ==
    ASSUME TypeOK, JobInv, [Next]_vars, NEW r \in Reports, saved[r] # Absent
    PROVE  saved'[r] # Absent
<1>1. ASSUME NEW p \in Reports, Work(p)
      PROVE  saved'[r] # Absent
  <2>1. ASSUME NEW c \in Content, Put(p, c)
        PROVE  saved'[r] # Absent
        BY <2>1, RevisionsType, AbsentAssumption DEF Put, TypeOK
  <2> QED BY <1>1, <2>1, WorkWrites
<1>2. CASE Crash
      BY <1>2, ClosedType, RevisionsType, AbsentAssumption
<1>3. CASE Call \/ Thread \/ Evict \/ UNCHANGED vars
      BY <1>3 DEF Call, Begin, Target, RestoreTarget, End, Cancel, Thread, Lock, WriteReceipt, MoveAway,
                  CheckCopy, MoveBack, Fail, Evict, vars
<1> QED BY <1>1, <1>2, <1>3 DEF Next

\* The steps that let go of a task begin with one that was registered.
LEMMA CancelBegins ==
    ASSUME TypeOK, NEW r \in Reports, NEW s \in Reports, Cancelling(r),
           loose'[s] > 0 \/ (canceller'.at # "idle" /\ canceller'.scan = s)
    PROVE  \/ loose[s] > 0 \/ (canceller.at # "idle" /\ canceller.scan = s)
           \/ s = r /\ Registered(s)
<1>1. CASE CancelWaited(r)
      BY <1>1 DEF CancelWaited, CancelStep, NoCancel, Registered
<1>2. CASE CancelLoads(r) \/ CancelCloses(r)
      BY <1>2 DEF CancelLoads, CancelCloses, CancelStep, NoCancel
<1>3. CASE CancelPops(r)
      BY <1>3 DEF CancelPops, Loosen, CancelStep, NoCancel, Registered, TypeOK
<1>4. CASE LooseFinish(r)
      BY <1>4 DEF LooseFinish, cancelling
<1>5. CASE LooseEnd(r)
      BY <1>5 DEF LooseEnd, Loosen, TypeOK
<1> QED BY <1>1, <1>2, <1>3, <1>4, <1>5 DEF Cancelling

LEMMA NextCancel ==
    ASSUME TypeOK, JobInv, CancelInv, PlaceInv, [Next]_vars
    PROVE  CancelInv'
<1> SUFFICES ASSUME NEW s \in Reports,
                    loose'[s] > 0 \/ (canceller'.at # "idle" /\ canceller'.scan = s)
             PROVE  saved'[s] # Absent /\ job'[s] # "starting"
    BY DEF CancelInv
<1>1. Registered(s) => saved[s] # Absent
      BY DEF JobInv, JobKeepsReport, Registered, PlaceInv, Placed, Nowhere
<1>2. ASSUME NEW r \in Reports, Cancelling(r)
      PROVE  saved'[s] # Absent /\ job'[s] # "starting"
  <2>1. saved[s] # Absent /\ job[s] # "starting"
        BY <1>1, <1>2, CancelBegins DEF CancelInv, Registered
  <2>2. Work(r)
        BY <1>2 DEF Work, Cancelling
  <2>3. Next
        BY <2>2 DEF Next
  <2>4. saved'[s] # Absent
        BY <2>1, <2>3, SavedStays
  <2> QED BY <1>2, <2>1, <2>4, CancelJob DEF TypeOK
<1>3. ASSUME UNCHANGED cancelling, ~Crash
      PROVE  saved'[s] # Absent /\ job'[s] # "starting"
  <2>1. saved[s] # Absent /\ job[s] # "starting"
        BY <1>3 DEF CancelInv, cancelling
  <2>2. saved'[s] # Absent
        BY <2>1, SavedStays
  <2>3. ASSUME NEW r \in Reports, Work(r)
        PROVE  job'[s] # "starting"
    <3>1. CASE Cancelling(r)
          BY <2>1, <3>1, CancelJob DEF TypeOK
    <3>2. CASE ~Cancelling(r)
          BY <2>1, <2>3, <3>2 DEF Work, Cancelling, Create, Start, Refuse, Save, Finish, Exit, LateOutput,
                                  RetryBegin, RetryOpen, EditNotes, Becomes, TypeOK
    <3> QED BY <3>1, <3>2
  <2>4. CASE Call \/ Thread \/ Evict \/ UNCHANGED vars
        BY <2>1, <2>4 DEF Call, Begin, Target, RestoreTarget, End, Cancel, Thread, Lock, WriteReceipt,
                          MoveAway, CheckCopy, MoveBack, Fail, Evict, vars
  <2> QED BY <1>3, <2>2, <2>3, <2>4 DEF Next
<1>4. CASE Crash
  <2>1. loose' = [r \in Reports |-> 0] /\ canceller' = NoCancel
        BY <1>4 DEF Crash
  <2>2. loose'[s] = 0 /\ canceller'.at = "idle"
        BY <2>1 DEF NoCancel
  <2> QED BY <2>2
<1>5. ASSUME NEW r \in Reports, Work(r), ~Cancelling(r)
      PROVE  UNCHANGED cancelling
      BY <1>5 DEF Work, Cancelling, Create, Start, Refuse, Save, Finish, Exit, LateOutput, RetryBegin,
                  RetryOpen, EditNotes
<1>6. CASE (Call \/ Thread \/ Evict \/ UNCHANGED vars) /\ ~Crash
  <2>1. UNCHANGED cancelling
        BY <1>6 DEF Call, Begin, Target, RestoreTarget, End, Cancel, Thread, Lock, WriteReceipt,
                    MoveAway, CheckCopy, MoveBack, Fail, Evict, vars
  <2> QED BY <1>3, <1>6, <2>1
<1> QED BY <1>2, <1>3, <1>4, <1>5, <1>6 DEF Next

-----------------------------------------------------------------------------
(* The invariant and what it says *)

LEMMA InitInv == Init => Inv
<1> SUFFICES ASSUME Init PROVE Inv
    OBVIOUS
<1>1. TypeOK
      BY InitType
<1>2. OpInv /\ MoveInv
      BY DEF Init, Idle, OpInv, MoveInv
<1>3. ArchivedAsReviewed
      BY DEF Init, ArchivedAsReviewed
<1>4. JobInv /\ CancelInv
      BY NamesAssumption DEF Init, Idle, NoCancel, JobInv, JobKeepsReport, CancelInv
<1>5. PlaceInv
      BY DEF Init, PlaceInv, Placed, Nowhere, Loadable, Exists, In
<1> QED BY <1>1, <1>2, <1>3, <1>4, <1>5 DEF Inv

LEMMA NextInv == Inv /\ [Next]_vars => Inv'
BY NextType, NextOp, NextMove, NextArchive, NextJob, NextCancel, NextPlace DEF Inv

\* The inductive invariant holds.
THEOREM Invariance == Spec => []Inv
BY InitInv, NextInv, PTL DEF Spec

\* Folders, recovery copies, jobs and the call in progress keep their types.
THEOREM TypeCorrect == Spec => []TypeOK
<1>1. Inv => TypeOK
      BY DEF Inv
<1> QED BY Invariance, <1>1, PTL

\* _remove moves a report exactly as the user reviewed it: every recovery copy
\* with a receipt can be restored, however many reports and calls there are.
THEOREM Archived == Spec => []ArchivedAsReviewed
<1>1. Inv => ArchivedAsReviewed
      BY DEF Inv
<1> QED BY Invariance, <1>1, PTL

\* delete_reports never moves a report away from a job that the registries or a start
\* handler know, whatever cancel() and retries do to the registry of AI tasks.  An AI
\* task that cancel() unregistered is no such job: it can lose its report.
THEOREM JobsKeepReports == Spec => []JobKeepsReport
<1>1. Inv => JobKeepsReport
      BY DEF Inv, JobInv
<1> QED BY Invariance, <1>1, PTL

\* Here or There is one place: no report has the name of one in the trash.
LEMMA OnePlace == ASSUME PlaceInv PROVE NothingIsLost
<1> SUFFICES ASSUME NEW r \in Reports, saved[r] # Absent
             PROVE  /\ Cardinality(Places(r)) = 1
                    /\ \A p \in Places(r) :
                          saved[r] = Revisions(IF p \in Slots THEN archive[p].content ELSE folder[p])
    BY DEF NothingIsLost
<1>1. CASE Here(r)
  <2>1. Places(r) = {r} /\ r \notin Slots
        BY <1>1, NamesAssumption DEF Here, In, Places
  <2> QED BY <1>1, <2>1, FS_Singleton DEF Here
<1>2. CASE There(r)
  <2>1. PICK t \in Slots : /\ In(t, r) /\ saved[r] = Revisions(archive[t].content)
                           /\ \A u \in Slots : In(u, r) => u = t
        BY <1>2 DEF There
  <2>2. Places(r) = {t}
        BY <1>2, <2>1 DEF There, In, Places
  <2> QED BY <2>1, <2>2, FS_Singleton
<1> QED BY <1>1, <1>2 DEF PlaceInv, Placed

\* What was last saved of a report is in its folder or in one recovery copy,
\* never in both and never gone, through any removals, restores and crashes.
THEOREM NothingLost == Spec => []NothingIsLost
<1>1. Inv => NothingIsLost
      BY OnePlace DEF Inv
<1> QED BY Invariance, <1>1, PTL

-----------------------------------------------------------------------------
(* The library's cache *)

\* What a content was like, from its fingerprint, and what it is now.
Follows(stamp, c) ==
    stamp.rev <= c.rev /\ (stamp.rev = c.rev /\ stamp.sidecar => c.sidecar)

\* A report the cache has a row of, or loads, was saved, and if it is gone it stays
\* away until the row has gone too: its copy has no receipt, or its removal still waits.
Stays(r) ==
    /\ saved[r] # Absent
    /\ ~Loadable(r) => \A t \in Slots :
          In(t, r) /\ archive[t].named => op.at = "evict" /\ op.scan = r

RowInv(r) ==
    row[r] # NoRow =>
        /\ Stays(r)
        /\ Loadable(r) =>
              /\ Follows(row[r].stamp, folder[r])
              /\ row[r].stamp = Fingerprint(r) => row[r].shown = Shown(r)

LoadType ==
    load.at # "idle" =>
        /\ load.scan \in Reports /\ load.stamp \in Stamp
        /\ load.at \in {"sidecar", "insert"} => load.shown \in Projection

LoadInv(r) ==
    load.at # "idle" /\ load.scan = r =>
        /\ Stays(r)
        /\ Loadable(r) =>
              /\ Follows(load.stamp, folder[r])
              /\ load.at = "sidecar" /\ load.stamp = Fingerprint(r) =>
                    load.shown = [rev |-> folder[r].rev, finished |-> ~folder[r].open]
              /\ load.at = "insert" /\ load.stamp = Fingerprint(r) => load.shown = Shown(r)

CacheInv == LibraryTypeOK /\ LoadType /\ \A r \in Reports : RowInv(r) /\ LoadInv(r)

LibraryInv == Inv /\ CacheInv

LEMMA FollowsOn ==
    ASSUME NEW c \in Content, NEW d \in Content, Grows(c, d),
           NEW stamp \in Stamp, Follows(stamp, c)
    PROVE  /\ Follows(stamp, d)
           /\ stamp = [rev |-> d.rev, sidecar |-> d.sidecar]
                => c.rev = d.rev /\ c.open = d.open /\ c.sidecar = d.sidecar
BY DEF Content, Stamp, Grows, Follows

\* What a step does to a report the cache may know: it may come only from outside the
\* cache's sight, and goes only as Stays says.
KeepsReport(r) ==
    /\ Stays(r) => Stays(r)' /\ (Loadable(r)' => Loadable(r))
    /\ Loadable(r) /\ Loadable(r)' => Grows(folder[r], folder'[r])

LEMMA SavedIsLoadable ==
    ASSUME Inv, NEW r \in Reports, Loadable(r)
    PROVE  saved[r] # Absent /\ \A t \in Slots : ~In(t, r)
BY DEF Inv, PlaceInv, Placed, Nowhere, Here, There

\* Where a report and its copies are as they were, and no removal waits.
LEMMA ReportKept ==
    ASSUME TypeOK, NEW r \in Reports, folder'[r] = folder[r], saved'[r] = saved[r],
           \A t \in Slots : In(t, r)' => In(t, r) /\ archive'[t] = archive[t],
           op.at = "evict" => op'.at = op.at /\ op'.scan = op.scan
    PROVE  KeepsReport(r)
<1>1. Loadable(r)' <=> Loadable(r)
      BY DEF Loadable, Exists
<1>2. Stays(r) => Stays(r)'
      BY <1>1 DEF Stays, In
<1>3. Loadable(r) => Grows(folder[r], folder'[r])
      BY LoadableType DEF Grows, Content
<1> QED BY <1>1, <1>2, <1>3 DEF KeepsReport

LEMMA ReportWritten ==
    ASSUME TypeOK, NEW r \in Reports, Loadable(r), NEW c \in Content, Put(r, c), Grows(folder[r], c)
    PROVE  KeepsReport(r)
<1>1. folder'[r] = c /\ saved'[r] = Revisions(c) /\ folder[r] \in Content /\ folder[r].rev > 0
      BY LoadableType DEF Put, TypeOK
<1>2. saved'[r] # Absent
      BY <1>1, RevisionsType, AbsentAssumption
<1>3. Loadable(r)'
      BY <1>1, AbsentAssumption DEF Loadable, Exists, Grows, Content
<1> QED BY <1>1, <1>2, <1>3 DEF KeepsReport, Stays

LEMMA WorkKeepsReport ==
    ASSUME Inv, NEW p \in Reports, Work(p), NEW r \in Reports
    PROVE  KeepsReport(r)
<1>0. TypeOK /\ JobInv /\ PlaceInv
      BY DEF Inv
<1>1. CASE p # r
  <2>1. folder'[r] = folder[r]
        BY <1>0, <1>1, WorkKeepsOthers
  <2>2. saved'[r] = saved[r]
        BY <1>0, <1>1, WorkWrites DEF Put, TypeOK
  <2>3. \A t \in Slots : In(t, r)' => In(t, r) /\ archive'[t] = archive[t]
        BY <1>0, <1>1, WorkKeepsOp DEF Refuse, In, TypeOK
  <2>4. op' = op
        BY WorkKeepsOp
  <2> QED BY <1>0, <2>1, <2>2, <2>3, <2>4, ReportKept
<1>2. CASE p = r
  <2>1. ASSUME NEW c \in Content, Put(r, c), saved[r] = Absent
        PROVE  KeepsReport(r)
        BY <1>0, <2>1 DEF PlaceInv, Placed, Nowhere, KeepsReport, Stays
  <2>2. CASE Refuse(r)
    <3>1. Loadable(r)
          BY <1>0, <2>2 DEF Refuse, JobInv, JobKeepsReport
    <3>2. saved[r] # Absent /\ \A t \in Slots : ~In(t, r)
          BY <3>1, SavedIsLoadable
    <3>3. ~Loadable(r)' /\ saved' = saved
          BY <1>0, <2>2 DEF Refuse, Loadable, Exists, TypeOK
    <3>4. \A t \in Slots : In(t, r)' => ~archive'[t].named
          BY <1>0, <2>2, <3>2 DEF Refuse, In, TypeOK
    <3> QED BY <3>2, <3>3, <3>4 DEF KeepsReport, Stays
  <2>3. ASSUME NEW c \in Content, Put(r, c), Loadable(r), Grows(folder[r], c)
        PROVE  KeepsReport(r)
        BY <1>0, <2>3, ReportWritten
  <2>4. CASE UNCHANGED <<disk, saved>>
    <3>1. op' = op
          BY <1>2, WorkKeepsOp
    <3> QED BY <1>0, <2>4, <3>1, ReportKept DEF disk, In
  <2>5. CASE LateOutput(r)
    <3>1. CASE Exists(r)
          BY <1>0, <2>5, <3>1, ReportKept DEF LateOutput, In
    <3>2. CASE ~Exists(r)
      <4>1. /\ ~Loadable(r) /\ ~Loadable(r)'
            /\ UNCHANGED <<archive, op, saved>>
            BY <1>0, <2>5, <3>2 DEF LateOutput, Loadable, Exists, TypeOK
      <4> QED BY <4>1 DEF KeepsReport, Stays, In
    <3> QED BY <3>1, <3>2
  <2> QED BY <1>0, <1>2, <2>1, <2>2, <2>3, <2>4, <2>5, WorkWrites
<1> QED BY <1>1, <1>2

LEMMA CallKeepsReport ==
    ASSUME Inv, Call, NEW r \in Reports
    PROVE  KeepsReport(r)
<1>1. UNCHANGED <<disk, saved>> /\ TypeOK
      BY DEF Inv, Call, Begin, End, Cancel, Target, RestoreTarget
<1>2. op.at = "evict" => op'.at = op.at /\ op'.scan = op.scan
      BY DEF Inv, TypeOK, OpInv, Call, Begin, End, Cancel, Target, RestoreTarget
<1> QED BY <1>1, <1>2, ReportKept DEF disk, In

LEMMA ThreadKeepsReport ==
    ASSUME Inv, Thread, NEW r \in Reports
    PROVE  KeepsReport(r)
<1>0. TypeOK /\ OpInv /\ MoveInv /\ op.at # "evict"
      BY DEF Inv, Thread, Lock, WriteReceipt, MoveAway, CheckCopy, MoveBack, Fail
<1>1. CASE Lock \/ CheckCopy \/ Fail
      BY <1>0, <1>1, ReportKept DEF Lock, CheckCopy, Fail, disk, In
<1>2. CASE WriteReceipt
  <2>1. CASE r = op.scan
    <3>1. /\ folder[r] \in Content /\ Loadable(r) /\ UNCHANGED <<archive, saved>>
          /\ folder'[r].rev = folder[r].rev /\ folder'[r].open = folder[r].open
          /\ folder'[r].sidecar = folder[r].sidecar
          BY <1>0, <1>2, <2>1 DEF WriteReceipt, MoveInv, Finished, Loadable, Exists, TypeOK, Content
    <3>2. saved[r] # Absent
          BY <3>1, SavedIsLoadable
    <3>3. folder'[r] # Absent
      <4>1. PICK x \in Receipt : folder' = [folder EXCEPT ![r].receipt = x]
            BY <1>0, <1>2, <2>1 DEF WriteReceipt, OpInv, Receipt
      <4>2. folder'[r] \in Content
            BY <1>0, <3>1, <4>1 DEF TypeOK, Content
      <4> QED BY <4>2, AbsentAssumption
    <3>4. Loadable(r)'
          BY <3>1, <3>3 DEF Loadable, Exists
    <3> QED BY <3>1, <3>2, <3>4 DEF KeepsReport, Stays, Grows
  <2>2. CASE r # op.scan
        BY <1>0, <1>2, <2>2, ReportKept DEF WriteReceipt, In, TypeOK
  <2> QED BY <2>1, <2>2
<1>3. CASE MoveAway
  <2>1. CASE r = op.scan
    <3>1. Loadable(r)
          BY <1>0, <1>3, <2>1 DEF MoveAway, MoveInv, Finished, Loadable
    <3>2. saved[r] # Absent
          BY <3>1, SavedIsLoadable
    <3>3. ~Loadable(r)' /\ saved' = saved /\ op'.at = "evict" /\ op'.scan = r
          BY <1>0, <1>3, <2>1 DEF MoveAway, Step, Loadable, Exists, TypeOK
    <3> QED BY <3>2, <3>3 DEF KeepsReport, Stays
  <2>2. CASE r # op.scan
    <3>1. \A t \in Slots : In(t, r)' => In(t, r) /\ archive'[t] = archive[t]
          BY <1>0, <1>3, <2>2 DEF MoveAway, In, TypeOK
    <3>2. folder'[r] = folder[r] /\ saved' = saved
          BY <1>0, <1>3, <2>2 DEF MoveAway, TypeOK
    <3> QED BY <1>0, <3>1, <3>2, ReportKept
  <2> QED BY <2>1, <2>2
<1>4. CASE MoveBack
  <2>1. CASE r = op.scan
    <3>1. ~Loadable(r) /\ In(op.slot, r) /\ archive[op.slot].named /\ op.slot \in Slots
          BY <1>0, <1>4, <2>1 DEF MoveBack, MoveInv, OpInv, Restorable, In, Loadable
    <3>2. ~Stays(r)
          BY <1>0, <3>1 DEF Stays
    <3> QED BY <3>1, <3>2 DEF KeepsReport
  <2>2. CASE r # op.scan
    <3>1. \A t \in Slots : In(t, r)' => In(t, r) /\ archive'[t] = archive[t]
          BY <1>0, <1>4 DEF MoveBack, In, TypeOK
    <3>2. folder'[r] = folder[r] /\ saved' = saved
          BY <1>0, <1>4, <2>2 DEF MoveBack, TypeOK
    <3> QED BY <1>0, <3>1, <3>2, ReportKept
  <2> QED BY <2>1, <2>2
<1> QED BY <1>1, <1>2, <1>3, <1>4 DEF Thread

\* A report the cache may know, after a step of the folders, looks as it did to any
\* fingerprint that still fits it.
LEMMA KnownIsKept ==
    ASSUME TypeOK, TypeOK', NEW r \in Reports, KeepsReport(r), Stays(r), Loadable(r)',
           NEW stamp \in Stamp, Follows(stamp, folder[r])
    PROVE  /\ Loadable(r) /\ Follows(stamp, folder'[r])
           /\ stamp = Fingerprint(r)' =>
                 /\ stamp = Fingerprint(r) /\ Shown(r)' = Shown(r)
                 /\ folder'[r].rev = folder[r].rev /\ folder'[r].open = folder[r].open
<1>1. Loadable(r) /\ Grows(folder[r], folder'[r])
      BY DEF KeepsReport
<1>2. folder[r] \in Content /\ folder'[r] \in Content
      BY <1>1 DEF TypeOK, Loadable, Exists
<1>3. /\ Follows(stamp, folder'[r])
      /\ stamp = [rev |-> folder'[r].rev, sidecar |-> folder'[r].sidecar] =>
            /\ folder'[r].rev = folder[r].rev /\ folder'[r].open = folder[r].open
            /\ folder'[r].sidecar = folder[r].sidecar
      BY <1>1, <1>2, FollowsOn
<1> QED BY <1>1, <1>3 DEF Fingerprint, Shown, Finished

LEMMA FoldersKeepLibrary ==
    ASSUME CacheInv, TypeOK', \A r \in Reports : KeepsReport(r), UNCHANGED cache
    PROVE  CacheInv'
<1>1. TypeOK /\ row' = row /\ load' = load
      BY DEF CacheInv, LibraryTypeOK, cache
<1>2. LibraryTypeOK' /\ LoadType'
      BY <1>1 DEF CacheInv, LibraryTypeOK, LoadType
<1>3. ASSUME NEW r \in Reports PROVE RowInv(r)'
  <2> SUFFICES ASSUME row[r] # NoRow
               PROVE  /\ Stays(r)'
                      /\ Loadable(r)' =>
                            /\ Follows(row[r].stamp, folder'[r])
                            /\ row[r].stamp = Fingerprint(r)' => row[r].shown = Shown(r)'
      BY <1>1 DEF RowInv
  <2>1. Stays(r) /\ Stays(r)' /\ (Loadable(r)' => Loadable(r)) /\ RowInv(r)
        BY DEF CacheInv, RowInv, KeepsReport
  <2>2. row[r].stamp \in Stamp
        BY DEF CacheInv, LibraryTypeOK, Row
  <2> QED BY <1>1, <2>1, <2>2, KnownIsKept DEF RowInv
<1>4. ASSUME NEW r \in Reports PROVE LoadInv(r)'
  <2> SUFFICES ASSUME load.at # "idle", load.scan = r
               PROVE  /\ Stays(r)'
                      /\ Loadable(r)' =>
                            /\ Follows(load.stamp, folder'[r])
                            /\ load.at = "sidecar" /\ load.stamp = Fingerprint(r)' =>
                                  load.shown = [rev |-> folder'[r].rev, finished |-> ~folder'[r].open]
                            /\ load.at = "insert" /\ load.stamp = Fingerprint(r)' =>
                                  load.shown = Shown(r)'
      BY <1>1 DEF LoadInv
  <2>1. Stays(r) /\ Stays(r)' /\ (Loadable(r)' => Loadable(r)) /\ LoadInv(r)
        BY DEF CacheInv, LoadInv, KeepsReport
  <2>2. load.stamp \in Stamp
        BY DEF CacheInv, LoadType
  <2> QED BY <1>1, <2>1, <2>2, KnownIsKept DEF LoadInv
<1> QED BY <1>2, <1>3, <1>4 DEF CacheInv

\* The row of a removed report goes, and with it what kept its copy from coming back.
LEMMA EvictKeepsLibrary ==
    ASSUME LibraryInv, TypeOK', EvictRemoved
    PROVE  CacheInv'
<1>1. /\ UNCHANGED <<disk, saved, load>> /\ load.at = "idle" /\ op.at = "evict"
      /\ row' = [row EXCEPT ![op.scan] = NoRow]
      BY DEF EvictRemoved, Evict
<1>2. LibraryTypeOK' /\ LoadType'
      BY <1>1 DEF LibraryInv, CacheInv, LibraryTypeOK, LoadType
<1>3. ASSUME NEW r \in Reports PROVE LoadInv(r)'
      BY <1>1 DEF LoadInv
<1>4. ASSUME NEW r \in Reports PROVE RowInv(r)'
  <2>1. CASE r = op.scan
    <3>1. row'[r] = NoRow
          BY <1>1, <2>1 DEF LibraryInv, CacheInv, LibraryTypeOK
    <3> QED BY <3>1 DEF RowInv
  <2>2. CASE r # op.scan
    <3>1. row'[r] = row[r] /\ RowInv(r)
          BY <1>1, <2>2 DEF LibraryInv, CacheInv, LibraryTypeOK
    <3>2. /\ Loadable(r)' = Loadable(r) /\ Fingerprint(r)' = Fingerprint(r) /\ Shown(r)' = Shown(r)
          /\ folder' = folder
          BY <1>1 DEF disk, Loadable, Exists, Fingerprint, Shown, Finished
    <3>3. Stays(r) => Stays(r)'
          BY <1>1, <2>2, <3>2 DEF Stays, disk, In
    <3> QED BY <3>1, <3>2, <3>3 DEF RowInv
  <2> QED BY <2>1, <2>2
<1> QED BY <1>2, <1>3, <1>4 DEF CacheInv

LEMMA CrashKeepsLibrary ==
    ASSUME LibraryInv, TypeOK', CrashAll
    PROVE  CacheInv'
<1>1. row' = [r \in Reports |-> NoRow] /\ load' = NoLoad
      BY DEF CrashAll
<1>2. LibraryTypeOK' /\ LoadType'
      BY <1>1 DEF LibraryTypeOK, LoadType, NoLoad
<1> QED BY <1>1, <1>2 DEF CacheInv, RowInv, LoadInv, NoLoad

LEMMA LoadedIsKnown ==
    ASSUME Inv, NEW r \in Reports, Loadable(r)
    PROVE  /\ Stays(r) /\ folder[r] \in Content
           /\ Fingerprint(r) \in Stamp /\ Shown(r) \in Projection
           /\ Follows(Fingerprint(r), folder[r])
<1>1. folder[r] \in Content /\ folder[r].rev \in 1 .. MaxRev
      BY LoadableType DEF Inv
<1>2. Stays(r)
      BY SavedIsLoadable DEF Stays
<1>3. Finished(folder[r]) \in BOOLEAN
      BY DEF Finished
<1>4. Fingerprint(r) \in Stamp /\ Shown(r) \in Projection
      BY <1>1, <1>3 DEF Fingerprint, Shown, Stamp, Projection, Content
<1>5. Follows(Fingerprint(r), folder[r])
      BY <1>1 DEF Fingerprint, Follows, Content
<1> QED BY <1>1, <1>2, <1>4, <1>5

LEMMA FoldersStay ==
    ASSUME UNCHANGED vars, NEW r \in Reports
    PROVE  /\ Stays(r)' <=> Stays(r)
           /\ Loadable(r)' <=> Loadable(r)
           /\ Fingerprint(r)' = Fingerprint(r) /\ Shown(r)' = Shown(r)
           /\ folder'[r] = folder[r]
<1>1. UNCHANGED <<folder, archive, op, saved>>
      BY DEF vars, disk
<1>2. (Loadable(r)' <=> Loadable(r)) /\ folder'[r] = folder[r]
      BY <1>1 DEF Loadable, Exists
<1>3. Stays(r)' <=> Stays(r)
      BY <1>1, <1>2 DEF Stays, In
<1>4. Fingerprint(r)' = Fingerprint(r) /\ Shown(r)' = Shown(r)
      BY <1>1 DEF Fingerprint, Shown, Finished
<1> QED BY <1>2, <1>3, <1>4

\* A step of a search leaves the folders alone.
LEMMA SearchKeepsLibrary ==
    ASSUME LibraryInv, Search
    PROVE  CacheInv'
<1>0. Inv /\ LibraryTypeOK /\ LoadType /\ (\A r \in Reports : RowInv(r) /\ LoadInv(r))
      BY DEF LibraryInv, CacheInv
<1>1. UNCHANGED vars
      BY DEF Search, Prefer, LoadBegin, LoadPrimary, LoadSidecar, LoadEnd, Insert
<1>2. TypeOK'
      BY <1>0, <1>1 DEF vars, disk, cancelling, LibraryTypeOK, TypeOK
<1>3. ASSUME NEW r \in Reports, row'[r] = NoRow \/ row'[r] = row[r]
      PROVE  RowInv(r)'
  <2>1. CASE row'[r] = NoRow
        BY <2>1 DEF RowInv
  <2>2. CASE row'[r] = row[r]
        BY <1>0, <1>1, <2>2, FoldersStay DEF RowInv
  <2> QED BY <1>3, <2>1, <2>2
<1>4. ASSUME load' = load PROVE LoadType' /\ \A r \in Reports : LoadInv(r)'
  <2>1. LoadType'
        BY <1>0, <1>4 DEF LoadType
  <2>2. ASSUME NEW r \in Reports PROVE LoadInv(r)'
        BY <1>0, <1>1, <1>4, FoldersStay DEF LoadInv
  <2> QED BY <2>1, <2>2
<1>5. ASSUME load' = NoLoad
      PROVE  LoadType' /\ \A r \in Reports : LoadInv(r)'
      BY <1>5 DEF LoadType, LoadInv, NoLoad
<1>6. ASSUME row' = row PROVE \A r \in Reports : RowInv(r)'
      BY <1>3, <1>6
<1>7. CASE \E newest \in SUBSET Reports : Prefer(newest)
  <2>1. load' = load /\ row' \in [Reports -> Row \cup {NoRow}]
        /\ \A r \in Reports : row'[r] = NoRow \/ row'[r] = row[r]
        BY <1>0, <1>7 DEF Prefer, LibraryTypeOK
  <2> QED BY <1>0, <1>2, <1>3, <1>4, <2>1 DEF CacheInv, LibraryTypeOK
<1>8. ASSUME NEW p \in Reports, LoadBegin(p) PROVE CacheInv'
  <2>1. Loadable(p) /\ row' = [row EXCEPT ![p] = NoRow]
        BY <1>8 DEF LoadBegin
  <2>2. load' = [at |-> "primary", scan |-> p, stamp |-> Fingerprint(p), shown |-> NoRow]
        BY <1>8 DEF LoadBegin, NoLoad
  <2>3. row' \in [Reports -> Row \cup {NoRow}]
        /\ \A r \in Reports : row'[r] = NoRow \/ row'[r] = row[r]
        BY <1>0, <2>1 DEF LibraryTypeOK
  <2>4. Stays(p) /\ Fingerprint(p) \in Stamp /\ Follows(Fingerprint(p), folder[p])
        BY <1>0, <2>1, LoadedIsKnown
  <2>5. LibraryTypeOK' /\ LoadType'
        BY <1>2, <2>2, <2>3, <2>4 DEF LibraryTypeOK, LoadType
  <2>6. ASSUME NEW r \in Reports PROVE LoadInv(r)'
    <3>1. CASE r = p
          BY <1>1, <2>2, <2>4, <3>1, FoldersStay DEF LoadInv
    <3>2. CASE r # p
          BY <2>2, <3>2 DEF LoadInv
    <3> QED BY <3>1, <3>2
  <2> QED BY <1>3, <2>3, <2>5, <2>6 DEF CacheInv
<1>9. CASE LoadPrimary
  <2>1. load.at = "primary" /\ row' = row
        BY <1>9 DEF LoadPrimary
  <2>2. PICK p \in Reports : p = load.scan
        BY <1>0, <2>1 DEF LoadType
  <2>3. Loadable(p) /\ LoadInv(p) /\ load.stamp \in Stamp
        BY <1>0, <1>9, <2>1, <2>2 DEF LoadPrimary, LoadType
  <2>4. /\ load'.at = "sidecar" /\ load'.scan = p /\ load'.stamp = load.stamp
        /\ load'.shown = [rev |-> folder[p].rev, finished |-> ~folder[p].open]
        /\ load' = [load EXCEPT !.at = "sidecar", !.shown = load'.shown]
        BY <1>0, <1>9, <2>2 DEF LoadPrimary, LibraryTypeOK
  <2>5. load'.shown \in Projection
    <3>1. folder[p] \in Content /\ folder[p].rev \in 1 .. MaxRev
          BY <1>0, <2>3, LoadableType DEF Inv
    <3> QED BY <2>4, <3>1 DEF Projection, Content
  <2>6. LibraryTypeOK' /\ LoadType'
        BY <1>0, <1>2, <2>1, <2>3, <2>4, <2>5 DEF LibraryTypeOK, LoadType
  <2>7. ASSUME NEW r \in Reports PROVE LoadInv(r)'
    <3>1. CASE r = p
          BY <1>1, <2>1, <2>2, <2>3, <2>4, <3>1, FoldersStay DEF LoadInv
    <3>2. CASE r # p
          BY <2>4, <3>2 DEF LoadInv
    <3> QED BY <3>1, <3>2
  <2> QED BY <1>6, <2>1, <2>6, <2>7 DEF CacheInv
<1>10. CASE LoadSidecar
  <2>1. load.at = "sidecar" /\ row' = row
        BY <1>10 DEF LoadSidecar
  <2>2. PICK p \in Reports : p = load.scan
        BY <1>0, <2>1 DEF LoadType
  <2>3. LoadInv(p) /\ load.stamp \in Stamp /\ load.shown \in Projection
        BY <1>0, <2>1, <2>2 DEF LoadType
  <2> DEFINE seen == /\ Loadable(p) /\ folder[p].sidecar
                     /\ folder[p].rev = load.shown.rev
  <2>4. load' = [load EXCEPT !.at = "insert",
                             !.shown = [load.shown EXCEPT !.finished = @ \/ seen]]
        BY <1>0, <1>10, <2>2, <2>3 DEF LoadSidecar, LibraryTypeOK, Projection
  <2>5. /\ load'.at = "insert" /\ load'.scan = p /\ load'.stamp = load.stamp
        /\ load'.shown = [load.shown EXCEPT !.finished = @ \/ seen]
        BY <1>0, <2>2, <2>4 DEF LibraryTypeOK
  <2>6. /\ load'.shown \in Projection /\ load'.shown.rev = load.shown.rev
        /\ load'.shown.finished = (load.shown.finished \/ seen)
        BY <2>3, <2>5 DEF Projection
  <2>7. LibraryTypeOK' /\ LoadType'
        BY <1>0, <1>2, <2>1, <2>3, <2>4, <2>5, <2>6 DEF LibraryTypeOK, LoadType
  <2>8. Loadable(p) /\ load.stamp = Fingerprint(p) => load'.shown = Shown(p)
    <3> SUFFICES ASSUME Loadable(p), load.stamp = Fingerprint(p) PROVE load'.shown = Shown(p)
        OBVIOUS
    <3>1. folder[p] \in Content /\ folder[p].rev > 0 /\ Shown(p) \in Projection
          BY <1>0, LoadedIsKnown DEF Loadable
    <3>2. load.shown.rev = folder[p].rev /\ load.shown.finished = ~folder[p].open
          BY <2>1, <2>2, <2>3 DEF LoadInv
    <3>3. Shown(p).rev = folder[p].rev /\ Shown(p).finished = (~folder[p].open \/ folder[p].sidecar)
          BY <3>1 DEF Shown, Finished
    <3>4. load'.shown.rev = Shown(p).rev /\ load'.shown.finished = Shown(p).finished
          BY <2>6, <3>1, <3>2, <3>3
    <3> QED BY <2>6, <3>1, <3>4 DEF Projection
  <2>9. ASSUME NEW r \in Reports PROVE LoadInv(r)'
    <3>1. CASE r = p
          BY <1>1, <2>1, <2>2, <2>3, <2>5, <2>8, <3>1, FoldersStay DEF LoadInv
    <3>2. CASE r # p
          BY <2>5, <3>2 DEF LoadInv
    <3> QED BY <3>1, <3>2
  <2> QED BY <1>6, <2>1, <2>7, <2>9 DEF CacheInv
<1>11. CASE LoadEnd
  <2>1. load' = NoLoad /\ row' = row
        BY <1>11 DEF LoadEnd
  <2>2. LibraryTypeOK'
        BY <1>0, <1>2, <2>1 DEF LibraryTypeOK, NoLoad
  <2> QED BY <1>5, <1>6, <2>1, <2>2 DEF CacheInv
<1>12. CASE Insert
  <2>1. load.at = "insert" /\ load' = NoLoad
        BY <1>12 DEF Insert
  <2>2. PICK p \in Reports : p = load.scan
        BY <1>0, <2>1 DEF LoadType
  <2>3. /\ LoadInv(p) /\ load.stamp \in Stamp /\ load.shown \in Projection
        /\ Loadable(p) /\ load.stamp = Fingerprint(p)
        BY <1>0, <1>12, <2>1, <2>2 DEF Insert, LoadType
  <2>4. PICK others \in SUBSET (Reports \ {p}) :
            row' = [r \in Reports |->
                      IF r = p THEN [stamp |-> load.stamp, shown |-> load.shown]
                      ELSE IF r \in others THEN row[r] ELSE NoRow]
        BY <1>12, <2>2 DEF Insert
  <2>5. /\ row'[p].stamp = load.stamp /\ row'[p].shown = load.shown
        /\ \A r \in Reports \ {p} : row'[r] = NoRow \/ row'[r] = row[r]
        BY <2>4
  <2>6. row' \in [Reports -> Row \cup {NoRow}]
        BY <1>0, <2>3, <2>4 DEF LibraryTypeOK, Row
  <2>7. LibraryTypeOK'
        BY <1>0, <1>2, <2>1, <2>6 DEF LibraryTypeOK, NoLoad
  <2>8. RowInv(p)'
    <3>1. Stays(p) /\ Follows(load.stamp, folder[p]) /\ load.shown = Shown(p)
          BY <2>1, <2>2, <2>3 DEF LoadInv
    <3> QED BY <1>1, <2>3, <2>5, <3>1, FoldersStay DEF RowInv
  <2>9. \A r \in Reports : RowInv(r)'
        BY <1>3, <2>5, <2>8
  <2> QED BY <1>5, <2>1, <2>7, <2>9 DEF CacheInv
<1> QED BY <1>7, <1>8, <1>9, <1>10, <1>11, <1>12 DEF Search

LEMMA LibraryInitInv == LibraryInit => LibraryInv
<1> SUFFICES ASSUME LibraryInit PROVE LibraryInv
    OBVIOUS
<1>1. Inv /\ TypeOK
      BY InitInv DEF LibraryInit, Inv
<1>2. row = [r \in Reports |-> NoRow] /\ load = NoLoad
      BY DEF LibraryInit
<1>3. LibraryTypeOK /\ LoadType
      BY <1>1, <1>2 DEF LibraryTypeOK, LoadType, NoLoad
<1>4. \A r \in Reports : RowInv(r) /\ LoadInv(r)
      BY <1>2 DEF RowInv, LoadInv, NoLoad
<1> QED BY <1>1, <1>3, <1>4 DEF LibraryInv, CacheInv

\* What a step of the library is for the folders under it.
LEMMA LibraryStep == [LibraryNext]_libraryVars => [Next]_vars
BY DEF LibraryNext, libraryVars, Next, EvictRemoved, CrashAll, Thread, Search, Prefer, LoadBegin,
       LoadPrimary, LoadSidecar, LoadEnd, Insert

LEMMA NextLibraryInv == LibraryInv /\ [LibraryNext]_libraryVars => LibraryInv'
<1> SUFFICES ASSUME LibraryInv, [LibraryNext]_libraryVars PROVE LibraryInv'
    OBVIOUS
<1>1. Inv /\ CacheInv /\ Inv' /\ TypeOK'
      BY LibraryStep, NextInv DEF LibraryInv, Inv
<1>2. ASSUME \A r \in Reports : KeepsReport(r), UNCHANGED cache PROVE CacheInv'
      BY <1>1, <1>2, FoldersKeepLibrary
<1>3. ASSUME NEW p \in Reports, Work(p), UNCHANGED cache PROVE CacheInv'
      BY <1>1, <1>2, <1>3, WorkKeepsReport
<1>4. ASSUME Call, UNCHANGED cache PROVE CacheInv'
      BY <1>1, <1>2, <1>4, CallKeepsReport
<1>5. ASSUME Thread, UNCHANGED cache PROVE CacheInv'
      BY <1>1, <1>2, <1>5, ThreadKeepsReport
<1>6. ASSUME EvictRemoved PROVE CacheInv'
      BY <1>1, <1>6, EvictKeepsLibrary
<1>7. ASSUME CrashAll PROVE CacheInv'
      BY <1>1, <1>7, CrashKeepsLibrary
<1>8. ASSUME Search PROVE CacheInv'
      BY <1>8, SearchKeepsLibrary
<1>9. ASSUME UNCHANGED libraryVars PROVE CacheInv'
  <2>1. UNCHANGED vars /\ UNCHANGED cache /\ TypeOK
        BY <1>1, <1>9 DEF libraryVars, Inv
  <2>2. UNCHANGED <<folder, archive, op, saved>>
        BY <2>1 DEF vars, disk
  <2>3. ASSUME NEW r \in Reports PROVE KeepsReport(r)
        BY <2>1, <2>2, ReportKept DEF In
  <2> QED BY <1>2, <2>1, <2>3
<1> QED BY <1>1, <1>3, <1>4, <1>5, <1>6, <1>7, <1>8, <1>9 DEF LibraryNext, LibraryInv

\* The inductive invariant of the library over its folders holds.
THEOREM LibraryInvariance == LibrarySpec => []LibraryInv
BY LibraryInitInv, NextLibraryInv, PTL DEF LibrarySpec

\* Rows, the load in progress and the folders under them keep their types.
THEOREM LibraryTypeCorrect == LibrarySpec => []LibraryTypeOK
<1>1. LibraryInv => LibraryTypeOK
      BY DEF LibraryInv, CacheInv
<1> QED BY LibraryInvariance, <1>1, PTL

\* LibraryCache: a row that still fits a report's files shows the report as a full load
\* would, through writes during its own load, removals, restores and crashes.
THEOREM RowsAreCurrent == LibrarySpec => []CachedRowIsCurrent
<1>1. LibraryInv => CachedRowIsCurrent
      BY DEF LibraryInv, CacheInv, RowInv, CachedRowIsCurrent
<1> QED BY LibraryInvariance, <1>1, PTL

\* A search takes no part in what happens to the folders: with the cache and its lock,
\* everything proved of the folders without it still holds.
THEOREM LibraryKeepsTrash == LibrarySpec => Spec
<1>1. LibraryInit => Init
      BY DEF LibraryInit
<1> QED BY <1>1, LibraryStep, PTL DEF LibrarySpec, Spec

=============================================================================
