------------------------------ MODULE ReportTrash ------------------------------
(***************************************************************************)
(* Removing saved reports and restoring them: ReportTrash in                *)
(* src/app/storage/report_trash.py, called by delete_reports and            *)
(* restore_reports of the supervisor, with the other callers that touch a   *)
(* report's folder meanwhile.                                               *)
(*                                                                          *)
(*   scans/<id>/                 folder[r]                                  *)
(*   .trash/<name>/              archive[t]; `named` if the name is the     *)
(*                               UUID of a receipt, as ReportTrash gives it *)
(*   .removal-receipt.json       content.receipt                            *)
(*                                                                          *)
(* A batch holds the supervisor's admission lock; one removal or restore of *)
(* it runs in a thread, under report-trash.lock and the report's file lock. *)
(* Both locks have no other state than where that thread is (Locked).       *)
(* Saves, edits and raw output take the report's lock for one step here,    *)
(* ReportStore has the files behind one of them.                            *)
(***************************************************************************)
EXTENDS Naturals, FiniteSets

CONSTANTS
    Reports,
    Slots,        \* names in .trash
    MaxReports,   \* max_reports of the trash
    Lively,       \* bound: the reports that are ever started, or whose notes are edited
    Absent,       \* no such folder
    NoReceipt,
    MaxRev,       \* bound: no write starts from a revision this high
    MaxNotes,     \* bound: the same for annotations.json
    MaxCrashes    \* bound: process crashes

ASSUME LimitAssumption == MaxReports \in Nat /\ MaxCrashes \in Nat
ASSUME RevisionAssumption == MaxRev \in Nat \ {0} /\ MaxNotes \in Nat \ {0}
ASSUME NamesAssumption == {"free", "trash"} \cap Reports = {} /\ Reports \cap Slots = {}

VARIABLES
    folder,
    archive,
    job,         \* what the registries and the start handlers know to run for a report
    loose,       \* AI tasks at work that are in no registry
    canceller,   \* the tail of a call of cancel()
    late,        \* reports whose raw output a cancelled run left to a thread
    admission,   \* who holds the admission lock
    op,          \* the removal or restore in progress
    saved,       \* history: the revisions last saved of each report
    crashes

disk == <<folder, archive>>
cancelling == <<loose, canceller>>
vars == <<disk, job, cancelling, late, admission, op, saved, crashes>>

Revision == [rev : 0 .. MaxRev, notes : 1 .. MaxNotes]

Receipt == [slot : Slots, reviewed : Revision]

\* rev 0: a folder without scan.json.  sidecar: terminal.json closes the report
\* under the revision that scan.json has.
Content == [rev : 0 .. MaxRev, open : BOOLEAN, sidecar : BOOLEAN,
            notes : 1 .. MaxNotes, receipt : Receipt \cup {NoReceipt}]

Archive == [scan : Reports, named : BOOLEAN, content : Content]

ASSUME AbsentAssumption ==
    /\ Absent \notin Revision /\ Absent \notin Content /\ Absent \notin Archive
    /\ NoReceipt \notin Receipt

Exists(r) == folder[r] # Absent

\* _load_scan finds a document.
Loadable(r) == Exists(r) /\ folder[r].rev > 0

\* phase finished, neither queued nor running, no wording being prepared
Finished(c) == c.rev > 0 /\ (~c.open \/ c.sidecar)

\* is_active or is_analysis_active
Registered(r) == job[r] \in {"scan", "wording", "ending"}

Working(r) == job[r] \in {"scan", "wording"} \/ loose[r] > 0

NoCancel == [at |-> "idle", scan |-> Absent]

Idle == [at |-> "none", kind |-> "delete", scan |-> Absent, slot |-> Absent,
         reviewed |-> Absent, cancelled |-> FALSE]

\* Mutant: the report's lock covers the checks and not the move.
LockedForChecks(r) == op.scan = r /\ op.at = "check"

\* The thread holds the report's lock (and report-trash.lock).
Locked(r) == op.scan = r /\ op.at \in {"check", "move", "evict"}

Init ==
    /\ folder = [r \in Reports |-> Absent]
    /\ archive = [t \in Slots |-> Absent]
    /\ job = [r \in Reports |-> "none"]
    /\ loose = [r \in Reports |-> 0]
    /\ canceller = NoCancel
    /\ late = {}
    /\ admission = "free"
    /\ op = Idle
    /\ saved = [r \in Reports |-> Absent]
    /\ crashes = 0

-----------------------------------------------------------------------------
(* Scans, AI retries and edits *)

Revisions(c) == [rev |-> c.rev, notes |-> c.notes]

\* A write of a report under its lock.
Put(r, c) ==
    /\ ~Locked(r)
    /\ folder' = [folder EXCEPT ![r] = c]
    /\ saved' = [saved EXCEPT ![r] = Revisions(c)]
    /\ UNCHANGED <<archive, op, crashes>>

Becomes(r, what) == job' = [job EXCEPT ![r] = what]

\* create_scan, before the supervisor is asked to start it.
Create(r) ==
    /\ saved[r] = Absent
    /\ Put(r, [rev |-> 1, open |-> TRUE, sidecar |-> FALSE, notes |-> 1, receipt |-> NoReceipt])
    /\ Becomes(r, "starting")
    /\ UNCHANGED <<cancelling, late, admission>>

Start(r) ==
    /\ job[r] = "starting" /\ admission = "free" /\ r \in Lively
    /\ Becomes(r, "scan")
    /\ UNCHANGED <<disk, cancelling, late, admission, op, saved, crashes>>

\* _delete_scan of a report whose start was refused: into the trash without a
\* receipt, and without report-trash.lock.
Refuse(r) ==
    /\ job[r] = "starting" /\ ~Locked(r)
    /\ \E t \in Slots :
          /\ archive[t] = Absent
          /\ archive' = [archive EXCEPT ![t] = [scan |-> r, named |-> FALSE,
                                                content |-> folder[r]]]
    /\ folder' = [folder EXCEPT ![r] = Absent]
    /\ Becomes(r, "none")
    /\ UNCHANGED <<cancelling, late, admission, op, saved, crashes>>

\* A checkpoint of the job, or a refresh of the guidance of a finished report.  An
\* AI task whose report was closed under it also marks its wording as running again,
\* for which a removal refuses it like any other (Fail).
Save(r) ==
    /\ Loadable(r) /\ folder[r].rev < MaxRev
    /\ Working(r) \/ (job[r] = "none" /\ admission = "free" /\ Finished(folder[r]))
    /\ Put(r, [folder[r] EXCEPT !.rev = @ + 1, !.open = ~Finished(folder[r]),
                                !.sidecar = FALSE])
    /\ UNCHANGED <<job, cancelling, late, admission>>

\* finish_scan: in scan.json, or beside it when the report is full.
Close(r) ==
    /\ Loadable(r)
    /\ \/ /\ folder[r].rev < MaxRev
          /\ Put(r, [folder[r] EXCEPT !.rev = @ + 1, !.open = FALSE, !.sidecar = FALSE])
       \/ Put(r, [folder[r] EXCEPT !.sidecar = TRUE])

Finish(r) ==
    /\ job[r] \in {"scan", "wording"} /\ Close(r)
    /\ Becomes(r, "ending")
    /\ UNCHANGED <<cancelling, late, admission>>

\* The task of a finished job leaves the registries, perhaps with a thread of
\* its scan still at work.
Exit(r) ==
    /\ job[r] = "ending"
    /\ Becomes(r, "none")
    /\ late' \in {late, late \cup {r}}
    /\ UNCHANGED <<disk, cancelling, admission, op, saved, crashes>>

\* _save_raw_output makes the folder it needs; in one that exists it adds a file.
LateOutput(r) ==
    /\ r \in late /\ ~Locked(r)
    /\ late' = late \ {r}
    /\ folder' = IF Exists(r) THEN folder
                 ELSE [folder EXCEPT ![r] = [rev |-> 0, open |-> FALSE, sidecar |-> FALSE,
                                             notes |-> 1, receipt |-> NoReceipt]]
    /\ UNCHANGED <<archive, job, cancelling, admission, op, saved, crashes>>

\* request_explanations takes the admission lock and looks at the report ...
RetryBegin(r) ==
    /\ admission = "free" /\ ~Registered(r)
    /\ Loadable(r) /\ Finished(folder[r]) /\ folder[r].rev < MaxRev
    /\ admission' = r
    /\ UNCHANGED <<disk, job, cancelling, late, op, saved, crashes>>

\* ... reopens it and registers its job, or gives up when a write fails.
RetryOpen(r) ==
    /\ admission = r /\ admission' = "free"
    /\ \/ /\ folder[r].rev < MaxRev
          /\ Put(r, [folder[r] EXCEPT !.rev = @ + 1, !.open = TRUE, !.sidecar = FALSE])
          /\ Becomes(r, "wording")
       \/ UNCHANGED <<disk, op, saved, crashes, job>>
    /\ UNCHANGED <<cancelling, late>>

\* An edit of the notes (AnnotationStore._update) loads the report first.
EditNotes(r) ==
    /\ r \in Lively /\ Loadable(r) /\ folder[r].notes < MaxNotes
    /\ Put(r, [folder[r] EXCEPT !.notes = @ + 1])
    /\ UNCHANGED <<job, cancelling, late, admission>>

CancelStep(r, from, to) ==
    /\ canceller = IF from = "idle" THEN NoCancel ELSE [at |-> from, scan |-> r]
    /\ canceller' = IF to = "idle" THEN NoCancel ELSE [at |-> to, scan |-> r]

\* cancel() has waited for the AI task it cancelled: for its end, or for nothing when
\* the task had not taken its first step, which leaves the report open.
CancelWaited(r) ==
    /\ CancelStep(r, "idle", "load")
    /\ \/ job[r] = "ending" /\ UNCHANGED job
       \/ job[r] = "scan" /\ Becomes(r, "ending")
       \/ job[r] = "wording" /\ Becomes(r, "none")
    /\ UNCHANGED <<disk, loose, late, admission, op, saved, crashes>>

\* It then loads the report, which a removal may have taken: that, or a failing read,
\* ends the call ...
CancelLoads(r) ==
    /\ \/ CancelStep(r, "load", "idle")
       \/ Loadable(r) /\ Finished(folder[r]) /\ CancelStep(r, "load", "pop")
       \/ Loadable(r) /\ ~Finished(folder[r]) /\ CancelStep(r, "load", "close")
    /\ UNCHANGED <<disk, job, loose, late, admission, op, saved, crashes>>

\* ... closes one that was open, be it by a retry that began meanwhile; a missing
\* report is logged, a write that fails ends the call ...
CancelCloses(r) ==
    /\ \/ CancelStep(r, "close", "pop") /\ Close(r)
       \/ /\ \E to \in {"pop", "idle"} : CancelStep(r, "close", to)
          /\ UNCHANGED <<disk, op, saved, crashes>>
    /\ UNCHANGED <<job, loose, late, admission>>

\* An AI task that is registered for a report leaves the registry still at work.
Loosen(r, others) ==
    IF job[r] = "wording"
      THEN Becomes(r, "none") /\ loose' = [loose EXCEPT ![r] = others + 1]
      ELSE loose' = [loose EXCEPT ![r] = others] /\ UNCHANGED job

\* ... and forgets whatever AI task is registered for the report by now.
CancelPops(r) ==
    /\ CancelStep(r, "pop", "idle")
    /\ Loosen(r, loose[r])
    /\ UNCHANGED <<disk, late, admission, op, saved, crashes>>

\* An AI task in no registry still closes its report, if it finds it, ...
LooseFinish(r) ==
    /\ loose[r] > 0 /\ Close(r)
    /\ UNCHANGED <<job, cancelling, late, admission>>

\* ... and pops the entry of another task when it ends.
LooseEnd(r) ==
    /\ loose[r] > 0 /\ Loosen(r, loose[r] - 1)
    /\ UNCHANGED <<disk, canceller, late, admission, op, saved, crashes>>

-----------------------------------------------------------------------------
(* One call of delete_reports or restore_reports *)

Step(to) == op' = [op EXCEPT !.at = to]

\* The result of one target.  A cancelled call goes no further, and only now
\* gives up the admission lock: _complete_thread waits for the thread.
Done ==
    IF op.cancelled
      THEN op' = Idle /\ admission' = "free"
      ELSE op' = [op EXCEPT !.at = "batch", !.scan = Absent, !.slot = Absent,
                             !.reviewed = Absent]
           /\ UNCHANGED admission

Begin(kind) ==
    /\ admission = "free" /\ admission' = "trash"
    /\ op' = [Idle EXCEPT !.at = "batch", !.kind = kind]
    /\ UNCHANGED <<disk, job, cancelling, late, saved, crashes>>

End ==
    /\ op.at = "batch"
    /\ op' = Idle /\ admission' = "free"
    /\ UNCHANGED <<disk, job, cancelling, late, saved, crashes>>

\* The client went away or the server shuts down.
Cancel ==
    /\ op.at \notin {"none", "batch"} /\ ~op.cancelled
    /\ op' = [op EXCEPT !.cancelled = TRUE]
    /\ UNCHANGED <<disk, job, cancelling, late, admission, saved, crashes>>

\* Mutant: whether a job uses the report is left to the report.
TargetUnchecked(r) ==
    /\ op.at = "batch" /\ op.kind = "delete" /\ Loadable(r)
    /\ op' = [op EXCEPT !.at = "delete", !.scan = r,
                        !.reviewed = Revisions(folder[r])]
    /\ UNCHANGED <<disk, job, cancelling, late, admission, saved, crashes>>

\* The next report, reviewed at these revisions (older ones can only be refused);
\* one with a job of the supervisor is refused here.
Target(r) ==
    /\ op.at = "batch" /\ op.kind = "delete"
    /\ ~Registered(r) /\ Loadable(r)
    /\ op' = [op EXCEPT !.at = "delete", !.scan = r,
                        !.reviewed = Revisions(folder[r])]
    /\ UNCHANGED <<disk, job, cancelling, late, admission, saved, crashes>>

\* Every other result: missing, active, changed, the trash is full, a lock timed
\* out, or a check, read or file operation raised.
Fail ==
    /\ op.at \in {"delete", "restore", "check", "move"}
    /\ Done
    /\ UNCHANGED <<disk, job, cancelling, late, saved, crashes>>

Lock ==
    /\ op.at = "delete" /\ Exists(op.scan)
    /\ Step("check")
    /\ UNCHANGED <<disk, job, cancelling, late, admission, saved, crashes>>

Used == {t \in Slots : archive[t] # Absent}

\* Under both locks: finished, unchanged since it was reviewed, and room in
\* the trash.  Only then is the receipt written, into the report's own folder.
WriteReceipt ==
    /\ op.at = "check" /\ op.kind = "delete"
    /\ Finished(folder[op.scan])
    /\ Revisions(folder[op.scan]) = op.reviewed
    /\ Cardinality(Used) < MaxReports
    /\ \E t \in Slots \ Used :
          /\ op' = [op EXCEPT !.at = "move", !.slot = t]
          /\ folder' = [folder EXCEPT ![op.scan].receipt =
                           [slot |-> t, reviewed |-> op.reviewed]]
    /\ UNCHANGED <<archive, job, cancelling, late, admission, saved, crashes>>

\* Mutant: copy, then erase, and the files are still open.
CopyAway ==
    /\ op.at = "move" /\ op.kind = "delete" /\ op.slot \notin Used
    /\ archive' = [archive EXCEPT ![op.slot] = [scan |-> op.scan, named |-> TRUE,
                                                content |-> folder[op.scan]]]
    /\ Step("evict")
    /\ UNCHANGED <<folder, job, cancelling, late, admission, saved, crashes>>

\* One rename publishes the removal.
MoveAway ==
    /\ op.at = "move" /\ op.kind = "delete" /\ op.slot \notin Used
    /\ archive' = [archive EXCEPT ![op.slot] = [scan |-> op.scan, named |-> TRUE,
                                                content |-> folder[op.scan]]]
    /\ folder' = [folder EXCEPT ![op.scan] = Absent]
    /\ Step("evict")
    /\ UNCHANGED <<job, cancelling, late, admission, saved, crashes>>

\* The removal is done; the report's row leaves the library cache (see
\* ReportLibrary) before the locks are given up.
Evict ==
    /\ op.at = "evict"
    /\ Done
    /\ UNCHANGED <<disk, job, cancelling, late, saved, crashes>>

\* Everything list_reports and _restore ask of a recovery copy.
Restorable(t) ==
    LET c == archive[t].content
    IN  /\ archive[t] # Absent /\ archive[t].named
        /\ c.receipt # NoReceipt /\ c.receipt.slot = t /\ c.receipt.reviewed = Revisions(c)
        /\ Finished(c)

RestoreTarget(t) ==
    /\ op.at = "batch" /\ op.kind = "restore"
    /\ op' = [op EXCEPT !.at = "restore", !.slot = t]
    /\ UNCHANGED <<disk, job, cancelling, late, admission, saved, crashes>>

CheckCopy ==
    /\ op.at = "restore" /\ Restorable(op.slot) /\ ~Exists(archive[op.slot].scan)
    /\ op' = [op EXCEPT !.at = "move", !.scan = archive[op.slot].scan]
    /\ UNCHANGED <<disk, job, cancelling, late, admission, saved, crashes>>

MoveBack ==
    /\ op.at = "move" /\ op.kind = "restore"
    /\ folder' = [folder EXCEPT ![op.scan] = archive[op.slot].content]
    /\ archive' = [archive EXCEPT ![op.slot] = Absent]
    /\ Done
    /\ UNCHANGED <<job, cancelling, late, saved, crashes>>

-----------------------------------------------------------------------------

\* The process dies and starts again; reconciliation closes the open reports.
Crash ==
    /\ crashes < MaxCrashes /\ crashes' = crashes + 1
    /\ \A r \in Reports : Loadable(r) /\ ~Finished(folder[r]) => folder[r].rev < MaxRev
    /\ LET closed == [r \in Reports |->
                        IF Loadable(r) /\ ~Finished(folder[r])
                          THEN [folder[r] EXCEPT !.rev = @ + 1, !.open = FALSE]
                          ELSE folder[r]]
       IN  /\ folder' = closed
           /\ saved' = [r \in Reports |->
                           IF Loadable(r) THEN Revisions(closed[r]) ELSE saved[r]]
    /\ job' = [r \in Reports |-> "none"]
    /\ loose' = [r \in Reports |-> 0] /\ canceller' = NoCancel
    /\ late' = {} /\ admission' = "free" /\ op' = Idle
    /\ UNCHANGED archive

Work(r) ==
    \/ Create(r) \/ Start(r) \/ Refuse(r) \/ Save(r) \/ Finish(r) \/ Exit(r)
    \/ LateOutput(r) \/ RetryBegin(r) \/ RetryOpen(r) \/ EditNotes(r)
    \/ CancelWaited(r) \/ CancelLoads(r) \/ CancelCloses(r) \/ CancelPops(r)
    \/ LooseFinish(r) \/ LooseEnd(r)

Thread == Lock \/ WriteReceipt \/ MoveAway \/ CheckCopy \/ MoveBack \/ Fail

Call ==
    \/ \E kind \in {"delete", "restore"} : Begin(kind)
    \/ \E r \in Reports : Target(r)
    \/ \E t \in Slots : RestoreTarget(t)
    \/ End \/ Cancel

Next == (\E r \in Reports : Work(r)) \/ Call \/ Thread \/ Evict \/ Crash

Spec == Init /\ [][Next]_vars

-----------------------------------------------------------------------------

TypeOK ==
    /\ folder \in [Reports -> Content \cup {Absent}]
    /\ archive \in [Slots -> Archive \cup {Absent}]
    /\ job \in [Reports -> {"none", "starting", "scan", "wording", "ending"}]
    /\ loose \in [Reports -> Nat]
    /\ canceller \in [at : {"idle", "load", "close", "pop"}, scan : Reports \cup {Absent}]
    /\ late \subseteq Reports
    /\ admission \in Reports \cup {"free", "trash"}
    /\ op \in [at : {"none", "batch", "delete", "restore", "check", "move", "evict"},
               kind : {"delete", "restore"},
               scan : Reports \cup {Absent}, slot : Slots \cup {Absent},
               reviewed : Revision \cup {Absent}, cancelled : BOOLEAN]
    /\ saved \in [Reports -> Revision \cup {Absent}]
    /\ crashes \in 0 .. MaxCrashes

\* A report goes to the trash exactly as the user reviewed it, finished and at
\* the revisions of its receipt, whatever is saved or edited meanwhile: every
\* recovery copy with a receipt can be restored.
ArchivedAsReviewed ==
    \A t \in Slots : archive[t] # Absent /\ archive[t].named => Restorable(t)

Places(r) ==
    {t \in Slots : archive[t] # Absent /\ archive[t].scan = r} \cup
    {p \in {r} : Loadable(r)}

\* Through removals, restores, refused starts, failures and crashes between any
\* two steps, and a raw output that makes the folder of a removed report again,
\* what was last saved of a report is in exactly one place.
NothingIsLost ==
    \A r \in Reports : saved[r] # Absent =>
       /\ Cardinality(Places(r)) = 1
       /\ \A p \in Places(r) :
             saved[r] = Revisions(IF p \in Slots THEN archive[p].content ELSE folder[p])

\* No report is moved away from a start, a scan or an AI task that the registries or
\* a start handler know, whatever was cancelled, retried or saved.  It says nothing of
\* an AI task that a cancel() has unregistered: such a task may lose its report, which
\* contradicts the documentation (RemovalWaitsForJobs in ScanJobs).
JobKeepsReport == \A r \in Reports : job[r] # "none" => Loadable(r)

=============================================================================
