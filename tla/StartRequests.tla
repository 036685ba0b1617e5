---------------------------- MODULE StartRequests ----------------------------
(***************************************************************************)
(* The journal of scan starts: StartRequests in                             *)
(* src/app/jobs/start_requests.py, with the part of a start that is in      *)
(* src/app/api/scans.py.  A client names its intention by an operation and   *)
(* may send it again, or ask for its fate, when a reply was lost.  The      *)
(* receipt of an operation reserves the identifier of its scan, so the scan *)
(* is named here by the operation.                                          *)
(*                                                                          *)
(* `journal` and `backup` are scan-starts.json and its previous version;    *)
(* every transaction runs in a thread under the file lock, and the first    *)
(* submit of an operation creates a task (_run) no caller can cancel.  An   *)
(* action is what happens between two awaits, or what a thread does for     *)
(* some coroutine that awaits it; a read whose result is used after the     *)
(* await is an action apart from the use.                                   *)
(***************************************************************************)
EXTENDS Naturals, FiniteSets

CONSTANTS
    Operations, Clients, Settings,
    MaxTasks,      \* starts being prepared at a time
    MaxReceipts,   \* receipts the journal holds
    Nobody,        \* no client holds the admission lock
    Nothing,       \* no receipt, no request, no settings
    Absent, Damaged,
    MaxRequests,   \* bound: requests of all clients
    MaxTroubles,   \* bound: operations that raise and losses of the journal, together
    MaxStops       \* bound: shutdowns and crashes of the process

ASSUME CapacityAssumption == MaxTasks \in Nat \ {0} /\ MaxReceipts \in Nat
ASSUME NobodyAssumption == Nobody \notin Clients
ASSUME StartBoundsAssumption == MaxRequests \in Nat /\ MaxTroubles \in Nat /\ MaxStops \in Nat

VARIABLES
    journal, backup,
    report,      \* the report of each operation's scan
    scanned,     \* the settings each operation's task was created with
    active,      \* the scans the supervisor runs
    started,     \* history: calls of supervisor.start that registered a job
    removed,     \* history: the reports the user has moved to the trash
    run,         \* where each operation's task is
    late,        \* what a thread of a cancelled task still has to do
    pc,          \* where each client's request is
    request,     \* the last request of each client
    receipt,     \* the receipt its handler has read
    seen,        \* the report its handler has read
    answer,      \* what the client was told
    admission,   \* the client whose handler holds the admission lock
    mode,        \* the process: up, stopping or down
    requests, troubles, stops

files == <<journal, backup>>
scans == <<report, active, started, removed>>
tasks == <<run, late, scanned>>
handlers == <<pc, request, receipt, seen, answer, admission>>
counts == <<requests, troubles, stops>>
vars == <<files, scans, tasks, handlers, mode, counts>>

Receipt == [settings : Settings, state : {"preparing", "accepted", "rejected", "interrupted"}]

Request == [kind : {"submit"}, op : Operations, settings : Settings]
             \cup [kind : {"status"}, op : Operations, settings : {Nothing}]

Journal == [Operations -> Receipt \cup {Nothing}]

ASSUME AbsentAssumption ==
    Nothing \notin Receipt \cup Request \cup Settings /\ Absent # Damaged /\ {Absent, Damaged} \cap Journal = {}

Empty == [o \in Operations |-> Nothing]

\* A report is finished by its job, by a cancelled start or by a restart, and not finished
\* again while an AI retry is at it.
Reports == {"none", "queued", "finished", "explaining", "removed"}

Unfinished(r) == r \in {"queued", "explaining"}

Loadable(o) == report[o] \notin {"none", "removed"}

\* self.tasks
Preparing == {o \in Operations : run[o] \notin {"none", "ok", "failed"}}

-----------------------------------------------------------------------------
(* The journal *)

\* Mutant: the backup stands in for a lost journal, as it does for other files.
LoadWithBackup ==
    IF journal \in Journal THEN journal
    ELSE IF backup \in Journal THEN backup ELSE IF journal = Absent THEN Empty ELSE Damaged

Load == IF journal = Absent /\ backup = Absent THEN Empty
        ELSE IF journal \in Journal THEN journal ELSE Damaged

Readable == Load # Damaged

Trouble == troubles < MaxTroubles /\ troubles' = troubles + 1 /\ UNCHANGED <<requests, stops>>

Untroubled == UNCHANGED counts

\* _atomic_write: the backup, then the journal.
Write(j) == journal' = j /\ backup' = IF journal = Absent THEN backup ELSE journal

\* A write that raises leaves the journal, with or without the new backup.
WriteRaises == UNCHANGED journal /\ backup' \in {backup, journal}

Has(o) == IF Readable THEN Load[o] # Nothing ELSE FALSE

Recorded(o, state) == [Load EXCEPT ![o].state = state]

Full == Cardinality({o \in Operations : Has(o)}) >= MaxReceipts

\* _access with a new state: it is saved, or the task sees the HTTPException.
SetState(o, state) == Has(o) /\ Write(Recorded(o, state)) /\ Untroubled

SetStateRaises(o) ==
    \/ Has(o) /\ WriteRaises /\ Trouble
    \/ ~Has(o) /\ UNCHANGED files /\ Untroubled

Init ==
    /\ journal = Absent /\ backup = Absent
    /\ report = [o \in Operations |-> "none"]
    /\ scanned = [o \in Operations |-> Nothing]
    /\ active = [o \in Operations |-> FALSE]
    /\ started = [o \in Operations |-> 0]
    /\ removed = {}
    /\ run = [o \in Operations |-> "none"]
    /\ late = [o \in Operations |-> "none"]
    /\ pc = [c \in Clients |-> "idle"]
    /\ request = [c \in Clients |-> Nothing]
    /\ receipt = [c \in Clients |-> Nothing]
    /\ seen = [c \in Clients |-> "none"]
    /\ answer = [c \in Clients |-> "none"]
    /\ admission = Nobody
    /\ mode = "up"
    /\ requests = 0 /\ troubles = 0 /\ stops = 0

-----------------------------------------------------------------------------
(* The handler of a request *)

Op(c) == request[c].op

Goto(c, where) == pc' = [pc EXCEPT ![c] = where]

Reply(c, told) ==
    /\ Goto(c, "idle")
    /\ answer' = [answer EXCEPT ![c] = told]
    /\ receipt' = [receipt EXCEPT ![c] = Nothing]
    /\ seen' = [seen EXCEPT ![c] = "none"]

GoOn(c, where) == Goto(c, where) /\ UNCHANGED <<answer, receipt, seen>>

Receive(c, kind, o, s) ==
    /\ mode = "up" /\ pc[c] = "idle" /\ requests < MaxRequests
    /\ requests' = requests + 1
    /\ request' = [request EXCEPT ![c] = [kind |-> kind, op |-> o, settings |-> s]]
    /\ answer' = [answer EXCEPT ![c] = "none"]
    /\ Goto(c, IF kind = "submit" THEN "look" ELSE "read")
    /\ UNCHANGED <<files, scans, tasks, receipt, seen, admission, mode, troubles, stops>>

\* The transaction that only reads, as the first step of submit and of status.
ReadReceipt(c, next) ==
    /\ Readable
    /\ receipt' = [receipt EXCEPT ![c] = Load[Op(c)]]
    /\ Goto(c, next)
    /\ Untroubled
    /\ UNCHANGED <<seen, answer>>

Unavailable(c) ==
    /\ IF Readable THEN Trouble ELSE Untroubled
    /\ Reply(c, "error")
    /\ UNCHANGED admission

\* The lock is taken with the first read: its holder does nothing before that.
Look(c) ==
    /\ pc[c] = "look" /\ admission = Nobody
    /\ (ReadReceipt(c, "judge") /\ admission' = c) \/ Unavailable(c)
    /\ UNCHANGED <<files, scans, tasks, request, mode>>

\* Mutant: a repeated start is not compared with the settings it was made for.
ConflictsNever(c) == FALSE

Conflicts(c) == receipt[c] # Nothing /\ receipt[c].settings # request[c].settings

Refuse(c) ==
    /\ pc[c] = "judge"
    /\ \/ Conflicts(c)
       \/ receipt[c] = Nothing /\ Cardinality(Preparing) >= MaxTasks
    /\ Reply(c, "error")
    /\ admission' = Nobody
    /\ UNCHANGED <<files, scans, tasks, request, mode, counts>>

Accede(c) ==
    /\ pc[c] = "judge" /\ ~Conflicts(c)
    /\ \/ /\ receipt[c] = Nothing /\ Cardinality(Preparing) < MaxTasks
          /\ GoOn(c, "reserve")
          /\ UNCHANGED admission
       \/ /\ receipt[c] # Nothing
          /\ GoOn(c, IF Op(c) \in Preparing THEN "await" ELSE "read")
          /\ admission' = Nobody
    /\ UNCHANGED <<files, scans, tasks, request, mode, counts>>

\* The transaction that creates the receipt; one that is there is returned.
Reserve(c) ==
    /\ pc[c] = "reserve"
    /\ \/ /\ Readable
          /\ \/ Has(Op(c)) /\ UNCHANGED files
             \/ /\ ~Has(Op(c)) /\ ~Full
                /\ Write([Load EXCEPT ![Op(c)] =
                             [settings |-> request[c].settings, state |-> "preparing"]])
          /\ GoOn(c, "launch")
          /\ Untroubled
          /\ UNCHANGED admission
       \/ /\ \/ Readable /\ WriteRaises /\ Trouble
             \/ ~Readable /\ UNCHANGED files /\ Untroubled
             \/ Readable /\ ~Has(Op(c)) /\ Full /\ UNCHANGED files /\ Untroubled
          /\ Reply(c, "error")
          /\ admission' = Nobody
    /\ UNCHANGED <<scans, tasks, request, mode>>

Launch(c) ==
    /\ pc[c] = "launch"
    /\ run' = [run EXCEPT ![Op(c)] = "check"]
    /\ scanned' = [scanned EXCEPT ![Op(c)] = request[c].settings]
    /\ GoOn(c, "await")
    /\ admission' = Nobody
    /\ UNCHANGED <<files, scans, late, request, mode, counts>>

\* asyncio.shield(task); a caller that has gone is not told, and that is all.
Await(c) ==
    /\ pc[c] = "await" /\ run[Op(c)] \in {"ok", "failed"}
    /\ Reply(c, IF run[Op(c)] = "ok" THEN "accepted" ELSE "error")
    /\ UNCHANGED <<files, scans, tasks, request, admission, mode, counts>>

-----------------------------------------------------------------------------
(* status, and the end of a repeated submit *)

Read(c) ==
    /\ pc[c] = "read"
    /\ \/ Has(Op(c)) /\ ReadReceipt(c, "load") /\ UNCHANGED admission
       \/ /\ Readable /\ ~Has(Op(c))
          /\ Reply(c, "unknown") /\ Untroubled /\ UNCHANGED admission
       \/ Unavailable(c)
    /\ UNCHANGED <<files, scans, tasks, request, mode>>

LoadReport(c) ==
    /\ pc[c] = "load"
    /\ \/ /\ seen' = [seen EXCEPT ![c] = report[Op(c)]]
          /\ Goto(c, "decide")
          /\ Untroubled /\ UNCHANGED <<answer, receipt>>
       \/ Trouble /\ Reply(c, "error")
    /\ UNCHANGED <<files, scans, tasks, request, admission, mode>>

\* Mutant: a report that is there is taken for a start that was admitted.
AdmittedOnceSaved(c) == TRUE

\* In-flight creation is not confirmation that admission has finished.
Admitted(c) == active[Op(c)] \/ seen[c] = "finished"

Status(c) ==
    IF seen[c] \notin {"none", "removed"} /\ (receipt[c].state = "accepted" \/ Admitted(c))
      THEN "accepted"
    ELSE IF receipt[c].state = "preparing" /\ Op(c) \notin Preparing THEN "interrupted"
    ELSE IF receipt[c].state = "accepted" THEN "report_unavailable"
    ELSE receipt[c].state

Answer(c) ==
    /\ pc[c] = "decide"
    /\ \/ request[c].kind = "status" /\ Reply(c, Status(c))
       \/ /\ request[c].kind = "submit" /\ Status(c) = "accepted"
          /\ GoOn(c, "validate")
       \/ request[c].kind = "submit" /\ Status(c) # "accepted" /\ Reply(c, "error")
    /\ UNCHANGED <<files, scans, tasks, request, admission, mode, counts>>

\* validate_recovery: the report is still there and the connection has not changed.
Validate(c) ==
    /\ pc[c] = "validate"
    /\ \/ Loadable(Op(c)) /\ Reply(c, "accepted") /\ Untroubled
       \/ Reply(c, "error") /\ Untroubled
       \/ Reply(c, "error") /\ Trouble
    /\ UNCHANGED <<files, scans, tasks, request, admission, mode>>

Handle(c) ==
    \/ Look(c) \/ Refuse(c) \/ Accede(c) \/ Reserve(c) \/ Launch(c) \/ Await(c)
    \/ Read(c) \/ LoadReport(c) \/ Answer(c) \/ Validate(c)

-----------------------------------------------------------------------------
(* _run: the preparation of one start *)

Advance(o, stage) == run' = [run EXCEPT ![o] = stage]

ReportIs(o, r) == report' = [report EXCEPT ![o] = r]

\* Preflight refuses with an HTTPException, or something in it raises another error.
Check(o) ==
    /\ run[o] = "check"
    /\ \/ Advance(o, "save") /\ Untroubled
       \/ Advance(o, "find") /\ Untroubled
       \/ Advance(o, "failed") /\ Trouble
    /\ UNCHANGED <<files, scans, late, scanned, handlers, mode>>

Save(o) ==
    /\ run[o] = "save"
    /\ \/ ReportIs(o, "queued") /\ Advance(o, "start") /\ Untroubled
       \/ Advance(o, "failed") /\ Trouble /\ UNCHANGED report
    /\ UNCHANGED <<files, active, started, removed, late, scanned, handlers, mode>>

\* supervisor.start; the other scans may have taken every place.
Start(o) ==
    /\ run[o] = "start"
    /\ \/ /\ active' = [active EXCEPT ![o] = TRUE]
          /\ started' = [started EXCEPT ![o] = @ + 1]
          /\ Advance(o, "accept")
       \/ Advance(o, "drop") /\ UNCHANGED <<active, started>>
    /\ UNCHANGED <<files, report, removed, late, scanned, handlers, mode, counts>>

\* delete_scan, then the HTTPException 429
Drop(o) ==
    /\ run[o] = "drop"
    /\ \/ ReportIs(o, "none") /\ Advance(o, "find") /\ Untroubled
       \/ Advance(o, "failed") /\ Trouble /\ UNCHANGED report
    /\ UNCHANGED <<files, active, started, removed, late, scanned, handlers, mode>>

\* A journal that cannot be written is an HTTPException too.
Accept(o) ==
    /\ run[o] = "accept"
    /\ \/ SetState(o, "accepted") /\ Advance(o, "ok")
       \/ SetStateRaises(o) /\ Advance(o, "find")
    /\ UNCHANGED <<scans, late, scanned, handlers, mode>>

\* Mutant: every HTTPException of a start is taken for its rejection.
FindNothing(o) ==
    /\ run[o] = "find"
    /\ Advance(o, "reject")
    /\ UNCHANGED <<files, scans, late, scanned, handlers, mode, counts>>

Find(o) ==
    /\ run[o] = "find"
    /\ \/ Advance(o, IF Loadable(o) THEN "failed" ELSE "reject") /\ Untroubled
       \/ Advance(o, "failed") /\ Trouble
    /\ UNCHANGED <<files, scans, late, scanned, handlers, mode>>

Reject(o) ==
    /\ run[o] = "reject"
    /\ (SetState(o, "rejected") \/ SetStateRaises(o))
    /\ Advance(o, "failed")
    /\ UNCHANGED <<scans, late, scanned, handlers, mode>>

-----------------------------------------------------------------------------
(* _run, cancelled by a shutdown *)

\* The except clause for cancellation covers the body of the try, not the other clause.
AfterCancel(stage) ==
    CASE stage \in {"check", "save", "start", "drop", "accept"} -> "inspect"
      [] stage \in {"find", "reject"} -> "failed"
      [] OTHER -> stage

\* A thread that has begun goes on without the task that awaited it.
Threaded == {o \in Operations : run[o] \in {"save", "drop", "accept", "reject"}}

Cancel(ops) ==
    /\ run' = [o \in Operations |-> IF o \in ops THEN AfterCancel(run[o]) ELSE run[o]]
    /\ \E begun \in SUBSET (Threaded \cap ops) :
          late' = [o \in Operations |-> IF o \in begun THEN run[o] ELSE late[o]]

Inspect(o) ==
    /\ run[o] = "inspect"
    /\ \/ Advance(o, IF Unfinished(report[o]) THEN "consider" ELSE "interrupt") /\ Untroubled
       \/ Advance(o, "failed") /\ Trouble
    /\ UNCHANGED <<files, scans, late, scanned, handlers, mode>>

\* Mutant: the receipt is marked, the report left as it is.
ConsiderOnlyReceipt(o) ==
    /\ run[o] = "consider"
    /\ Advance(o, "interrupt")
    /\ UNCHANGED <<files, scans, late, scanned, handlers, mode, counts>>

Consider(o) ==
    /\ run[o] = "consider"
    /\ Advance(o, IF active[o] THEN "interrupt" ELSE "close")
    /\ UNCHANGED <<files, scans, late, scanned, handlers, mode, counts>>

\* update_scan closes the report as it is by now, and raises when it has gone.
Close(o) ==
    /\ run[o] = "close"
    /\ \/ Loadable(o) /\ ReportIs(o, "finished") /\ Advance(o, "interrupt") /\ Untroubled
       \/ ~Loadable(o) /\ Advance(o, "failed") /\ Untroubled /\ UNCHANGED report
       \/ Advance(o, "failed") /\ Trouble /\ UNCHANGED report
    /\ UNCHANGED <<files, active, started, removed, late, scanned, handlers, mode>>

Interrupt(o) ==
    /\ run[o] = "interrupt"
    /\ (SetState(o, "interrupted") \/ SetStateRaises(o))
    /\ Advance(o, "failed")
    /\ UNCHANGED <<scans, late, scanned, handlers, mode>>

Prepare(o) ==
    \/ Check(o) \/ Save(o) \/ Start(o) \/ Drop(o) \/ Accept(o) \/ Find(o) \/ Reject(o)
    \/ Inspect(o) \/ Consider(o) \/ Close(o) \/ Interrupt(o)

LateThread(o) ==
    /\ late[o] \notin {"none", "finished"}
    /\ late' = [late EXCEPT ![o] = "finished"]
    /\ \/ late[o] = "save" /\ ReportIs(o, "queued") /\ UNCHANGED files /\ Untroubled
       \/ /\ late[o] = "drop"
          /\ ReportIs(o, IF report[o] = "removed" THEN "removed" ELSE "none")
          /\ UNCHANGED files /\ Untroubled
       \/ late[o] \in {"save", "drop"} /\ UNCHANGED <<files, report>> /\ Trouble
       \/ /\ late[o] \in {"accept", "reject"}
          /\ \/ SetState(o, IF late[o] = "accept" THEN "accepted" ELSE "rejected")
             \/ SetStateRaises(o)
          /\ UNCHANGED report
    /\ UNCHANGED <<active, started, removed, run, scanned, handlers, mode>>

-----------------------------------------------------------------------------
(* The supervisor, the user and the process *)

\* The end of a scan: its report, then its task; a report that cannot be finished stays open.
Finish(o) ==
    /\ active[o]
    /\ \/ report[o] = "queued" /\ ReportIs(o, "finished") /\ UNCHANGED active /\ Untroubled
       \/ /\ active' = [active EXCEPT ![o] = FALSE] /\ UNCHANGED report
          /\ IF Unfinished(report[o]) THEN Trouble ELSE Untroubled
    /\ UNCHANGED <<files, started, removed, tasks, handlers, mode>>

\* An AI retry opens a finished report again.
Explain(o) ==
    /\ ~active[o]
    /\ \/ mode = "up" /\ report[o] = "finished" /\ ReportIs(o, "explaining")
       \/ mode # "down" /\ report[o] = "explaining" /\ ReportIs(o, "finished")
    /\ UNCHANGED <<files, active, started, removed, tasks, handlers, mode, counts>>

\* delete_reports; a report a job uses is refused.
Remove(o) ==
    /\ mode = "up" /\ report[o] = "finished" /\ ~active[o]
    /\ ReportIs(o, "removed")
    /\ removed' = removed \cup {o}
    /\ UNCHANGED <<files, active, started, tasks, handlers, mode, counts>>

\* restore_reports brings it back as it was, whatever its receipt says by now.
Restore(o) ==
    /\ mode = "up" /\ report[o] = "removed"
    /\ ReportIs(o, "finished")
    /\ UNCHANGED <<files, active, started, removed, tasks, handlers, mode, counts>>

\* The journal is damaged, or lost with its backup retained.
LoseJournal ==
    /\ Trouble
    /\ journal # Absent
    /\ journal' = Damaged \/ (backup # Absent /\ journal' = Absent)
    /\ UNCHANGED <<backup, scans, tasks, handlers, mode>>

Stop == stops < MaxStops /\ stops' = stops + 1 /\ UNCHANGED <<requests, troubles>>

\* StartRequests.shutdown
Shutdown ==
    /\ mode = "up" /\ Stop
    /\ mode' = "stopping"
    /\ Cancel(Operations)
    /\ UNCHANGED <<files, scans, scanned, handlers>>

\* A start registered after shutdown took its list is cancelled with the event loop.
CancelRest ==
    /\ mode = "stopping"
    /\ \E o \in Operations : AfterCancel(run[o]) # run[o] /\ Cancel({o})
    /\ UNCHANGED <<files, scans, scanned, handlers, mode, counts>>

\* The end of the process, by a crash or when all it waited for is done.
Halt ==
    /\ (mode = "up" /\ Stop) \/ (mode = "stopping" /\ Untroubled)
    /\ mode' = "down"
    /\ active' = [o \in Operations |-> FALSE]
    /\ run' = [o \in Operations |-> "none"]
    /\ late' = [o \in Operations |-> IF late[o] = "finished" THEN "finished" ELSE "none"]
    /\ pc' = [c \in Clients |-> "idle"]
    /\ receipt' = [c \in Clients |-> Nothing]
    /\ seen' = [c \in Clients |-> "none"]
    /\ admission' = Nobody
    /\ UNCHANGED <<files, report, started, removed, scanned, request, answer>>

\* reconcile_incomplete runs before the first request is taken; a report it cannot
\* write is left as it is.
Restart ==
    /\ mode = "down"
    /\ mode' = "up"
    /\ \E missed \in SUBSET {o \in Operations : Unfinished(report[o])} :
          /\ IF missed = {} THEN Untroubled ELSE Trouble
          /\ report' = [o \in Operations |->
                           IF Unfinished(report[o]) /\ o \notin missed THEN "finished"
                           ELSE report[o]]
    /\ UNCHANGED <<files, active, started, removed, tasks, handlers>>

Next ==
    \/ \E c \in Clients, o \in Operations :
          \/ Receive(c, "status", o, Nothing)
          \/ \E s \in Settings : Receive(c, "submit", o, s)
    \/ \E c \in Clients : Handle(c)
    \/ \E o \in Operations : Prepare(o) \/ LateThread(o) \/ Finish(o) \/ Explain(o)
    \/ \E o \in Operations : Remove(o) \/ Restore(o)
    \/ LoseJournal \/ Shutdown \/ CancelRest \/ Halt \/ Restart

Spec == Init /\ [][Next]_vars

-----------------------------------------------------------------------------
(* Properties *)

Stages == {"none", "check", "save", "start", "drop", "accept", "find", "reject",
           "inspect", "consider", "close", "interrupt", "ok", "failed"}

Places == {"idle", "look", "judge", "reserve", "launch", "await",
           "read", "load", "decide", "validate"}

Answers == {"none", "error", "unknown", "accepted", "preparing", "rejected", "interrupted",
            "report_unavailable"}

\* Every variable keeps its type; the holder of the admission lock is inside its section.
TypeOK ==
    /\ {journal, backup} \subseteq Journal \cup {Absent, Damaged}
    /\ report \in [Operations -> Reports]
    /\ scanned \in [Operations -> Settings \cup {Nothing}]
    /\ active \in [Operations -> BOOLEAN]
    /\ started \in [Operations -> Nat]
    /\ removed \subseteq Operations
    /\ run \in [Operations -> Stages]
    /\ late \in [Operations -> {"none", "save", "drop", "accept", "reject", "finished"}]
    /\ pc \in [Clients -> Places]
    /\ request \in [Clients -> Request \cup {Nothing}]
    /\ receipt \in [Clients -> Receipt \cup {Nothing}]
    /\ seen \in [Clients -> Reports]
    /\ answer \in [Clients -> Answers]
    /\ admission \in Clients \cup {Nobody}
    /\ \A c \in Clients :
          admission = c <=> pc[c] \in {"judge", "reserve", "launch"}
    /\ mode \in {"up", "stopping", "down"}
    /\ requests \in 0 .. MaxRequests /\ troubles \in 0 .. MaxTroubles
    /\ stops \in 0 .. MaxStops

\* One intention starts at most one scan, however often it is submitted, over
\* failing writes, restarts and the loss of the journal: docs/live-review-20261020.md
\* asks that "one intention produces at most one job".
AtMostOneJob == \A o \in Operations : started[o] <= 1

ReceiptSays(o, state) ==
    journal \in Journal /\ journal[o] # Nothing /\ journal[o].state = state

\* A receipt that says "rejected", after which the browser offers the scan again,
\* belongs to a start without a job.  It has no report either, unless its scan did run and
\* the user removed the report before the failed start looked for it; then the user can
\* restore that report, and only so can a rejected start ever be loaded.
RejectedLeftNothing ==
    \A o \in Operations :
        ReceiptSays(o, "rejected") =>
            ~active[o] /\ (report[o] = "none" \/ (started[o] = 1 /\ o \in removed))

\* A client is told "accepted" only of a scan that was registered with the supervisor,
\* or of a report that has already said that its checks did not run; a deletion that a
\* shutdown cancelled can still take that report away.
AcceptedWasAdmitted ==
    \A c \in Clients :
        answer[c] = "accepted" =>
            \/ started[Op(c)] = 1
            \/ report[Op(c)] \notin {"none", "queued"}
            \/ late[Op(c)] = "finished"

\* A submit is never answered with a scan of other settings than it asked for.
RecoveryKeepsSettings ==
    \A c \in Clients :
        answer[c] = "accepted" /\ request[c].kind = "submit"
          => request[c].settings = scanned[Op(c)]

\* A start that was never admitted and whose receipt a shutdown marked interrupted does
\* not leave a report that waits for checks nobody will run; a save that comes late,
\* from the thread of the cancelled start, is left to the restart.
InterruptedIsClosed ==
    \A o \in Operations :
        mode # "down" /\ ReceiptSays(o, "interrupted") /\ report[o] = "queued"
          => started[o] = 1 \/ late[o] = "finished"

=============================================================================
