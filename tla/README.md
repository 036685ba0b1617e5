# A TLA+ model of the home-network scanner

The program (`src/app`) scans a home network with Nmap from one FastAPI process,
saves one JSON report per scan, and has a local language model word the findings.
There is no database: reports, notes and nicknames are files, protected by file
locks, replaced atomically, and read while they are being replaced. One asyncio
event loop runs the scans and the AI tasks; every file operation runs in a thread.

The modules here model the parts of that program in which order matters: what
can happen between two awaits, between two file replacements, or between a
crash and the next start.

## The system and its parts

| Component | State it keeps | Operations | What is hard |
| --- | --- | --- | --- |
| Report store (`storage/json_store.py`) | `scan.json`, `scan.previous.json`, `terminal.json`, `summary.json`, `progress.json`, a lock per report | create, update, finish, load, poll progress, list, delete | readers take no lock; a write is up to five replacements; caches are trusted by mtime; a full report has no room for its final status |
| Supervisor (`jobs/supervisor.py`, `jobs/analysis.py`) | registries of scan tasks, AI tasks and cancel events, the admission lock, three semaphores | start, cancel, AI retry, refresh guidance, delete and restore, shutdown, reconcile | `cancel` holds no admission; a task can be cancelled before its first step; a cancelled await leaves its thread writing |
| Service checks (in `_run`, `jobs/scheduling.py`, `jobs/transitions.py`) | coverage of the report, the host iterator, the execution budget | probe, retry, record, commit, close | two workers, shared budget, queue expiry, sibling cancellation, counters updated from several paths |
| Explanation service (`explanations/`) | wording, `analysis_status` | explain a report in batches | a stage deadline, partial batches, restarts |
| Notes and nicknames (`storage/annotations.py`, `nicknames.py`, `recovery.py`) | primary, backup, revision fence | load with recovery, update with an expected revision | recovery must never reuse a revision some tab still holds |
| Network guard (`scanner/network.py`) | failed flag (latches), generation, last tick | check, shared reads | overlapping checks share one read; suspension of the machine |
| Start requests (`jobs/start_requests.py`) | journal of receipts, tasks | submit, status, shutdown | a client repeats a start it does not know the fate of; crash between report, start and receipt |
| Report trash (`storage/report_trash.py`) | `.trash` with receipts | delete, restore, list | revisions checked under the report's lock; limits; interrupted moves |
| Library and inventory (`storage/library*.py`, `device_inventory.py`) | a cache keyed by file signatures, labels with a revision | search, merge devices over reports, label | staleness, ambiguous identities |
| Device history (`profiling/history.py`, the last steps of `jobs/enrichment.py`) | comparison, names and earlier devices saved in a report | compare with an earlier report, restore a name | repeated and missing adapter addresses, names passed on, reports removed meanwhile |
| Model runtime (`explanations/runtime.py`) | the process it started, a lock | ensure ready, wait, maintain, close | a launch outlives the caller that is cancelled |
| Maintenance, backup (`storage/maintenance.py`, `backup.py`) | none | offline recovery and copies | runs only while the server is stopped |
| Scanner, enrichment, CVE search (`scanner/`, `jobs/enrichment.py`) | none | external processes and network reads | timeouts |
| Risk rules, device classifier (`risk/`, `profiling/classifier.py`) | none | pure functions | |
| HTTP, sessions, configuration, demo | sessions | routes | |
| Front end (`static/js`) | start state, polling generations | start recovery, polling | late answers |

The components meet in three places. The supervisor's coroutines change a report
only through `update_scan` and `finish_scan` of the store, each a thread; the store
serialises them by the report's lock. Start, AI retry, guidance refresh and
removal of reports meet at the supervisor's admission lock. A start of the browser
reaches the supervisor through the journal of `StartRequests`. The cancel event of a
scan is set by the user, by the network monitor and by the shutdown, and read by
the workers. One network reader and one model runtime serve all jobs and are
stopped after them. The library and the inventory read the reports at any time,
without the locks of those who write, remove and restore them.

## Modules

`ReportRegister` is what a saved report promises: one document that changes in
single steps. `ReportStore` is the files that implement it; `ScanJobs` and
`HostChecks` use a report as that register, so that their steps are whole writes.
`HostChecks` is the collection that `ScanJobs` shortens to its outcome.

```
ReportRegister  <-- implements --  ReportStore  <-- ReportStoreProofs
      ^  a write is one step
      |
  ScanJobs (jobs, AI tasks)   -- Collect / RunFails -->   HostChecks (workers)
   <-- ScanJobsProofs         -- AI task ----------->     Explanations (wording)
      |                       -- Delete ------------>     ReportTrash <-- ReportLibrary
      |
      -- its jobs and their end ------------------->      Services
                 HostChecks -- NetworkChanges ----->        EXTENDS NetworkGuard,
                                                            ModelRuntime

DeviceHistory    (finished reports, read by comparisons and by the inventory)

HostChecks       <-- HostChecksProofs         Explanations  <-- ExplanationsProofs
StartRequests    <-- StartRequestsProofs      Services      <-- ServicesProofs
ReportTrash, ReportLibrary    <-- ReportTrashProofs
RevisionedNotes, DeviceHistory  <-- NotesAndHistoryProofs
```

`ReportLibrary` EXTENDS `ReportTrash` and adds the cache to its folders; `Services`
EXTENDS `NetworkGuard` and `ModelRuntime`, lets the jobs use both and ends the app.
The arrows between modules without EXTENDS are steps one module has as a whole
and the other in detail; no refinement between those is checked.

**ReportStore.** A writer is a thread in `_update_scan`, `_finish_scan` or
`_create_scan`; `pc` is the file it replaces next. Loading, checking the revision
and applying the mutation happen under the lock and are one step with it. A
document is its revision, an amount of evidence, a status and the length of its
status text: enough to tell a report that fits the size limit (`Fits`) from one
whose end has to go to the sidecar (`WriteMarker`). `fresh` is the outcome of the
comparison of mtimes, that is the order of the replacements. A reader is
`_load_scan` or, with the caches, `_load_progress` and `_list_scans`; it makes one
file access per step.

**HostChecks.** `pc` is where a worker of `_run` is: in the loop, waiting for a
slot, in a checkpoint (`mark`, `attempt`, `record`, `settle`), in the guard, in the
scanner process, or over. `CancelTasks` is `task.cancel()`: a checkpoint whose
thread has started stays behind as a member of `late`, the attempt record is
shielded once (`drain`). `main` is where `_run` itself is, `cause` the exception it
handles.

**ScanJobs.** `main[s]` is the task of a scan, `ai[s][i]` its i-th AI task,
`registered[s]` the entry of `_analysis_tasks`, which need not be a task that still
runs. `admission` is who holds the lock and how far, `canceller` one call of
`cancel()`, with its awaits. `stray` are writes of cancelled AI tasks. A restart
loses all tasks and closes the reports `list_incomplete_scan_ids` finds.

**StartRequests.** `journal` and `backup` are `scan-starts.json` and its previous
version, `pc[c]` is where the handler of a request is between two awaits of `submit` or
`status`, `run[o]` where the task of a start (`_run`) is, with the preflight and
`create` of `api/scans.py` inside it. A transaction is one step, in a thread under the
file lock; `admission` is the lock `submit` holds from its first read to the
registration of the task. `late` is what a thread goes on to do for a task a shutdown
has cancelled. The receipt reserves the scan's identifier, so a scan is named by its
operation. `started` counts the jobs of an operation and is history. The supervisor is
only `active`, its registry; a report is waiting, finished, opened again by an AI
retry, removed, restored or not there. `removed` remembers the reports a user has
ever moved to the trash.

**RevisionedNotes.** One file of user edits, its backup and its fence, for both
stores; `ReadsMayFail` is where they differ (annotations recover after any
`OSError`, nicknames only after invalid data). `held` is what each editor saw
last, `seen` all that was ever seen.

**ReportTrash.** `folder[r]` is `scans/<id>` and `archive[t]` a directory of `.trash`;
both hold a `Content`: the revision of the report, whether it is still open, its
terminal sidecar, the revision of its notes and the receipt of a removal.
`admission` is the supervisor's lock with its holder, a batch (`trash`) or an AI
retry; `op` is the batch and its thread, one removal or restore at a time, between
the steps at which the code can be cancelled, fail or die: checks, receipt,
rename, cache. `Locked(r)` is the report's file lock, which that thread holds from
its checks to its end; all other writers wait for it. `job[r]` is what the registries
and the start handlers know of a report, `canceller` the tail of one `cancel()`, and
`loose[r]` the AI tasks of a report that are at work and in no registry: the pop at
the end of a `cancel()` or of an earlier task takes the entry of whatever task is
registered by then (`CancelPops`, `LooseEnd`). `late` are raw outputs that a
cancelled scan left in a thread. `saved` is history: the revisions last saved.

**ReportLibrary.** `row` is `LibraryCache.entries`, `load` the one load that holds its
lock, step by step: fingerprint, `scan.json`, `terminal.json`, fingerprint again. A
row's stamp is its fingerprint, and moving a folder away and back does not change
it. `EvictRemoved` takes the cache's lock while the thread holds the file locks; this
order is what keeps a load from seeing the report gone, and the same files back,
between its two fingerprints.

**Explanations.** `at` is the await of `explain_scan` the task is at, `mine` its
`records_by_id`, `record` what is saved. A record says of each line whether it is the
original, a reviewed alternative or rejected (`rejected_fields`), which is all that a
retry looks at; `Validated` is `_build_validated_record` with the lines it locks
(`Locked`, `ListLocked`). `Interrupt` is a cancel, a timeout of the stage or a raising
write at any await; the write goes on as a member of `stray`. A task works from the
guidance it has loaded (`basis`). `FinishedUnder` is the end of an earlier task, or of the
`cancel()` that waited for it, which comes when the next task has begun: it closes the
report and unregisters that task, so that a refresh of the guidance is admitted under
it (`Refresh`, which looks at the phase and the registry only).

**NetworkGuard.** `asked[c]` is where a caller is in `check`, `reader` the pending task of
`FreshNetworkReader` with its thread, `status` the status page's thread, `rows` the
result two threads share. The code compares generation counters with the value it
saw first; `moved` and `passed` are the outcome of those comparisons. The network
has three values, one of which (`twin`) has the home address on another adapter, so
that reading the address before the rows can matter.

**ModelRuntime.** `client[c]` is where the maintenance task or an AI task is in
`ensure_ready`, inside or outside its lock; `launch[c]` is the server its shielded
`launching` task starts, `server[p]` what became of it. **Services** composes the two
with the jobs that use them and has the end of `owned_lifespan`: scans, AI tasks,
reads, server, in this order, with AI tasks that a scan starts after the first round
of cancels. `Forget` makes an AI task `loose`, as above; the shutdown cancels and awaits
the others only (`Known`), so that a loose one can be starting a server, or start one
later, while `OllamaRuntime.close` ends the server it knows (`ServerStopped`,
`ServerEnded`).

**DeviceHistory.** A report is what was seen at its addresses; a device is told by the
address of its adapter, which may be missing or repeated. `List` is `list_scans`,
`LoadReport` the load of one report of its page, newest first, and `Compare` the save
(`update_scan`) of what was made of those that were loaded (`Basis`): between any two of
these steps reports are removed, restored, finished or opened again by an AI retry.
`Comparison`, `NameFor` and `Earlier` are `compare_history`,
`restore_previous_name` and `earlier_observations`, `Key` and `Occurrences` the
identity of `DeviceInventory._facts`. `heard` and `meant` are history: which names
devices gave themselves, and what a label was given to.

Definitions named as mutants change one definition the way a bug would, and are used by
nothing but the mutation runs that show each property can fail.

## Runs

| Run | Checks | Result |
| --- | --- | --- |
| `report-store` | types, `BackupAtMostOneBehind`, `TrustedCacheIsCurrent`, `FinishedUntilNextRevision`, `ReadIsOneRevision`, `ImplementsRegister` | holds |
| `report-library` | `ArchivedAsReviewed`, `NothingIsLost`, `JobKeepsReport`, `CachedRowIsCurrent` | holds |
| `host-checks` | types, `CountsMatchStatuses`, `OutcomeMatchesCoverage`, `ClosedMeansSettled`, `NoWorkerOutlivesRun`, `ProbesAreRecorded`, `StageEnds` | holds |
| `scan-jobs` | types, `NoReportIsStuck`, `OutcomeIsKept`, `ReportsFinish` | holds |
| `scan-jobs-limit` | `RegisteredWithinLimit` | holds |
| `scan-jobs-restart` | `RestartKeepsOutcome` | violated, see below |
| `scan-jobs-removal` | `RemovalWaitsForJobs` | violated |
| `explanations` | `RequestsAreCounted`, `ReadyMeansSettled`, `AcceptedWordingStays` | holds |
| `services` | `StoppedMeansQuiet`, `AcceptedIsFresh`, `NothingAcceptedAfterPause` | holds |
| `device-history` | `RestoredNameIsRecent`, `LabelFollowsAdapter`, `ComparisonIsSound` | holds |
| `notes` | `RevisionNamesOneContent`, `LostEditIsAnnounced`, `AcceptedEditSawLatest`, `RecoveryInvalidatesEditors` | holds |
| `start-requests` | `AtMostOneJob`, `RejectedLeftNothing`, `AcceptedWasAdmitted`, `RecoveryKeepsSettings`, `InterruptedIsClosed` | holds |

What the newer runs show:

* `report-library`. Whatever is saved, edited or started while a batch goes on, and
  wherever it fails, is cancelled or dies, the trash holds reports exactly as they
  were reviewed, each report is in one place, and no start, scan or registered AI
  task loses its folder. An AI task that a `cancel()` has unregistered can lose it;
  that is the second disagreement below. A raw
  output that makes the folder of a removed report again makes no second report:
  the folder has no `scan.json`. It does stand in the way of a restore, which is
  refused until the folder is gone.
* `explanations`. Lines a task has accepted survive each later attempt, each later
  task and each interruption; requests are counted before they are made. This is
  shown without late writes: after one, the run shows only that the next task
  puts the report in order.
* `services`. Though three layers share reads, no check is accepted on a read that
  ended before it was asked. A check may join a read that began before it, and the
  guard's second caller one whose result is there and not yet looked at; after a
  change of the network this is at most one read old, and the property says exactly
  this (`lost` needs that no read is under way).
* `device-history`. Passing a name on does not make it younger, even when the clock
  is set back and two later reports take it over; labels do not move to a second
  device; a comparison fits the reports as they were loaded, though one of them is in
  the trash by the time it is saved.

### Disagreements with the documents

* `RestartKeepsOutcome`. After the wording was saved and before the AI task
  finished its report, `analysis_status` is no longer `running`, and a restart
  gives a completed collection the state `partial` or `failed`.
* `RemovalWaitsForJobs`. `cancel` awaits the task it cancelled, then loads the
  report, then finishes it and pops the registry. An AI retry that is admitted
  meanwhile is finished and unregistered in its place, and its report can be
  removed while it runs.

### Behaviour behind the exceptions

Some properties name a case they do not speak of. Each is a behaviour of the code:

* A reader reads `scan.json`, a writer absorbs and unlinks the sidecar, the reader
  finds no sidecar: it returns the old revision as still running, though the report
  was finished before and after. `ReadIsOneRevision` asks for one revision, not for
  the latest status; the next poll corrects it.
* A worker cancelled in a checkpoint leaves that to its thread, and `_run` waits for
  the worker only. The write can come after the report was closed (`escaped`): one
  cancellation is enough for the checkpoints that mark a host as running or settle
  it, so a finished report can show a host as running, or count one twice.
  `_record_host_attempt` shields its write from a first cancellation; a worker whose
  sibling's queue wait expires while the budget runs out is cancelled twice, and its
  record arrives in a closed report too.
* `explain_scan` cancelled in a write leaves the write to its thread. It can come
  after the report was finished, or after the next task began, and then puts an
  older state of the wording back. The history `mixed` is "now" while the task such
  a write disturbed is the last one, and "before" from the next task's start to its
  first write; `AcceptedWordingStays` excepts the former, `ReadyMeansSettled` both. Any
  late write counts, also one that does no harm, so that the two properties say
  nothing of what late writes do.
* The records a task keeps from earlier ones are also filtered by provider, model and
  version of the prompt (service.py:277-279). The model has one of each: another
  model after a restart asks for every entry anew and drops what was accepted.
* A starter of the model server that is cancelled a second time in the instant in
  which the process is there leaves it without an owner (`cut`); the shutdown, which
  cancels AI tasks twice, can do this.
* An AI task in no registry is neither cancelled nor awaited by the shutdown. While or
  after `OllamaRuntime.close` ends the server the app owns, such a task can start one
  that nobody ends (`unseen`).
* The accepted receipt of a start cannot be written, which is an error like a refusal.
  If the user has moved the finished report to the trash before `_run` looks for it,
  the receipt says `rejected`, though the scan did run; restored, the report can be
  loaded beside that receipt. `RejectedLeftNothing` excepts exactly these starts.
* `status` of a start takes no admission lock: between the receipt and the
  registration of its task it answers `interrupted` for a start that goes on.
* `_delete_scan`, which removes a report whose scan was refused, moves it to `.trash`
  under the report's lock only. It is a plain directory without a receipt there and
  counts to the limit of the trash that a removal checks under another lock.

`CountsMatchStatuses`, `OutcomeMatchesCoverage` and `ClosedMeansSettled` are stated for
reports no late write has changed after their close, of a worker cancelled once or
twice, and `ProbesAreRecorded` excepts workers cancelled twice: both are the second
of these.
`NoReportIsStuck` and `OutcomeIsKept` are stated for writes that succeed: a failed
write can leave a report open until the next start, which the code accepts.
`AcceptedWasAdmitted` and `InterruptedIsClosed` except what the thread of a cancelled
start does after its task has ended.

### Bounds

* `report-store`: two writers and one reader are all the parties a race between a
  write, the next write and a read needs; three revisions allow a sidecar to be
  written, rewritten, absorbed and superseded; a limit of one unit makes some
  reports full. One crash, since a crash leaves nothing but the files.
* `host-checks`: two workers is what the code uses at most; two hosts let one worker
  fail while the other probes, and one worker take both. One failing write, one
  crash.
* `scan-jobs`: one scan with two AI tasks of its own and one retry, two cancels, one
  failing write, one restart; `ReportsFinish` speaks of the behaviours without a
  failing write or a restart. Scans share only the analysis slot and the
  admission; `scan-jobs-limit` has two scans for one place, one retry and one
  cancel.
* `start-requests`: a lost journal whose backup does not know the latest start needs two
  receipts, a full journal a third operation; three requests are two starts and the
  repetition of one. One operation that raises (or a loss of the journal) and one
  end of the process, by a shutdown that may crash on its way or by a crash, can
  meet at any two points. The view leaves out the last request of an idle client
  unless it was told `accepted` or `interrupted`, and that a report was once removed
  where its start is decided and was not rejected: nothing reads either. Of the
  backup it has whether it is there, which is all that `_load` asks. Removals and
  restores have no bound.
* `report-library`: a job, an edit and a load can meet the removal of one report while
  another is there to fill the trash, whose limit is one; `Lively` names the
  reports that have jobs and edits, so that the second is only removed, restored and
  searched. Two revisions of the report and two of its notes make a reviewed state
  stale; a batch has any number of targets, cancels and retries have no bound; two
  names in the trash, one crash.
* `explanations`: the report's summary, with a line that has no alternative, and one
  finding, in batches of one, so that a batch can be saved while the next fails; one
  line alone and one list; two tasks, so that wording is kept from one to the other;
  one refresh and one crash. The view has of the two counters of requests only their
  difference, which is all that anything compares.
* `services`: two callers of one guard, callers of two guards, and, with a model
  runtime, a scan with and without the AI task of a saved report beside it. The two
  halves share only the jobs, so each setup leaves one of them quiet
  (`unrest`, `autostart`). Two launches are needed for a second server.
* `device-history`: three reports with the contents that make a difference: a device
  alone, elsewhere, next to an unmatched one, seen twice, seen in discovery too, not
  finished, without an address, by another profile. A week is two days and a name is
  seen on the day of its report or the day before, so that a name reaches two
  later reports, one of them through the other, and is too old for a third; a comparison
  loads two reports and the inventory reads two, so that each window has an outside.
  Two edits set a label and clear it. Labels are edited only where nothing is compared
  and no name was passed on (`Apart`), since neither reads what the other changes; the
  view leaves out what a saved report tells of its comparison, which only the step
  that saves it is asked about.
* `notes`: two editors, two contents beside the blank one, revisions up to six, so
  that one backup can be recovered twice and edited in between.

Where the code may stop, deadlock is not checked: after its last scan
(`host-checks`, `scan-jobs`), when no request is left (`start-requests`), at the end of
the app (`services`), or when nothing is left to do within the bounds
(`report-library`, `explanations`, `device-history`). The store and the notes always have a next step
within their bounds and deadlock is checked there.

### Fairness

`StageEnds` and `ReportsFinish` assume that the event loop runs what is ready: weak
fairness of each worker, of `_run`, of each AI task, of the holder of the
admission lock and of `cancel`. Every wait in the code has a timeout (the queue
wait, the scanner process, the budget, the analysis stage, the file lock), so an
action that ends a wait stays enabled until it is taken. `Start` has strong
fairness: `asyncio.Lock` is first come, first served, and the lock is free again
after each holder. The user, the network, faults and crashes are never forced.

## Proofs

Every invariant and action property that a passing run checks is also a theorem, for
every value of the constants that the named assumptions allow. A theorem
`Invariance` (`AnsweringInvariance`, `LibraryInvariance`, `HistoryInvariance`) states
the inductive invariant; the others follow from it. The properties by themselves
are hardly ever inductive, and the paragraphs say what had to be added.

`ReportStoreProofs` proves for any number of writers, readers and crashes, any
document limit and any bound on revisions: `TypeCorrect`, `BackupIsCurrent`,
`CachesAreCurrent`, `FinishedStays`, `ReadsAreOfOneRevision` (`ReadIsOneRevision`) and
`Refinement` (`Spec => ImplementsRegister`).
The invariant adds what a writer at a given place knows:
whoever is between two replacements holds the lock (so there is one), the
document it publishes is the successor of the visible one until `scan.json` is
replaced and equals it afterwards, a sidecar never belongs to a later revision,
and a cache is fresh only if it shows the primary. For the readers, `WindowInv` says
that what they hold was visible since they began, and that a cache they decided to
trust can only be rewritten with what is visible by then. The
refinement maps the register to what a load would return (`Visible`); every
replacement of `scan.json` or `terminal.json` is a step of the register and
everything else a stutter.

`HostChecksProofs` proves for any hosts, workers, attempts, faults and crashes:
`TypeCorrect`, `CountersAgree` (`CountsMatchStatuses`), `OutcomesFit`
(`OutcomeMatchesCoverage`), `ClosedReportsAreSettled` (`ClosedMeansSettled`),
`WorkersEndFirst` (`NoWorkerOutlivesRun`) and `ProbesHaveRecords` (`ProbesAreRecorded`).
That counters and statuses agree before a checkpoint does not make them agree after
it: two checkpoints for one host, one of them left to its thread by a cancelled
worker, would count it twice. The invariant says that a host belongs to one worker at
most or to one late write (`Division`), and that what somebody is still to settle is
unfinished in the report (`ClaimedIsOpen`), until a late write meets a report that is
closed already (`escaped`).

`ScanJobsProofs` proves for any scans, AI tasks, limits, retries, cancels, failing
writes and restarts: `TypeCorrect`, `UnfinishedIsCaredFor` (`NoReportIsStuck`),
`OutcomesAreKept` (`OutcomeIsKept`) and `LimitIsKept` (`RegisteredWithinLimit`). The invariant
is one conjunction per scan (`ScanInv`): what its report, its task, its AI tasks, a
cancel and the admission of a retry say of each other at each place. It is needed
since who finishes a report changes hands, from the task to an AI task, to `cancel` or
to nobody after a restart, and between two hands only the phase of the report and
the place of the one that lets go tell who is next. The limit needs that a start
or a retry which has passed the capacity check still has a place while it holds the
admission lock (`WithinLimit`); `_register` does not look again.

`StartRequestsProofs` proves for any operations, clients and settings and any number of
requests, failures and restarts: `TypeCorrect` and `OneIntentionOneJob`
(`Spec => []AtMostOneJob`). That an operation was started at most once says nothing about
why a second submit cannot start it again. The invariant says that an operation
without a receipt in a readable journal is untouched, that this is what a
handler between its look and its task knows, since the admission lock keeps the
others out, and that a task from which `supervisor.start` is still to come has not
started its scan. Every step but the creation of a receipt keeps what is recorded
(`Keeps`); a journal that was lost is never readable again. A second invariant,
`Answering`, gives `RejectionIsTrue` (`RejectedLeftNothing`), `AcceptanceIsTrue`
(`AcceptedWasAdmitted`), `AnswersFitRequests` (`RecoveryKeepsSettings`) and
`InterruptionIsClosed` (`InterruptedIsClosed`). An answer is given on what was read
some awaits before; the invariant therefore says what each operation can have left
at each stage of its only task (`Lives`), and of what a handler has read what stays
true until it replies (`Recovery`). That a rejected receipt is true holds for removals and
restores at any time: a task that has found no report either left none, or its scan did
run and its report is among the `removed`.

`NotesAndHistoryProofs` has two parts. For `RevisionedNotes` it proves, for any editors,
contents and revisions, and for both treatments of a failing read: `TypeCorrect`,
`RevisionsAreUnique`, `EditsAreOnTheLatest`, `RecoveryIsAhead` and `LostEditsAreAnnounced`.
The uniqueness of revisions is not
inductive: what counts is that no damage can bring an old revision back. The
invariant says that the primary has the highest revision seen, that every draft
is beyond all that was seen, and that backup and fence together bound everything
seen from above (`RecoveryIsNew`), which is what `reserve_recovery_revision` needs. A
lost edit is announced since readable notes without the notice always have the last
edit, and a recovery is never published without it (`EditInv`).

For `DeviceHistory` it proves, for any number of reports, whatever they found, and for
any windows and limits: `NamesAreRecent` (`RestoredNameIsRecent`), `LabelsFollow`
(`LabelFollowsAdapter`) and `ComparisonsAreSound` (`ComparisonIsSound`). That a name is recent
where it is shown is not inductive, since it may come from a report that took it
from another; the invariant vouches for every name of every report that was begun,
also of those in the trash, which may come back (`NamesInv`). A label needs that the
sighting it was given to still has its key (`LabelsInv`), whatever else is seen later;
two sightings of one key have one adapter or are one (`KeyTellsAdapter`).
`NewestExists` is the fact about `Newest` that the choice of a report rests on: of a
nonempty set it leaves something, though several reports are of one day. A
comparison is about the reports as they were loaded: of what was loaded the invariant
says that it was begun, and that what was finished then stays so, in its folder or in
the trash.

`ReportTrashProofs` proves for any reports, names in the trash, limits, batches and
crashes: `TypeCorrect`, `Archived` (`ArchivedAsReviewed`), `JobsKeepReports`
(`JobKeepsReport`) and `NothingLost` (`NothingIsLost`). The invariant says what the
thread of a call knows at each place: from the checks to the rename the report is
finished, at the reviewed revisions and with the receipt of its slot, and a restore's
copy can be restored to a place that is free (`MoveInv`). That no job uses the
report does not follow from files or from the registry alone: a scan whose start is
being decided is in no registry. It needs that the batch holds the admission
lock exactly while a call is in progress (`OpInv`), and that a report whose start is
being decided is never finished (`JobInv`), though calls of `cancel()` and AI tasks in no
registry, which are of reports that were once admitted (`CancelInv`), close reports
that others opened. It says nothing of those AI tasks, which
is where the code does not do what its documents say. `PlaceInv` then says that what
was last saved is either in the folder, and in no copy, or in one copy, and not in the folder.

Of `ReportLibrary` it proves `LibraryTypeCorrect`, `RowsAreCurrent` (`CachedRowIsCurrent`) and
`LibraryKeepsTrash` (`LibrarySpec => Spec`), by which all that is proved of the folders holds
with the cache beside them. A row is current as long as its fingerprint fits; but a
report could leave and return with files of the same fingerprint and other
contents. The invariant says that a report that a row or a load knows can be away
only in a copy that cannot be restored or under a removal that still waits to evict
it (`Stays`), and that what is under the report's lock only grows: a new revision, or
the same one with a sidecar (`Grows`).

`ServicesProofs` proves for any callers, guards, AI tasks and launches: `TypeCorrect`,
`AnswersAreFresh` (`AcceptedIsFresh`), `PausesAreNoticed` (`NothingAcceptedAfterPause`) and
`NothingIsLeftRunning` (`StoppedMeansQuiet`). For the guard, the invariant says that
nothing on its way to a caller who asked when the network had gone, be it in the
reader, in the query two threads share or with another caller, tells that it is
there (`FreshInv`), and that a pause is forgotten only by a guard that has failed
(`PauseInv`). For the end of the app it says that each stage keeps what the
stages before have stopped (`StageInv`); that no server is left needs to know where a
server that runs can be: with the runtime, with a caller that starts it, or cut off
(`RuntimeInv`), and, once the runtime is being closed, with an AI task that nobody waits
for, which can only be one of `unseen` (`UnseenInv`).

`ExplanationsProofs` proves for any number of entries, lines, tasks, refreshes and
crashes and any size of a batch: `TypeCorrect`, `RequestsCounted`
(`RequestsAreCounted`), `ReadyIsSettled` (`ReadyMeansSettled`) and `AcceptedStays`
(`[][...]_vars`, `AcceptedWordingStays`). The invariant says of the records a task has in
memory that they answer the guidance it has loaded, which need not be the present one,
that what the task still asks for
has rejected lines or no record, and that they keep every line the saved report has
settled (`KeepInv`). The proof covers any number of tasks, the run two: a report that
a late write disturbed during one task is in order again once the next has written.

The types of `RevisionedNotes`, `StartRequests`, `Explanations`, `ReportTrash`,
`ReportLibrary` and `Services` are proved and not checked by a run.

The assumptions are the named `ASSUME`s of the modules: that the markers for absent
files, nobody and so on are not documents, that reports, names in the trash and
holders of a lock are told apart, that bounds are numbers, that there are finitely
many hosts and, if any, a worker for them (`HostsAssumption`, `WorkersAssumption`), that
a guard's job is one of the tasks and
`autostart` a Boolean (`JobsAssumption`, `SetupsAssumption`), and that a scan finds something at
finitely many addresses, on some day (`FindingsAssumption`).

Only model-checked: the liveness properties `StageEnds` and `ReportsFinish`, which the
prover cannot treat, and the two violations. That `ScanJobs` and `HostChecks` take from
the store what `ReportRegister` promises, and the other arrows between modules above,
are by reading.

## Not modelled

* File contents beyond what a property tells apart: findings and their rules, the
  wording itself, guidance archives.
* The clock: timeouts, back-offs and the execution budget may expire whenever the
  code waits. Equal mtimes of two replacements.
* The limit of five quarantined copies of damaged notes, and a damaged fence file.
* Discovery before the checks, and the lookups after them, except that they can fail
  and that the guard is checked.
* The trash's limit of bytes, symbolic links in its paths, and copies that
  maintenance has put there.
* In the inventory: the reuse of nicknames, conflicting names, filters, sorting and
  text search, the limits of the labels. Reports that cannot be read are reports
  that are not there.
* The prompts and the HTTP exchange with the model server: any answer may come.
* In `StartRequests`: a submit cancelled inside its admission section, a journal lost
  before it has a backup (which the code takes for a first start), the size limit of
  the journal, and starts without an operation.
* The device classifier and the risk rules: tables of conditions over the text of one
  device, with no state and no order; the reports' export (`api/report_export.py`)
  and the live review script, which format and drive what is modelled.
* The components with the status `not_modelled` in `PROJECT.json`.

## Plan

1. That `Explanations` implements the two writes `ScanJobs` has, and `ReportTrash` its
   removal, by refinement.
2. The front end's start recovery and polling generations.
3. The execution budget and the risk rules against reference definitions.
