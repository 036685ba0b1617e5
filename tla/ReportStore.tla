----------------------------- MODULE ReportStore -----------------------------
(***************************************************************************)
(* The files of one saved report and the threads that read and write them: *)
(* JsonStore in src/app/storage/json_store.py.                             *)
(*                                                                         *)
(*   scan.json, scan.previous.json   primary, previous                     *)
(*   terminal.json                   terminal (the revision-bound sidecar) *)
(*   summary.json, progress.json     cache, with fresh for the comparison  *)
(*                                   of their mtime with the primary's     *)
(*   locks/<id>.lock                 lock                                  *)
(*                                                                         *)
(* Every writer runs in a thread (asyncio.to_thread) and holds the file    *)
(* lock from its load to its last cache write; readers take no lock.  One  *)
(* action is one replacement, unlink or read of one file, because a reader *)
(* or a crash can come between any two of them.  The lock belongs to the   *)
(* process, so a crash frees it.                                           *)
(***************************************************************************)
EXTENDS Naturals

CONSTANTS
    Terminal, Running, NoDoc, Limit, MaxRemark,   \* as in ReportRegister
    Writers,     \* threads that update or finish the report
    Readers,     \* threads that load the report or poll its progress
    NoMarker,    \* terminal.json does not exist
    Same,        \* the sidecar records no change of this field
    Nobody,      \* no thread holds the lock
    Failed,      \* the result of a read that raised
    MaxRev,      \* bound: no write starts from a revision this high
    MaxCrashes   \* bound: process crashes

ASSUME LimitAssumption == Limit \in Nat /\ MaxRemark \in Nat
ASSUME BoundAssumption == MaxRev \in Nat /\ MaxCrashes \in Nat
ASSUME NobodyAssumption == Nobody \notin Writers

VARIABLES
    primary, previous, terminal,
    cache,       \* the projection each cache file holds
    fresh,       \* the caches no older than the primary
    lock,
    pc,          \* where each writer is
    next,        \* the document each writer is publishing
    rpc,         \* where each reader is
    held,        \* the primary a reader has read, until it looks at the sidecar
    result,      \* what each reader last returned
    window,      \* history: the documents visible since the reader began
    crashes

files == <<primary, previous, terminal, cache, fresh>>
readers == <<rpc, held, result>>
vars == <<files, lock, pc, next, readers, window, crashes>>

Caches == {"summary", "progress"}

Status == Terminal \cup {Running}

Doc == [rev : Nat \ {0}, evidence : Nat, status : Status, remark : 0 .. MaxRemark]

Marker == [base : Nat \ {0}, status : Status \cup {Same}, remark : 0 .. MaxRemark \cup {Same}]

ASSUME AbsentAssumption == NoDoc \notin Doc /\ NoMarker \notin Marker
ASSUME StatusAssumption ==
    /\ Running \notin Terminal
    /\ Same \notin Status /\ Same \notin 0 .. MaxRemark

-----------------------------------------------------------------------------
(* Documents *)

Fits(d) == d.evidence + d.remark <= Limit

Revised(d, e, s, r) == [rev |-> d.rev + 1, evidence |-> e, status |-> s, remark |-> r]

Checkpointed(d) == Revised(d, d.evidence + 1, d.status, d.remark)

Resumed(d) == Revised(d, d.evidence, Running, 0)

Finished(d, s, r) == Revised(d, d.evidence, s, r)

\* Mutant: a new report has no revision yet.
CreatedUnnumbered == [rev |-> 0, evidence |-> 0, status |-> Running, remark |-> 0]

Created == [rev |-> 1, evidence |-> 0, status |-> Running, remark |-> 0]

\* Mutant: the revision a sidecar is bound to is not looked at.
OverlayUnbound(d, m) ==
    IF m # NoMarker
      THEN [rev      |-> d.rev,
            evidence |-> d.evidence,
            status   |-> IF m.status = Same THEN d.status ELSE m.status,
            remark   |-> IF m.remark = Same THEN d.remark ELSE m.remark]
      ELSE d

\* A sidecar bound to another revision is inert.
Overlay(d, m) ==
    IF m # NoMarker /\ m.base = d.rev
      THEN [rev      |-> d.rev,
            evidence |-> d.evidence,
            status   |-> IF m.status = Same THEN d.status ELSE m.status,
            remark   |-> IF m.remark = Same THEN d.remark ELSE m.remark]
      ELSE d

\* What _load_scan returns when nothing is written during it.
Visible == IF primary = NoDoc THEN NoDoc ELSE Overlay(primary, terminal)

\* Mutant: the sidecar holds the changes to the document the writer loaded,
\* older sidecar included.
DifferenceFromVisible(base, d) ==
    [base   |-> base.rev,
     status |-> IF d.status = Visible.status THEN Same ELSE d.status,
     remark |-> IF d.remark = Visible.remark THEN Same ELSE d.remark]

\* The sidecar holds the fields in which the finished document differs from
\* the PRIMARY, so a second terminal update repeats what the first one set.
Difference(base, d) ==
    [base   |-> base.rev,
     status |-> IF d.status = base.status THEN Same ELSE d.status,
     remark |-> IF d.remark = base.remark THEN Same ELSE d.remark]

-----------------------------------------------------------------------------

Init ==
    /\ primary = NoDoc /\ previous = NoDoc /\ terminal = NoMarker
    /\ cache = [c \in Caches |-> NoDoc] /\ fresh = {}
    /\ lock = Nobody
    /\ pc = [w \in Writers |-> "idle"]
    /\ next = [w \in Writers |-> NoDoc]
    /\ rpc = [r \in Readers |-> "idle"]
    /\ held = [r \in Readers |-> NoDoc]
    /\ result = [r \in Readers |-> NoDoc]
    /\ window = [r \in Readers |-> {}]
    /\ crashes = 0

\* What the file system shows changes for every read in progress.
Observe == window' = [r \in Readers |->
                        IF rpc[r] = "idle" THEN {} ELSE window[r] \cup {Visible'}]

-----------------------------------------------------------------------------
(* Writers.  Taking the lock, loading and validating happen with no other   *)
(* writer about, so they are one step.  A writer that waits out the lock     *)
(* timeout, finds another revision than the one it expected, or is asked for *)
(* a document that does not fit, raises without touching a file.             *)

Begin(w, d, step) ==
    /\ lock = Nobody /\ pc[w] = "idle"
    /\ lock' = w
    /\ next' = [next EXCEPT ![w] = d]
    /\ pc' = [pc EXCEPT ![w] = step]
    /\ UNCHANGED <<files, readers, window, crashes>>

BeginCreate(w) ==
    /\ primary = NoDoc
    /\ Begin(w, Created, "primary")

BeginUpdate(w) ==
    /\ primary # NoDoc /\ Visible.rev < MaxRev
    /\ \E d \in {Checkpointed(Visible), Resumed(Visible)} :
          Fits(d) /\ Begin(w, d, "backup")

BeginFinish(w) ==
    /\ primary # NoDoc /\ Visible.rev < MaxRev
    /\ \E s \in Terminal, r \in 0 .. MaxRemark :
          LET d == Finished(Visible, s, r)
          IN  Begin(w, d, IF Fits(d) THEN "backup" ELSE "marker")

Continue(w, from, to) ==
    /\ pc[w] = from
    /\ pc' = [pc EXCEPT ![w] = to]
    /\ UNCHANGED <<lock, next, readers, crashes>>

\* Mutant: the backup gets the new document.
BackupOfNext(w) ==
    /\ Continue(w, "backup", "primary")
    /\ previous' = next[w]
    /\ UNCHANGED <<primary, terminal, cache, fresh>>
    /\ Observe

\* os.replace of scan.previous.json with the bytes of the current primary.
WriteBackup(w) ==
    /\ Continue(w, "backup", "primary")
    /\ previous' = primary
    /\ UNCHANGED <<primary, terminal, cache, fresh>>
    /\ Observe

\* os.replace of scan.json: from here every cache is older than the primary.
WritePrimary(w) ==
    /\ Continue(w, "primary", "unlink")
    /\ primary' = next[w]
    /\ fresh' = {}
    /\ UNCHANGED <<previous, terminal, cache>>
    /\ Observe

\* The absorbed sidecar is removed, or left inert when it cannot be.
UnlinkMarker(w) ==
    /\ Continue(w, "unlink", "summary")
    /\ terminal' \in {NoMarker, terminal}
    /\ UNCHANGED <<primary, previous, cache, fresh>>
    /\ Observe

\* Mutant: the projection is made from the backup.
CacheOfPrevious(w, c, to) ==
    /\ Continue(w, c, to)
    /\ cache' = [cache EXCEPT ![c] = previous]
    /\ fresh' = fresh \cup {c}
    /\ UNCHANGED <<primary, previous, terminal>>
    /\ Observe

WriteCache(w, c, to) ==
    /\ Continue(w, c, to)
    /\ cache' = [cache EXCEPT ![c] = next[w]]
    /\ fresh' = fresh \cup {c}
    /\ UNCHANGED <<primary, previous, terminal>>
    /\ Observe

WriteSummary(w) == WriteCache(w, "summary", "progress")

WriteProgress(w) == WriteCache(w, "progress", "release")

\* One handler covers both caches: when the summary fails, progress is skipped.
CacheWriteFails(w) ==
    /\ \E c \in Caches : Continue(w, c, "release")
    /\ UNCHANGED <<files, window>>

\* The finished document did not fit: record its status beside the primary.
WriteMarker(w) ==
    /\ Continue(w, "marker", "release")
    /\ terminal' = Difference(primary, next[w])
    /\ UNCHANGED <<primary, previous, cache, fresh>>
    /\ Observe

\* An OSError out of a write under the lock: the call raises.
WriteFails(w) ==
    /\ \E step \in {"backup", "primary", "marker"} : Continue(w, step, "release")
    /\ UNCHANGED <<files, window>>

Release(w) ==
    /\ pc[w] = "release"
    /\ lock' = Nobody
    /\ pc' = [pc EXCEPT ![w] = "idle"]
    /\ next' = [next EXCEPT ![w] = NoDoc]
    /\ UNCHANGED <<files, readers, window, crashes>>

-----------------------------------------------------------------------------
(* Readers: load_scan, and load_progress (list_scans does the same with the *)
(* summary), which first try a cache.                                       *)

Step(r, from, to) ==
    /\ rpc[r] = from
    /\ rpc' = [rpc EXCEPT ![r] = to]
    /\ UNCHANGED <<files, lock, pc, next, crashes>>

Return(r, d) ==
    /\ result' = [result EXCEPT ![r] = d]
    /\ held' = [held EXCEPT ![r] = NoDoc]
    /\ UNCHANGED window

Begins(r) ==
    /\ primary # NoDoc
    /\ window' = [window EXCEPT ![r] = {Visible}]
    /\ result' = [result EXCEPT ![r] = NoDoc]
    /\ UNCHANGED held

StartLoad(r) == Step(r, "idle", "primary") /\ Begins(r)

StartPoll(r) ==
    /\ Step(r, "idle", IF terminal = NoMarker THEN "stat" ELSE "primary")
    /\ Begins(r)

\* Mutant: a cache is trusted whenever there is one.
TrustAnyCache(r) ==
    /\ \E c \in Caches : Step(r, "stat", IF cache[c] # NoDoc THEN c ELSE "primary")
    /\ UNCHANGED <<held, result, window>>

CompareTimes(r) ==
    /\ \E c \in Caches : Step(r, "stat", IF c \in fresh THEN c ELSE "primary")
    /\ UNCHANGED <<held, result, window>>

ReadCache(r) ==
    \E c \in Caches : Step(r, c, "idle") /\ Return(r, cache[c])

ReadPrimary(r) ==
    /\ Step(r, "primary", "terminal")
    /\ held' = [held EXCEPT ![r] = primary]
    /\ UNCHANGED <<result, window>>

\* terminal.is_file(): with no sidecar the primary is returned as it was read.
LookForMarker(r) ==
    \/ /\ terminal = NoMarker
       /\ Step(r, "terminal", "idle")
       /\ Return(r, held[r])
    \/ /\ terminal # NoMarker
       /\ Step(r, "terminal", "marker")
       /\ UNCHANGED <<held, result, window>>

\* A sidecar unlinked since is_file() is not a regular file: the read raises.
ReadMarker(r) ==
    /\ Step(r, "marker", "idle")
    /\ Return(r, IF terminal = NoMarker THEN Failed ELSE Overlay(held[r], terminal))

-----------------------------------------------------------------------------

\* The process dies: files stay, threads and the lock they hold do not.
Crash ==
    /\ crashes < MaxCrashes
    /\ crashes' = crashes + 1
    /\ lock' = Nobody
    /\ pc' = [w \in Writers |-> "idle"]
    /\ next' = [w \in Writers |-> NoDoc]
    /\ rpc' = [r \in Readers |-> "idle"]
    /\ held' = [r \in Readers |-> NoDoc]
    /\ result' = [r \in Readers |-> NoDoc]
    /\ window' = [r \in Readers |-> {}]
    /\ UNCHANGED files

Write(w) ==
    \/ BeginCreate(w) \/ BeginUpdate(w) \/ BeginFinish(w)
    \/ WriteBackup(w) \/ WritePrimary(w) \/ UnlinkMarker(w)
    \/ WriteSummary(w) \/ WriteProgress(w) \/ CacheWriteFails(w)
    \/ WriteMarker(w) \/ WriteFails(w) \/ Release(w)

Read(r) ==
    \/ StartLoad(r) \/ StartPoll(r) \/ CompareTimes(r) \/ ReadCache(r)
    \/ ReadPrimary(r) \/ LookForMarker(r) \/ ReadMarker(r)

Next ==
    \/ \E w \in Writers : Write(w)
    \/ \E r \in Readers : Read(r)
    \/ Crash

Spec == Init /\ [][Next]_vars

-----------------------------------------------------------------------------

TypeOK ==
    /\ primary \in Doc \cup {NoDoc}
    /\ previous \in Doc \cup {NoDoc}
    /\ terminal \in Marker \cup {NoMarker}
    /\ cache \in [Caches -> Doc \cup {NoDoc}]
    /\ fresh \subseteq Caches
    /\ lock \in Writers \cup {Nobody}
    /\ pc \in [Writers -> {"idle", "backup", "primary", "unlink", "summary",
                           "progress", "marker", "release"}]
    /\ next \in [Writers -> Doc \cup {NoDoc}]
    /\ rpc \in [Readers -> {"idle", "stat", "summary", "progress", "primary",
                            "terminal", "marker"}]
    /\ held \in [Readers -> Doc \cup {NoDoc}]
    /\ result \in [Readers -> Doc \cup {NoDoc, Failed}]
    /\ window \in [Readers -> SUBSET (Doc \cup {NoDoc})]
    /\ crashes \in 0 .. MaxCrashes

\* Whatever write a crash or an error cuts short, scan.previous.json is the
\* primary itself or the revision just before it: offline recovery
\* (maintenance.py) never falls back by more than one checkpoint.
BackupAtMostOneBehind ==
    previous # NoDoc => primary # NoDoc /\ primary.rev \in {previous.rev, previous.rev + 1}

\* The condition under which load_progress and list_scans trust a cache
\* (no sidecar, mtime not older than the primary's) implies that the cache
\* describes the document a full load would return.
TrustedCacheIsCurrent ==
    \A c \in fresh : terminal = NoMarker => cache[c] = Visible

\* A terminal status is only ever taken back by a write that publishes a new
\* revision: no interrupted write, absorbed or superseded sidecar revives a
\* finished job under the revision that finished it.
FinishedUntilNextRevision ==
    [][ (Visible # NoDoc /\ Visible.status \in Terminal /\ Visible'.rev = Visible.rev)
        => Visible'.status \in Terminal ]_vars

Returns(r) == rpc[r] # "idle" /\ rpc'[r] = "idle" /\ crashes' = crashes

\* An unlocked read or a poll of the caches never mixes two revisions and never
\* serves an outdated one: the revision and the evidence it returns belonged
\* together in one document visible during the read.  The status may be that of
\* before the end: the sidecar is read after scan.json, and may be gone by then.
ReadIsOneRevision ==
    [][ \A r \in Readers :
           Returns(r) /\ result'[r] # Failed =>
              \E d \in window[r] : /\ d.rev = result'[r].rev
                                   /\ d.evidence = result'[r].evidence ]_vars

\* The files implement the register: every replacement, unlink, failure and
\* crash is one step of ReportRegister, or none.
Register == INSTANCE ReportRegister WITH doc <- Visible

ImplementsRegister == Register!Spec

=============================================================================
