-------------------------- MODULE ReportStoreProofs --------------------------
(***************************************************************************)
(* ReportStore implements ReportRegister, for every set of writers and     *)
(* readers, every size limit and every number of crashes.                  *)
(*                                                                         *)
(* The argument: a writer past "idle" holds the lock, so until it releases *)
(* it nobody else writes and the document it loaded is still the visible   *)
(* one.  The visible document therefore changes in exactly two places, the *)
(* replacement of the primary and the replacement of the sidecar; the      *)
(* unlink, the backup and the caches do not touch it, because the sidecar  *)
(* left behind by a new primary is bound to an older revision.             *)
(* Readers take no lock: what they hold, or trust, was visible since they  *)
(* began (WindowInv), be it overtaken by then.                             *)
(***************************************************************************)
EXTENDS ReportStore, TLAPS

\* The documents one write may publish over d, and those it may only finish
\* in the sidecar.
Successors(d) ==
    {e \in {Checkpointed(d), Resumed(d)} : Fits(e)}
    \cup {Finished(d, s, r) : s \in Terminal, r \in 0 .. MaxRemark}

Oversized(d) == {e \in {Finished(d, s, r) : s \in Terminal, r \in 0 .. MaxRemark} : ~ Fits(e)}

\* Whoever is writing holds the lock.
LockInv == \A w \in Writers : pc[w] # "idle" => lock = w

\* A sidecar never runs ahead of the primary.
MarkerInv == terminal # NoMarker => primary # NoDoc /\ terminal.base <= primary.rev

\* A pending document still follows from the one that is visible; a published
\* one is the primary, and leaves any sidecar behind it inert.
PublishInv ==
    \A w \in Writers :
       /\ pc[w] = "backup" =>
             primary # NoDoc /\ next[w] \in Successors(Visible) /\ Fits(next[w])
       /\ pc[w] = "primary" =>
             IF primary = NoDoc
               THEN next[w] = Created
               ELSE next[w] \in Successors(Visible) /\ Fits(next[w]) /\ previous = primary
       /\ pc[w] = "marker" => primary # NoDoc /\ next[w] \in Oversized(Visible)
       /\ pc[w] \in {"unlink", "summary", "progress"} =>
             /\ primary # NoDoc /\ next[w] = primary
             /\ terminal # NoMarker => terminal.base < primary.rev

\* A cache with a current mtime is the projection of the primary's own bytes.
CacheInv == \A c \in fresh : primary # NoDoc /\ cache[c] = primary

\* A reader that has begun finds the report, and keeps what it read.
ReaderInv ==
    \A r \in Readers :
       /\ rpc[r] # "idle" => primary # NoDoc
       /\ rpc[r] \in {"terminal", "marker"} => held[r] # NoDoc

IInv ==
    /\ TypeOK
    /\ LockInv
    /\ MarkerInv
    /\ PublishInv
    /\ BackupAtMostOneBehind
    /\ CacheInv
    /\ ReaderInv

-----------------------------------------------------------------------------
(* Lemmas about documents *)

\* A sidecar changes neither the revision nor the evidence of a document.
LEMMA OverlayIsDoc ==
    ASSUME NEW d \in Doc, NEW m \in Marker \cup {NoMarker}
    PROVE  /\ Overlay(d, m) \in Doc
           /\ Overlay(d, m).rev = d.rev
           /\ Overlay(d, m).evidence = d.evidence
  BY AbsentAssumption DEF Overlay, Doc, Marker

\* What a full load returns is absent exactly when the primary is.
LEMMA VisibleIsDoc ==
    ASSUME TypeOK, primary # NoDoc
    PROVE  /\ primary \in Doc /\ Visible \in Doc
           /\ Visible.rev = primary.rev /\ Visible.evidence = primary.evidence
  BY OverlayIsDoc DEF Visible, TypeOK

\* Every write publishes the next revision.
LEMMA SuccessorIsDoc ==
    ASSUME NEW d \in Doc, NEW e \in Successors(d)
    PROVE  e \in Doc /\ e.rev = d.rev + 1
  <1>1. CASE e = Checkpointed(d)
    BY <1>1 DEF Checkpointed, Revised, Doc
  <1>2. CASE e = Resumed(d)
    BY <1>2, LimitAssumption DEF Resumed, Revised, Doc, Status
  <1>3. CASE \E s \in Terminal, r \in 0 .. MaxRemark : e = Finished(d, s, r)
    BY <1>3 DEF Finished, Revised, Doc, Status
  <1>4. QED  BY <1>1, <1>2, <1>3 DEF Successors

LEMMA CreatedIsDoc == Created \in Doc
  BY LimitAssumption DEF Created, Doc, Status

\* The sidecar written for e, laid over the primary d, shows e's status.
LEMMA DifferenceShows ==
    ASSUME NEW d \in Doc, NEW e \in Doc
    PROVE  /\ Difference(d, e) \in Marker
           /\ Difference(d, e).base = d.rev
           /\ Overlay(d, Difference(d, e)) =
                 [rev |-> d.rev, evidence |-> d.evidence,
                  status |-> e.status, remark |-> e.remark]
  BY AbsentAssumption, StatusAssumption DEF Difference, Overlay, Doc, Marker

-----------------------------------------------------------------------------
(* IInv is inductive *)

LEMMA InitIInv == Init => IInv
  BY BoundAssumption
  DEF Init, IInv, TypeOK, LockInv, MarkerInv, PublishInv, BackupAtMostOneBehind,
      CacheInv, ReaderInv, Caches

\* Only the lock holder is past "idle", so the others have nothing pending.
LEMMA OthersIdle ==
    ASSUME IInv, NEW w \in Writers, pc[w] # "idle", NEW v \in Writers, v # w
    PROVE  pc[v] = "idle"
  BY DEF IInv, LockInv

\* Taking the lock: the files are untouched and the loaded document is visible.
LEMMA BeginStep ==
    ASSUME IInv, NEW w \in Writers, BeginCreate(w) \/ BeginUpdate(w) \/ BeginFinish(w)
    PROVE  IInv'
  <1> USE DEF IInv
  <1>1. /\ UNCHANGED <<primary, previous, terminal, cache, fresh, readers, window, crashes>>
        /\ \A v \in Writers : pc[v] = "idle"
        /\ lock' = w /\ Visible' = Visible
    BY NobodyAssumption
    DEF BeginCreate, BeginUpdate, BeginFinish, Begin, files, Visible, LockInv
  <1> DEFINE Pending(d, step) ==
        /\ next' = [next EXCEPT ![w] = d] /\ pc' = [pc EXCEPT ![w] = step]
        /\ \/ step = "primary" /\ primary = NoDoc /\ d = Created
           \/ step = "backup" /\ primary # NoDoc /\ d \in Successors(Visible) /\ Fits(d)
           \/ step = "marker" /\ primary # NoDoc /\ d \in Oversized(Visible)
  <1>2. PICK d, step : Pending(d, step)
    <2>1. CASE BeginCreate(w)
      BY <2>1 DEF BeginCreate, Begin
    <2>2. CASE BeginUpdate(w)
      <3>1. PICK d \in {Checkpointed(Visible), Resumed(Visible)} :
               Fits(d) /\ Begin(w, d, "backup")
        BY <2>2 DEF BeginUpdate
      <3>2. d \in Successors(Visible) /\ primary # NoDoc
        BY <2>2, <3>1 DEF BeginUpdate, Successors
      <3>3. Pending(d, "backup")
        BY <3>1, <3>2 DEF Begin
      <3>4. QED  BY <3>3
    <2>3. CASE BeginFinish(w)
      <3>1. PICK s \in Terminal, r \in 0 .. MaxRemark :
               Begin(w, Finished(Visible, s, r),
                     IF Fits(Finished(Visible, s, r)) THEN "backup" ELSE "marker")
        BY <2>3 DEF BeginFinish
      <3>2. primary # NoDoc
        BY <2>3 DEF BeginFinish
      <3>3. CASE Fits(Finished(Visible, s, r))
        <4>1. Finished(Visible, s, r) \in Successors(Visible)
          BY DEF Successors
        <4>2. Pending(Finished(Visible, s, r), "backup")
          BY <3>1, <3>2, <3>3, <4>1 DEF Begin
        <4>3. QED  BY <4>2
      <3>4. CASE ~ Fits(Finished(Visible, s, r))
        <4>1. Finished(Visible, s, r) \in Oversized(Visible)
          BY <3>4 DEF Oversized
        <4>2. Pending(Finished(Visible, s, r), "marker")
          BY <3>1, <3>2, <3>4, <4>1 DEF Begin
        <4>3. QED  BY <4>2
      <3>5. QED  BY <3>3, <3>4
    <2>4. QED  BY <2>1, <2>2, <2>3
  <1>3. d \in Doc
    <2>1. CASE primary = NoDoc
      BY <1>2, <2>1, CreatedIsDoc
    <2>2. CASE primary # NoDoc
      <3>1. Oversized(Visible) \subseteq Successors(Visible)
        BY DEF Oversized, Successors
      <3>2. QED  BY <1>2, <2>2, <3>1, VisibleIsDoc, SuccessorIsDoc
    <2>3. QED  BY <2>1, <2>2
  <1>4. TypeOK'
    BY <1>1, <1>2, <1>3 DEF TypeOK, readers
  <1>5. LockInv'
    BY <1>1, <1>2 DEF LockInv, TypeOK
  <1>6. PublishInv'
    <2>1. ASSUME NEW v \in Writers
          PROVE  /\ v # w => pc'[v] = "idle"
                 /\ v = w => pc'[v] = step /\ next'[v] = d
      BY <1>1, <1>2 DEF TypeOK
    <2>2. Successors(Visible)' = Successors(Visible) /\ Oversized(Visible)' = Oversized(Visible)
      BY <1>1 DEF Successors, Oversized, Checkpointed, Resumed, Finished, Revised, Fits
    <2>3. primary = NoDoc => d = Created
      BY <1>2
    <2>4. step \in {"primary", "backup", "marker"} /\ (step = "primary" => primary = NoDoc)
      BY <1>2
    <2>5. QED  BY <1>1, <1>2, <2>1, <2>2, <2>3, <2>4 DEF PublishInv, Fits, Created
  <1>7. (MarkerInv /\ BackupAtMostOneBehind /\ CacheInv /\ ReaderInv)'
    BY <1>1 DEF MarkerInv, BackupAtMostOneBehind, CacheInv, ReaderInv, readers
  <1>8. QED  BY <1>4, <1>5, <1>6, <1>7

\* A writer past "idle" moves on: nobody else has anything pending, and what
\* is left to show is about that writer and the files.
LEMMA ContinueStep ==
    ASSUME IInv, NEW w \in Writers, NEW from, NEW to,
           Continue(w, from, to), from # "idle",
           to \in {"primary", "unlink", "summary", "progress", "release"},
           primary # NoDoc => primary' # NoDoc
    PROVE  /\ LockInv' /\ ReaderInv'
           /\ \A v \in Writers : v # w => pc'[v] = "idle"
           /\ pc[w] = from /\ pc'[w] = to
           /\ next' = next /\ next[w] \in Doc \cup {NoDoc}
           /\ pc' \in [Writers -> {"idle", "backup", "primary", "unlink", "summary",
                                   "progress", "marker", "release"}]
  <1>1. /\ pc[w] = from /\ pc' = [pc EXCEPT ![w] = to]
        /\ UNCHANGED <<lock, next, readers, crashes>>
    BY DEF Continue
  <1>2. \A v \in Writers : v # w => pc[v] = "idle"
    BY <1>1, OthersIdle
  <1>3. LockInv'
    BY <1>1, <1>2 DEF IInv, LockInv, TypeOK
  <1>4. ReaderInv'
    BY <1>1 DEF IInv, ReaderInv, readers
  <1>5. QED  BY <1>1, <1>2, <1>3, <1>4 DEF IInv, TypeOK

\* The history a reader's window keeps stays a set of documents.
LEMMA ObserveType ==
    ASSUME TypeOK, Observe, primary' \in Doc \cup {NoDoc}, terminal' \in Marker \cup {NoMarker}
    PROVE  window' \in [Readers -> SUBSET (Doc \cup {NoDoc})]
  <1>1. Visible' \in Doc \cup {NoDoc}
    BY OverlayIsDoc DEF Visible
  <1>2. QED  BY <1>1 DEF Observe, TypeOK

LEMMA BackupStep ==
    ASSUME IInv, NEW w \in Writers, WriteBackup(w)
    PROVE  IInv'
  <1>1. /\ Continue(w, "backup", "primary") /\ previous' = primary /\ Observe
        /\ UNCHANGED <<primary, terminal, cache, fresh>>
    BY DEF WriteBackup
  <1>2. /\ LockInv' /\ ReaderInv' /\ next' = next
        /\ \A v \in Writers : v # w => pc'[v] = "idle"
        /\ pc[w] = "backup" /\ pc'[w] = "primary"
        /\ pc' \in [Writers -> {"idle", "backup", "primary", "unlink", "summary",
                                "progress", "marker", "release"}]
    BY <1>1, ContinueStep
  <1>3. /\ primary # NoDoc /\ primary \in Doc
        /\ next[w] \in Successors(Visible) /\ Fits(next[w])
    BY <1>2 DEF IInv, PublishInv, TypeOK
  <1>4. Visible' = Visible /\ Successors(Visible)' = Successors(Visible)
    BY <1>1 DEF Visible, Successors, Checkpointed, Resumed, Finished, Revised, Fits
  <1>5. TypeOK'
    BY <1>1, <1>2, ObserveType DEF IInv, TypeOK, Continue, readers
  <1>6. PublishInv'
    BY <1>1, <1>2, <1>3, <1>4 DEF PublishInv, Fits
  <1>7. BackupAtMostOneBehind'
    BY <1>1, <1>3 DEF BackupAtMostOneBehind, Doc
  <1>8. MarkerInv' /\ CacheInv'
    BY <1>1 DEF IInv, MarkerInv, CacheInv
  <1>9. QED  BY <1>2, <1>5, <1>6, <1>7, <1>8 DEF IInv

LEMMA PrimaryStep ==
    ASSUME IInv, NEW w \in Writers, WritePrimary(w)
    PROVE  /\ IInv'
           /\ Visible' = next[w]
           /\ IF primary = NoDoc
                THEN next[w] = Created
                ELSE next[w] \in Successors(Visible) /\ Fits(next[w])
  <1>1. /\ Continue(w, "primary", "unlink") /\ primary' = next[w] /\ fresh' = {} /\ Observe
        /\ UNCHANGED <<previous, terminal, cache>>
    BY DEF WritePrimary
  <1>2. IF primary = NoDoc
          THEN next[w] = Created
          ELSE next[w] \in Successors(Visible) /\ Fits(next[w]) /\ previous = primary
    BY <1>1 DEF Continue, IInv, PublishInv
  <1>3. next[w] \in Doc /\ next[w] # NoDoc
    <2>1. CASE primary = NoDoc
      BY <1>2, <2>1, CreatedIsDoc, AbsentAssumption
    <2>2. CASE primary # NoDoc
      BY <1>2, <2>2, VisibleIsDoc, SuccessorIsDoc, AbsentAssumption DEF IInv
    <2>3. QED  BY <2>1, <2>2
  <1>4. /\ LockInv' /\ ReaderInv' /\ next' = next
        /\ \A v \in Writers : v # w => pc'[v] = "idle"
        /\ pc[w] = "primary" /\ pc'[w] = "unlink"
        /\ pc' \in [Writers -> {"idle", "backup", "primary", "unlink", "summary",
                                "progress", "marker", "release"}]
    BY <1>1, <1>3, ContinueStep
  <1>5. primary # NoDoc => primary \in Doc /\ next[w].rev = primary.rev + 1
    BY <1>2, VisibleIsDoc, SuccessorIsDoc DEF IInv
  <1>6. terminal # NoMarker => primary # NoDoc /\ terminal.base < next[w].rev
    <2>1. terminal # NoMarker => terminal.base \in Nat
      BY DEF IInv, TypeOK, Marker
    <2>2. primary # NoDoc => primary.rev \in Nat
      BY <1>5 DEF Doc
    <2>3. QED  BY <1>5, <2>1, <2>2 DEF IInv, MarkerInv
  <1>7. Visible' = next[w]
    <2>1. terminal # NoMarker => terminal.base # next[w].rev
      BY <1>3, <1>6 DEF IInv, TypeOK, Marker, Doc
    <2>2. QED  BY <1>1, <1>3, <2>1 DEF Visible, Overlay
  <1>8. TypeOK'
    BY <1>1, <1>3, <1>4, ObserveType DEF IInv, TypeOK, Continue, readers
  <1>9. PublishInv'
    BY <1>1, <1>3, <1>4, <1>6 DEF PublishInv
  <1>10. BackupAtMostOneBehind'
    <2>1. CASE primary = NoDoc
      BY <1>1, <1>3, <2>1 DEF IInv, BackupAtMostOneBehind
    <2>2. CASE primary # NoDoc
      BY <1>1, <1>2, <1>3, <1>5, <2>2 DEF BackupAtMostOneBehind, Doc
    <2>3. QED  BY <2>1, <2>2
  <1>11. MarkerInv'
    BY <1>1, <1>3, <1>6 DEF MarkerInv, IInv, TypeOK, Marker, Doc
  <1>12. CacheInv'
    BY <1>1 DEF CacheInv
  <1>13. QED  BY <1>2, <1>4, <1>7, <1>8, <1>9, <1>10, <1>11, <1>12 DEF IInv

LEMMA UnlinkStep ==
    ASSUME IInv, NEW w \in Writers, UnlinkMarker(w)
    PROVE  IInv' /\ Visible' = Visible
  <1>1. /\ Continue(w, "unlink", "summary") /\ terminal' \in {NoMarker, terminal} /\ Observe
        /\ UNCHANGED <<primary, previous, cache, fresh>>
    BY DEF UnlinkMarker
  <1>2. /\ LockInv' /\ ReaderInv' /\ next' = next
        /\ \A v \in Writers : v # w => pc'[v] = "idle"
        /\ pc[w] = "unlink" /\ pc'[w] = "summary"
        /\ pc' \in [Writers -> {"idle", "backup", "primary", "unlink", "summary",
                                "progress", "marker", "release"}]
    BY <1>1, ContinueStep
  <1>3. /\ primary # NoDoc /\ primary \in Doc /\ next[w] = primary
        /\ terminal # NoMarker => terminal.base < primary.rev
    BY <1>2 DEF IInv, PublishInv, TypeOK
  <1>4. Visible' = Visible
    <2>1. terminal # NoMarker => terminal.base # primary.rev
      BY <1>3 DEF IInv, TypeOK, Marker, Doc
    <2>2. QED  BY <1>1, <2>1 DEF Visible, Overlay
  <1>5. TypeOK'
    BY <1>1, <1>2, ObserveType DEF IInv, TypeOK, Continue, readers
  <1>6. PublishInv'
    BY <1>1, <1>2, <1>3 DEF PublishInv
  <1>7. MarkerInv' /\ BackupAtMostOneBehind' /\ CacheInv'
    BY <1>1 DEF IInv, MarkerInv, BackupAtMostOneBehind, CacheInv
  <1>8. QED  BY <1>2, <1>4, <1>5, <1>6, <1>7 DEF IInv

LEMMA CacheStep ==
    ASSUME IInv, NEW w \in Writers, WriteSummary(w) \/ WriteProgress(w)
    PROVE  IInv' /\ Visible' = Visible
  <1>1. PICK c \in Caches, to \in {"progress", "release"} : WriteCache(w, c, to)
    BY DEF WriteSummary, WriteProgress, Caches
  <1>2. /\ Continue(w, c, to) /\ Observe
        /\ cache' = [cache EXCEPT ![c] = next[w]] /\ fresh' = fresh \cup {c}
        /\ UNCHANGED <<primary, previous, terminal>>
    BY <1>1 DEF WriteCache
  <1>3. /\ LockInv' /\ ReaderInv' /\ next' = next
        /\ \A v \in Writers : v # w => pc'[v] = "idle"
        /\ pc[w] = c /\ pc'[w] = to
        /\ pc' \in [Writers -> {"idle", "backup", "primary", "unlink", "summary",
                                "progress", "marker", "release"}]
    BY <1>2, ContinueStep DEF Caches
  <1>4. /\ primary # NoDoc /\ primary \in Doc /\ next[w] = primary
        /\ terminal # NoMarker => terminal.base < primary.rev
    BY <1>3 DEF IInv, PublishInv, TypeOK, Caches
  <1>5. Visible' = Visible
    BY <1>2 DEF Visible
  <1>6. TypeOK'
    BY <1>2, <1>3, <1>4, ObserveType DEF IInv, TypeOK, Continue, readers
  <1>7. PublishInv'
    BY <1>2, <1>3, <1>4 DEF PublishInv
  <1>8. CacheInv'
    BY <1>2, <1>4 DEF IInv, TypeOK, CacheInv
  <1>9. MarkerInv' /\ BackupAtMostOneBehind'
    BY <1>2 DEF IInv, MarkerInv, BackupAtMostOneBehind
  <1>10. QED  BY <1>3, <1>5, <1>6, <1>7, <1>8, <1>9 DEF IInv

\* A failed write releases the lock over the files as the last write left them.
LEMMA FailStep ==
    ASSUME IInv, NEW w \in Writers, CacheWriteFails(w) \/ WriteFails(w)
    PROVE  IInv' /\ Visible' = Visible
  <1>1. PICK from \in Caches \cup {"backup", "primary", "marker"} : Continue(w, from, "release")
    BY DEF CacheWriteFails, WriteFails
  <1>2. UNCHANGED <<primary, previous, terminal, cache, fresh, window>>
    BY DEF CacheWriteFails, WriteFails, files
  <1>3. /\ LockInv' /\ ReaderInv' /\ next' = next
        /\ \A v \in Writers : v # w => pc'[v] = "idle"
        /\ pc'[w] = "release"
        /\ pc' \in [Writers -> {"idle", "backup", "primary", "unlink", "summary",
                                "progress", "marker", "release"}]
    BY <1>1, <1>2, ContinueStep DEF Caches
  <1>4. Visible' = Visible
    BY <1>2 DEF Visible
  <1>5. TypeOK'
    BY <1>1, <1>2, <1>3 DEF IInv, TypeOK, Continue, readers
  <1>6. PublishInv'
    BY <1>3 DEF PublishInv
  <1>7. MarkerInv' /\ BackupAtMostOneBehind' /\ CacheInv'
    BY <1>2 DEF IInv, MarkerInv, BackupAtMostOneBehind, CacheInv
  <1>8. QED  BY <1>3, <1>4, <1>5, <1>6, <1>7 DEF IInv

LEMMA MarkerStep ==
    ASSUME IInv, NEW w \in Writers, WriteMarker(w)
    PROVE  /\ IInv'
           /\ primary # NoDoc
           /\ next[w] \in Oversized(Visible)
           /\ Visible' = [rev |-> Visible.rev, evidence |-> Visible.evidence,
                          status |-> next[w].status, remark |-> next[w].remark]
  <1>1. /\ Continue(w, "marker", "release") /\ terminal' = Difference(primary, next[w]) /\ Observe
        /\ UNCHANGED <<primary, previous, cache, fresh>>
    BY DEF WriteMarker
  <1>2. /\ LockInv' /\ ReaderInv' /\ next' = next
        /\ \A v \in Writers : v # w => pc'[v] = "idle"
        /\ pc[w] = "marker" /\ pc'[w] = "release"
        /\ pc' \in [Writers -> {"idle", "backup", "primary", "unlink", "summary",
                                "progress", "marker", "release"}]
    BY <1>1, ContinueStep
  <1>3. primary # NoDoc /\ next[w] \in Oversized(Visible)
    BY <1>2 DEF IInv, PublishInv
  <1>4. /\ primary \in Doc /\ next[w] \in Doc
        /\ Visible.rev = primary.rev /\ Visible.evidence = primary.evidence
    <2>1. Oversized(Visible) \subseteq Successors(Visible)
      BY DEF Oversized, Successors
    <2>2. QED  BY <1>3, <2>1, VisibleIsDoc, SuccessorIsDoc DEF IInv
  <1>5. /\ terminal' \in Marker /\ terminal'.base = primary.rev
        /\ Overlay(primary, terminal') =
              [rev |-> primary.rev, evidence |-> primary.evidence,
               status |-> next[w].status, remark |-> next[w].remark]
    BY <1>1, <1>4, DifferenceShows
  <1>6. Visible' = [rev |-> Visible.rev, evidence |-> Visible.evidence,
                    status |-> next[w].status, remark |-> next[w].remark]
    BY <1>1, <1>3, <1>4, <1>5 DEF Visible
  <1>7. TypeOK'
    BY <1>1, <1>2, <1>5, ObserveType DEF IInv, TypeOK, Continue, readers
  <1>8. PublishInv'
    BY <1>2 DEF PublishInv
  <1>9. MarkerInv'
    BY <1>1, <1>3, <1>4, <1>5 DEF MarkerInv, Doc
  <1>10. BackupAtMostOneBehind' /\ CacheInv'
    BY <1>1 DEF IInv, BackupAtMostOneBehind, CacheInv
  <1>11. QED  BY <1>2, <1>3, <1>6, <1>7, <1>8, <1>9, <1>10 DEF IInv

LEMMA ReleaseStep ==
    ASSUME IInv, NEW w \in Writers, Release(w)
    PROVE  IInv' /\ Visible' = Visible
  <1>1. /\ pc[w] = "release" /\ lock' = Nobody /\ pc' = [pc EXCEPT ![w] = "idle"]
        /\ next' = [next EXCEPT ![w] = NoDoc]
        /\ UNCHANGED <<primary, previous, terminal, cache, fresh, readers, window, crashes>>
    BY DEF Release, files
  <1>2. \A v \in Writers : pc'[v] = "idle"
    BY <1>1, OthersIdle DEF IInv, TypeOK
  <1>3. TypeOK'
    BY <1>1 DEF IInv, TypeOK, readers
  <1>4. LockInv' /\ PublishInv'
    BY <1>2 DEF LockInv, PublishInv
  <1>5. (MarkerInv /\ BackupAtMostOneBehind /\ CacheInv /\ ReaderInv)' /\ Visible' = Visible
    BY <1>1 DEF IInv, MarkerInv, BackupAtMostOneBehind, CacheInv, ReaderInv, readers, Visible
  <1>6. QED  BY <1>3, <1>4, <1>5 DEF IInv

LEMMA ReadStep ==
    ASSUME IInv, NEW r \in Readers, Read(r)
    PROVE  IInv' /\ Visible' = Visible
  <1>1. UNCHANGED <<primary, previous, terminal, cache, fresh, lock, pc, next, crashes>>
    BY DEF Read, StartLoad, StartPoll, CompareTimes, ReadCache, ReadPrimary, LookForMarker,
           ReadMarker, Step, files
  <1>2. Visible' = Visible
    BY <1>1 DEF Visible
  <1>3. (LockInv /\ MarkerInv /\ PublishInv /\ BackupAtMostOneBehind /\ CacheInv)'
    BY <1>1, <1>2
    DEF IInv, LockInv, MarkerInv, PublishInv, BackupAtMostOneBehind, CacheInv, Successors,
        Oversized, Checkpointed, Resumed, Finished, Revised, Fits, Created
  <1> DEFINE ReaderType ==
        /\ rpc' \in [Readers -> {"idle", "stat", "summary", "progress", "primary",
                                 "terminal", "marker"}]
        /\ held' \in [Readers -> Doc \cup {NoDoc}]
        /\ result' \in [Readers -> Doc \cup {NoDoc, Failed}]
        /\ window' \in [Readers -> SUBSET (Doc \cup {NoDoc})]
  <1>4. CASE StartLoad(r) \/ StartPoll(r)
    <2>1. primary # NoDoc /\ Visible \in Doc
      BY <1>4, VisibleIsDoc DEF StartLoad, StartPoll, Begins, IInv
    <2>2. ReaderType /\ ReaderInv'
      BY <1>1, <1>4, <2>1 DEF StartLoad, StartPoll, Begins, Step, IInv, TypeOK, ReaderInv
    <2>3. QED  BY <1>1, <1>2, <1>3, <2>2 DEF IInv, TypeOK
  <1>5. CASE CompareTimes(r)
    <2>1. ReaderType /\ ReaderInv'
      BY <1>1, <1>5 DEF CompareTimes, Step, IInv, TypeOK, ReaderInv, Caches
    <2>2. QED  BY <1>1, <1>2, <1>3, <2>1 DEF IInv, TypeOK
  <1>6. CASE ReadCache(r)
    <2>1. ReaderType /\ ReaderInv'
      BY <1>1, <1>6 DEF ReadCache, Step, Return, IInv, TypeOK, ReaderInv, Caches
    <2>2. QED  BY <1>1, <1>2, <1>3, <2>1 DEF IInv, TypeOK
  <1>7. CASE ReadPrimary(r)
    <2>1. ReaderType /\ ReaderInv'
      BY <1>1, <1>7 DEF ReadPrimary, Step, IInv, TypeOK, ReaderInv
    <2>2. QED  BY <1>1, <1>2, <1>3, <2>1 DEF IInv, TypeOK
  <1>8. CASE LookForMarker(r)
    <2>1. ReaderType /\ ReaderInv'
      BY <1>1, <1>8 DEF LookForMarker, Step, Return, IInv, TypeOK, ReaderInv
    <2>2. QED  BY <1>1, <1>2, <1>3, <2>1 DEF IInv, TypeOK
  <1>9. CASE ReadMarker(r)
    <2>1. held[r] \in Doc
      BY <1>9 DEF ReadMarker, Step, IInv, TypeOK, ReaderInv
    <2>2. Overlay(held[r], terminal) \in Doc
      BY <2>1, OverlayIsDoc DEF IInv, TypeOK
    <2>3. ReaderType /\ ReaderInv'
      BY <1>1, <1>9, <2>2 DEF ReadMarker, Step, Return, IInv, TypeOK, ReaderInv
    <2>4. QED  BY <1>1, <1>2, <1>3, <2>3 DEF IInv, TypeOK
  <1>10. QED  BY <1>4, <1>5, <1>6, <1>7, <1>8, <1>9 DEF Read

LEMMA CrashStep ==
    ASSUME IInv, Crash
    PROVE  IInv' /\ Visible' = Visible
  <1>1. TypeOK'
    BY BoundAssumption DEF IInv, TypeOK, Crash, files
  <1>2. (LockInv /\ PublishInv /\ ReaderInv)'
    BY DEF Crash, LockInv, PublishInv, ReaderInv
  <1>3. (MarkerInv /\ BackupAtMostOneBehind /\ CacheInv)' /\ Visible' = Visible
    BY DEF Crash, files, IInv, MarkerInv, BackupAtMostOneBehind, CacheInv, Visible
  <1>4. QED  BY <1>1, <1>2, <1>3 DEF IInv

LEMMA StutterStep ==
    ASSUME IInv, UNCHANGED vars
    PROVE  IInv' /\ Visible' = Visible
  BY DEF vars, files, readers, IInv, TypeOK, LockInv, MarkerInv, PublishInv,
         BackupAtMostOneBehind, CacheInv, ReaderInv, Visible, Overlay, Successors, Oversized,
         Checkpointed, Resumed, Finished, Revised, Fits, Created

\* What one step does to the document a reader is entitled to see.
VisibleStep ==
    \/ Visible' = Visible
    \/ Visible = NoDoc /\ Visible' = Created
    \/ Visible # NoDoc /\ Visible' \in Successors(Visible) /\ Fits(Visible')
    \/ /\ Visible # NoDoc
       /\ \E e \in Oversized(Visible) :
             Visible' = [rev |-> Visible.rev, evidence |-> Visible.evidence,
                         status |-> e.status, remark |-> e.remark]

LEMMA NextStep ==
    ASSUME IInv, [Next]_vars
    PROVE  IInv' /\ VisibleStep
  <1>1. ASSUME NEW w \in Writers, Write(w)
        PROVE  IInv' /\ VisibleStep
    <2>1. CASE BeginCreate(w) \/ BeginUpdate(w) \/ BeginFinish(w)
      <3>1. Visible' = Visible
        BY <2>1 DEF BeginCreate, BeginUpdate, BeginFinish, Begin, files, Visible
      <3>2. QED  BY <2>1, <3>1, BeginStep DEF VisibleStep
    <2>2. CASE WriteBackup(w)
      <3>1. Visible' = Visible
        BY <2>2 DEF WriteBackup, Visible
      <3>2. QED  BY <2>2, <3>1, BackupStep DEF VisibleStep
    <2>3. CASE WritePrimary(w)
      <3>1. primary = NoDoc <=> Visible = NoDoc
        BY VisibleIsDoc, AbsentAssumption DEF Visible, IInv
      <3>2. QED  BY <2>3, <3>1, PrimaryStep DEF VisibleStep
    <2>4. CASE UnlinkMarker(w)
      BY <2>4, UnlinkStep DEF VisibleStep
    <2>5. CASE WriteSummary(w) \/ WriteProgress(w)
      BY <2>5, CacheStep DEF VisibleStep
    <2>6. CASE CacheWriteFails(w) \/ WriteFails(w)
      BY <2>6, FailStep DEF VisibleStep
    <2>7. CASE WriteMarker(w)
      <3>1. primary # NoDoc => Visible # NoDoc
        BY VisibleIsDoc, AbsentAssumption DEF IInv
      <3>2. QED  BY <2>7, <3>1, MarkerStep DEF VisibleStep
    <2>8. CASE Release(w)
      BY <2>8, ReleaseStep DEF VisibleStep
    <2>9. QED  BY <1>1, <2>1, <2>2, <2>3, <2>4, <2>5, <2>6, <2>7, <2>8 DEF Write
  <1>2. ASSUME NEW r \in Readers, Read(r)
        PROVE  IInv' /\ VisibleStep
    BY <1>2, ReadStep DEF VisibleStep
  <1>3. CASE Crash
    BY <1>3, CrashStep DEF VisibleStep
  <1>4. CASE UNCHANGED vars
    BY <1>4, StutterStep DEF VisibleStep
  <1>5. QED  BY <1>1, <1>2, <1>3, <1>4 DEF Next

-----------------------------------------------------------------------------
(* The theorems *)

\* The inductive invariant holds in every reachable state.
THEOREM Invariance == Spec => []IInv
  <1>1. Init => IInv
    BY InitIInv
  <1>2. IInv /\ [Next]_vars => IInv'
    BY NextStep
  <1>3. QED  BY <1>1, <1>2, PTL DEF Spec

\* Every variable keeps its type.
THEOREM TypeCorrect == Spec => []TypeOK
  <1>1. IInv => TypeOK
    BY DEF IInv
  <1>2. QED  BY <1>1, Invariance, PTL

\* scan.previous.json is never more than one revision behind scan.json,
\* whatever crash or failed write comes between the two replacements.
THEOREM BackupIsCurrent == Spec => []BackupAtMostOneBehind
  <1>1. IInv => BackupAtMostOneBehind
    BY DEF IInv
  <1>2. QED  BY <1>1, Invariance, PTL

\* A cache that passes the checks of load_progress and list_scans describes
\* the document a full load would return.
THEOREM CachesAreCurrent == Spec => []TrustedCacheIsCurrent
  <1>1. IInv => TrustedCacheIsCurrent
    BY DEF IInv, CacheInv, TrustedCacheIsCurrent, Visible, Overlay
  <1>2. QED  BY <1>1, Invariance, PTL

\* A finished job is not revived under the revision that finished it.
THEOREM FinishedStays == Spec => FinishedUntilNextRevision
  <1>1. ASSUME IInv, [Next]_vars, Visible # NoDoc, Visible.status \in Terminal,
               Visible'.rev = Visible.rev
        PROVE  Visible'.status \in Terminal
    <2>1. Visible \in Doc /\ VisibleStep
      BY <1>1, VisibleIsDoc, NextStep DEF IInv, Visible
    <2>2. Visible' \notin Successors(Visible)
      BY <1>1, <2>1, SuccessorIsDoc DEF Doc
    <2>3. \A e \in Oversized(Visible) : e.status \in Terminal
      BY DEF Oversized, Finished, Revised
    <2>4. QED  BY <1>1, <2>1, <2>2, <2>3 DEF VisibleStep
  <1>2. QED  BY <1>1, Invariance, PTL DEF Spec, FinishedUntilNextRevision

\* The files of a report implement the register: a write of several files is
\* one step of it, and the failures and crashes between them are none.
THEOREM Refinement == Spec => ImplementsRegister
  <1>1. Init => Register!Init
    BY DEF Init, Register!Init, Visible
  <1>2. ASSUME IInv, [Next]_vars
        PROVE  [Register!Next]_Visible
    <2>1. VisibleStep
      BY <1>2, NextStep
    <2>2. CASE Visible = NoDoc /\ Visible' = Created
      BY <2>2 DEF Register!Next, Register!Create, Created
    <2>3. CASE Visible # NoDoc /\ Visible' \in Successors(Visible) /\ Fits(Visible')
      BY <2>3 DEF Register!Next, Register!Update, Register!Finish, Register!Checkpointed,
                  Register!Resumed, Register!Finished, Register!Revised, Register!Fits,
                  Successors, Checkpointed, Resumed, Finished, Revised, Fits
    <2>4. ASSUME Visible # NoDoc, NEW e \in Oversized(Visible),
                 Visible' = [rev |-> Visible.rev, evidence |-> Visible.evidence,
                             status |-> e.status, remark |-> e.remark]
          PROVE  Register!FinishInPlace
      BY <2>4 DEF Register!FinishInPlace, Register!Finished, Register!Revised, Register!Fits,
                  Oversized, Finished, Revised, Fits
    <2>5. QED  BY <2>1, <2>2, <2>3, <2>4 DEF VisibleStep, Register!Next
  <1>3. QED  BY <1>1, <1>2, Invariance, PTL DEF Spec, ImplementsRegister, Register!Spec

-----------------------------------------------------------------------------
(* What a reader without a lock is shown *)

\* A document of this revision and evidence was visible since the reader began.
Shown(r, e) == e # NoDoc /\ \E d \in window[r] : d.rev = e.rev /\ d.evidence = e.evidence

\* What a reader has read, or is about to read from the cache it trusts, was
\* visible; and the visible document will have been, whatever it reads next.
WindowInv ==
    \A r \in Readers :
       /\ rpc[r] # "idle" => Visible \in window[r]
       /\ rpc[r] \in {"terminal", "marker"} => Shown(r, held[r])
       /\ rpc[r] \in Caches => Shown(r, cache[rpc[r]])

\* A write that leaves the caches, and whose effect the readers observe.
LEMMA ObservedStep ==
    ASSUME WindowInv, Observe, UNCHANGED readers,
           \A r \in Readers : rpc[r] \in Caches => cache'[rpc[r]] = cache[rpc[r]]
                                                  \/ Shown(r, cache'[rpc[r]])
    PROVE  WindowInv'
  <1> SUFFICES ASSUME NEW r \in Readers
               PROVE  /\ rpc[r] # "idle" => Visible' \in window'[r]
                      /\ rpc[r] \in {"terminal", "marker"} => Shown(r, held[r])'
                      /\ rpc[r] \in Caches => Shown(r, cache[rpc[r]])'
    BY DEF WindowInv, readers
  <1>1. rpc[r] # "idle" => Visible' \in window'[r] /\ window[r] \subseteq window'[r]
    BY DEF Observe
  <1>2. rpc[r] \in {"terminal", "marker"} => Shown(r, held[r])'
    BY <1>1 DEF WindowInv, Shown, readers
  <1>3. rpc[r] \in Caches => Shown(r, cache[rpc[r]])'
    <2>1. rpc[r] \in Caches => Shown(r, cache[rpc[r]]) /\ rpc[r] # "idle"
      BY DEF WindowInv, Caches
    <2>2. QED  BY <1>1, <2>1 DEF Shown, readers
  <1>4. QED  BY <1>1, <1>2, <1>3

LEMMA WindowKept ==
    ASSUME WindowInv, UNCHANGED <<primary, terminal, cache, readers, window>>
    PROVE  WindowInv'
  BY DEF WindowInv, Shown, Visible, readers

LEMMA WriteKeepsWindow ==
    ASSUME IInv, WindowInv, NEW w \in Writers, Write(w)
    PROVE  WindowInv'
  <1>1. CASE BeginCreate(w) \/ BeginUpdate(w) \/ BeginFinish(w) \/ Release(w)
             \/ CacheWriteFails(w) \/ WriteFails(w)
    <2>1. UNCHANGED <<primary, terminal, cache, readers, window>>
      BY <1>1 DEF BeginCreate, BeginUpdate, BeginFinish, Begin, Release, CacheWriteFails,
                  WriteFails, Continue, files
    <2>2. QED  BY <2>1, WindowKept
  <1>2. CASE WriteBackup(w) \/ WritePrimary(w) \/ UnlinkMarker(w) \/ WriteMarker(w)
    <2>1. Observe /\ UNCHANGED <<cache, readers>>
      BY <1>2 DEF WriteBackup, WritePrimary, UnlinkMarker, WriteMarker, Continue
    <2>2. QED  BY <2>1, ObservedStep
  <1>3. CASE WriteSummary(w) \/ WriteProgress(w)
    <2>1. PICK c \in Caches, to \in {"progress", "release"} : WriteCache(w, c, to)
      BY <1>3 DEF WriteSummary, WriteProgress, Caches
    <2>2. /\ pc[w] = c /\ Observe /\ UNCHANGED readers
          /\ cache' = [cache EXCEPT ![c] = next[w]]
      BY <2>1 DEF WriteCache, Continue
    <2>3. primary # NoDoc /\ next[w] = primary
      BY <2>2 DEF IInv, PublishInv, Caches
    <2>4. Visible.rev = primary.rev /\ Visible.evidence = primary.evidence
      BY <2>3, VisibleIsDoc DEF IInv
    <2>5. ASSUME NEW r \in Readers, rpc[r] \in Caches
          PROVE  cache'[rpc[r]] = cache[rpc[r]] \/ Shown(r, cache'[rpc[r]])
      <3>1. Visible \in window[r]
        BY <2>5 DEF WindowInv, Caches
      <3>2. rpc[r] = c => cache'[rpc[r]] = primary
        BY <2>2, <2>3, <2>5 DEF IInv, TypeOK
      <3>3. rpc[r] # c => cache'[rpc[r]] = cache[rpc[r]]
        BY <2>2, <2>5 DEF IInv, TypeOK
      <3>4. QED  BY <2>3, <2>4, <3>1, <3>2, <3>3 DEF Shown
    <2>6. QED  BY <2>2, <2>5, ObservedStep
  <1>4. QED  BY <1>1, <1>2, <1>3 DEF Write

LEMMA ReadKeepsWindow ==
    ASSUME IInv, WindowInv, NEW r \in Readers, Read(r)
    PROVE  WindowInv'
  <1>1. /\ UNCHANGED <<primary, terminal, cache, fresh, crashes>> /\ Visible' = Visible
    BY ReadStep DEF Read, StartLoad, StartPoll, CompareTimes, ReadCache, ReadPrimary,
                    LookForMarker, ReadMarker, Step, files
  <1>2. \A s \in Readers : s # r => /\ rpc'[s] = rpc[s] /\ held'[s] = held[s]
                                    /\ window'[s] = window[s]
    BY DEF Read, StartLoad, StartPoll, Begins, CompareTimes, ReadCache, ReadPrimary,
           LookForMarker, ReadMarker, Step, Return, IInv, TypeOK
  <1>3. /\ rpc'[r] # "idle" => Visible \in window'[r]
        /\ rpc'[r] \in {"terminal", "marker"} => Shown(r, held[r])'
        /\ rpc'[r] \in Caches => Shown(r, cache[rpc[r]])'
    <2>1. CASE StartLoad(r) \/ StartPoll(r)
      <3>1. rpc'[r] \in {"primary", "stat"} /\ window'[r] = {Visible}
        BY <2>1 DEF StartLoad, StartPoll, Step, Begins, IInv, TypeOK
      <3>2. QED  BY <3>1 DEF Caches
    <2>2. CASE CompareTimes(r)
      <3>1. PICK c \in Caches : Step(r, "stat", IF c \in fresh THEN c ELSE "primary")
        BY <2>2 DEF CompareTimes
      <3>2. /\ rpc[r] = "stat" /\ rpc'[r] = (IF c \in fresh THEN c ELSE "primary")
            /\ window' = window
        BY <2>2, <3>1 DEF CompareTimes, Step, IInv, TypeOK
      <3>3. Visible \in window[r]
        BY <3>2 DEF WindowInv
      <3>4. c \in fresh => Shown(r, cache[c])
        <4>1. c \in fresh => primary # NoDoc /\ cache[c] = primary
          BY DEF IInv, CacheInv
        <4>2. QED  BY <3>3, <4>1, VisibleIsDoc DEF IInv, Shown
      <3>5. QED  BY <1>1, <3>2, <3>3, <3>4 DEF Shown, Caches
    <2>3. CASE ReadCache(r) \/ ReadMarker(r)
      <3>1. rpc'[r] = "idle"
        BY <2>3 DEF ReadCache, ReadMarker, Step, IInv, TypeOK
      <3>2. QED  BY <3>1 DEF Caches
    <2>4. CASE ReadPrimary(r)
      <3>1. /\ rpc[r] = "primary" /\ rpc'[r] = "terminal" /\ held'[r] = primary
            /\ window' = window
        BY <2>4 DEF ReadPrimary, Step, IInv, TypeOK
      <3>2. Visible \in window[r] /\ primary # NoDoc
        BY <3>1 DEF WindowInv, IInv, ReaderInv
      <3>3. QED  BY <3>1, <3>2, VisibleIsDoc DEF IInv, Shown, Caches
    <2>5. CASE LookForMarker(r)
      <3>1. /\ rpc[r] = "terminal" /\ window' = window
            /\ \/ rpc'[r] = "idle"
               \/ rpc'[r] = "marker" /\ held' = held
        BY <2>5 DEF LookForMarker, Step, Return, IInv, TypeOK
      <3>2. QED  BY <3>1 DEF WindowInv, Shown, Caches
    <2>6. QED  BY <2>1, <2>2, <2>3, <2>4, <2>5 DEF Read
  <1>4. QED  BY <1>1, <1>2, <1>3 DEF WindowInv, Shown

LEMMA WindowNext == IInv /\ WindowInv /\ [Next]_vars => WindowInv'
  <1>1. CASE Crash
    BY <1>1 DEF Crash, WindowInv, Caches
  <1>2. CASE UNCHANGED vars
    <2>1. UNCHANGED <<primary, terminal, cache, readers, window>>
      BY <1>2 DEF vars, files
    <2>2. QED  BY <2>1, WindowKept
  <1>3. QED  BY <1>1, <1>2, WriteKeepsWindow, ReadKeepsWindow DEF Next

\* What a reader returns is the revision and the evidence of what it was shown.
LEMMA ReturnsShown ==
    ASSUME IInv, WindowInv, [Next]_vars, NEW r \in Readers, Returns(r), result'[r] # Failed
    PROVE  Shown(r, result'[r])
  <1>1. Read(r)
    <2>1. ASSUME NEW w \in Writers, Write(w) PROVE rpc' = rpc
      BY <2>1 DEF Write, BeginCreate, BeginUpdate, BeginFinish, Begin, WriteBackup, WritePrimary,
                  UnlinkMarker, WriteSummary, WriteProgress, WriteCache, CacheWriteFails,
                  WriteMarker, WriteFails, Release, Continue, readers
    <2>2. ASSUME NEW s \in Readers, Read(s), s # r PROVE rpc'[r] = rpc[r]
      BY <2>2 DEF Read, StartLoad, StartPoll, CompareTimes, ReadCache, ReadPrimary,
                  LookForMarker, ReadMarker, Step, IInv, TypeOK
    <2>3. ~Crash
      BY DEF Crash, Returns, IInv, TypeOK
    <2>4. UNCHANGED vars => rpc' = rpc
      BY DEF vars, readers
    <2>5. QED  BY <2>1, <2>2, <2>3, <2>4 DEF Next, Returns
  <1>2. CASE ReadCache(r)
    <2>1. rpc[r] \in Caches /\ result'[r] = cache[rpc[r]]
      BY <1>2 DEF ReadCache, Step, Return, IInv, TypeOK
    <2>2. QED  BY <2>1 DEF WindowInv
  <1>3. CASE LookForMarker(r)
    <2>1. rpc[r] = "terminal" /\ result'[r] = held[r]
      BY <1>3 DEF LookForMarker, Step, Return, Returns, IInv, TypeOK
    <2>2. QED  BY <2>1 DEF WindowInv
  <1>4. CASE ReadMarker(r)
    <2>1. /\ rpc[r] = "marker" /\ result'[r] = Overlay(held[r], terminal)
          /\ terminal \in Marker
      BY <1>4 DEF ReadMarker, Step, Return, IInv, TypeOK
    <2>2. Shown(r, held[r]) /\ held[r] \in Doc
      BY <2>1 DEF WindowInv, Shown, IInv, TypeOK
    <2>3. QED  BY <2>1, <2>2, OverlayIsDoc, AbsentAssumption DEF Shown
  <1>5. CASE StartLoad(r) \/ StartPoll(r) \/ CompareTimes(r) \/ ReadPrimary(r)
    <2>1. rpc'[r] # "idle"
      BY <1>5 DEF StartLoad, StartPoll, CompareTimes, ReadPrimary, Step, Caches, IInv, TypeOK
    <2>2. QED  BY <2>1 DEF Returns
  <1>6. QED  BY <1>1, <1>2, <1>3, <1>4, <1>5 DEF Read

\* A reader takes no lock and may find a cache, the primary and the sidecar
\* between any two replacements: what _load_scan and load_progress return was
\* nevertheless visible, revision and evidence together, during the read.
THEOREM ReadsAreOfOneRevision == Spec => ReadIsOneRevision
  <1>1. Init => WindowInv
    BY DEF Init, WindowInv, Caches
  <1>2. ASSUME IInv, WindowInv, [Next]_vars
        PROVE  [ \A r \in Readers :
                    Returns(r) /\ result'[r] # Failed =>
                       \E d \in window[r] : /\ d.rev = result'[r].rev
                                            /\ d.evidence = result'[r].evidence ]_vars
    BY <1>2, ReturnsShown DEF Shown
  <1>3. QED
    BY <1>1, <1>2, WindowNext, Invariance, PTL DEF Spec, ReadIsOneRevision

=============================================================================
