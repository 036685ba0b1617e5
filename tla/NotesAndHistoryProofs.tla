------------------------ MODULE NotesAndHistoryProofs ------------------------
(***************************************************************************)
(* Proofs about RevisionedNotes, for any number of editors, contents and   *)
(* revisions and for both treatments of a failing read, and about          *)
(* DeviceHistory, for any reports and limits.                              *)
(*                                                                         *)
(* The argument for the notes: what no editor has seen yet is always ahead *)
(* of what some editor has.  The primary has the highest revision seen     *)
(* (PrimaryIsLatest) and so has a draft (DraftIsNew); and since the        *)
(* revision a recovery would reserve is higher than all of these           *)
(* (RecoveryIsNew), damage to the primary cannot bring a revision back.    *)
(*                                                                         *)
(* The argument for the history: what a report found never changes once it *)
(* was begun, be it removed or restored later (ReportShape).  So a name    *)
(* stays vouched for by the device that gave it, with the day on which it  *)
(* did, however many reports pass it on (NamesInv), and the sighting that  *)
(* a label was given to keeps its key (LabelsInv), which any other         *)
(* sighting can have only with the same adapter (KeyTellsAdapter).         *)
(***************************************************************************)
EXTENDS RevisionedNotes, DeviceHistory, FiniteSetTheorems, WellFoundedInduction, TLAPS

Behind(S, r) == \A d \in S : d.rev < r

PrimaryIsLatest ==
    primary \in Notes => \A d \in seen : d.rev < primary.rev \/ d = primary

DraftIsNew ==
    /\ at # "idle" => Behind(seen, draft.rev)
    /\ at = "publish" => draft.rev = fence
    /\ at = "backup" /\ primary \in Notes => draft.rev = primary.rev + 1
    /\ at = "backup" /\ primary = Missing => backup = Missing

\* r is lower than the revision a recovery would reserve.
Reserved(r) == r < backup.rev + 2 \/ r < fence + 1

RecoveryIsNew ==
    backup \in Notes =>
        /\ primary \in Notes => Reserved(primary.rev)
        /\ at = "primary" => Reserved(draft.rev)
        /\ \A d \in seen : Reserved(d.rev)

NothingSeenBeforeFirstEdit == Fresh => seen \subseteq {Default}

CheckedEditorIsCurrent ==
    /\ \A e \in Editors : held[e] \in seen
    /\ at = "idle" <=> busy = Nobody
    /\ at = "backup" /\ checked /\ primary \in Notes => held[busy] = primary

Inv ==
    /\ TypeOK
    /\ RevisionNamesOneContent
    /\ PrimaryIsLatest
    /\ DraftIsNew
    /\ RecoveryIsNew
    /\ NothingSeenBeforeFirstEdit
    /\ CheckedEditorIsCurrent

-----------------------------------------------------------------------------
(* Documents *)

LEMMA NotesFields ==
    ASSUME NEW d \in Notes
    PROVE  d.rev \in Nat \ {0} /\ d.content \in Contents /\ d.notice \in BOOLEAN
  BY DEF Notes

LEMMA DefaultIsNotes == Default \in Notes
  BY ContentsAssumption DEF Default, Notes

LEMMA RevisedIsNext ==
    ASSUME NEW d \in Notes, NEW c \in Contents
    PROVE  Revised(d, c) \in Notes /\ Revised(d, c).rev = d.rev + 1
  BY NotesFields DEF Revised, Notes

\* The reserved revision is beyond the backup's successor and the fence.
LEMMA RecoveryRevisionIsFree ==
    ASSUME backup \in Notes, fence \in Nat
    PROVE  /\ Recovered \in Notes /\ Recovered.rev = RecoveryRevision
           /\ RecoveryRevision \in Nat
           /\ backup.rev + 2 \leq RecoveryRevision /\ fence + 1 \leq RecoveryRevision
  BY NotesFields DEF Recovered, RecoveryRevision, Notes

-----------------------------------------------------------------------------
(* What the end of _load_locked establishes, whoever called it *)

LEMMA LoadedKeeps ==
    ASSUME TypeOK, RevisionNamesOneContent,
           \A e \in Editors : held[e] \in seen,
           NEW d \in Notes, \A s \in seen : s.rev < d.rev \/ s = d,
           NEW e \in Editors, NEW c \in Contents \cup {Missing}, NEW x \in BOOLEAN,
           Loaded(e, d, c, x)
    PROVE  /\ busy' \in Editors \cup {Nobody} /\ draft' \in Notes
           /\ wish' \in Contents \cup {Missing} /\ checked' \in BOOLEAN
           /\ held' \in [Editors -> Notes] /\ seen' \subseteq Notes /\ edit' \in Contents
           /\ seen' \subseteq seen \cup {d}
           /\ \A f \in Editors : held'[f] \in seen'
           /\ RevisionNamesOneContent'
           /\ \/ at' = "idle" /\ busy' = Nobody
              \/ /\ at' = "backup" /\ busy' = e
                 /\ draft'.rev = d.rev + 1
                 /\ checked' => held'[e] = d
<1>1. CASE c = Missing
  <2>1. Free /\ Return(e, d) /\ edit' = edit
    BY <1>1 DEF Loaded
  <2>2. \A s, t \in seen' : s.rev = t.rev => s = t
    <3>1. d.rev \in Nat /\ \A s \in seen : s.rev \in Nat
      BY NotesFields DEF TypeOK
    <3>2. QED  BY <2>1, <3>1 DEF Return, RevisionNamesOneContent
  <2>3. QED  BY <2>1, <2>2, DefaultIsNotes DEF Free, Return, TypeOK, RevisionNamesOneContent
<1>2. CASE c # Missing /\ Accepts(e, d, x)
  <2>1. /\ busy' = e /\ at' = "backup" /\ draft' = Revised(d, c) /\ wish' = c /\ checked' = x
        /\ held' = held /\ seen' = seen /\ edit' = edit
    BY <1>2 DEF Loaded
  <2>2. checked' => held'[e] = d
    <3>1. d.rev \in Nat /\ held[e].rev \in Nat
      BY NotesFields DEF TypeOK
    <3>2. QED  BY <1>2, <2>1, <3>1 DEF Accepts
  <2>3. c \in Contents
    BY <1>2
  <2>4. QED  BY <2>1, <2>2, <2>3, RevisedIsNext DEF TypeOK, RevisionNamesOneContent
<1>3. CASE c # Missing /\ ~Accepts(e, d, x)
  <2>1. Free /\ held' = held /\ seen' = seen /\ edit' = edit
    BY <1>3 DEF Loaded
  <2>2. QED  BY <2>1, DefaultIsNotes DEF Free, TypeOK, RevisionNamesOneContent
<1>4. QED  BY <1>1, <1>2, <1>3

-----------------------------------------------------------------------------
(* Each action preserves the invariant *)

\* A call that has loaded d from a primary, or from no file at all.
LEMMA LoadedStep ==
    ASSUME Inv,
           NEW d \in Notes, \A s \in seen : s.rev < d.rev \/ s = d,
           NEW e \in Editors, NEW c \in Contents \cup {Missing}, NEW x \in BOOLEAN,
           Loaded(e, d, c, x),
           backup' = backup, fence' = fence,
           primary' = d \/ (Fresh /\ d = Default /\ primary' = Missing),
           backup \in Notes => Reserved(d.rev)
    PROVE  Inv'
<1> USE DEF Inv
<1>1. /\ TypeOK /\ RevisionNamesOneContent
      /\ \A f \in Editors : held[f] \in seen
  BY DEF CheckedEditorIsCurrent
<1>2. /\ busy' \in Editors \cup {Nobody} /\ draft' \in Notes
      /\ wish' \in Contents \cup {Missing} /\ checked' \in BOOLEAN
      /\ held' \in [Editors -> Notes] /\ seen' \subseteq Notes /\ edit' \in Contents
      /\ seen' \subseteq seen \cup {d}
      /\ \A f \in Editors : held'[f] \in seen'
      /\ RevisionNamesOneContent'
  BY <1>1, LoadedKeeps
<1>3. \/ at' = "idle" /\ busy' = Nobody
      \/ /\ at' = "backup" /\ busy' = e
         /\ draft'.rev = d.rev + 1
         /\ checked' => held'[e] = d
  BY <1>1, LoadedKeeps
<1>4. d.rev \in Nat /\ \A s \in seen : s.rev \in Nat
  BY <1>1, NotesFields DEF TypeOK
<1>5. TypeOK'
  BY <1>1, <1>2, <1>3 DEF TypeOK
<1>6. PrimaryIsLatest'
  BY <1>2, FileAssumption DEF PrimaryIsLatest
<1>7. DraftIsNew'
  <2>1. at' # "idle" => Behind(seen', draft'.rev)
    BY <1>2, <1>3, <1>4 DEF Behind
  <2>2. at' = "backup" /\ primary' = Missing => backup' = Missing
    BY FileAssumption DEF Fresh
  <2>3. at' = "backup" /\ primary' \in Notes => draft'.rev = primary'.rev + 1
    BY <1>3, FileAssumption
  <2>4. QED  BY <1>3, <2>1, <2>2, <2>3 DEF DraftIsNew, Behind
<1>8. RecoveryIsNew'
  BY <1>2, <1>3, FileAssumption DEF RecoveryIsNew, Reserved
<1>9. NothingSeenBeforeFirstEdit'
  BY <1>2, FileAssumption DEF NothingSeenBeforeFirstEdit, Fresh
<1>10. CheckedEditorIsCurrent'
  BY <1>2, <1>3, FileAssumption, EditorsAssumption DEF CheckedEditorIsCurrent
<1>11. QED  BY <1>2, <1>5, <1>6, <1>7, <1>8, <1>9, <1>10

LEMMA OpenStep ==
    ASSUME Inv, NEW e \in Editors, NEW c \in Contents \cup {Missing}, NEW x \in BOOLEAN,
           Open(e, c, x)
    PROVE  Inv'
<1>1. CASE primary \in Notes /\ Loaded(e, primary, c, x)
  <2>1. /\ \A s \in seen : s.rev < primary.rev \/ s = primary
        /\ backup \in Notes => Reserved(primary.rev)
    BY <1>1 DEF Inv, PrimaryIsLatest, RecoveryIsNew
  <2>2. primary' = primary /\ backup' = backup /\ fence' = fence
    BY DEF Open, files
  <2>3. QED  BY <1>1, <2>1, <2>2, LoadedStep
<1>2. CASE Fresh /\ Loaded(e, Default, c, x)
  <2>1. \A s \in seen : s = Default
    BY <1>2 DEF Inv, NothingSeenBeforeFirstEdit
  <2>2. primary' = Missing /\ backup' = backup /\ fence' = fence /\ backup \notin Notes
    BY <1>2, FileAssumption DEF Open, files, Fresh
  <2>3. QED  BY <1>2, <2>1, <2>2, DefaultIsNotes, LoadedStep
<1>3. QED  BY <1>1, <1>2 DEF Open

LEMMA PublishStep ==
    ASSUME Inv, Publish
    PROVE  Inv'
<1>1. busy \in Editors
  BY DEF Inv, TypeOK, CheckedEditorIsCurrent, Publish
<1>2. draft \in Notes /\ wish \in Contents \cup {Missing} /\ checked \in BOOLEAN
  BY DEF Inv, TypeOK
<1>3. /\ \A s \in seen : s.rev < draft.rev \/ s = draft
      /\ Reserved(draft.rev)
  BY <1>2, NotesFields DEF Inv, DraftIsNew, Behind, Publish, Reserved, TypeOK
<1>4. /\ Loaded(busy, draft, wish, checked)
      /\ primary' = draft /\ backup' = backup /\ fence' = fence
  BY DEF Publish
<1>5. QED  BY <1>1, <1>2, <1>3, <1>4, LoadedStep

LEMMA OpenDamagedStep ==
    ASSUME Inv, NEW e \in Editors, NEW c \in Contents \cup {Missing}, NEW x \in BOOLEAN,
           OpenDamaged(e, c, x)
    PROVE  Inv' /\ Behind(seen, draft'.rev)
<1> USE DEF Inv, OpenDamaged
<1>1. /\ Recovered \in Notes /\ draft' = Recovered /\ draft'.rev = RecoveryRevision
      /\ fence' = RecoveryRevision /\ RecoveryRevision \in Nat
      /\ backup.rev + 2 \leq fence' /\ fence + 1 \leq fence'
  BY RecoveryRevisionIsFree DEF TypeOK
<1>2. backup \in Notes /\ backup.rev \in Nat /\ fence \in Nat
  BY NotesFields DEF TypeOK
<1>3. \A s \in seen : s.rev \in Nat
  BY NotesFields DEF TypeOK
<1>4. Behind(seen, draft'.rev)
  BY <1>1, <1>2, <1>3 DEF Behind, RecoveryIsNew, Reserved
<1>5. TypeOK'
  BY <1>1 DEF TypeOK
<1>6. RevisionNamesOneContent' /\ PrimaryIsLatest'
  BY DEF RevisionNamesOneContent, PrimaryIsLatest
<1>7. DraftIsNew'
  BY <1>1, <1>4 DEF DraftIsNew, Behind
<1>8. RecoveryIsNew'
  <2>1. primary \in Notes => primary.rev \in Nat
    BY NotesFields
  <2>2. \A r \in Nat : Reserved(r) => Reserved(r)'
    BY <1>1, <1>2 DEF Reserved
  <2>3. primary \in Notes => Reserved(primary.rev)'
    BY <1>2, <2>1, <2>2 DEF RecoveryIsNew, Reserved
  <2>4. \A s \in seen : Reserved(s.rev)'
    BY <1>2, <1>3, <2>2 DEF RecoveryIsNew, Reserved
  <2>5. QED  BY <2>3, <2>4 DEF RecoveryIsNew, Reserved
<1>9. NothingSeenBeforeFirstEdit'
  BY <1>2, FileAssumption DEF NothingSeenBeforeFirstEdit, Fresh
<1>10. CheckedEditorIsCurrent'
  BY EditorsAssumption DEF CheckedEditorIsCurrent
<1>11. QED  BY <1>4, <1>5, <1>6, <1>7, <1>8, <1>9, <1>10

LEMMA WriteBackupStep ==
    ASSUME Inv, WriteBackup
    PROVE  Inv'
<1> USE DEF Inv, WriteBackup
<1>1. \A s \in seen : s.rev \in Nat
  BY NotesFields DEF TypeOK
<1>2. primary \in Notes => primary.rev \in Nat /\ draft.rev \in Nat
  BY NotesFields DEF TypeOK
<1>3. primary = Missing => backup = Missing
  BY DEF DraftIsNew
<1>4. TypeOK' /\ RevisionNamesOneContent' /\ PrimaryIsLatest'
  BY DEF TypeOK, RevisionNamesOneContent, PrimaryIsLatest
<1>5. DraftIsNew'
  BY DEF DraftIsNew, Behind
<1>6. RecoveryIsNew'
  <2>1. backup' \in Notes => backup' = primary /\ primary \in Notes
    BY <1>3, FileAssumption
  <2>2. primary \in Notes => draft.rev = primary.rev + 1
    BY DEF DraftIsNew
  <2>3. primary \in Notes => \A s \in seen : s.rev < primary.rev + 2
    BY <1>1, <1>2 DEF PrimaryIsLatest
  <2>4. QED  BY <1>2, <2>1, <2>2, <2>3 DEF RecoveryIsNew, Reserved
<1>7. NothingSeenBeforeFirstEdit'
  BY <1>3 DEF NothingSeenBeforeFirstEdit, Fresh
<1>8. CheckedEditorIsCurrent'
  BY DEF CheckedEditorIsCurrent
<1>9. QED  BY <1>4, <1>5, <1>6, <1>7, <1>8

LEMMA WritePrimaryStep ==
    ASSUME Inv, WritePrimary
    PROVE  Inv'
<1> USE DEF Inv, WritePrimary
<1>1. draft \in Notes /\ draft.rev \in Nat /\ \A s \in seen : s.rev \in Nat
  BY NotesFields DEF TypeOK
<1>2. /\ at' = "idle" /\ busy' = Nobody /\ seen' = seen \cup {draft}
      /\ busy \in Editors /\ held' = [held EXCEPT ![busy] = draft]
  BY DEF Free, Return, TypeOK, CheckedEditorIsCurrent
<1>3. Behind(seen, draft.rev)
  BY DEF DraftIsNew
<1>4. TypeOK'
  BY <1>1, <1>2, NotesFields, DefaultIsNotes DEF TypeOK, Free
<1>5. RevisionNamesOneContent'
  BY <1>1, <1>2, <1>3 DEF RevisionNamesOneContent, Behind
<1>6. PrimaryIsLatest'
  BY <1>2, <1>3 DEF PrimaryIsLatest, Behind
<1>7. DraftIsNew'
  BY <1>2 DEF DraftIsNew
<1>8. RecoveryIsNew'
  BY <1>2 DEF RecoveryIsNew, Reserved
<1>9. NothingSeenBeforeFirstEdit'
  BY <1>1, FileAssumption DEF NothingSeenBeforeFirstEdit, Fresh
<1>10. CheckedEditorIsCurrent'
  BY <1>2 DEF CheckedEditorIsCurrent, TypeOK
<1>11. QED  BY <1>4, <1>5, <1>6, <1>7, <1>8, <1>9, <1>10

LEMMA StopStep ==
    ASSUME Inv, Stop
    PROVE  Inv'
<1> USE DEF Inv, Stop, Free, files
<1>1. TypeOK'
  BY DefaultIsNotes DEF TypeOK
<1>2. RevisionNamesOneContent' /\ PrimaryIsLatest' /\ DraftIsNew' /\ NothingSeenBeforeFirstEdit'
  BY DEF RevisionNamesOneContent, PrimaryIsLatest, DraftIsNew, NothingSeenBeforeFirstEdit, Fresh
<1>3. RecoveryIsNew' /\ CheckedEditorIsCurrent'
  BY DEF RecoveryIsNew, Reserved, CheckedEditorIsCurrent
<1>4. QED  BY <1>1, <1>2, <1>3

LEMMA DamageStep ==
    ASSUME Inv, Damage
    PROVE  Inv'
<1> USE DEF Inv, Damage, call
<1>1. primary' \notin Notes
  BY FileAssumption
<1>2. primary' = Missing => backup # Missing /\ at = "idle"
  BY FileAssumption DEF CheckedEditorIsCurrent
<1>3. TypeOK'
  BY DEF TypeOK
<1>4. RevisionNamesOneContent' /\ PrimaryIsLatest'
  BY <1>1 DEF RevisionNamesOneContent, PrimaryIsLatest
<1>5. DraftIsNew'
  BY <1>1, <1>2 DEF DraftIsNew, Behind
<1>6. RecoveryIsNew' /\ CheckedEditorIsCurrent'
  BY <1>1 DEF RecoveryIsNew, Reserved, CheckedEditorIsCurrent
<1>7. NothingSeenBeforeFirstEdit'
  BY <1>2 DEF NothingSeenBeforeFirstEdit, Fresh
<1>8. QED  BY <1>3, <1>4, <1>5, <1>6, <1>7

-----------------------------------------------------------------------------
(* The results *)

LEMMA InvInit == Init => Inv
<1> SUFFICES ASSUME Init PROVE Inv
  OBVIOUS
<1>1. TypeOK
  BY DefaultIsNotes, ContentsAssumption DEF Init, TypeOK
<1>2. RevisionNamesOneContent /\ PrimaryIsLatest /\ DraftIsNew /\ RecoveryIsNew
  BY FileAssumption
  DEF Init, RevisionNamesOneContent, PrimaryIsLatest, DraftIsNew, RecoveryIsNew
<1>3. NothingSeenBeforeFirstEdit /\ CheckedEditorIsCurrent
  BY DEF Init, NothingSeenBeforeFirstEdit, CheckedEditorIsCurrent
<1>4. QED  BY <1>1, <1>2, <1>3 DEF Inv

\* A load or an update reads the notes as they are, or recovers them first.
LEMMA CallIsOpen ==
    ASSUME NEW e \in Editors, Load(e) \/ Update(e)
    PROVE  \E c \in Contents \cup {Missing}, x \in BOOLEAN :
               Open(e, c, x) \/ OpenDamaged(e, c, x)
  BY DEF Load, Update

LEMMA InvNext == Inv /\ [Next]_vars => Inv'
<1> SUFFICES ASSUME Inv, [Next]_vars PROVE Inv'
  OBVIOUS
<1>1. ASSUME NEW e \in Editors, Load(e) \/ Update(e) PROVE Inv'
  <2>1. PICK c \in Contents \cup {Missing}, x \in BOOLEAN :
            Open(e, c, x) \/ OpenDamaged(e, c, x)
    BY <1>1, CallIsOpen
  <2>2. QED  BY <2>1, OpenStep, OpenDamagedStep
<1>2. CASE UNCHANGED vars
  BY <1>2 DEF vars, files, call, Inv, TypeOK, RevisionNamesOneContent, PrimaryIsLatest,
              DraftIsNew, Behind, RecoveryIsNew, Reserved, NothingSeenBeforeFirstEdit,
              Fresh, CheckedEditorIsCurrent
<1>3. QED
  BY <1>1, <1>2, PublishStep, WriteBackupStep, WritePrimaryStep, StopStep, DamageStep DEF Next

\* The invariant holds in every reachable state of the edit files.
THEOREM Invariance == Spec => []Inv
  BY InvInit, InvNext, PTL DEF Spec

\* The files, the call at work and what editors hold keep their types.
THEOREM TypeCorrect == Spec => []TypeOK
<1>1. Inv => TypeOK
  BY DEF Inv
<1>2. QED  BY <1>1, Invariance, PTL

\* Recovery never gives out a revision a second time for another content
\* (reserve_recovery_revision), however often files are damaged.
THEOREM RevisionsAreUnique == Spec => []RevisionNamesOneContent
<1>1. Inv => RevisionNamesOneContent
  BY DEF Inv
<1>2. QED  BY <1>1, Invariance, PTL

\* The revision check of an update finds every edit its editor has not seen.
THEOREM EditsAreOnTheLatest == Spec => AcceptedEditSawLatest
<1>1. Inv => ((at = "backup" /\ at' = "primary" /\ checked /\ primary \in Notes)
               => held[busy] = primary)
  BY DEF Inv, CheckedEditorIsCurrent
<1>2. QED  BY <1>1, Invariance, PTL DEF AcceptedEditSawLatest

\* The revision reserved by a recovery is beyond all that editors have seen.
THEOREM RecoveryIsAhead == Spec => RecoveryInvalidatesEditors
<1>1. Inv /\ [Next]_vars =>
        [(at = "idle" /\ at' = "publish") => \A d \in seen : d.rev < draft'.rev]_vars
  <2> SUFFICES ASSUME Inv, Next, at = "idle", at' = "publish"
               PROVE  Behind(seen, draft'.rev)
    BY DEF Behind, vars
  <2>1. ASSUME NEW e \in Editors, NEW d, NEW c, NEW x, Loaded(e, d, c, x)
        PROVE  at' # "publish"
    BY <2>1 DEF Loaded, Free
  <2>2. PICK e \in Editors : Load(e) \/ Update(e)
    BY DEF Next, Publish, WriteBackup, WritePrimary, Stop, Damage, call
  <2>3. PICK c \in Contents \cup {Missing}, x \in BOOLEAN :
            Open(e, c, x) \/ OpenDamaged(e, c, x)
    BY <2>2, CallIsOpen
  <2>4. ~Open(e, c, x)
    BY <2>1 DEF Open
  <2>5. QED  BY <2>3, <2>4, OpenDamagedStep
<1>2. QED  BY <1>1, Invariance, PTL DEF Spec, RecoveryInvalidatesEditors

-----------------------------------------------------------------------------
(* A lost edit *)

\* The primary has the last published edit or says that it may not.
PrimaryHasEdit == primary \in Notes => primary.content = edit \/ primary.notice

RecoveryIsMarked == at = "publish" => draft.notice

\* Notes that were never written lost nothing: a file whose backup exists is
\* not Fresh when it goes missing.
NothingToLose == Fresh => edit = Blank

EditInv == PrimaryHasEdit /\ RecoveryIsMarked /\ NothingToLose

LEMMA EditInvInit == Init => EditInv
  BY FileAssumption DEF Init, EditInv, PrimaryHasEdit, RecoveryIsMarked, NothingToLose

\* Loading publishes no edit, and what it leaves to be written is no recovery.
LEMMA LoadedPublishesNothing ==
    ASSUME NEW e, NEW d, NEW c, NEW x, Loaded(e, d, c, x)
    PROVE  edit' = edit /\ at' # "publish"
  BY DEF Loaded, Free

LEMMA EditInvNext == Inv /\ EditInv /\ [Next]_vars => EditInv'
<1> SUFFICES ASSUME Inv, EditInv, [Next]_vars PROVE EditInv'
  OBVIOUS
<1> USE DEF EditInv, PrimaryHasEdit, RecoveryIsMarked, NothingToLose
<1>1. ASSUME NEW e \in Editors, NEW c, NEW x, Open(e, c, x) PROVE EditInv'
  <2>1. UNCHANGED files /\ edit' = edit /\ at' # "publish"
    BY <1>1, LoadedPublishesNothing DEF Open
  <2>2. QED  BY <2>1 DEF files, Fresh
<1>2. ASSUME NEW e \in Editors, NEW c, NEW x, OpenDamaged(e, c, x) PROVE EditInv'
  <2>1. /\ primary' = primary /\ backup' = backup /\ edit' = edit
        /\ backup \in Notes /\ draft'.notice
    BY <1>2 DEF OpenDamaged, Recovered
  <2>2. QED  BY <2>1, FileAssumption DEF Fresh
<1>3. CASE Publish
  <2>1. draft \in Notes /\ draft.notice /\ primary' = draft
    BY <1>3 DEF Inv, TypeOK, Publish
  <2>2. edit' = edit /\ at' # "publish"
    BY <1>3, LoadedPublishesNothing DEF Publish
  <2>3. QED  BY <2>1, <2>2, FileAssumption DEF Fresh
<1>4. CASE WriteBackup
  BY <1>4 DEF WriteBackup, Fresh, Inv, DraftIsNew
<1>5. CASE WritePrimary
  <2>1. draft \in Notes /\ primary' = draft /\ edit' = draft.content /\ at' = "idle"
    BY <1>5 DEF WritePrimary, Free, Inv, TypeOK
  <2>2. QED  BY <2>1, FileAssumption DEF Fresh
<1>6. CASE Stop
  BY <1>6 DEF Stop, Free, files, Fresh
<1>7. CASE Damage
  <2>1. primary' \notin Notes /\ edit' = edit /\ at' = at /\ draft' = draft
    BY <1>7, FileAssumption DEF Damage, call
  <2>2. Fresh' => FALSE
    BY <1>7, FileAssumption DEF Damage, Fresh
  <2>3. QED  BY <2>1, <2>2
<1>8. CASE UNCHANGED vars
  BY <1>8 DEF vars, files, call, Fresh
<1>9. QED
  BY <1>1, <1>2, <1>3, <1>4, <1>5, <1>6, <1>7, <1>8 DEF Next, Load, Update

\* Wherever writes stop and however often the file is damaged, readable notes
\* that lack the last published edit carry recovery_notice (_load_locked).
THEOREM LostEditsAreAnnounced == Spec => []LostEditIsAnnounced
<1>1. Inv /\ EditInv => LostEditIsAnnounced
  BY DEF Inv, TypeOK, EditInv, PrimaryHasEdit, LostEditIsAnnounced
<1>2. QED  BY <1>1, Invariance, EditInvInit, EditInvNext, PTL DEF Spec

-----------------------------------------------------------------------------
(* What is said of a device over several reports *)

\* A report that was once begun: what it found does not change any more.
Begun(r) == report[r].state # "none"

Shaped(r) ==
    /\ report[r] \in [state : {"running", "finished", "trash"}, step : {report[r].step}, day : Nat,
                      content : Findings, name : {report[r].name},
                      compared : {report[r].compared}, earlier : {report[r].earlier}]
    /\ report[r].name = [a \in DOMAIN report[r].content.at |-> report[r].name[a]]

ReportShape ==
    /\ report = [r \in Ids |-> report[r]]
    /\ \A r \in Ids : Begun(r) => Shaped(r)

\* A device gave this name itself, and it was recent if another report passed it on.
Vouched(r, a) ==
    report[r].name[a].given =>
        \E h \in heard :
            /\ h.mac = Mac(r, a) /\ h.day = report[r].name[a].since
            /\ ~report[r].name[a].direct => h.day <= report[r].day /\ report[r].day - h.day <= Week

NamesInv == \A r \in Ids : Begun(r) => \A a \in Devices(r) : Vouched(r, a)

\* The sighting a label was given to is still told by the same key.
LabelsInv ==
    \A m \in meant : \E r \in Ids : \E a \in Ips(r) :
        Begun(r) /\ m.key = Key(r, a) /\ Mac(r, a) \in m.macs

\* A report that was loaded as finished may have been removed since, but does not run.
PagesInv ==
    /\ found = [r \in Ids |-> found[r]] /\ loaded = [r \in Ids |-> loaded[r]]
    /\ \A r \in Ids : \A l \in loaded[r] :
          l.id \in Ids /\ Begun(l.id) /\ (l.finished => report[l.id].state # "running")

HistoryInv == ReportShape /\ NamesInv /\ LabelsInv /\ PagesInv

LEMMA IdsAreFinite == IsFiniteSet(Ids) /\ \A S \in SUBSET Ids : IsFiniteSet(S)
<1>1. IsFiniteSet(Ids)
      BY LimitsAssumption, FS_Interval DEF Ids
<1> QED BY <1>1, FS_Subset

\* Newest does not leave out all reports, though there may be several of one day.
LEMMA NewestExists ==
    ASSUME NEW S \in SUBSET Ids, S # {}, \A s \in S : report[s].day \in Nat
    PROVE  \E p \in S : p \in Newest(S, 1)
<1> DEFINE After(p) == {s \in S : Later(s, p)}
           Ranks == {Cardinality(After(p)) : p \in S}
<1>1. \A p \in S : IsFiniteSet(After(p)) /\ Cardinality(After(p)) \in Nat
  <2>1. \A p \in S : After(p) \in SUBSET Ids
        OBVIOUS
  <2> QED BY <2>1, IdsAreFinite, FS_CardinalityType
<1>2. Ranks \subseteq Nat /\ Ranks # {}
      BY <1>1
<1>3. PICK k \in Ranks : \A y \in Ranks : ~(<<y, k>> \in OpToRel(<, Nat))
  <2> HIDE DEF Ranks
  <2> QED BY <1>2, NatLessThanWellFounded, WFMin
<1>4. PICK p \in S : k = Cardinality(After(p))
      BY <1>3
<1>5. ASSUME NEW s \in After(p) PROVE FALSE
  <2>1. s \in S /\ Later(s, p) /\ s \in Int /\ p \in Int
        BY <1>5, LimitsAssumption DEF Ids
  <2>2. After(s) \subseteq After(p)
    <3> SUFFICES ASSUME NEW t \in S, Later(t, s) PROVE Later(t, p)
        OBVIOUS
    <3>1. t \in Int
          BY LimitsAssumption DEF Ids
    <3> QED BY <2>1, <3>1 DEF Later
  <2>3. s \notin After(s)
        BY <2>1 DEF Later
  <2>4. Cardinality(After(s)) <= Cardinality(After(p))
        /\ Cardinality(After(s)) # Cardinality(After(p))
        BY <1>1, <1>5, <2>1, <2>2, <2>3, FS_Subset
  <2>5. Cardinality(After(s)) < k /\ Cardinality(After(s)) \in Ranks
    <3>1. Cardinality(After(s)) \in Ranks
          BY <2>1
    <3>2. Cardinality(After(s)) \in Nat /\ k \in Nat /\ k = Cardinality(After(p))
          BY <1>1, <1>4, <2>1
    <3> HIDE DEF After
    <3> QED BY <2>4, <3>1, <3>2
  <2> HIDE DEF Ranks
  <2>6. Cardinality(After(s)) \in Nat /\ k \in Nat
        BY <1>2, <1>3, <2>5
  <2>7. <<Cardinality(After(s)), k>> \in OpToRel(<, Nat)
        BY <2>5, <2>6 DEF OpToRel
  <2> QED BY <1>3, <2>5, <2>7
<1>6. After(p) = {}
      BY <1>5
<1>7. Cardinality(After(p)) = 0
      BY <1>6, FS_EmptySet
<1>8. p \in {r \in S : Cardinality({s \in S : Later(s, r)}) < 1}
      BY <1>7
<1> QED BY <1>8 DEF Newest

LEMMA NewestIn == ASSUME NEW S, NEW n, NEW p \in Newest(S, n) PROVE p \in S
BY DEF Newest

\* What a report that was begun says of its findings, after a step that keeps them.
LEMMA FindingsStay ==
    ASSUME NEW r \in Ids, report'[r].content = report[r].content, report'[r].day = report[r].day
    PROVE  /\ Ips(r)' = Ips(r) /\ Devices(r)' = Devices(r)
           /\ \A a : Mac(r, a)' = Mac(r, a) /\ Key(r, a)' = Key(r, a)
<1>1. Ips(r)' = Ips(r) /\ \A a : At(r, a)' = At(r, a)
      BY DEF Ips, At
<1>2. Devices(r)' = Devices(r) /\ \A a : Mac(r, a)' = Mac(r, a)
      BY <1>1 DEF Devices, Mac
<1>3. \A m : Counted(r, m)' = Counted(r, m)
      BY <1>1, <1>2 DEF Counted
<1>4. \A a : Key(r, a)' = Key(r, a)
      BY <1>1, <1>2, <1>3 DEF Key
<1> QED BY <1>1, <1>2, <1>4

\* The reports that were loaded, after a step that loads none.
LEMMA PagesStay ==
    ASSUME HistoryInv, found' = [r \in Ids |-> found'[r]], loaded' = [r \in Ids |-> loaded'[r]],
           \A r \in Ids : loaded'[r] \subseteq loaded[r],
           \A p \in Ids : Begun(p) =>
              Begun(p)' /\ (report[p].state # "running" => report'[p].state # "running")
    PROVE  PagesInv'
BY DEF HistoryInv, PagesInv

\* The names and the labels are as true as they were, after a step that begins no report
\* and gives no label.
LEMMA StoryStays ==
    ASSUME HistoryInv, ReportShape',
           \A r \in Ids : Begun(r)' <=> Begun(r),
           \A r \in Ids : Begun(r) =>
              report'[r].content = report[r].content /\ report'[r].day = report[r].day,
           \A r \in Ids : Begun(r) => \A a \in Devices(r) :
              report'[r].name[a] = report[r].name[a] \/ Vouched(r, a)',
           heard \subseteq heard', meant' \subseteq meant, PagesInv'
    PROVE  HistoryInv'
<1>1. NamesInv'
  <2> SUFFICES ASSUME NEW r \in Ids, Begun(r)', NEW a \in Devices(r)' PROVE Vouched(r, a)'
      BY DEF NamesInv
  <2>1. /\ Begun(r) /\ report'[r].content = report[r].content /\ report'[r].day = report[r].day
        BY DEF Begun
  <2>2. a \in Devices(r) /\ Mac(r, a)' = Mac(r, a)
        BY <2>1, FindingsStay
  <2>3. CASE report'[r].name[a] = report[r].name[a]
    <3>1. Vouched(r, a)
          BY <2>1, <2>2 DEF HistoryInv, NamesInv
    <3> QED BY <2>1, <2>2, <2>3, <3>1 DEF Vouched
  <2> QED BY <2>1, <2>2, <2>3
<1>2. LabelsInv'
  <2> SUFFICES ASSUME NEW m \in meant'
               PROVE  \E r \in Ids : \E a \in Ips(r)' :
                         Begun(r)' /\ m.key = Key(r, a)' /\ Mac(r, a)' \in m.macs
      BY DEF LabelsInv
  <2>1. PICK r \in Ids : \E a \in Ips(r) : Begun(r) /\ m.key = Key(r, a) /\ Mac(r, a) \in m.macs
        BY DEF HistoryInv, LabelsInv
  <2>2. PICK a \in Ips(r) : Begun(r) /\ m.key = Key(r, a) /\ Mac(r, a) \in m.macs
        BY <2>1
  <2>3. report'[r].content = report[r].content /\ report'[r].day = report[r].day
        BY <2>2 DEF Begun
  <2>4. Ips(r)' = Ips(r) /\ Mac(r, a)' = Mac(r, a) /\ Key(r, a)' = Key(r, a)
        BY <2>3, FindingsStay
  <2> QED BY <2>2, <2>4
<1> QED BY <1>1, <1>2 DEF HistoryInv

LEMMA ScanKeepsHistory ==
    ASSUME HistoryInv, NEW r \in Ids, NEW c \in Findings, Scan(r, c)
    PROVE  HistoryInv'
<1> DEFINE new == [state |-> "running", step |-> "list", day |-> c.day, content |-> c,
                   name |-> [a \in DOMAIN c.at |->
                               IF c.at[a] # Absent /\ c.at[a].name /\ c.at[a].lag <= c.day
                                 THEN [given |-> TRUE, direct |-> TRUE, since |-> c.day - c.at[a].lag]
                                 ELSE NoName],
                   compared |-> [a \in DOMAIN c.at |-> NotCompared], earlier |-> {}]
<1>1. /\ ~Begun(r) /\ report' = [report EXCEPT ![r] = new]
      /\ UNCHANGED <<found, loaded, labels, revision, meant, removals>>
      BY DEF Scan, Begun
<1>2. report'[r] = new /\ \A s \in Ids \ {r} : report'[s] = report[s]
      BY <1>1 DEF HistoryInv, ReportShape
<1>3. ReportShape'
  <2>1. report' = [s \in Ids |-> report'[s]]
        BY <1>1 DEF HistoryInv, ReportShape
  <2>2. ASSUME NEW s \in Ids \ {r}, Begun(s)' PROVE Shaped(s)'
        BY <1>2, <2>2 DEF HistoryInv, ReportShape, Begun, Shaped
  <2>3. Shaped(r)'
        BY <1>2, FindingsAssumption DEF Shaped
  <2> QED BY <2>1, <2>2, <2>3 DEF ReportShape
<1>4. heard' = heard \cup {[mac |-> c.at[a].mac, day |-> c.day - c.at[a].lag] :
                             a \in {a \in DOMAIN c.at :
                                      c.at[a] # Absent /\ c.at[a].name /\ c.at[a].lag <= c.day}}
      BY DEF Scan
<1>5. ASSUME NEW s \in Ids \ {r}
      PROVE  /\ Begun(s)' <=> Begun(s)
             /\ Ips(s)' = Ips(s) /\ Devices(s)' = Devices(s)
             /\ \A a : Mac(s, a)' = Mac(s, a) /\ Key(s, a)' = Key(s, a)
             /\ \A a : Vouched(s, a) => Vouched(s, a)'
  <2>1. report'[s] = report[s]
        BY <1>2
  <2>2. /\ Ips(s)' = Ips(s) /\ Devices(s)' = Devices(s)
        /\ \A a : Mac(s, a)' = Mac(s, a) /\ Key(s, a)' = Key(s, a)
        BY <2>1, FindingsStay
  <2> QED BY <1>4, <2>1, <2>2 DEF Begun, Vouched
<1>6. NamesInv'
  <2> SUFFICES ASSUME NEW s \in Ids, Begun(s)', NEW a \in Devices(s)' PROVE Vouched(s, a)'
      BY DEF NamesInv
  <2>1. CASE s # r
        BY <1>5, <2>1 DEF HistoryInv, NamesInv
  <2>2. CASE s = r
    <3>1. a \in DOMAIN c.at /\ c.at[a] # Absent /\ Mac(r, a)' = c.at[a].mac
          BY <1>2, <2>2 DEF Devices, Ips, At, Mac
    <3>2. report'[r].name[a] = IF c.at[a] # Absent /\ c.at[a].name /\ c.at[a].lag <= c.day
                                 THEN [given |-> TRUE, direct |-> TRUE, since |-> c.day - c.at[a].lag]
                                 ELSE NoName
          BY <1>2, <3>1
    <3>3. CASE c.at[a].name /\ c.at[a].lag <= c.day
      <4>1. [mac |-> c.at[a].mac, day |-> c.day - c.at[a].lag] \in heard'
            BY <1>4, <3>1, <3>3
      <4>2. report'[r].name[a].direct /\ report'[r].name[a].since = c.day - c.at[a].lag
            BY <3>1, <3>2, <3>3
      <4> QED BY <2>2, <3>1, <4>1, <4>2 DEF Vouched
    <3>4. CASE ~(c.at[a].name /\ c.at[a].lag <= c.day)
          BY <2>2, <3>2, <3>4 DEF Vouched, NoName
    <3> QED BY <3>3, <3>4
  <2> QED BY <2>1, <2>2
<1>7. LabelsInv'
  <2> SUFFICES ASSUME NEW m \in meant'
               PROVE  \E s \in Ids : \E a \in Ips(s)' :
                         Begun(s)' /\ m.key = Key(s, a)' /\ Mac(s, a)' \in m.macs
      BY DEF LabelsInv
  <2>1. PICK s \in Ids : \E a \in Ips(s) : Begun(s) /\ m.key = Key(s, a) /\ Mac(s, a) \in m.macs
        BY <1>1 DEF HistoryInv, LabelsInv
  <2>2. PICK a \in Ips(s) : Begun(s) /\ m.key = Key(s, a) /\ Mac(s, a) \in m.macs
        BY <2>1
  <2>3. s # r
        BY <1>1, <2>2
  <2> QED BY <1>5, <2>2, <2>3
<1>8. PagesInv'
  <2>1. \A p \in Ids : Begun(p) => report'[p] = report[p]
        BY <1>1, <1>2
  <2>2. found' = found /\ loaded' = loaded
        BY <1>1
  <2>3. found = [s \in Ids |-> found[s]] /\ loaded = [s \in Ids |-> loaded[s]]
        BY DEF HistoryInv, PagesInv
  <2> QED BY <2>1, <2>2, <2>3, PagesStay DEF Begun
<1> QED BY <1>3, <1>6, <1>7, <1>8 DEF HistoryInv

\* A step of one report that was begun.
LEMMA ReportKeepsHistory ==
    ASSUME HistoryInv, NEW r \in Ids, Begun(r), Shaped(r)',
           report' = [s \in Ids |-> report'[s]], \A s \in Ids \ {r} : report'[s] = report[s],
           report'[r].content = report[r].content, report'[r].day = report[r].day,
           \A a \in Devices(r) : report'[r].name[a] = report[r].name[a] \/ Vouched(r, a)',
           report[r].state # "running" => report'[r].state # "running",
           found' = [s \in Ids |-> found'[s]], loaded' = [s \in Ids |-> loaded'[s]],
           \A s \in Ids : loaded'[s] \subseteq loaded[s], UNCHANGED <<heard, meant>>
    PROVE  HistoryInv'
<1>1. Begun(r)'
      BY DEF Shaped, Begun
<1>2. \A s \in Ids : Begun(s)' <=> Begun(s)
      BY <1>1 DEF Begun
<1>3. ReportShape'
  <2>1. ASSUME NEW s \in Ids \ {r}, Begun(s)' PROVE Shaped(s)'
        BY <2>1 DEF HistoryInv, ReportShape, Begun, Shaped
  <2> QED BY <2>1 DEF ReportShape
<1>4. PagesInv'
      BY <1>2, PagesStay
<1> QED BY <1>2, <1>3, <1>4, StoryStays

\* Fields of a report that neither names nor labels depend on.
LEMMA FieldsKeepHistory ==
    ASSUME HistoryInv, NEW r \in Ids, Begun(r), NEW to \in {"running", "finished", "trash"}, NEW step,
           report' = [report EXCEPT ![r] = [report[r] EXCEPT !.state = to, !.step = step]],
           report[r].state # "running" => to # "running",
           found' = [s \in Ids |-> found'[s]], loaded' = [s \in Ids |-> loaded'[s]],
           \A s \in Ids : loaded'[s] \subseteq loaded[s], UNCHANGED <<heard, meant>>
    PROVE  HistoryInv'
<1> DEFINE old == report[r]
           new == report'[r]
<1>1. /\ new = [old EXCEPT !.state = to, !.step = step] /\ report' = [s \in Ids |-> report'[s]]
      /\ \A s \in Ids \ {r} : report'[s] = report[s]
      BY DEF HistoryInv, ReportShape
<1>2. Shaped(r)
      BY DEF HistoryInv, ReportShape
<1>3. old \in [state : {"running", "finished", "trash"}, step : {old.step}, day : Nat,
               content : Findings, name : {old.name}, compared : {old.compared}, earlier : {old.earlier}]
      BY <1>2 DEF Shaped
<1>4. /\ new.day = old.day /\ new.state = to /\ new.content = old.content /\ new.name = old.name
      /\ new \in [state : {"running", "finished", "trash"}, step : {new.step}, day : Nat,
                  content : Findings, name : {new.name}, compared : {new.compared}, earlier : {new.earlier}]
  <2> HIDE DEF old, new
  <2> QED BY <1>1, <1>3
<1>5. Shaped(r)'
      BY <1>2, <1>4 DEF Shaped
<1> QED BY <1>1, <1>4, <1>5, ReportKeepsHistory

LEMMA ListKeepsHistory == ASSUME HistoryInv, NEW r \in Ids, List(r) PROVE HistoryInv'
<1>1. Begun(r) /\ Shaped(r) /\ report[r].state = "running" /\ UNCHANGED <<heard, meant>>
      BY DEF List, Begun, HistoryInv, ReportShape
<1>2. [report[r] EXCEPT !.step = "load"] = [report[r] EXCEPT !.state = "running", !.step = "load"]
  <2> DEFINE old == report[r]
  <2>1. old \in [state : {"running"}, step : {old.step}, day : Nat, content : Findings,
                 name : {old.name}, compared : {old.compared}, earlier : {old.earlier}]
        BY <1>1 DEF Shaped
  <2> HIDE DEF old
  <2>2. [old EXCEPT !.state = "running"] = old
        BY <2>1
  <2> QED BY <2>2 DEF old
<1>3. report' = [report EXCEPT ![r] = [report[r] EXCEPT !.step = "load"]]
      BY DEF List
<1>4. /\ found' = [s \in Ids |-> found'[s]] /\ loaded' = [s \in Ids |-> loaded'[s]]
      /\ \A s \in Ids : loaded'[s] \subseteq loaded[s]
      BY DEF List, HistoryInv, PagesInv
<1> QED BY <1>1, <1>2, <1>3, <1>4, FieldsKeepHistory

LEMMA LoadReportKeepsHistory == ASSUME HistoryInv, NEW r \in Ids, LoadReport(r) PROVE HistoryInv'
<1>1. UNCHANGED <<report, heard, meant>>
      BY DEF LoadReport
<1>2. found' = [s \in Ids |-> found'[s]] /\ loaded' = [s \in Ids |-> loaded'[s]]
      BY DEF LoadReport, HistoryInv, PagesInv
<1>3. \A s \in Ids : \A l \in loaded'[s] :
          \/ l \in loaded[s]
          \/ l.id \in Saved /\ (l.finished => l.id \in Finished)
  <2>1. CASE UNCHANGED loaded
        BY <2>1
  <2>2. CASE loaded' # loaded
    <3>1. PICK p : \E now \in BOOLEAN :
             /\ p \in Saved /\ (now => p \in Finished)
             /\ loaded' = [loaded EXCEPT ![r] = @ \cup {[id |-> p, finished |-> now]}]
          BY <2>2, Zenon DEF LoadReport
    <3>2. PICK now \in BOOLEAN :
             /\ p \in Saved /\ (now => p \in Finished)
             /\ loaded' = [loaded EXCEPT ![r] = @ \cup {[id |-> p, finished |-> now]}]
          BY <3>1
    <3>3. \A s \in Ids : loaded'[s] \subseteq loaded[s] \cup {[id |-> p, finished |-> now]}
          BY <3>2 DEF HistoryInv, PagesInv
    <3> QED BY <3>2, <3>3
  <2> QED BY <2>1, <2>2
<1>4. PagesInv'
  <2> SUFFICES ASSUME NEW s \in Ids, NEW l \in loaded'[s]
               PROVE  l.id \in Ids /\ Begun(l.id)' /\ (l.finished => report'[l.id].state # "running")
      BY <1>2 DEF PagesInv
  <2>1. CASE l \in loaded[s]
        BY <1>1, <2>1 DEF HistoryInv, PagesInv, Begun
  <2>2. CASE l.id \in Saved /\ (l.finished => l.id \in Finished)
        BY <1>1, <2>2 DEF Saved, Finished, Begun
  <2> QED BY <1>3, <2>1, <2>2
<1>5. ReportShape'
      BY <1>1 DEF HistoryInv, ReportShape, Shaped, Begun
<1> QED BY <1>1, <1>4, <1>5, StoryStays DEF Begun

LEMMA FinishKeepsHistory == ASSUME HistoryInv, NEW r \in Ids, Finish(r) PROVE HistoryInv'
<1>1. Begun(r) /\ UNCHANGED <<heard, meant>>
      BY DEF Finish, Begun
<1>2. report' = [report EXCEPT ![r] = [report[r] EXCEPT !.state = "finished", !.step = "done"]]
      BY DEF Finish, HistoryInv, ReportShape
<1>3. /\ found' = [s \in Ids |-> found'[s]] /\ loaded' = [s \in Ids |-> loaded'[s]]
      /\ \A s \in Ids : loaded'[s] \subseteq loaded[s]
      BY DEF Finish, HistoryInv, PagesInv
<1> QED BY <1>1, <1>2, <1>3, FieldsKeepHistory

LEMMA MoveKeepsHistory == ASSUME HistoryInv, NEW r \in Ids, Remove(r) \/ Restore(r) PROVE HistoryInv'
<1>1. /\ Begun(r) /\ Shaped(r) /\ UNCHANGED <<found, loaded, heard, meant>>
      /\ found' = [s \in Ids |-> found'[s]] /\ loaded' = [s \in Ids |-> loaded'[s]]
      BY DEF Remove, Restore, Begun, HistoryInv, ReportShape, PagesInv
<1>2. PICK to \in {"finished", "trash"} : report' = [report EXCEPT ![r] = [report[r] EXCEPT !.state = to]]
      BY DEF Remove, Restore
<1>3. [report[r] EXCEPT !.state = to] = [report[r] EXCEPT !.state = to, !.step = report[r].step]
  <2> DEFINE old == report[r]
             mid == [old EXCEPT !.state = to]
  <2>1. old \in [state : {"running", "finished", "trash"}, step : {old.step}, day : Nat, content : Findings,
                 name : {old.name}, compared : {old.compared}, earlier : {old.earlier}]
        BY <1>1 DEF Shaped
  <2> HIDE DEF old
  <2>2. mid \in [state : {"running", "finished", "trash"}, step : {old.step}, day : Nat, content : Findings,
                 name : {old.name}, compared : {old.compared}, earlier : {old.earlier}]
        BY <2>1
  <2>3. [mid EXCEPT !.step = old.step] = mid
    <3> HIDE DEF mid
    <3> QED BY <2>2
  <2> QED BY <2>3 DEF old, mid
<1>4. report' = [report EXCEPT ![r] = [report[r] EXCEPT !.state = to, !.step = report[r].step]]
      BY <1>2, <1>3
<1>5. to \in {"running", "finished", "trash"} /\ to # "running"
      OBVIOUS
<1>6. (\A s \in Ids : loaded'[s] \subseteq loaded[s]) /\ UNCHANGED <<heard, meant>>
      BY <1>1
<1>7. Begun(r) /\ found' = [s \in Ids |-> found'[s]] /\ loaded' = [s \in Ids |-> loaded'[s]]
      BY <1>1
<1> QED BY <1>4, <1>5, <1>6, <1>7, FieldsKeepHistory, ZenonT(40)

LEMMA BasisIn ==
    ASSUME HistoryInv, NEW r \in Ids, NEW p \in Basis(r)
    PROVE  p \in Ids /\ Begun(p) /\ report[p].state # "running"
BY DEF Basis, HistoryInv, PagesInv

LEMMA MatchIn ==
    ASSUME NEW r, NEW p, NEW a, NEW page, p \in Matches(r, a, page)
    PROVE  /\ p \in page /\ report[p].day < report[r].day /\ Mac(r, a) # NoMac
           /\ Match(p, Mac(r, a)) \in Devices(p) /\ Mac(p, Match(p, Mac(r, a))) = Mac(r, a)
BY DEF Matches, Previous, Match, Seen

\* restore_previous_name keeps the name there is, or takes one that is vouched for.
LEMMA NameIsVouched ==
    ASSUME HistoryInv, NEW r \in Ids, NEW a, NEW page,
           \A p \in page : p \in Ids /\ Begun(p),
           NameFor(r, a, page) # report[r].name[a]
    PROVE  \E h \in heard :
              /\ h.mac = Mac(r, a) /\ h.day = NameFor(r, a, page).since
              /\ h.day <= report[r].day /\ report[r].day - h.day <= Week
<1> DEFINE named == {p \in Matches(r, a, page) : Usable(r, p, Match(p, Mac(r, a)))}
           from == CHOOSE p \in Newest(named, 1) : TRUE
           b == Match(from, Mac(r, a))
<1>1. /\ named # {}
      /\ NameFor(r, a, page) = [given |-> TRUE, direct |-> FALSE, since |-> report[from].name[b].since]
      BY DEF NameFor
<1>2. named \in SUBSET Ids /\ \A p \in named : report[p].day \in Nat
  <2>1. \A p \in named : p \in Ids /\ Begun(p)
        BY MatchIn
  <2> QED BY <2>1 DEF HistoryInv, ReportShape, Shaped
<1>3. from \in named
  <2> HIDE DEF named
  <2> QED BY <1>1, <1>2, NewestExists, NewestIn
<1>4. /\ from \in Ids /\ Begun(from) /\ b \in Devices(from) /\ Mac(from, b) = Mac(r, a)
      /\ Usable(r, from, b)
  <2> HIDE DEF from
  <2> QED BY <1>3, MatchIn
<1> HIDE DEF from, b
<1>5. Vouched(from, b)
      BY <1>4 DEF HistoryInv, NamesInv
<1>6. PICK h \in heard : h.mac = Mac(from, b) /\ h.day = report[from].name[b].since
      BY <1>4, <1>5 DEF Vouched, Usable
<1> QED BY <1>1, <1>4, <1>6 DEF Usable, Observed

LEMMA CompareKeepsHistory == ASSUME HistoryInv, NEW r \in Ids, Compare(r) PROVE HistoryInv'
<1> DEFINE old == report[r]
           new == report'[r]
           names == [a \in DOMAIN report[r].content.at |->
                       IF a \in Devices(r) THEN NameFor(r, a, Basis(r)) ELSE report[r].name[a]]
           told == [a \in DOMAIN report[r].content.at |->
                      IF a \in Devices(r) THEN Comparison(r, a, Basis(r)) ELSE NotCompared]
           past == Earlier(r, Basis(r))
<1>1. Begun(r) /\ Shaped(r) /\ UNCHANGED <<heard, meant>>
      BY DEF Compare, Begun, HistoryInv, ReportShape
<1>2. /\ report' = [s \in Ids |-> report'[s]] /\ \A s \in Ids \ {r} : report'[s] = report[s]
      /\ new = [old EXCEPT !.step = "done", !.compared = told, !.name = names, !.earlier = past]
  <2> HIDE DEF names, told, past
  <2>1. report' = [report EXCEPT ![r].step = "done", ![r].compared = told, ![r].name = names,
                                 ![r].earlier = past]
        BY DEF Compare, names, told, past
  <2> QED BY <2>1 DEF HistoryInv, ReportShape
<1>3. /\ found' = [s \in Ids |-> found'[s]] /\ loaded' = [s \in Ids |-> loaded'[s]]
      /\ \A s \in Ids : loaded'[s] \subseteq loaded[s]
      BY DEF Compare, HistoryInv, PagesInv
<1>4. old \in [state : {"running", "finished", "trash"}, step : {old.step}, day : Nat,
               content : Findings, name : {old.name}, compared : {old.compared}, earlier : {old.earlier}]
      BY <1>1 DEF Shaped
<1>5. /\ new.day = old.day /\ new.state = old.state /\ new.content = old.content /\ new.name = names
      /\ new \in [state : {"running", "finished", "trash"}, step : {new.step}, day : Nat,
                  content : Findings, name : {new.name}, compared : {new.compared}, earlier : {new.earlier}]
  <2> HIDE DEF old, new, names, told, past
  <2> QED BY <1>2, <1>4
<1>6. Shaped(r)'
      BY <1>1, <1>5 DEF Shaped
<1>7. ASSUME NEW a \in Devices(r), report'[r].name[a] # report[r].name[a] PROVE Vouched(r, a)'
  <2>1. a \in DOMAIN report[r].content.at
        BY DEF Devices, Ips
  <2>2. report'[r].name[a] = NameFor(r, a, Basis(r))
    <3>1. names[a] = NameFor(r, a, Basis(r))
          BY <2>1
    <3> HIDE DEF names
    <3> QED BY <1>5, <3>1
  <2>3. PICK h \in heard :
            /\ h.mac = Mac(r, a) /\ h.day = NameFor(r, a, Basis(r)).since
            /\ h.day <= report[r].day /\ report[r].day - h.day <= Week
        BY <1>7, <2>2, BasisIn, NameIsVouched
  <2>4. Mac(r, a)' = Mac(r, a)
        BY <1>5, FindingsStay
  <2> HIDE DEF names, told, past
  <2> QED BY <1>1, <1>5, <2>2, <2>3, <2>4 DEF Vouched
<1> HIDE DEF names, told, past
<1> QED BY <1>1, <1>2, <1>3, <1>5, <1>6, <1>7, ReportKeepsHistory

LEMMA LabelKeepsHistory == ASSUME HistoryInv, NEW k \in Keys, Label(k) PROVE HistoryInv'
<1>1. UNCHANGED <<report, found, loaded, heard>>
      BY DEF Label
<1>2. meant' \subseteq meant \cup {Meaning(k)}
      BY DEF Label
<1>3. PICK r \in Read : k \in {Key(r, a) : a \in Ips(r)}
      BY DEF Keys
<1>4. PICK a \in Ips(r) : k = Key(r, a)
      BY <1>3
<1>5. r \in Finished
      BY <1>3, NewestIn DEF Read
<1>6. r \in Ids /\ Begun(r)
      BY <1>5 DEF Finished, Begun
<1>7. Mac(r, a) \in Meaning(k).macs /\ Meaning(k).key = k
  <2>1. <<r, a>> \in Occurrences(k)
        BY <1>3, <1>4 DEF Occurrences
  <2> QED BY <2>1 DEF Meaning
<1>8. LabelsInv'
  <2> SUFFICES ASSUME NEW m \in meant'
               PROVE  \E s \in Ids : \E b \in Ips(s)' :
                         Begun(s)' /\ m.key = Key(s, b)' /\ Mac(s, b)' \in m.macs
      BY DEF LabelsInv
  <2>1. PICK s \in Ids : \E b \in Ips(s) : Begun(s) /\ m.key = Key(s, b) /\ Mac(s, b) \in m.macs
        BY <1>2, <1>4, <1>6, <1>7 DEF HistoryInv, LabelsInv
  <2>2. PICK b \in Ips(s) : Begun(s) /\ m.key = Key(s, b) /\ Mac(s, b) \in m.macs
        BY <2>1
  <2>3. Ips(s)' = Ips(s) /\ Mac(s, b)' = Mac(s, b) /\ Key(s, b)' = Key(s, b) /\ (Begun(s)' <=> Begun(s))
        BY <1>1, FindingsStay DEF Begun
  <2> QED BY <2>2, <2>3
<1>9. ReportShape' /\ NamesInv' /\ PagesInv'
      BY <1>1 DEF HistoryInv, ReportShape, Shaped, Begun, NamesInv, Vouched, Devices, Ips, At, Mac, PagesInv
<1> QED BY <1>8, <1>9 DEF HistoryInv

LEMMA HistoryInvInit == HistoryInit => HistoryInv
BY DEF HistoryInit, NoReport, HistoryInv, ReportShape, Begun, NamesInv, LabelsInv, PagesInv

LEMMA HistoryInvNext == HistoryInv /\ [HistoryNext]_historyVars => HistoryInv'
<1> SUFFICES ASSUME HistoryInv, [HistoryNext]_historyVars PROVE HistoryInv'
    OBVIOUS
<1>1. ASSUME NEW r \in Ids, NEW c \in Findings, Scan(r, c) PROVE HistoryInv'
      BY <1>1, ScanKeepsHistory
<1>2. ASSUME NEW r \in Ids, List(r) \/ LoadReport(r) \/ Compare(r) \/ Finish(r) \/ Remove(r) \/ Restore(r)
      PROVE HistoryInv'
      BY <1>2, ListKeepsHistory, LoadReportKeepsHistory, CompareKeepsHistory, FinishKeepsHistory, MoveKeepsHistory
<1>3. ASSUME NEW k \in Keys, Label(k) PROVE HistoryInv'
      BY <1>3, LabelKeepsHistory
<1>4. CASE UNCHANGED historyVars
  <2>1. UNCHANGED <<report, found, loaded, heard, meant>>
        BY <1>4 DEF historyVars
  <2>2. ReportShape' /\ PagesInv'
        BY <2>1 DEF HistoryInv, ReportShape, Shaped, Begun, PagesInv
  <2> QED BY <2>1, <2>2, StoryStays DEF Begun, HistoryInv, PagesInv
<1> QED BY <1>1, <1>2, <1>3, <1>4 DEF HistoryNext

\* Names are passed on, and labels kept, as HistoryInv says, whichever reports are
\* removed or restored between the steps of a comparison.
THEOREM HistoryInvariance == HistorySpec => []HistoryInv
<1> QED BY HistoryInvInit, HistoryInvNext, PTL DEF HistorySpec

\* However often a name is passed on from report to report, a device with the same
\* adapter gave it at most a week before (restore_previous_name).
THEOREM NamesAreRecent == HistorySpec => []RestoredNameIsRecent
<1>1. HistoryInv => RestoredNameIsRecent
  <2> SUFFICES ASSUME HistoryInv, NEW r \in Saved, NEW a \in Devices(r),
                      report[r].name[a].given, ~report[r].name[a].direct
               PROVE  \E h \in heard :
                        /\ h.mac = Mac(r, a) /\ h.day = report[r].name[a].since
                        /\ h.day <= report[r].day /\ report[r].day - h.day <= Week
      BY DEF RestoredNameIsRecent
  <2>1. r \in Ids /\ Begun(r)
        BY DEF Saved, Begun
  <2>2. Vouched(r, a)
        BY <2>1 DEF HistoryInv, NamesInv
  <2> QED BY <2>2 DEF Vouched
<1> QED BY <1>1, HistoryInvariance, PTL

\* Sightings with one key have one adapter, or are one sighting (device_key).
LEMMA KeyTellsAdapter ==
    ASSUME NEW r, NEW a, NEW s, NEW b, Key(r, a) = Key(s, b)
    PROVE  \/ Mac(r, a) = Mac(s, b) /\ Cardinality(Counted(r, Mac(r, a))) = 1
           \/ r = s /\ a = b /\ Key(r, a) = <<"seen", r, a>>
<1> DEFINE told(t, d) == At(t, d).device /\ Mac(t, d) # NoMac /\ Cardinality(Counted(t, Mac(t, d))) = 1
<1>1. \A t, d : Key(t, d) = IF told(t, d) THEN <<"mac", report[t].content.network, Mac(t, d)>>
                                         ELSE <<"seen", t, d>>
      BY DEF Key
<1> HIDE DEF told
<1>2. CASE told(r, a)
  <2>1. told(s, b) /\ Mac(r, a) = Mac(s, b)
        BY <1>1, <1>2
  <2> QED BY <1>2, <2>1 DEF told
<1>3. CASE ~told(r, a)
      BY <1>1, <1>3
<1> QED BY <1>2, <1>3

\* A label is shown only on devices with the adapter it was given to, in reports that
\* saw that adapter once, or on the one sighting it was given to (DeviceInventory).
THEOREM LabelsFollow == HistorySpec => []LabelFollowsAdapter
<1>1. HistoryInv => LabelFollowsAdapter
  <2> SUFFICES ASSUME HistoryInv, NEW m \in meant, NEW o \in Occurrences(m.key)
               PROVE  /\ Mac(o[1], o[2]) \in m.macs
                      /\ \/ Occurrences(m.key) = {o}
                         \/ Cardinality({a \in Ips(o[1]) : Mac(o[1], a) = Mac(o[1], o[2])}) = 1
      BY DEF LabelFollowsAdapter
  <2>1. PICK r \in Ids : \E a \in Ips(r) : Begun(r) /\ m.key = Key(r, a) /\ Mac(r, a) \in m.macs
        BY DEF HistoryInv, LabelsInv
  <2>2. PICK a \in Ips(r) : m.key = Key(r, a) /\ Mac(r, a) \in m.macs
        BY <2>1
  <2>3. \A q \in Occurrences(m.key) : q = <<q[1], q[2]>> /\ Key(q[1], q[2]) = m.key
        BY DEF Occurrences
  <2>4. Key(o[1], o[2]) = Key(r, a)
        BY <2>2, <2>3
  <2>5. Mac(o[1], o[2]) \in m.macs
        BY <2>2, <2>4, KeyTellsAdapter
  <2>6. CASE Cardinality(Counted(o[1], Mac(o[1], o[2]))) = 1
        BY <2>5, <2>6 DEF Counted
  <2>7. CASE o[1] = r /\ o[2] = a /\ Key(r, a) = <<"seen", r, a>>
    <3>1. ASSUME NEW q \in Occurrences(m.key) PROVE q = o
      <4>1. /\ Key(q[1], q[2]) = <<"seen", r, a>> /\ q = <<q[1], q[2]>> /\ o = <<r, a>>
            BY <2>2, <2>3, <2>7
      <4>2. q[1] = r /\ q[2] = a
            BY <4>1 DEF Key
      <4> QED BY <4>1, <4>2
    <3> QED BY <2>5, <3>1
  <2> QED BY <2>4, <2>6, <2>7, KeyTellsAdapter
<1> QED BY <1>1, HistoryInvariance, PTL

\* How often a report has an adapter.
LEMMA SeenIsFinite ==
    ASSUME HistoryInv, NEW p \in Ids, Begun(p), NEW m
    PROVE  IsFiniteSet(Seen(p, m)) /\ Cardinality(Seen(p, m)) \in Nat
<1>1. report[p].content \in Findings
      BY DEF HistoryInv, ReportShape, Shaped
<1>2. IsFiniteSet(DOMAIN report[p].content.at) /\ Seen(p, m) \subseteq DOMAIN report[p].content.at
      BY <1>1, FindingsAssumption DEF Seen, Devices, Ips
<1> QED BY <1>2, FS_Subset, FS_CardinalityType

\* What Comparison says when it says anything of ports.
LEMMA ComparisonTells ==
    ASSUME HistoryInv, NEW r \in Ids, NEW a, NEW page, Comparison(r, a, page).status = "available"
    PROVE  LET c == Comparison(r, a, page)
               b == Match(c.from, Mac(r, a))
           IN  /\ ~Ambiguous(r, a, page) /\ c.from \in Matches(r, a, page)
               /\ Complete(r, a) /\ Complete(c.from, b)
               /\ c.added = OpenPorts(r, a) \ OpenPorts(c.from, b)
               /\ c.gone = OpenPorts(c.from, b) \ OpenPorts(r, a)
<1> DEFINE last == Newest(Matches(r, a, page), 1)
           p == CHOOSE p \in last : TRUE
           b == Match(p, Mac(r, a))
           full == [status |-> "available", from |-> p,
                    added |-> OpenPorts(r, a) \ OpenPorts(p, b), gone |-> OpenPorts(p, b) \ OpenPorts(r, a)]
           part == [NotCompared EXCEPT !.status = "matched", !.from = p]
           alike == /\ report[p].content.profile = report[r].content.profile
                    /\ Complete(r, a) /\ Complete(p, b)
<1>1. Comparison(r, a, page) = IF Ambiguous(r, a, page) \/ last = {} THEN NotCompared
                               ELSE IF alike THEN full ELSE part
      BY DEF Comparison
<1>2. NotCompared.status = "none" /\ part.status = "matched"
      BY DEF NotCompared
<1>3. ~Ambiguous(r, a, page) /\ last # {} /\ alike /\ Comparison(r, a, page) = full
  <2> HIDE DEF last, alike, full, part
  <2> QED BY <1>1, <1>2
<1>4. p \in last
  <2> HIDE DEF last
  <2> QED BY <1>3
<1>5. p \in Matches(r, a, page)
      BY <1>4, NewestIn
<1>6. full.from = p /\ full.added = OpenPorts(r, a) \ OpenPorts(p, b)
      /\ full.gone = OpenPorts(p, b) \ OpenPorts(r, a)
      OBVIOUS
<1> HIDE DEF last, p, full, part
<1> QED BY <1>3, <1>5, <1>6

LEMMA EarlierTells ==
    ASSUME NEW r, NEW page, NEW e \in Earlier(r, page)
    PROVE  \E p \in page : \E d \in Devices(p) : e = <<p, d>> /\ Seen(r, Mac(p, d)) = {}
<1> DEFINE last == Newest({p \in page : Comparable(r, p)}, 1)
           missing(p) == {d \in Devices(p) : /\ Mac(p, d) # NoMac /\ Seen(r, Mac(p, d)) = {}
                                             /\ d \notin Ips(r)
                                             /\ Complete(p, d)
                                             /\ Cardinality(Seen(p, Mac(p, d))) = 1}
<1>1. e \in UNION {{<<p, d>> : d \in missing(p)} : p \in last}
      BY DEF Earlier
<1>2. PICK p \in last : e \in {<<p, d>> : d \in missing(p)}
      BY <1>1
<1>3. PICK d \in missing(p) : e = <<p, d>>
      BY <1>2
<1>4. p \in page
      BY <1>2, NewestIn
<1> QED BY <1>3, <1>4

\* Only compare_history makes a comparison.
LEMMA OnlyCompareCompares ==
    ASSUME HistoryInv, [HistoryNext]_historyVars, NEW r \in Ids, ComparisonIsSaved(r)
    PROVE  Compare(r)
<1> USE DEF ComparisonIsSaved
<1>1. report = [s \in Ids |-> report[s]] /\ Begun(r) /\ Shaped(r)
      BY DEF HistoryInv, ReportShape, Begun
<1>2. ASSUME NEW s \in Ids, NEW c \in Findings, Scan(s, c) PROVE FALSE
      BY <1>1, <1>2 DEF Scan
<1>3. ASSUME NEW s \in Ids, List(s) \/ LoadReport(s) PROVE FALSE
      BY <1>1, <1>3 DEF List, LoadReport
<1>4. ASSUME NEW s \in Ids, Compare(s) PROVE s = r
      BY <1>1, <1>4 DEF Compare
<1>5. ASSUME NEW s \in Ids, Finish(s) PROVE FALSE
  <2>1. s # r => report'[r] = report[r]
        BY <1>1, <1>5 DEF Finish
  <2>2. report'[s] = [report[s] EXCEPT !.state = "finished", !.step = "done"]
        BY <1>1, <1>5 DEF Finish
  <2>3. s = r => report'[r].state = "finished"
    <3> DEFINE old == report[r]
    <3>1. old \in [state : {"running", "finished", "trash"}, step : {old.step}, day : Nat, content : Findings,
                   name : {old.name}, compared : {old.compared}, earlier : {old.earlier}]
          BY <1>1 DEF Shaped
    <3> HIDE DEF old
    <3>2. [old EXCEPT !.state = "finished", !.step = "done"].state = "finished"
          BY <3>1
    <3> QED BY <2>2, <3>2 DEF old
  <2> QED BY <2>1, <2>3
<1>6. ASSUME NEW s \in Ids, Remove(s) \/ Restore(s) PROVE FALSE
  <2>1. report[s].state # "running"
        BY <1>6 DEF Remove, Restore
  <2>2. report'[r] = report[r]
        BY <1>1, <1>6, <2>1 DEF Remove, Restore
  <2> QED BY <2>2
<1>7. ASSUME NEW k, Label(k) PROVE FALSE
      BY <1>7 DEF Label
<1>8. CASE UNCHANGED historyVars
      BY <1>8 DEF historyVars
<1> QED BY <1>2, <1>3, <1>4, <1>5, <1>6, <1>7, <1>8 DEF HistoryNext

\* A saved comparison is of two completed, alike checks of one adapter, the earlier in a
\* report that had finished when it was loaded; no report that was loaded has it twice,
\* whatever became of the reports between their loads and the save; and it says what
\* changed between the two (compare_history).
THEOREM ComparisonsAreSound == HistorySpec => ComparisonIsSound
<1>1. ASSUME HistoryInv, [HistoryNext]_historyVars, NEW r \in Ids, ComparisonIsSaved(r),
             NEW a \in Devices(r)
      PROVE  SavedComparisonFits(r, a)
  <2>1. Compare(r) /\ Begun(r) /\ Shaped(r) /\ a \in DOMAIN report[r].content.at
        BY <1>1, OnlyCompareCompares DEF Devices, Ips, Begun, HistoryInv, ReportShape, ComparisonIsSaved
  <2>2. /\ report'[r].compared[a] = Comparison(r, a, Basis(r))
        /\ report'[r].earlier = Earlier(r, Basis(r))
    <3> DEFINE old == report[r]
               names == [d \in DOMAIN report[r].content.at |->
                           IF d \in Devices(r) THEN NameFor(r, d, Basis(r)) ELSE report[r].name[d]]
               told == [d \in DOMAIN report[r].content.at |->
                          IF d \in Devices(r) THEN Comparison(r, d, Basis(r)) ELSE NotCompared]
               past == Earlier(r, Basis(r))
    <3>1. report' = [report EXCEPT ![r].step = "done", ![r].compared = told, ![r].name = names,
                                   ![r].earlier = past]
          BY <2>1 DEF Compare
    <3>2. told[a] = Comparison(r, a, Basis(r))
          BY <2>1
    <3>3. old \in [state : {"running", "finished", "trash"}, step : {old.step}, day : Nat, content : Findings,
                   name : {old.name}, compared : {old.compared}, earlier : {old.earlier}]
          BY <2>1 DEF Shaped
    <3> HIDE DEF names, told, past
    <3>4. report'[r] = [old EXCEPT !.step = "done", !.compared = told, !.name = names, !.earlier = past]
          BY <1>1, <3>1 DEF HistoryInv, ReportShape
    <3>5. report'[r].compared = told /\ report'[r].earlier = past
      <4> HIDE DEF old
      <4> QED BY <3>3, <3>4
    <3> QED BY <3>2, <3>5 DEF past
  <2> DEFINE c == Comparison(r, a, Basis(r))
             m == Mac(r, a)
             b == Match(c.from, m)
  <2> SUFFICES ASSUME c.status = "available"
               PROVE  /\ c.from \in Basis(r) /\ report[c.from].state \notin {"none", "running"}
                      /\ report[c.from].day < report[r].day
                      /\ \E d \in Devices(c.from) :
                            /\ Mac(c.from, d) = m
                            /\ Complete(c.from, d) /\ Complete(r, a)
                            /\ c.added \cap OpenPorts(c.from, d) = {} /\ c.gone \cap OpenPorts(r, a) = {}
                            /\ (OpenPorts(c.from, d) \cup c.added) \ c.gone = OpenPorts(r, a)
                      /\ \A p \in Basis(r) :
                            report[p].day < report[r].day
                              /\ report[p].content.network = report[r].content.network =>
                                 Cardinality(Seen(p, m)) <= 1
                      /\ \A e \in Earlier(r, Basis(r)) : Mac(e[1], e[2]) # m
      BY <2>2 DEF SavedComparisonFits
  <2>3. /\ ~Ambiguous(r, a, Basis(r)) /\ c.from \in Matches(r, a, Basis(r))
        /\ Complete(r, a) /\ Complete(c.from, b)
        /\ c.added = OpenPorts(r, a) \ OpenPorts(c.from, b)
        /\ c.gone = OpenPorts(c.from, b) \ OpenPorts(r, a)
        BY <1>1, ComparisonTells
  <2>4. /\ c.from \in Basis(r) /\ report[c.from].day < report[r].day /\ m # NoMac
        /\ b \in Devices(c.from) /\ Mac(c.from, b) = m
        BY <2>3, MatchIn
  <2>8. report[c.from].state \notin {"none", "running"}
        BY <1>1, <2>4, BasisIn DEF Begun
  <2> HIDE DEF c, b
  <2>5. \E d \in Devices(c.from) :
            /\ Mac(c.from, d) = m
            /\ Complete(c.from, d) /\ Complete(r, a)
            /\ c.added \cap OpenPorts(c.from, d) = {} /\ c.gone \cap OpenPorts(r, a) = {}
            /\ (OpenPorts(c.from, d) \cup c.added) \ c.gone = OpenPorts(r, a)
    <3>1. /\ c.added \cap OpenPorts(c.from, b) = {} /\ c.gone \cap OpenPorts(r, a) = {}
          /\ (OpenPorts(c.from, b) \cup c.added) \ c.gone = OpenPorts(r, a)
          BY <2>3
    <3> QED BY <2>3, <2>4, <3>1
  <2>6. ASSUME NEW p \in Basis(r), report[p].day < report[r].day,
               report[p].content.network = report[r].content.network
        PROVE  Cardinality(Seen(p, m)) <= 1
    <3>1. p \in Ids /\ Begun(p) /\ report[p].state # "running"
          BY <1>1, <2>6, BasisIn
    <3>2. IsFiniteSet(Seen(p, m)) /\ Cardinality(Seen(p, m)) \in Nat
          BY <1>1, <3>1, SeenIsFinite
    <3>3. CASE Seen(p, m) = {}
          BY <3>3, FS_EmptySet
    <3>4. CASE Seen(p, m) # {}
      <4>1. p # r
            BY <1>1, <3>1 DEF ComparisonIsSaved
      <4>2. p \in Matches(r, a, Basis(r))
            BY <2>4, <2>6, <3>4, <4>1 DEF Matches, Previous
      <4>3. ~(Cardinality(Seen(p, m)) > 1)
            BY <2>3, <2>4, <4>2 DEF Ambiguous
      <4> QED BY <3>2, <4>3
    <3> QED BY <3>3, <3>4
  <2>7. ASSUME NEW e \in Earlier(r, Basis(r)) PROVE Mac(e[1], e[2]) # m
    <3>1. PICK p \in Basis(r) : \E d \in Devices(p) :
                 e = <<p, d>> /\ Seen(r, Mac(p, d)) = {}
          BY EarlierTells
    <3>2. a \in Seen(r, m)
          BY DEF Seen
    <3>3. PICK d \in Devices(p) : e = <<p, d>> /\ Seen(r, Mac(p, d)) = {}
          BY <3>1
    <3>4. e[1] = p /\ e[2] = d
          BY <3>3
    <3> QED BY <3>2, <3>3, <3>4
  <2> QED BY <2>4, <2>5, <2>6, <2>7, <2>8
<1>2. HistoryInv /\ [HistoryNext]_historyVars =>
        [ \A r \in Ids : ComparisonIsSaved(r) => \A a \in Devices(r) : SavedComparisonFits(r, a) ]_historyVars
      BY <1>1
<1> QED BY <1>2, HistoryInvariance, PTL DEF HistorySpec, ComparisonIsSound

=============================================================================
