--------------------------- MODULE RevisionedNotes ---------------------------
(***************************************************************************)
(* A file of user edits with optimistic concurrency and its own recovery:   *)
(* AnnotationStore (storage/annotations.py), NicknameStore                  *)
(* (storage/nicknames.py) and the revision fence they share                 *)
(* (storage/recovery.py).                                                   *)
(*                                                                          *)
(*   <name>.json            primary                                         *)
(*   <name>.previous.json   backup                                          *)
(*   <name>.recovery.json   fence, 0 when there is none                     *)
(*                                                                          *)
(* Loads and updates both run in threads under one file lock, which `busy`  *)
(* stands for; an action is one replacement of one file, so that a failing  *)
(* write or a crash can stop a call between any two.                        *)
(***************************************************************************)
EXTENDS Naturals

CONSTANTS
    Editors,     \* browser tabs and the jobs that add to the notes
    Contents,
    Blank,       \* the content of notes nobody has written
    Missing, Corrupt, Nobody,
    ReadsMayFail, \* an OSError counts as damage: annotations TRUE, nicknames FALSE
    MaxRev       \* bound: no write starts from a revision this high

ASSUME ContentsAssumption == Blank \in Contents /\ Missing \notin Contents
ASSUME RevAssumption == MaxRev \in Nat
ASSUME EditorsAssumption == Nobody \notin Editors
ASSUME ReadsAssumption == ReadsMayFail \in BOOLEAN

Notes == [rev : Nat \ {0}, content : Contents, notice : BOOLEAN]

ASSUME FileAssumption == Missing \notin Notes /\ Corrupt \notin Notes /\ Missing # Corrupt

VARIABLES
    primary, backup, fence,
    busy,        \* the editor whose call holds the lock
    at,          \* the write that call does next
    draft,       \* what it is writing
    wish,        \* the content an update asks for, or Missing for a load
    checked,     \* that update names the revision it expects
    held,        \* the notes each editor saw last
    seen,        \* history: all notes any editor ever saw
    edit         \* history: the content of the last update that was published

files == <<primary, backup, fence>>
call == <<busy, at, draft, wish, checked>>
vars == <<files, call, held, seen, edit>>

Default == [rev |-> 1, content |-> Blank, notice |-> FALSE]

\* Neither the file nor its recovery files exist.
Fresh == primary = Missing /\ backup = Missing /\ fence = 0

Init ==
    /\ primary = Missing /\ backup = Missing /\ fence = 0
    /\ busy = Nobody /\ at = "idle" /\ draft = Default /\ wish = Missing /\ checked = FALSE
    /\ held = [e \in Editors |-> Default]
    /\ seen = {Default}
    /\ edit = Blank

-----------------------------------------------------------------------------

Free ==
    /\ busy' = Nobody /\ at' = "idle" /\ draft' = Default /\ wish' = Missing /\ checked' = FALSE

\* The call returns d to its editor.
Return(e, d) ==
    /\ held' = [held EXCEPT ![e] = d]
    /\ seen' = seen \cup {d}

\* Mutant: a recovery goes on from the revision of the backup.
NextAfterBackup == backup.rev + 1

\* Mutant: a second recovery of the same backup gives out the first one's revision.
UnfencedRevision == backup.rev + 2

\* reserve_recovery_revision
RecoveryRevision ==
    IF backup.rev + 2 > fence + 1 THEN backup.rev + 2 ELSE fence + 1

\* Mutant: recovered notes look like any others.
RecoveredQuietly == [rev |-> RecoveryRevision, content |-> backup.content, notice |-> backup.notice]

Recovered == [rev |-> RecoveryRevision, content |-> backup.content, notice |-> TRUE]

Revised(d, c) == [rev |-> d.rev + 1, content |-> c, notice |-> d.notice]

\* Mutant: an update is accepted from any editor.
AcceptsAny(e, d, x) == d.rev < MaxRev

\* saved.revision == expected_revision, for titles, checklists and nicknames;
\* refreshed names and CVE lookups are added to whatever notes there are.
Accepts(e, d, x) == (x => held[e].rev = d.rev) /\ d.rev < MaxRev

\* _load_locked has returned d.  A load is over; an update goes on if it is
\* accepted, and otherwise raises.
Loaded(e, d, c, x) ==
    /\ IF c = Missing
         THEN Free /\ Return(e, d)
         ELSE /\ IF Accepts(e, d, x)
                   THEN /\ busy' = e /\ at' = "backup" /\ draft' = Revised(d, c)
                        /\ wish' = c /\ checked' = x
                   ELSE Free
              /\ UNCHANGED <<held, seen>>
    /\ UNCHANGED edit

\* The lock is taken and the notes are read.
Open(e, c, x) ==
    /\ busy = Nobody
    /\ \/ primary \in Notes /\ Loaded(e, primary, c, x)
       \/ Fresh /\ Loaded(e, Default, c, x)
    /\ UNCHANGED files

\* The primary cannot be read and the backup can: a new revision is reserved.
\* Without a valid backup the call raises and changes nothing.
OpenDamaged(e, c, x) ==
    /\ busy = Nobody
    /\ primary \notin Notes \/ ReadsMayFail
    /\ backup \in Notes /\ Recovered.rev < MaxRev
    /\ busy' = e /\ at' = "publish" /\ draft' = Recovered /\ wish' = c /\ checked' = x
    /\ fence' = RecoveryRevision
    /\ UNCHANGED <<primary, backup, held, seen, edit>>

Load(e) == Open(e, Missing, FALSE) \/ OpenDamaged(e, Missing, FALSE)

Update(e) == \E c \in Contents, x \in BOOLEAN : Open(e, c, x) \/ OpenDamaged(e, c, x)

\* os.replace of the primary with the recovered notes
Publish ==
    /\ at = "publish"
    /\ primary' = draft
    /\ Loaded(busy, draft, wish, checked)
    /\ UNCHANGED <<backup, fence>>

\* Whatever bytes the primary has become the backup.
WriteBackup ==
    /\ at = "backup"
    /\ backup' = IF primary = Missing THEN backup ELSE primary
    /\ at' = "primary"
    /\ UNCHANGED <<primary, fence, busy, draft, wish, checked, held, seen, edit>>

WritePrimary ==
    /\ at = "primary"
    /\ primary' = draft
    /\ edit' = draft.content
    /\ Free /\ Return(busy, draft)
    /\ UNCHANGED <<backup, fence>>

\* A write raises, or the process dies: the lock is free again.
Stop ==
    /\ at # "idle"
    /\ Free
    /\ UNCHANGED <<files, held, seen, edit>>

\* The bytes of the primary go bad, or -- with nobody at work and a backup in
\* place -- the file is lost.
Damage ==
    /\ \/ primary # Missing /\ primary' = Corrupt
       \/ backup # Missing /\ busy = Nobody /\ primary' = Missing
    /\ UNCHANGED <<backup, fence, call, held, seen, edit>>

Next ==
    \/ \E e \in Editors : Load(e) \/ Update(e)
    \/ Publish \/ WriteBackup \/ WritePrimary \/ Stop \/ Damage

Spec == Init /\ [][Next]_vars

-----------------------------------------------------------------------------

TypeOK ==
    /\ primary \in Notes \cup {Missing, Corrupt}
    /\ backup \in Notes \cup {Missing, Corrupt}
    /\ fence \in Nat
    /\ busy \in Editors \cup {Nobody}
    /\ at \in {"idle", "publish", "backup", "primary"}
    /\ draft \in Notes
    /\ wish \in Contents \cup {Missing}
    /\ checked \in BOOLEAN
    /\ held \in [Editors -> Notes]
    /\ seen \subseteq Notes
    /\ edit \in Contents

\* However often the file is damaged and recovered, and wherever a write fails,
\* a revision number never stands for two different contents: an editor that
\* holds a revision holds what the server means by it.
RevisionNamesOneContent ==
    \A d1, d2 \in seen : d1.rev = d2.rev => d1 = d2

\* No update that names the revision it expects is accepted over notes its
\* editor has not seen: what it replaces is what the editor held, content included.
AcceptedEditSawLatest ==
    [][ (at = "backup" /\ at' = "primary" /\ checked /\ primary \in Notes)
        => held[busy] = primary ]_vars

\* A recovery invalidates every editor, one that holds the result of an earlier
\* recovery of the same backup included (docs/storage-lifecycle.md).
RecoveryInvalidatesEditors ==
    [][ (at = "idle" /\ at' = "publish") => \A d \in seen : d.rev < draft'.rev ]_vars

\* Notes that lack the last published edit say so (recovery_notice), and go on
\* saying so through later edits.
LostEditIsAnnounced ==
    \A d \in seen : (primary = d /\ d.content # edit) => d.notice

=============================================================================
