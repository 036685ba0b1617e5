SPECIFICATION Spec
CONSTANTS
    Editors = {e1, e2}
    Contents = {blank, c1, c2}
    Blank = blank
    Missing = Missing
    Corrupt = Corrupt
    Nobody = Nobody
    ReadsMayFail = TRUE
    MaxRev = 6
SYMMETRY Symmetry
INVARIANTS RevisionNamesOneContent LostEditIsAnnounced
PROPERTIES AcceptedEditSawLatest RecoveryInvalidatesEditors
