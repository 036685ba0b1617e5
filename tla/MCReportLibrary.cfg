SPECIFICATION LibrarySpec
CONSTANTS
    Reports = {r1, r2}
    Slots = {t1, t2}
    MaxReports = 1
    Lively = {r1}
    Absent = Absent
    NoReceipt = NoReceipt
    MaxRev = 2
    MaxNotes = 2
    MaxCrashes = 1
    NoRow = NoRow
SYMMETRY Symmetry
INVARIANTS ArchivedAsReviewed NothingIsLost JobKeepsReport CachedRowIsCurrent
CHECK_DEADLOCK FALSE
