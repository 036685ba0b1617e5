SPECIFICATION HistorySpec
CONSTANTS
    home = home
    m1 = m1
    m2 = m2
    p1 = p1
    p2 = p2
    NoMac = NoMac
    Absent = Absent
    Findings <- MCFindings
    MaxJobs = 2
    MaxReports = 3
    Week = 2
    Recent = 2
    MaxRead = 2
    MaxRemovals = 1
    MaxEdits = 2
INVARIANTS RestoredNameIsRecent LabelFollowsAdapter
PROPERTIES ComparisonIsSound
VIEW View
CONSTRAINT Apart
CHECK_DEADLOCK FALSE
