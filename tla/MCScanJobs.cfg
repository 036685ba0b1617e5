SPECIFICATION FairSpec
CONSTANTS
    Scans = {s1}
    NoScan = NoScan
    MaxJobs = 1
    MaxRetries = 1
    MaxCancels = 2
    MaxFaults = 1
    MaxCrashes = 1
CHECK_DEADLOCK FALSE
INVARIANTS TypeOK NoReportIsStuck
PROPERTIES OutcomeIsKept ReportsFinish
