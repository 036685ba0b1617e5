SPECIFICATION Spec
CONSTANTS
    Scans = {s1}
    NoScan = NoScan
    MaxJobs = 1
    MaxRetries = 0
    MaxCancels = 0
    MaxFaults = 0
    MaxCrashes = 1
CHECK_DEADLOCK FALSE
PROPERTIES RestartKeepsOutcome
