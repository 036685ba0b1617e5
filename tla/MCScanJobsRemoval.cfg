SPECIFICATION Spec
CONSTANTS
    Scans = {s1}
    NoScan = NoScan
    MaxJobs = 1
    MaxRetries = 1
    MaxCancels = 1
    MaxFaults = 0
    MaxCrashes = 0
CHECK_DEADLOCK FALSE
PROPERTIES RemovalWaitsForJobs
