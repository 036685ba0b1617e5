SPECIFICATION Spec
CONSTANTS
    c1 = c1
    c2 = c2
    c3 = c3
    scan = scan
    other = other
    maintain = maintain
    Callers = {c1, c2, c3}
    Guards = {scan, other}
    Tasks = {scan, other}
    Of <- MCOf
    Maintain = maintain
    MaxLaunches = 2
    Setups <- MCSetups
INVARIANTS StoppedMeansQuiet
PROPERTIES AcceptedIsFresh NothingAcceptedAfterPause
CHECK_DEADLOCK FALSE
