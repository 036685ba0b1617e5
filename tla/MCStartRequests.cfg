SPECIFICATION Spec
CONSTANTS
    Operations = {o1, o2, o3}
    Clients = {c1, c2}
    Settings = {s1, s2}
    MaxTasks = 1
    MaxReceipts = 2
    Nobody = Nobody
    Nothing = Nothing
    Absent = Absent
    Damaged = Damaged
    MaxRequests = 3
    MaxTroubles = 1
    MaxStops = 1
CHECK_DEADLOCK FALSE
INVARIANTS AtMostOneJob RejectedLeftNothing AcceptedWasAdmitted RecoveryKeepsSettings InterruptedIsClosed
SYMMETRY Symmetry
VIEW View
