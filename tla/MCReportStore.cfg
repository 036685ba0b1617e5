SPECIFICATION Spec
CONSTANTS
    Terminal = {completed, failed}
    Running = running
    NoDoc = NoDoc
    Limit = 1
    MaxRemark = 1
    Writers = {w1, w2}
    Readers = {r1}
    NoMarker = NoMarker
    Same = Same
    Nobody = Nobody
    Failed = Failed
    MaxRev = 3
    MaxCrashes = 1
SYMMETRY Symmetry
INVARIANTS TypeOK BackupAtMostOneBehind TrustedCacheIsCurrent
PROPERTIES FinishedUntilNextRevision ReadIsOneRevision ImplementsRegister
