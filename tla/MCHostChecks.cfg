SPECIFICATION FairSpec
CONSTANTS
    Hosts = {h1, h2}
    Workers = {w1, w2}
    Nowhere = Nowhere
    MaxFaults = 1
    MaxCrashes = 1
CHECK_DEADLOCK FALSE
INVARIANTS TypeOK CountsMatchStatuses OutcomeMatchesCoverage ClosedMeansSettled NoWorkerOutlivesRun ProbesAreRecorded
PROPERTIES StageEnds
