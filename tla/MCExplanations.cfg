SPECIFICATION Spec
CONSTANTS
    Entries = 2
    Lines = {title, step}
    ListLines = {step}
    Plain = {title}
    BatchSize = 1
    NoRecord = NoRecord
    MaxTasks = 2
    MaxRefreshes = 1
    MaxCrashes = 1
INVARIANTS RequestsAreCounted ReadyMeansSettled
PROPERTIES AcceptedWordingStays
VIEW View
CHECK_DEADLOCK FALSE
