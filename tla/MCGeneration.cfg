\* Every picture of the small sets, with a budget most of them pass.
CONSTANTS
    Budget = 48
    HeaderLen = 4
    NoneLen = 6
    NoteLen = 3
    PreambleLen = 5
    BlockLen = 4
    MaxRecent = 2
    Pictures <- All
    Exclusions <- SomeExcluded
SPECIFICATION Spec
CHECK_DEADLOCK FALSE
INVARIANTS TypeOK OvershootIsUnreserved CompleteMeansWhole HighConfidenceIsEarned ExcludedNeverTold
