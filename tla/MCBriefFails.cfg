\* Briefs only: the second section's opening is not reserved.
CONSTANTS
    Budget = 48
    HeaderLen = 4
    NoneLen = 6
    NoteLen = 3
    PreambleLen = 5
    BlockLen = 4
    MaxRecent = 2
    Pictures <- Briefs
    Exclusions <- NothingExcluded
SPECIFICATION Spec
CHECK_DEADLOCK FALSE
INVARIANT NeverFailsTheBrief
