SPECIFICATION Spec
CONSTANTS
    Entries = 1
    MaxEdits = 1
    Faults = TRUE
INVARIANT ProgramsFollow
CHECK_DEADLOCK FALSE
