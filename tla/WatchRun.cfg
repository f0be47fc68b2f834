SPECIFICATION FairSpec
CONSTANTS
    Entries = 2
    MaxEdits = 1
    Faults = TRUE
INVARIANTS WatchInv WarmProgramsFollow ShutdownJoins
PROPERTIES SettledHonest ShutdownEnds SettleEnds EditAnswered
CHECK_DEADLOCK FALSE
