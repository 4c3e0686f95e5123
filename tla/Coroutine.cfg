SPECIFICATION FairSpec
CONSTANTS
    Frames <- MCFrames
    Harts <- MCHarts
    MaxOps = 5
    Deferred = FALSE
    Reserved = TRUE
INVARIANTS
    OneActive
    OwnedByTask
    NoPanic
PROPERTIES
    ImplementsCallStack
    AllReclaimed
CHECK_DEADLOCK FALSE
