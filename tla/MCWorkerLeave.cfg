\* A drive leaves OP while two axes search.
CONSTANTS
    Scenes = {"leave"}
    Axes = {0, 1}
    IntMax = 7
    SpanMax = 5
    OffMax = 1
    Commands <- MCCommands
    Targets <- MCTargets
    Pos <- MCPoint
    InitRange = 2
    MinRange = 1
    Step = 1
    Lead = 1
    BackoffMax = 3
    StuckLimit = 2
    Sensor <- MCSensor
    HomeTmo = 1
    ShortLimit = 2
    BadLimit = 1
    ArmFrames = 3
    MaxTries = 1
    PushAnywhere = FALSE
    Budget <- MCBudget
SPECIFICATION MCSpec
INVARIANTS
    NobodySearchesAlone
CHECK_DEADLOCK FALSE
