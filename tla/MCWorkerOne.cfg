\* One axis: sent about, pushed, homed, measured, its zero and range moved.
CONSTANTS
    Scenes = {"move", "home", "measure"}
    Axes = {0}
    IntMax = 7
    SpanMax = 5
    OffMax = 1
    Commands <- MCCommands
    Targets <- MCTargets
    Pos <- MCLine
    InitRange = 2
    MinRange = 1
    Step = 1
    Lead = 1
    BackoffMax = 3
    StuckLimit = 2
    Sensor <- MCSensor
    HomeTmo = 7
    ShortLimit = 2
    BadLimit = 1
    ArmFrames = 3
    MaxTries = 1
    PushAnywhere = FALSE
    Budget <- MCBudget
SPECIFICATION MCSpec
INVARIANTS
    StillUntilAsked
    EpochNamesZero
    WidthIsSignal
PROPERTIES
    NoJump
CHECK_DEADLOCK FALSE
