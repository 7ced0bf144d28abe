\* A stop between the last look at the axes and the end of homing, and the
\* measurement that follows.
CONSTANTS
    Scenes = {"stop"}
    Axes = {0}
    IntMax = 7
    SpanMax = 5
    OffMax = 1
    Commands <- MCCommands
    Targets <- MCTargets
    Pos <- MCLine
    InitRange = 2
    MinRange = 1
    Step = 1
    Lead = 1
    BackoffMax = 3
    StuckLimit = 2
    Sensor <- MCSensor
    HomeTmo = 7
    ShortLimit = 2
    BadLimit = 1
    ArmFrames = 3
    MaxTries = 1
    PushAnywhere = FALSE
    Budget <- MCBudget
SPECIFICATION MCSpec
PROPERTIES
    NoMeasuringAfterStop
CHECK_DEADLOCK FALSE
