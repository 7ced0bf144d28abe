\* One axis homes, measures, is stopped or loses its drive, and the thread is
\* asked to end.
CONSTANTS
    Scenes = {"live"}
    Axes = {0}
    IntMax = 7
    SpanMax = 5
    OffMax = 1
    Commands <- MCCommands
    Targets <- MCTargets
    Pos <- MCPoint
    InitRange = 2
    MinRange = 1
    Step = 1
    Lead = 1
    BackoffMax = 2
    StuckLimit = 2
    Sensor <- MCSensor
    HomeTmo = 1
    ShortLimit = 2
    BadLimit = 1
    ArmFrames = 3
    MaxTries = 1
    PushAnywhere = FALSE
    Budget <- MCBudget
SPECIFICATION MCFairSpec
PROPERTIES
    SessionEnds
    CommandsAreTaken
    QuitEnds
CHECK_DEADLOCK FALSE
