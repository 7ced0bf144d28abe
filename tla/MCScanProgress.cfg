\* Every run ends, whatever parameters are changed during it.
CONSTANTS
    MCModes = {"Serpentine", "RandomOnce", "RandomRepeat"}
    MCDwells = {0, 2}
    MCSamples = {2}
    MCRows = {2}
    Tracks = {"any"}
    Seen = {"healthy"}
    Allowed = {"begin", "interrupt", "adjust"}
    MaxOps = 3
    MaxRandomOps = 2
    Params <- MCParams
    Axis <- MCAxis
    Observations <- MCObservations
    Paths = {"a.csv"}
    Cuts = {}
    MoveLimit = 1
    ReadBudget = 2
    FlushBudget = 2
    WantConfirm = 1
    WkcLimit = 1
    MaxStep = 1
    MaxEpoch = 0
SPECIFICATION MCFairSpec
PROPERTIES
    PointEnds
    RunEnds
    PlanStays
CHECK_DEADLOCK FALSE
