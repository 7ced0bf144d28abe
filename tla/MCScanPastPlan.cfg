\* A bigger grid is tried and given up after an abort.
CONSTANTS
    MCModes = {"Serpentine"}
    MCDwells = {1}
    MCSamples = {1}
    MCRows = {2, 3}
    Tracks = {"any"}
    Seen = {"healthy", "short wkc", "no meter"}
    Allowed = {"begin", "configure"}
    MaxOps = 5
    MaxRandomOps = 1
    Params <- MCParams
    Axis <- MCAxis
    Observations <- MCObservations
    Paths = {"a.csv"}
    Cuts = {}
    MoveLimit = 1
    ReadBudget = 1
    FlushBudget = 1
    WantConfirm = 0
    WkcLimit = 1
    MaxStep = 1
    MaxEpoch = 0
SPECIFICATION MCSpec
INVARIANT OrderWithinPlan
CHECK_DEADLOCK FALSE
