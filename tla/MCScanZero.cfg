\* The zero point moves in a run that is then broken off and continued.
CONSTANTS
    MCModes = {"Serpentine"}
    MCDwells = {1}
    MCSamples = {1}
    MCRows = {2}
    Tracks = {"any"}
    Seen = {"healthy", "other target"}
    Allowed = {"begin", "configure"}
    MaxOps = 4
    MaxRandomOps = 1
    Params <- MCParams
    Axis <- MCAxis
    Observations <- MCObservations
    Paths = {"a.csv"}
    Cuts = {}
    MoveLimit = 1
    ReadBudget = 1
    FlushBudget = 1
    WantConfirm = 1
    WkcLimit = 1
    MaxStep = 1
    MaxEpoch = 1
SPECIFICATION MCSpec
PROPERTY ContinuedUnderZeroOfFile
CHECK_DEADLOCK FALSE
