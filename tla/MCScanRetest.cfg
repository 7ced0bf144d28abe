\* A cell is measured again and times out.
CONSTANTS
    MCModes = {"Serpentine"}
    MCDwells = {1}
    MCSamples = {1}
    MCRows = {2}
    Tracks = {"any"}
    Seen = {"healthy"}
    Allowed = {"begin", "repeat"}
    MaxOps = 2
    MaxRandomOps = 1
    Params <- MCParams
    Axis <- MCAxis
    Observations <- MCObservations
    Paths = {"a.csv"}
    Cuts = {}
    MoveLimit = 1
    ReadBudget = 1
    FlushBudget = 1
    WantConfirm = 0
    WkcLimit = 1
    MaxStep = 1
    MaxEpoch = 0
SPECIFICATION MCSpec
PROPERTY LastRowDecides
CHECK_DEADLOCK FALSE
