\* A run is started over an earlier one and aborted.
CONSTANTS
    MCModes = {"Serpentine"}
    MCDwells = {1}
    MCSamples = {1}
    MCRows = {2}
    Tracks = {"any"}
    Seen = {"healthy"}
    Allowed = {"begin", "interrupt"}
    MaxOps = 4
    MaxRandomOps = 1
    Params <- MCParams
    Axis <- MCAxis
    Observations <- MCObservations
    Paths = {"a.csv", "b.csv"}
    Cuts = {}
    MoveLimit = 1
    ReadBudget = 1
    FlushBudget = 1
    WantConfirm = 0
    WkcLimit = 1
    MaxStep = 1
    MaxEpoch = 0
SPECIFICATION MCSpec
INVARIANT DoneIsWritten
CHECK_DEADLOCK FALSE
