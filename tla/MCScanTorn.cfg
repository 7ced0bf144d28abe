\* The program dies while it writes a row.
CONSTANTS
    MCModes = {"Serpentine"}
    MCDwells = {1}
    MCSamples = {1}
    MCRows = {2}
    Tracks = {"any"}
    Seen = {"healthy"}
    Allowed = {"begin", "restart", "reopen"}
    MaxOps = 4
    MaxRandomOps = 1
    Params <- MCParams
    Axis <- MCAxis
    Observations <- MCObservations
    Paths = {"a.csv"}
    Cuts = {"keyed"}
    MoveLimit = 1
    ReadBudget = 1
    FlushBudget = 1
    WantConfirm = 0
    WkcLimit = 1
    MaxStep = 1
    MaxEpoch = 0
SPECIFICATION MCSpec
INVARIANT TornRowIsPending
CHECK_DEADLOCK FALSE
