\* One grid, every way to interrupt a run and take it up again; two grids; two zeros.
CONSTANTS
    MCModes = {"Serpentine", "SpiralCW"}
    MCDwells = {0, 1}
    MCSamples = {1}
    MCRows = {2, 3}
    Tracks = {"one grid", "two grids", "two zeros"}
    Seen = {"healthy", "other target", "short wkc"}
    Allowed = {"reopen", "begin", "repeat", "interrupt", "restart", "adjust"}
    MaxOps = 4
    MaxRandomOps = 1
    Params <- MCParams
    Axis <- MCAxis
    Observations <- MCObservations
    Paths = {"a.csv"}
    Cuts = {"none", "short", "keyed"}
    MoveLimit = 1
    ReadBudget = 1
    FlushBudget = 1
    WantConfirm = 0
    WkcLimit = 1
    MaxStep = 1
    MaxEpoch = 1
SPECIFICATION MCSpec
INVARIANTS
    TypeOK
    AtFirstPending
    PendingIsComplement
    SampleOfItsCell
    MapIsFile
    RowsMatchHeader
    OneZeroPoint
PROPERTIES
    RunIsScan
CHECK_DEADLOCK FALSE
