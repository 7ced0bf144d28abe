\* A change of settings that fails: the stream is started again, the mark is kept.
CONSTANTS
    Heads = {h1, h2}
    Values = {1, 2}
    Hangs = TRUE
    Faults = {"open", "data", "config", "unusable", "turned"}
    MaxStamp = 2
    Allowed = {"retry", "head", "settings"}
    MaxOps = 2
SPECIFICATION MCSafe
INVARIANT NewStreamNewMark
CHECK_DEADLOCK FALSE
