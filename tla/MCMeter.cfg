\* Two heads, two settings, two acts of the operator.
CONSTANTS
    Heads = {h1, h2}
    Values = {1, 2}
    Hangs = TRUE
    Faults = {"open", "data", "config", "unusable", "turned"}
    MaxStamp = 2
    Allowed = {"retry", "head", "settings"}
    MaxOps = 2
SPECIFICATION MCSpec
INVARIANTS
    TypeOK
    PendingIsHeard
    OneSession
PROPERTIES
    MarkOfItsStream
    ReadingAsShown
    AnswerComes
    ConfigEnds
CHECK_DEADLOCK FALSE
