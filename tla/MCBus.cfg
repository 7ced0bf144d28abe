\* Two drives of any kind, two connections, two things that go wrong.
CONSTANTS
    N = 2
    Drives <- MCDrives
    WantDigIn = TRUE
    AbortsPass = TRUE
    MaxSessions = 2
    MaxFaults = 2
SPECIFICATION Spec
INVARIANTS
    FieldsInPlace
    OriginalsHeld
    PolarityPutBack
    TablesPutBack
CHECK_DEADLOCK FALSE
