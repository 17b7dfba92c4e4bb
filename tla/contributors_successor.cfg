SPECIFICATION Spec
CONSTANTS
    NoBound = NoBound
    NoKey = NoKey
    NoClaim = NoClaim
    Keys = {k1, k2}
    Commands = {c1}
    Spans <- MCSpans
    Expirations = {1, 2}
    MaxClaims = 3
    MaxTime = 2
INVARIANTS
    ChosenIsLive


SYMMETRY Interchangeable
CHECK_DEADLOCK FALSE
