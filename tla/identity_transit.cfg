SPECIFICATION Spec
CONSTANTS
    k1 = k1
    k2 = k2
    Absent = Absent
    NoKid = NoKid
    Kids = {k1, k2}
    Configs <- MCConfigs
    Requests <- MCRequests
    TTL = 2
    MaxTime = 4
    MaxVersion = 2
    MaxEpoch = 3
    MaxLaunches = 2
INVARIANT
    SignaturesVerify
CHECK_DEADLOCK FALSE
