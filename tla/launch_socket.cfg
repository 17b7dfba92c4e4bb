SPECIFICATION Spec
CONSTANTS
    a = a
    b = b
    NoJob = 0
    Nobody = Nobody
    Processes = {a, b}
    Jobs <- MCJobs
    Tree <- MCTree
    Caps <- MCCaps
    Sizes <- MCSizes
    Width = 4
    Numbered <- MCNumbered
    Addrs <- MCAddrs
    Lists = {"archive"}
    FilePaths = {"notes"}
    MaxStarts = 3
    Given <- MCGivenRivals
    Rivals <- MCRivals
INVARIANT
    LiveSocketStays
CHECK_DEADLOCK FALSE
