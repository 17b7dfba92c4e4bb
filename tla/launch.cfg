SPECIFICATION FairSpec
CONSTANTS
    a = a
    b = b
    NoJob = 0
    Nobody = Nobody
    Processes = {a, b}
    Jobs <- MCJobs
    Tree <- MCTree
    Caps <- MCCaps
    Sizes <- MCSizes
    Width = 4
    Numbered <- MCNumbered
    Addrs <- MCAddrs
    Lists = {"archive"}
    FilePaths = {"notes"}
    MaxStarts = 2
    Given <- MCGiven
    Rivals <- MCRivals
INVARIANTS
    ServingIsWhole
PROPERTIES
    ImplementsService
    ServingSettles
    FailureTakesDown
    SignalStops
CHECK_DEADLOCK FALSE
