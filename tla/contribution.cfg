SPECIFICATION Spec
CONSTANTS
    main = main
    notes = notes
    self = self
    letter = letter
    summary = summary
    roster = roster
    r1 = r1
    r2 = r2
    BranchNames <- MCBranchNames
    Claims <- MCClaims
    Closure <- MCClosure
    TableClaims = {roster}
    FoundedBranch = main
    FoundedClaim = self
    Requests = {r1, r2}
    Bodies <- MCBodies
    Principals <- MCPrincipals
INVARIANTS
    AnswersAreTrue
    IInv
    HeadIsPersisted
    ReservedByNameOnly
    AttenuationNarrows
PROPERTIES
    ImplementsArchive
CHECK_DEADLOCK FALSE
