SPECIFICATION Spec
CONSTANTS
    client = client
    script = script
    main = main
    claim = claim
    Clients = {client}
    Timed = {client}
    Others = {script}
    BranchNames = {main}
    Ids = {claim}
    Known = {client, script}
    Readers <- MCReaders
    DevStack = TRUE
    MaxResults = 2
    RouteLength = 2
    MaxVersion = 2
    MaxPolls = 2
    MaxCallers = 1
INVARIANT CachingChangesNoAnswer
CHECK_DEADLOCK FALSE
