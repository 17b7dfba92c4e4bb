SPECIFICATION Spec
CONSTANTS
    key = key
    draft = draft
    table = table
    t1 = t1
    t2 = t2
    here = here
    there = there
    Claims <- MCClaims
    Refs <- MCRefs
    Order <- MCOrder
    Sources = {here, there}
    Heads <- MCHeads
    Table <- MCTable
    Limits = {2, 4}
    Tasks = {t1, t2}
    MaxStarts = 2
    MaxViews = 2
SYMMETRY TaskSymmetry
INVARIANTS
    DrawnWhenRead
    IdleIsNotBusy
    SelectedIsListed
PROPERTIES
    WholeStaysWhole
CHECK_DEADLOCK FALSE
