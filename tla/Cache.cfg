CONSTANTS
    c1 = c1
    c2 = c2
    Calls = {c1, c2}
    None = None
    Messages <- Few
    InitialDbs <- FewInitialDbs
    CompactStates <- Compacting
    Ops = {"merge", "revoke", "prune", "usage"}
    Rents <- MCRents
    InitialRents <- MCInitialRents
    SizeLimit = 2
    YEAR = 9
    MaxTime = 1
    MaxCalls = 3
SPECIFICATION FairSpec
INVARIANTS TypeOK   SlotIsExact
PROPERTIES CallsReturn
CHECK_DEADLOCK FALSE
