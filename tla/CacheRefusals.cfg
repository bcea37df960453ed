CONSTANTS
    c1 = c1
    c2 = c2
    Calls = {c1}
    None = None
    Messages <- MCMessages
    InitialDbs <- MCInitialDbs
    CompactStates = {}
    Ops = {"merge"}
    Rents <- Lasting
    InitialRents <- MCLasting
    SizeLimit = 0
    YEAR = 9
    MaxTime = 0
    MaxCalls = 4
SPECIFICATION Spec
PROPERTIES RefusedWouldBePruned
CHECK_DEADLOCK FALSE
