CONSTANTS
    p1 = p1
    p2 = p2
    v1 = v1
    r1 = r1
    r2 = r2
    None = None
    Signers <- MCSigners
    Events <- MCEvents
    Messages <- MCMessages
    Named <- MCMessages
    Mergers = {p1, p2}
    Lookups = {v1}
    Runs = {r1, r2}
    MaxCrashes = 1
SPECIFICATION ScanSpec
CHECK_DEADLOCK FALSE
INVARIANTS TypeOK JobsDoneOnce MatchesChain
PROPERTIES RevokesForAReason RevokedUnlessCached
