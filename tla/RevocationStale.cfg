CONSTANTS
    p1 = p1
    p2 = p2
    v1 = v1
    r1 = r1
    r2 = r2
    None = None
    Signers <- TwoSigners
    Events <- TwoSignersEvents
    Messages <- TwoSignersMessages
    Named = {}
    Mergers = {p1}
    Lookups = {}
    Runs = {r1}
    MaxCrashes = 0
SPECIFICATION FairSpec
CHECK_DEADLOCK FALSE
PROPERTIES EventuallyRevoked
