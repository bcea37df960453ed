CONSTANTS
    h1 = h1
    h2 = h2
    Hubs = {h1, h2}
    None = None
    Keys <- MCKeys
    CastKeys <- MCCastKeys
    Messages <- MCMessages
SPECIFICATION FairSpec
INVARIANTS TypeOK StoreIsWinners FollowsDocumentedRules IndicesConsistent NoSyncDeadEnd
PROPERTIES EventuallyConsistent ImplementsRegisters
