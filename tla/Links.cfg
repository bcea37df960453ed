CONSTANTS
    h1 = h1
    h2 = h2
    Hubs = {h1, h2}
    None = None
    Types <- MCTypes
    Targets <- MCTargets
    Keys <- MCKeys
    Messages <- MCMessages
    Compacts <- MCCompacts
    Legacy <- MCLegacy
    CastKeys = {}
SPECIFICATION GossipSpec
CHECK_DEADLOCK FALSE
INVARIANTS TypeOK IndicesConsistent CompactionIsFinal
PROPERTIES StepsForward EventuallyConsistent
