CONSTANTS
    h1 = h1
    h2 = h2
    Hubs = {h1, h2}
    None = None
    Types <- MCTypes
    Targets <- MCTargets
    Keys <- MCKeys
    Messages <- MCFewMessages
    Compacts <- MCCompacts
    Legacy <- MCFewMessages
    CastKeys = {}
SPECIFICATION SyncSpec
CHECK_DEADLOCK FALSE
PROPERTIES EventuallyConsistent
