CONSTANTS
    t1 = t1
    t2 = t2
    l1 = l1
    l2 = l2
    Threads = {t1, t2}
    Locks = {l1, l2}
    None = None
    Keys <- MCKeys
    LockOf <- MCLockOf
    AddressOf <- MCAddressOf
    Messages <- MCRivals
    Ops = {"merge", "revoke", "prune"}
    MaxSetBack = 1
    SequenceLimit = 1
    MaxClock = 2
    CastKeys = {}
SPECIFICATION Spec
SYMMETRY ThreadSymmetry
INVARIANTS TypeOK LogDescribesStore EventIdsUnique NoDanglingEntries OneFidPerAddress
PROPERTIES MergesAreAtomic
