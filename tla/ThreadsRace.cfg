CONSTANTS
    t1 = t1
    t2 = t2
    l1 = l1
    l2 = l2
    Threads = {t1, t2}
    Locks = {l1, l2}
    None = None
    Keys <- MCKeys
    LockOf <- MCLockOf
    AddressOf <- NoAddress
    Messages <- MCRace
    Ops = {"merge", "revoke"}
    MaxSetBack = 0
    SequenceLimit = 8
    MaxClock = 1
    CastKeys = {}
SPECIFICATION Spec
SYMMETRY ThreadSymmetry
INVARIANTS HighestTimestampWins
