CONSTANTS
    m1 = m1
    m2 = m2
    e1 = e1
    Messages = {m1, m2}
    Events = {e1}
    Initial <- MCInitial
    Asked <- MCAsked
    MaxChanges = 2
    MaxFaults = 1
SPECIFICATION FairSpec
INVARIANTS TypeOK FollowsStore
PROPERTIES SyncReturns Converges
CHECK_DEADLOCK FALSE
