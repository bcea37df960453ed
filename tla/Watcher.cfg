CONSTANTS
    Events <- MCEvents
    BlockOf <- MCBlockOf
    FidOf <- MCFidOf
    ContractOf <- MCContractOf
    ContractOrder <- MCContractOrder
    ByFid <- MCByFid
    StringRank <- MCStringRank
    FirstBlock = 8
    Retriers = {retry}
    ChunkSize = 2
    numConfirmations = 2
    LastBlock = 14
    MaxFaults = 1
SPECIFICATION FairSpec
INVARIANTS TypeOK NothingSkipped
PROPERTY AllStored
CHECK_DEADLOCK FALSE
