CONSTANTS
    Keys <- MCKeys
    Peers <- MCPeers
    Batches <- MCBatches
    TIMESTAMP_LENGTH = 2
    MAX_VALUES_RETURNED_PER_CALL = 1
    TRIE_UNLOAD_THRESHOLD = 5
    Cutoff = 1
SPECIFICATION Spec
INVARIANTS TrieIsCanonical SavedIsCanonical MetadataIsCurrent WalkFindsMissing SnapshotsDetectDivergence
