SPECIFICATION Spec
CONSTANTS
    Service <- MCService
    NetAddr <- MCNetAddr
    Source = {"q", "r", "w"}
    Bucket = {1, 2, 3}
    Position = {1, 2}
    GetNewBucket <- MCGetNewBucket
    GetBucketPosition <- MCGetBucketPosition
    TriedSlot = {1, 2}
    GetTriedSlot <- MCGetTriedSlot
    NEW_BUCKETS_PER_ADDRESS = 2
    MaxId = 3
    h1 = h1
    h2 = h2
    Holder <- MCHolder
    nTargetSize = 1
    MaxKey = 6
    Forks = {0, 5, 14}
    MaxHeight = 24
    TxLists <- MCTxLists
    MaxTransactions = 100
INVARIANTS
    Check
    ReloadExact
    KeysRecoverable
    PlainPoolSound
    WalksExact
    LocatorNearFork
    MerkleProofsExact
    RootIdentifiesBlock
