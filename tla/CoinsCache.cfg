SPECIFICATION CacheSpec
CONSTANTS
    NOut = 1
    Amount = {1}
    MaxHeight = 1
    TxId = {t1, t2}
    BlockHash = {b1, b2}
    NoBlock = NoBlock
    FirstBlock = b1
SYMMETRY Symmetry
INVARIANTS
    FlagsMean
PROPERTY
    FlatSpec
