SPECIFICATION Spec
CONSTANTS
    NOut = 2
    Amount = {0, 1, 2, 3, 5}
    MaxHeight = 3
    TxId = {"cb1", "cb2", "cb3", "t1", "t2", "t3", "twice", "mint", "early"}
    BlockHash = {"g", "b1", "b2", "b3", "c2", "c3", "again", "samein", "sametx", "greedy", "minter", "young", "double"}
    NoBlock = "0"
    FirstBlock = "g"
    TxIn <- MCTxIn
    TxOut <- MCTxOut0
    Unspendable <- MCUnspendable
    Prev <- MCPrev
    BlockTx <- MCBlockTx
    COINBASE_MATURITY = 1
    Subsidy <- MCSubsidy
INVARIANT
    DbRepresentsItsBlock
