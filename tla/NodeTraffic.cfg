SPECIFICATION Spec
CONSTANTS
    Tx <- MCTx
    TxIn <- MCTxIn
    TxOut <- MCTxOut
    Coinbase = {"cb1", "cb2", "cb3", "cb4"}
    Malformed = {}
    BadScript = {"x"}
    nLockTime <- MCnLockTime
    Block <- MCBlock
    Genesis = "g"
    Prev <- MCPrev
    BlockTx <- MCBlockTx
    COINBASE_MATURITY = 2
    RequireStandard = TRUE
    nMaxOrphanTx = 3
    Peer = {"p", "q"}
    x = x
    y = y
    End <- MCEnd
    Command = {"getdata", "verack", "block"}
    DataSize <- MCDataSize
    Asks <- MCAsks
    HEADER_SIZE = 2
    SocketBuffer = 2
    RecvChunk = 3
    ReadAhead = 1
    SendBufferSize = 3
    ReceiveFloodSize = 3
    MaxRequests = 1
    Address = {1}
    open = open
    added = added
    Opener <- MCOpener
    MAX_OUTBOUND_CONNECTIONS = 2
    MaxInbound = 1
    MaxNodes = 2
SYMMETRY TrafficSymmetry
INVARIANTS
    PoolCheck
    OrphansExact
    TemplateExact
    StreamExact
    ReceiveBufferBounded
    
    
PROPERTY
    EvictedOnlyIfDead
