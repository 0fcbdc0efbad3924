SPECIFICATION LinkSpec
CONSTANTS
    x = x
    y = y
    End <- MCEnd
    Command = {"getdata", "verack", "block"}
    DataSize <- MCDataSize
    Asks <- MCAsks
    HEADER_SIZE = 2
    SocketBuffer = 3
    RecvChunk = 3
    ReadAhead = 1
    SendBufferSize = 4
    ReceiveFloodSize = 3
    MaxRequests = 1
INVARIANT
    LinkNeverStalls
