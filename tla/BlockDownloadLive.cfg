SPECIFICATION FairSpec
CONSTANTS
    g = g
    b1 = b1
    b2 = b2
    b3 = b3
    p1 = p1
    p2 = p2
    None = None
    Genesis = g
    Block = {g, b1, b2}
    Prev <- ChainOfTwo
    Announced = {b1, b2}
    Invalid = {}
    Peer = {p1, p2}
    Answering = {p1}
    Outbound = {p1, p2}
    BLOCK_DOWNLOAD_WINDOW = 1
    MAX_BLOCKS_IN_TRANSIT_PER_PEER = 1
PROPERTIES
    Downloaded
CHECK_DEADLOCK FALSE
