SPECIFICATION Spec
CONSTANTS
    g = g
    b1 = b1
    b2 = b2
    b3 = b3
    p1 = p1
    p2 = p2
    None = None
    Genesis = g
    Block = {g, b1, b2, b3}
    Prev <- Fork
    Announced = {b2, b3}
    Invalid = {b3}
    Peer = {p1, p2}
    Answering = {}
    Outbound = {p1}
    BLOCK_DOWNLOAD_WINDOW = 1
    MAX_BLOCKS_IN_TRANSIT_PER_PEER = 2
INVARIANTS
    BookkeepingExact
    CommonIsLinked
PROPERTIES
    RequestsAllowed
CHECK_DEADLOCK FALSE
