----------------------------- MODULE MCPeerLink -----------------------------
(* A small instance of PeerLink: a request for two blocks, a command without *)
(* payload, and buffers that hold about one message.                         *)
EXTENDS PeerLink

CONSTANTS x, y

MCEnd == {x, y}

MCDataSize == [getdata |-> 1, verack |-> 0, block |-> 2]

MCAsks == [getdata |-> 2, verack |-> 0, block |-> 0]
=============================================================================
