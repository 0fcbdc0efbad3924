--------------------------- MODULE MCNodeTraffic ---------------------------
(***************************************************************************)
(* Small instances of three components that share no state: the memory     *)
(* pool, a link between two nodes and the list of connections.  `focus' is *)
(* the component of a behaviour, as in MCNodeData.                         *)
(***************************************************************************)
EXTENDS MCMempool, MCPeerLink, Connections

CONSTANTS open, added

VARIABLE focus

\* ThreadOpenConnections and ThreadOpenAddedConnections.
MCOpener == {open, added}

\* The ends of a link are interchangeable, and so are the threads that open connections.
TrafficSymmetry == Permutations(MCEnd) \cup Permutations(MCOpener)

Init ==
    /\ focus \in {"mempool", "link", "connections"}
    /\ PoolInit /\ LinkInit /\ ConnInit

Next ==
    /\ UNCHANGED focus
    /\ \/ focus = "mempool" /\ PoolNext /\ UNCHANGED <<linkVars, connVars>>
       \/ focus = "link" /\ LinkNext /\ UNCHANGED <<poolVars, connVars>>
       \/ focus = "connections" /\ ConnNext /\ UNCHANGED <<poolVars, linkVars>>

Spec == Init /\ [][Next]_<<focus, poolVars, linkVars, connVars>>
=============================================================================
