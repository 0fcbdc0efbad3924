---------------------------- MODULE Connections ----------------------------
(***************************************************************************)
(* The life of a CNode (net.cpp): who lists it, who counts on it, who      *)
(* deletes it, and the outbound slot that it takes (CSemaphore of sync.h). *)
(*                                                                         *)
(* The threads are ThreadSocketHandler, ThreadMessageHandler and those     *)
(* that call OpenNetworkConnection with an address and a grant:            *)
(* ThreadOpenConnections and ThreadOpenAddedConnections.  (A caller with a *)
(* name does not look for a node in ConnectNode; one without a grant has   *)
(* nothing to move.  Both do less.)  A step is what is done under one      *)
(* LOCK(cs_vNodes), or what another thread cannot see the middle of.       *)
(* nRefCount and the grant of a node are plain fields: AddRef of           *)
(* ConnectNode and MoveTo, outside the lock, take two steps each, in the   *)
(* order of the program.  A thread that uses a deleted node is             *)
(* "dangling" and does nothing more: the program says nothing about it.    *)
(***************************************************************************)
EXTENDS Integers, Sequences, FiniteSets

CONSTANTS
    Address,                    \* the addresses of peers
    Opener,                     \* threads that open connections
    MAX_OUTBOUND_CONNECTIONS,   \* the initial value of semOutbound
    MaxInbound,                 \* nMaxConnections - MAX_OUTBOUND_CONNECTIONS
    MaxNodes                    \* bound on the nodes that are made

ASSUME ConnectionsAssumption ==
    /\ MAX_OUTBOUND_CONNECTIONS \in Nat \ {0} /\ MaxInbound \in Nat /\ MaxNodes \in Nat
    /\ IsFiniteSet(Opener)

VARIABLES
    cnode,      \* cnode[i]: the i-th CNode
    vNodes,
    pooled,     \* vNodesDisconnected
    semOutbound,
    socket,     \* ThreadSocketHandler: [pc, vNodesCopy]
    message,    \* ThreadMessageHandler: its vNodesCopy
    opener,     \* each Opener: [pc, addr, pnode, grant, read]
    found,      \* history: the nodes that ConnectNode found already connected
    unmarked    \* history: the nodes disconnected before fNetworkNode was set

connVars == <<cnode, vNodes, pooled, semOutbound, socket, message, opener, found, unmarked>>

Node == 1 .. Len(cnode)

\* An opener before its next attempt.
Waiting == [pc |-> "wait", addr |-> 0, pnode |-> 0, grant |-> FALSE, read |-> 0]

\* A new CNode with the AddRef that follows.
NewCNode(addr, fInbound) ==
    [addr |-> addr, fInbound |-> fInbound, fNetworkNode |-> FALSE, fDisconnect |-> FALSE,
     grant |-> FALSE, nRefCount |-> 1, deleted |-> FALSE]

AddRef(nodes, S) == [i \in DOMAIN nodes |->
    IF i \in S THEN [nodes[i] EXCEPT !.nRefCount = @ + 1] ELSE nodes[i]]

Release(nodes, S) == [i \in DOMAIN nodes |->
    IF i \in S THEN [nodes[i] EXCEPT !.nRefCount = @ - 1] ELSE nodes[i]]

\* FindNode, under cs_vNodes.
FindNode(addr) == {i \in vNodes : cnode[i].addr = addr}

-----------------------------------------------------------------------------
(* ThreadSocketHandler.                                                    *)

\* "Disconnect nodes": those with fDisconnect, and those nobody counts on whose
\* buffers are empty.  The buffers are not modelled.
DisconnectNodes ==
    /\ socket.pc = "disconnect"
    /\ \A i \in vNodes : cnode[i].fDisconnect \/ cnode[i].nRefCount >= 0
    /\ \E unused \in SUBSET {i \in vNodes : cnode[i].nRefCount <= 0} :
         LET S     == {i \in vNodes : cnode[i].fDisconnect} \cup unused
             owned == {i \in S : cnode[i].fNetworkNode \/ cnode[i].fInbound}
         IN  /\ vNodes' = vNodes \ S
             /\ pooled' = pooled \cup S
             /\ semOutbound' = semOutbound + Cardinality({i \in S : cnode[i].grant})
             /\ cnode' = [i \in Node |->
                            IF i \in S THEN [Release(cnode, owned)[i] EXCEPT !.grant = FALSE,
                                                                            !.fDisconnect = TRUE]
                            ELSE cnode[i]]
             /\ unmarked' = unmarked \cup (S \ owned)
             /\ socket' = [pc |-> "delete", vNodesCopy |-> pooled \cup S]
    /\ UNCHANGED <<message, opener, found>>

\* "Delete disconnected nodes", one at a time, when its count is 0.  No thread holds
\* the locks of a node that nobody counts on.  ~CNode releases a grant.
DeleteNode(i) ==
    /\ socket.pc = "delete" /\ i \in socket.vNodesCopy
    /\ cnode[i].nRefCount >= 0
    /\ IF cnode[i].nRefCount = 0
       THEN /\ cnode' = [cnode EXCEPT ![i].deleted = TRUE, ![i].grant = FALSE]
            /\ semOutbound' = semOutbound + IF cnode[i].grant THEN 1 ELSE 0
            /\ pooled' = pooled \ {i}
       ELSE UNCHANGED <<cnode, semOutbound, pooled>>
    /\ socket' = [socket EXCEPT !.vNodesCopy = @ \ {i}]
    /\ UNCHANGED <<vNodes, message, opener, found, unmarked>>

\* A connection is accepted if there are not too many; only this thread accepts any.
AcceptConnection(addr) ==
    /\ socket = [pc |-> "delete", vNodesCopy |-> {}]
    /\ Cardinality({i \in vNodes : cnode[i].fInbound}) < MaxInbound
    /\ Len(cnode) < MaxNodes
    /\ cnode' = Append(cnode, NewCNode(addr, TRUE))
    /\ vNodes' = vNodes \cup {Len(cnode) + 1}
    /\ socket' = [socket EXCEPT !.pc = "copy"]
    /\ UNCHANGED <<pooled, semOutbound, message, opener, found, unmarked>>

\* "Service each socket" begins: every node is counted on ...
CopyForSockets ==
    /\ socket.pc = "copy" \/ socket = [pc |-> "delete", vNodesCopy |-> {}]
    /\ socket' = [pc |-> "serve", vNodesCopy |-> vNodes]
    /\ cnode' = AddRef(cnode, vNodes)
    /\ UNCHANGED <<vNodes, pooled, semOutbound, message, opener, found, unmarked>>

\* ... a node may be found closed, in error or inactive ...
SocketDisconnects(i) ==
    /\ socket.pc = "serve" /\ i \in socket.vNodesCopy
    /\ ~cnode[i].deleted
    /\ cnode' = [cnode EXCEPT ![i].fDisconnect = TRUE]
    /\ UNCHANGED <<vNodes, pooled, semOutbound, socket, message, opener, found, unmarked>>

\* ... and then none is.
ReleaseSockets ==
    /\ socket.pc = "serve"
    /\ socket' = [pc |-> "disconnect", vNodesCopy |-> {}]
    /\ cnode' = Release(cnode, socket.vNodesCopy)
    /\ UNCHANGED <<vNodes, pooled, semOutbound, message, opener, found, unmarked>>

\* assert(nRefCount >= 0) of GetRefCount: the process is started again.
AssertFails ==
    /\ \E i \in Node :
         /\ cnode[i].nRefCount < 0
         /\ \/ socket.pc = "disconnect" /\ i \in vNodes /\ ~cnode[i].fDisconnect
            \/ socket.pc = "delete" /\ i \in socket.vNodesCopy
    /\ cnode' = <<>> /\ vNodes' = {} /\ pooled' = {} /\ semOutbound' = MAX_OUTBOUND_CONNECTIONS
    /\ socket' = [pc |-> "disconnect", vNodesCopy |-> {}] /\ message' = {}
    /\ opener' = [t \in Opener |-> Waiting] /\ found' = {} /\ unmarked' = {}

-----------------------------------------------------------------------------
(* ThreadMessageHandler.                                                   *)

\* Mutant: the nodes are not counted on.
CopyWithoutAddRef ==
    /\ message = {} /\ vNodes # {}
    /\ message' = vNodes
    /\ UNCHANGED <<cnode, vNodes, pooled, semOutbound, socket, opener, found, unmarked>>

\* A round begins: every node is counted on ...
CopyForMessages ==
    /\ message = {} /\ vNodes # {}
    /\ message' = vNodes
    /\ cnode' = AddRef(cnode, vNodes)
    /\ UNCHANGED <<vNodes, pooled, semOutbound, socket, opener, found, unmarked>>

\* ... ProcessMessages and SendMessages may give up a node ...
MessageDisconnects(i) ==
    /\ i \in message
    /\ ~cnode[i].deleted
    /\ cnode' = [cnode EXCEPT ![i].fDisconnect = TRUE]
    /\ UNCHANGED <<vNodes, pooled, semOutbound, socket, message, opener, found, unmarked>>

\* ... and then none is.
ReleaseMessages ==
    /\ message # {}
    /\ message' = {}
    /\ cnode' = Release(cnode, message)
    /\ UNCHANGED <<vNodes, pooled, semOutbound, socket, opener, found, unmarked>>

-----------------------------------------------------------------------------
(* OpenNetworkConnection and ConnectNode.                                  *)

\* The destructor of the thread's CSemaphoreGrant gives back what it still has.
GiveUp(t) ==
    /\ semOutbound' = semOutbound + IF opener[t].grant THEN 1 ELSE 0
    /\ opener' = [opener EXCEPT ![t] = Waiting]

\* CSemaphoreGrant grant(*semOutbound): the thread waits for a slot.
AcquireSlot(t) ==
    /\ opener[t].pc = "wait"
    /\ semOutbound > 0
    /\ semOutbound' = semOutbound - 1
    /\ \E addr \in Address :
         opener' = [opener EXCEPT ![t].pc = "check", ![t].addr = addr, ![t].grant = TRUE]
    /\ UNCHANGED <<cnode, vNodes, pooled, socket, message, found, unmarked>>

\* OpenNetworkConnection looks for a node with the IP.
CheckConnected(t) ==
    /\ opener[t].pc = "check"
    /\ IF FindNode(opener[t].addr) # {}
       THEN GiveUp(t)
       ELSE /\ opener' = [opener EXCEPT ![t].pc = "find"]
            /\ UNCHANGED semOutbound
    /\ UNCHANGED <<cnode, vNodes, pooled, socket, message, found, unmarked>>

\* ConnectNode looks again, for the IP and the port, and leaves the lock with a pointer.
FindConnected(t) ==
    /\ opener[t].pc = "find"
    /\ LET S == {i \in FindNode(opener[t].addr) : ~cnode[i].fInbound}
       IN  \/ /\ S = {}
              /\ opener' = [opener EXCEPT ![t].pc = "dial"]
              /\ UNCHANGED found
           \/ \E i \in S :
                /\ \A j \in S : i <= j
                /\ opener' = [opener EXCEPT ![t].pc = "read", ![t].pnode = i]
                /\ found' = found \cup {i}
    /\ UNCHANGED <<cnode, vNodes, pooled, semOutbound, socket, message, unmarked>>

\* The thread uses its pointer to a node that is gone.
Dangles(t) ==
    /\ opener[t].pc \in {"read", "write", "move", "moving", "mark"}
    /\ cnode[opener[t].pnode].deleted
    /\ opener' = [opener EXCEPT ![t].pc = "dangling"]
    /\ UNCHANGED <<cnode, vNodes, pooled, semOutbound, socket, message, found, unmarked>>

\* nRefCount++ on the node that was found: read ...
ReadRefCount(t) ==
    /\ opener[t].pc = "read"
    /\ ~cnode[opener[t].pnode].deleted
    /\ opener' = [opener EXCEPT ![t].pc = "write", ![t].read = cnode[opener[t].pnode].nRefCount]
    /\ UNCHANGED <<cnode, vNodes, pooled, semOutbound, socket, message, found, unmarked>>

\* ... and write.
WriteRefCount(t) ==
    /\ opener[t].pc = "write"
    /\ ~cnode[opener[t].pnode].deleted
    /\ cnode' = [cnode EXCEPT ![opener[t].pnode].nRefCount = opener[t].read + 1]
    /\ opener' = [opener EXCEPT ![t].pc = "move", ![t].read = 0]
    /\ UNCHANGED <<vNodes, pooled, semOutbound, socket, message, found, unmarked>>

\* ConnectSocket fails, or the new node is listed.
DialFails(t) ==
    /\ opener[t].pc = "dial"
    /\ GiveUp(t)
    /\ UNCHANGED <<cnode, vNodes, pooled, socket, message, found, unmarked>>

Dial(t) ==
    /\ opener[t].pc = "dial"
    /\ Len(cnode) < MaxNodes
    /\ cnode' = Append(cnode, NewCNode(opener[t].addr, FALSE))
    /\ vNodes' = vNodes \cup {Len(cnode) + 1}
    /\ opener' = [opener EXCEPT ![t].pc = "move", ![t].pnode = Len(cnode) + 1]
    /\ UNCHANGED <<pooled, semOutbound, socket, message, found, unmarked>>

\* CSemaphoreGrant::MoveTo, which no lock protects: the node's own grant is released ...
ReleaseOwnGrant(t) ==
    LET i == opener[t].pnode
    IN  /\ opener[t].pc = "move"
        /\ ~cnode[i].deleted
        /\ opener' = [opener EXCEPT ![t].pc = "moving"]
        /\ semOutbound' = semOutbound + IF cnode[i].grant THEN 1 ELSE 0
        /\ UNCHANGED <<cnode, vNodes, pooled, socket, message, found, unmarked>>

\* Mutant: the thread keeps its grant as well.
CopyGrant(t) ==
    /\ opener[t].pc = "moving"
    /\ ~cnode[opener[t].pnode].deleted
    /\ opener' = [opener EXCEPT ![t].pc = "mark"]
    /\ cnode' = [cnode EXCEPT ![opener[t].pnode].grant = opener[t].grant]
    /\ UNCHANGED <<vNodes, pooled, semOutbound, socket, message, found, unmarked>>

\* ... and then replaced by the thread's.
MoveGrant(t) ==
    /\ opener[t].pc = "moving"
    /\ ~cnode[opener[t].pnode].deleted
    /\ opener' = [opener EXCEPT ![t].pc = "mark", ![t].grant = FALSE]
    /\ cnode' = [cnode EXCEPT ![opener[t].pnode].grant = opener[t].grant]
    /\ UNCHANGED <<vNodes, pooled, semOutbound, socket, message, found, unmarked>>

\* OpenNetworkConnection returns.
MarkNetworkNode(t) ==
    /\ opener[t].pc = "mark"
    /\ ~cnode[opener[t].pnode].deleted
    /\ cnode' = [cnode EXCEPT ![opener[t].pnode].fNetworkNode = TRUE]
    /\ GiveUp(t)
    /\ UNCHANGED <<vNodes, pooled, socket, message, found, unmarked>>

-----------------------------------------------------------------------------

ConnInit ==
    /\ cnode = <<>> /\ vNodes = {} /\ pooled = {}
    /\ semOutbound = MAX_OUTBOUND_CONNECTIONS
    /\ socket = [pc |-> "disconnect", vNodesCopy |-> {}]
    /\ message = {}
    /\ opener = [t \in Opener |-> Waiting]
    /\ found = {} /\ unmarked = {}

ConnNext ==
    \/ DisconnectNodes \/ CopyForSockets \/ ReleaseSockets \/ AssertFails
    \/ CopyForMessages \/ ReleaseMessages
    \/ \E i \in Node : DeleteNode(i) \/ SocketDisconnects(i) \/ MessageDisconnects(i)
    \/ \E addr \in Address : AcceptConnection(addr)
    \/ \E t \in Opener :
         \/ AcquireSlot(t) \/ CheckConnected(t) \/ FindConnected(t)
         \/ ReadRefCount(t) \/ WriteRefCount(t) \/ Dangles(t)
         \/ DialFails(t) \/ Dial(t) \/ ReleaseOwnGrant(t) \/ MoveGrant(t) \/ MarkNetworkNode(t)

ConnSpec == ConnInit /\ [][ConnNext]_connVars

-----------------------------------------------------------------------------
(* Properties.                                                             *)

\* 1 if i is in S.
In(i, S) == IF i \in S THEN 1 ELSE 0

\* "wait until threads are done using it": as long as no thread found the node with
\* FindNode in ConnectNode, nRefCount is one for vNodes and one for each thread that
\* has it in its copy, so that a node that nobody uses is deleted, and no thread is left
\* with a deleted node, not even the one that connected it and has no count of its own.
\* A node that was disconnected before fNetworkNode was set keeps one for ever.
RefsExact ==
    /\ \A i \in Node \ found :
        /\ cnode[i].deleted => i \notin vNodes \cup pooled \cup message \cup
                                         (IF socket.pc = "serve" THEN socket.vNodesCopy ELSE {})
        /\ ~cnode[i].deleted =>
               /\ i \in vNodes \/ i \in pooled
               /\ cnode[i].nRefCount = In(i, vNodes) + In(i, unmarked) + In(i, message)
                    + IF socket.pc = "serve" THEN In(i, socket.vNodesCopy) ELSE 0
    /\ \A t \in Opener : opener[t].pc = "dangling" => opener[t].pnode \in found

\* Every slot of semOutbound is free, or is held by a thread or by a node, by one of
\* them: none is lost or made up by MoveTo, by a failed attempt, by "Disconnect nodes"
\* in the middle of either, or by ~CNode, so that the node neither opens more than
\* MAX_OUTBOUND_CONNECTIONS connections nor runs out of slots.  This too needs that no
\* thread found its node in ConnectNode: two unlocked MoveTo on one node lose a slot.
SlotsExact ==
    found = {} =>
        semOutbound + Cardinality({t \in Opener : opener[t].grant})
            + Cardinality({i \in Node : cnode[i].grant}) = MAX_OUTBOUND_CONNECTIONS

\* "release outbound grant (if any)": a node that has been disconnected holds no slot.
DisconnectedFreesSlot == \A i \in pooled : ~cnode[i].grant
============================================================================
