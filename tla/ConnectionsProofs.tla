------------------------- MODULE ConnectionsProofs --------------------------
(***************************************************************************)
(* The reference counts and the outbound slots are exact for any number of *)
(* addresses, opening threads, slots and nodes.  CountInv and SlotInv are  *)
(* the inductive forms of RefsExact and SlotsExact.  They rest on what the *)
(* steps do to the nodes and to the threads, and on the pointers of the    *)
(* threads, which point to nodes (ConnTypes).                              *)
(***************************************************************************)
EXTENDS Connections, FiniteSetTheorems, TLAPS

CNodeRec == [addr : Address \cup {0}, fInbound : BOOLEAN, fNetworkNode : BOOLEAN,
             fDisconnect : BOOLEAN, grant : BOOLEAN, nRefCount : Int, deleted : BOOLEAN]

OpenerRec == [pc : {"wait", "check", "find", "dial", "read", "write", "move", "moving",
                    "mark", "dangling"},
              addr : Address \cup {0}, pnode : Nat, grant : BOOLEAN, read : Int]

\* The lists and the copies hold nodes, and so does the pointer of a thread that
\* has one; a thread that counts on a node outside the lock has found it.
ConnTypes ==
    /\ cnode \in Seq(CNodeRec)
    /\ vNodes \subseteq Node /\ pooled \subseteq Node /\ message \subseteq Node
    /\ found \subseteq Node /\ unmarked \subseteq Node
    /\ semOutbound \in Int
    /\ socket \in [pc : {"disconnect", "delete", "copy", "serve"}, vNodesCopy : SUBSET Node]
    /\ opener \in [Opener -> OpenerRec]
    /\ \A t \in Opener :
         /\ opener[t].pc \in {"read", "write", "move", "moving", "mark"} => opener[t].pnode \in Node
         /\ opener[t].pc \in {"read", "write"} => opener[t].pnode \in found

-----------------------------------------------------------------------------
\* A function on 1..n is a sequence: what AddRef and Release return is one.
LEMMA FunctionIsSeq ==
  ASSUME NEW S, NEW n \in Nat, NEW f \in [1..n -> S]
  PROVE  f \in Seq(S) /\ Len(f) = n
  OBVIOUS

\* cnode is a sequence of nodes.
LEMMA NodesTyped ==
  ASSUME ConnTypes
  PROVE  /\ cnode \in Seq(CNodeRec) /\ Len(cnode) \in Nat /\ DOMAIN cnode = 1..Len(cnode)
         /\ \A i \in Node : /\ cnode[i] \in CNodeRec
                            /\ cnode[i].nRefCount \in Int /\ cnode[i].grant \in BOOLEAN
                            /\ cnode[i].deleted \in BOOLEAN
  <1>1. /\ cnode \in Seq(CNodeRec) /\ Len(cnode) \in Nat /\ DOMAIN cnode = 1..Len(cnode)
        /\ \A i \in Node : cnode[i] \in CNodeRec
    BY DEF ConnTypes, Node
  <1> QED BY <1>1 DEF CNodeRec

\* AddRef and Release keep the nodes and change only the counts of S.
LEMMA CountsChange ==
  ASSUME ConnTypes, NEW S
  PROVE  /\ AddRef(cnode, S) \in Seq(CNodeRec) /\ Len(AddRef(cnode, S)) = Len(cnode)
         /\ Release(cnode, S) \in Seq(CNodeRec) /\ Len(Release(cnode, S)) = Len(cnode)
         /\ \A i \in Node :
              /\ AddRef(cnode, S)[i] \in CNodeRec /\ Release(cnode, S)[i] \in CNodeRec
              /\ AddRef(cnode, S)[i].deleted = cnode[i].deleted
              /\ AddRef(cnode, S)[i].grant = cnode[i].grant
              /\ AddRef(cnode, S)[i].fInbound = cnode[i].fInbound
              /\ AddRef(cnode, S)[i].fNetworkNode = cnode[i].fNetworkNode
              /\ AddRef(cnode, S)[i].nRefCount = cnode[i].nRefCount + In(i, S)
              /\ Release(cnode, S)[i].deleted = cnode[i].deleted
              /\ Release(cnode, S)[i].grant = cnode[i].grant
              /\ Release(cnode, S)[i].fInbound = cnode[i].fInbound
              /\ Release(cnode, S)[i].fNetworkNode = cnode[i].fNetworkNode
              /\ Release(cnode, S)[i].nRefCount = cnode[i].nRefCount - In(i, S)
  <1>1. cnode \in Seq(CNodeRec) /\ Len(cnode) \in Nat /\ DOMAIN cnode = 1..Len(cnode)
        /\ \A i \in Node : cnode[i] \in CNodeRec
    BY NodesTyped
  <1>2. /\ AddRef(cnode, S) \in [1..Len(cnode) -> CNodeRec]
        /\ Release(cnode, S) \in [1..Len(cnode) -> CNodeRec]
    <2>1. \A i \in Node : \A n \in Int : [cnode[i] EXCEPT !.nRefCount = n] \in CNodeRec
      BY <1>1 DEF CNodeRec
    <2>2. \A i \in Node : cnode[i].nRefCount \in Int
      BY <1>1 DEF CNodeRec
    <2>3. \A i \in Node : /\ [cnode[i] EXCEPT !.nRefCount = @ + 1] \in CNodeRec
                          /\ [cnode[i] EXCEPT !.nRefCount = @ - 1] \in CNodeRec
      <3> TAKE i \in Node
      <3>1. cnode[i].nRefCount + 1 \in Int /\ cnode[i].nRefCount - 1 \in Int
        BY <2>2
      <3> QED BY <2>1, <3>1
    <2> QED BY <1>1, <2>3, Zenon DEF AddRef, Release, Node
  <1>3. \A i \in Node :
              /\ AddRef(cnode, S)[i].deleted = cnode[i].deleted
              /\ AddRef(cnode, S)[i].grant = cnode[i].grant
              /\ AddRef(cnode, S)[i].fInbound = cnode[i].fInbound
              /\ AddRef(cnode, S)[i].fNetworkNode = cnode[i].fNetworkNode
              /\ AddRef(cnode, S)[i].nRefCount = cnode[i].nRefCount + In(i, S)
              /\ Release(cnode, S)[i].deleted = cnode[i].deleted
              /\ Release(cnode, S)[i].grant = cnode[i].grant
              /\ Release(cnode, S)[i].fInbound = cnode[i].fInbound
              /\ Release(cnode, S)[i].fNetworkNode = cnode[i].fNetworkNode
              /\ Release(cnode, S)[i].nRefCount = cnode[i].nRefCount - In(i, S)
    BY <1>1 DEF AddRef, Release, CNodeRec, Node, In
  <1> QED BY <1>1, <1>2, <1>3, FunctionIsSeq, Zenon DEF Node

\* What a step that appends a node does.
LEMMA NodeAppended ==
  ASSUME ConnTypes, NEW addr \in Address \cup {0}, NEW b \in BOOLEAN,
         cnode' = Append(cnode, NewCNode(addr, b))
  PROVE  /\ cnode' \in Seq(CNodeRec) /\ Len(cnode') = Len(cnode) + 1
         /\ Node' = Node \cup {Len(cnode) + 1} /\ Len(cnode) + 1 \notin Node
         /\ \A i \in Node : cnode'[i] = cnode[i]
         /\ cnode'[Len(cnode) + 1] = NewCNode(addr, b)
  <1>1. NewCNode(addr, b) \in CNodeRec
    BY DEF NewCNode, CNodeRec
  <1>2. cnode \in Seq(CNodeRec) /\ Len(cnode) \in Nat
    BY DEF ConnTypes
  <1> QED BY <1>1, <1>2 DEF Node

\* What a step that writes one node does.
LEMMA NodeWritten ==
  ASSUME ConnTypes, NEW k \in Node, NEW r \in CNodeRec, cnode' = [cnode EXCEPT ![k] = r]
  PROVE  /\ cnode' \in Seq(CNodeRec) /\ Len(cnode') = Len(cnode) /\ Node' = Node
         /\ \A i \in Node : cnode'[i] = IF i = k THEN r ELSE cnode[i]
  <1>1. cnode \in Seq(CNodeRec) /\ Len(cnode) \in Nat /\ DOMAIN cnode = 1..Len(cnode)
        /\ \A i \in Node : cnode[i] \in CNodeRec
    BY NodesTyped
  <1>2. cnode' \in [1..Len(cnode) -> CNodeRec]
    BY <1>1 DEF Node
  <1> QED BY <1>1, <1>2, FunctionIsSeq DEF Node

-----------------------------------------------------------------------------
\* The types and the pointers hold at first.
LEMMA TypesInit == ConnInit => ConnTypes
  <1> SUFFICES ASSUME ConnInit PROVE ConnTypes
    OBVIOUS
  <1>1. cnode \in Seq(CNodeRec) /\ Len(cnode) = 0
    BY DEF ConnInit
  <1>2. Waiting \in OpenerRec
    BY DEF Waiting, OpenerRec
  <1>3. \A t \in Opener : opener[t] = Waiting
    BY DEF ConnInit
  <1>4. opener \in [Opener -> OpenerRec]
    BY <1>2 DEF ConnInit
  <1>5. semOutbound \in Int
    BY ConnectionsAssumption DEF ConnInit
  <1> QED BY <1>1, <1>3, <1>4, <1>5 DEF ConnInit, ConnTypes, Waiting, Node

\* cnode after "Disconnect nodes" took S, with the counts of owned, from vNodes.
Disconnected(S, owned) ==
    [i \in Node |-> IF i \in S THEN [Release(cnode, owned)[i] EXCEPT !.grant = FALSE,
                                                                     !.fDisconnect = TRUE]
                    ELSE cnode[i]]

\* It keeps the nodes; those of S lose their grants, and those of owned a count.
LEMMA NodesDisconnected ==
  ASSUME ConnTypes, NEW S, NEW owned \in SUBSET S
  PROVE  /\ Disconnected(S, owned) \in Seq(CNodeRec)
         /\ Len(Disconnected(S, owned)) = Len(cnode)
         /\ \A i \in Node :
              /\ Disconnected(S, owned)[i].deleted = cnode[i].deleted
              /\ Disconnected(S, owned)[i].fInbound = cnode[i].fInbound
              /\ Disconnected(S, owned)[i].fNetworkNode = cnode[i].fNetworkNode
              /\ Disconnected(S, owned)[i].grant <=> cnode[i].grant /\ i \notin S
              /\ Disconnected(S, owned)[i].nRefCount = cnode[i].nRefCount - In(i, owned)
  <1> DEFINE nodes == Disconnected(S, owned)
  <1>1. cnode \in Seq(CNodeRec) /\ Len(cnode) \in Nat
        /\ \A i \in Node : cnode[i] \in CNodeRec
    BY NodesTyped
  <1> DEFINE R == Release(cnode, owned)
  <1>2. /\ \A i \in Node : R[i] \in CNodeRec
        /\ \A i \in Node : /\ R[i].deleted = cnode[i].deleted
                           /\ R[i].fInbound = cnode[i].fInbound
                           /\ R[i].fNetworkNode = cnode[i].fNetworkNode
                           /\ R[i].nRefCount = cnode[i].nRefCount - In(i, owned)
    BY CountsChange
  <1>3. nodes = [i \in Node |-> IF i \in S
                                 THEN [R[i] EXCEPT !.grant = FALSE, !.fDisconnect = TRUE]
                                 ELSE cnode[i]]
    BY DEF Disconnected
  <1> HIDE DEF R, nodes
  <1>4. \A i \in Node : [R[i] EXCEPT !.grant = FALSE, !.fDisconnect = TRUE] \in CNodeRec
    BY <1>2, ZenonT(30) DEF CNodeRec
  <1>5. nodes \in [Node -> CNodeRec]
    BY <1>1, <1>3, <1>4, Zenon
  <1>6. nodes \in Seq(CNodeRec) /\ Len(nodes) = Len(cnode)
    BY <1>1, <1>5, FunctionIsSeq DEF Node
  <1>7. ASSUME NEW i \in Node
        PROVE  /\ nodes[i].deleted = cnode[i].deleted
               /\ nodes[i].fInbound = cnode[i].fInbound
               /\ nodes[i].fNetworkNode = cnode[i].fNetworkNode
               /\ nodes[i].grant <=> cnode[i].grant /\ i \notin S
               /\ nodes[i].nRefCount = cnode[i].nRefCount - In(i, owned)
    <2>1. CASE i \in S
      <3>1. nodes[i] = [R[i] EXCEPT !.grant = FALSE, !.fDisconnect = TRUE] /\ R[i] \in CNodeRec
        BY <1>2, <1>3, <2>1, Zenon
      <3>2. nodes[i].deleted = R[i].deleted /\ nodes[i].grant = FALSE
            /\ nodes[i].nRefCount = R[i].nRefCount
            /\ nodes[i].fInbound = R[i].fInbound /\ nodes[i].fNetworkNode = R[i].fNetworkNode
        BY <3>1 DEF CNodeRec
      <3> QED BY <1>2, <2>1, <3>2
    <2>2. CASE i \notin S
      <3>1. nodes[i] = cnode[i] /\ cnode[i] \in CNodeRec
        BY <1>1, <1>3, <2>2, Zenon
      <3>2. cnode[i].grant \in BOOLEAN /\ cnode[i].nRefCount \in Int
        BY NodesTyped
      <3>3. In(i, owned) = 0
        BY <2>2 DEF In
      <3> QED BY <2>2, <3>1, <3>2, <3>3
    <2> QED BY <2>1, <2>2
  <1> QED BY <1>6, <1>7 DEF nodes

\* What "Disconnect nodes" does when it takes S from vNodes.
Disconnects(S, owned) ==
    /\ cnode' \in Seq(CNodeRec) /\ Node' = Node
    /\ \A i \in Node :
         /\ cnode'[i].deleted = cnode[i].deleted
         /\ cnode'[i].fInbound = cnode[i].fInbound
         /\ cnode'[i].fNetworkNode = cnode[i].fNetworkNode
         /\ cnode'[i].grant <=> cnode[i].grant /\ i \notin S
         /\ cnode'[i].nRefCount = cnode[i].nRefCount - In(i, owned)
    /\ vNodes' = vNodes \ S /\ pooled' = pooled \cup S
    /\ \A i \in owned : cnode[i].fNetworkNode \/ cnode[i].fInbound
    /\ unmarked' = unmarked \cup (S \ owned)
    /\ socket' = [pc |-> "delete", vNodesCopy |-> pooled \cup S]
    /\ semOutbound' = semOutbound + Cardinality({i \in S : cnode[i].grant})
    /\ message' = message /\ opener' = opener /\ found' = found
    /\ socket.pc = "disconnect"

\* DisconnectNodes takes some nodes from vNodes, and a count of those that are owned.
LEMMA DisconnectEffect ==
  ASSUME ConnTypes, DisconnectNodes
  PROVE  \E S \in SUBSET vNodes : \E owned \in SUBSET S : Disconnects(S, owned)
  <1>1. PICK unused \in SUBSET vNodes :
          LET S     == {i \in vNodes : cnode[i].fDisconnect} \cup unused
              owned == {i \in S : cnode[i].fNetworkNode \/ cnode[i].fInbound}
          IN  /\ vNodes' = vNodes \ S /\ pooled' = pooled \cup S
              /\ semOutbound' = semOutbound + Cardinality({i \in S : cnode[i].grant})
              /\ cnode' = Disconnected(S, owned)
              /\ unmarked' = unmarked \cup (S \ owned)
              /\ socket' = [pc |-> "delete", vNodesCopy |-> pooled \cup S]
    BY Zenon DEF DisconnectNodes, Disconnected
  <1> DEFINE S == {i \in vNodes : cnode[i].fDisconnect} \cup unused
             owned == {i \in S : cnode[i].fNetworkNode \/ cnode[i].fInbound}
  <1>2. S \in SUBSET vNodes /\ owned \in SUBSET S
    OBVIOUS
  <1>o. \A i \in owned : cnode[i].fNetworkNode \/ cnode[i].fInbound
    OBVIOUS
  <1>3. /\ cnode' = Disconnected(S, owned) /\ vNodes' = vNodes \ S /\ pooled' = pooled \cup S
        /\ unmarked' = unmarked \cup (S \ owned)
        /\ socket' = [pc |-> "delete", vNodesCopy |-> pooled \cup S]
        /\ semOutbound' = semOutbound + Cardinality({i \in S : cnode[i].grant})
    BY <1>1
  <1> HIDE DEF owned, S
  <1>4. message' = message /\ opener' = opener /\ found' = found /\ socket.pc = "disconnect"
    BY Zenon DEF DisconnectNodes
  <1>5. /\ cnode' \in Seq(CNodeRec) /\ Len(cnode') = Len(cnode)
        /\ \A i \in Node :
                /\ cnode'[i].deleted = cnode[i].deleted
                /\ cnode'[i].fInbound = cnode[i].fInbound
                /\ cnode'[i].fNetworkNode = cnode[i].fNetworkNode
                /\ cnode'[i].grant <=> cnode[i].grant /\ i \notin S
                /\ cnode'[i].nRefCount = cnode[i].nRefCount - In(i, owned)
    BY <1>2, <1>3, NodesDisconnected
  <1>6. Node' = Node
    BY <1>5 DEF Node
  <1>7. Disconnects(S, owned)
    BY <1>o, <1>3, <1>4, <1>5, <1>6, Zenon DEF Disconnects
  <1> QED BY <1>2, <1>7

\* Thread t goes to label with a pointer to i and, if b, a grant; the others stay.
Becomes(t, label, i, b) ==
    /\ opener' \in [Opener -> OpenerRec]
    /\ opener'[t].pc = label /\ opener'[t].pnode = i /\ opener'[t].grant = b
    /\ \A u \in Opener \ {t} : opener'[u] = opener[u]

\* What a step that writes the state of one opening thread does.
LEMMA OpenerWritten ==
  ASSUME ConnTypes, NEW t \in Opener, NEW r \in OpenerRec, opener' = [opener EXCEPT ![t] = r]
  PROVE  Becomes(t, r.pc, r.pnode, r.grant)
  <1>1. opener \in [Opener -> OpenerRec]
    BY DEF ConnTypes
  <1>2. opener' \in [Opener -> OpenerRec] /\ \A u \in Opener : opener'[u] = IF u = t THEN r ELSE opener[u]
    BY <1>1
  <1> QED BY <1>2 DEF Becomes

\* What the steps of a thread that opens connections do to the thread.
LEMMA OpenerEffects ==
  ASSUME ConnTypes, NEW t \in Opener
  PROVE  /\ GiveUp(t) => Becomes(t, "wait", 0, FALSE)
         /\ CheckConnected(t) =>
              \/ GiveUp(t)
              \/ /\ Becomes(t, "find", opener[t].pnode, opener[t].grant)
                 /\ semOutbound' = semOutbound
         /\ FindConnected(t) =>
              \/ Becomes(t, "dial", opener[t].pnode, opener[t].grant) /\ found' = found
              \/ \E i \in vNodes : /\ Becomes(t, "read", i, opener[t].grant)
                                  /\ found' = found \cup {i}
         /\ AcquireSlot(t) => Becomes(t, "check", opener[t].pnode, TRUE)
         /\ Dangles(t) => Becomes(t, "dangling", opener[t].pnode, opener[t].grant)
         /\ ReadRefCount(t) => Becomes(t, "write", opener[t].pnode, opener[t].grant)
         /\ WriteRefCount(t) => Becomes(t, "move", opener[t].pnode, opener[t].grant)
         /\ Dial(t) => Becomes(t, "move", Len(cnode) + 1, opener[t].grant)
         /\ ReleaseOwnGrant(t) => Becomes(t, "moving", opener[t].pnode, opener[t].grant)
         /\ MoveGrant(t) => Becomes(t, "mark", opener[t].pnode, FALSE)
  <1>0. /\ opener \in [Opener -> OpenerRec] /\ opener[t] \in OpenerRec
        /\ Len(cnode) + 1 \in Nat
    BY NodesTyped DEF ConnTypes
  <1>r. opener[t] \in OpenerRec
    BY <1>0
  <1>1. ASSUME GiveUp(t) PROVE Becomes(t, "wait", 0, FALSE)
    <2>1. /\ Waiting \in OpenerRec /\ Waiting.pc = "wait" /\ Waiting.pnode = 0
          /\ Waiting.grant = FALSE
      BY DEF Waiting, OpenerRec
    <2>2. opener' = [opener EXCEPT ![t] = Waiting]
      BY <1>1 DEF GiveUp
    <2>3. Becomes(t, Waiting.pc, Waiting.pnode, Waiting.grant)
      BY <2>1, <2>2, OpenerWritten, Zenon
    <2> QED BY <2>1, <2>3, Zenon
  <1>2. ASSUME CheckConnected(t), ~GiveUp(t)
        PROVE  /\ Becomes(t, "find", opener[t].pnode, opener[t].grant)
               /\ semOutbound' = semOutbound
    <2> DEFINE q == [opener[t] EXCEPT !.pc = "find"]
    <2>1. /\ q \in OpenerRec /\ q.pc = "find" /\ q.pnode = opener[t].pnode
          /\ q.grant = opener[t].grant
      BY <1>r DEF OpenerRec
    <2>2. opener' = [opener EXCEPT ![t] = q] /\ semOutbound' = semOutbound
      BY <1>2 DEF CheckConnected
    <2> HIDE DEF q
    <2>3. Becomes(t, q.pc, q.pnode, q.grant)
      BY <2>1, <2>2, OpenerWritten, Zenon
    <2> QED BY <2>1, <2>2, <2>3
  <1>3. ASSUME FindConnected(t)
        PROVE  \/ Becomes(t, "dial", opener[t].pnode, opener[t].grant) /\ found' = found
               \/ \E i \in vNodes : /\ Becomes(t, "read", i, opener[t].grant)
                                   /\ found' = found \cup {i}
    <2>1. CASE opener' = [opener EXCEPT ![t].pc = "dial"] /\ found' = found
      <3> DEFINE q == [opener[t] EXCEPT !.pc = "dial"]
      <3>1. /\ q \in OpenerRec /\ q.pc = "dial" /\ q.pnode = opener[t].pnode
            /\ q.grant = opener[t].grant
        BY <1>r DEF OpenerRec
      <3>2. opener' = [opener EXCEPT ![t] = q]
        BY <2>1
      <3> HIDE DEF q
      <3>3. Becomes(t, q.pc, q.pnode, q.grant)
        BY <3>1, <3>2, OpenerWritten, Zenon
      <3> QED BY <2>1, <3>1, <3>3
    <2>2. ASSUME NEW i \in vNodes, found' = found \cup {i},
                 opener' = [opener EXCEPT ![t].pc = "read", ![t].pnode = i]
          PROVE  Becomes(t, "read", i, opener[t].grant)
      <3> DEFINE q == [opener[t] EXCEPT !.pc = "read", !.pnode = i]
      <3>0. i \in Nat
        BY DEF ConnTypes, Node
      <3>1. q \in OpenerRec /\ q.pc = "read" /\ q.pnode = i /\ q.grant = opener[t].grant
        BY <1>r, <3>0, Zenon DEF OpenerRec
      <3>2. opener' = [opener EXCEPT ![t] = q]
        BY <2>2, Zenon
      <3> HIDE DEF q
      <3>3. Becomes(t, q.pc, q.pnode, q.grant)
        BY <3>1, <3>2, OpenerWritten, Zenon
      <3> QED BY <3>1, <3>3
    <2> QED BY <1>3, <2>1, <2>2 DEF FindConnected, FindNode
  <1>4. ASSUME AcquireSlot(t) PROVE Becomes(t, "check", opener[t].pnode, TRUE)
    <2>1. PICK addr \in Address :
            opener' = [opener EXCEPT ![t].pc = "check", ![t].addr = addr, ![t].grant = TRUE]
      BY <1>4, Zenon DEF AcquireSlot
    <2> DEFINE q == [opener[t] EXCEPT !.pc = "check", !.addr = addr, !.grant = TRUE]
    <2>2. q \in OpenerRec /\ q.pc = "check" /\ q.pnode = opener[t].pnode /\ q.grant = TRUE
      BY <1>r, Zenon DEF OpenerRec
    <2>3. opener' = [opener EXCEPT ![t] = q]
      BY <2>1, Zenon
    <2> HIDE DEF q
    <2>4. Becomes(t, q.pc, q.pnode, q.grant)
      BY <2>2, <2>3, OpenerWritten, Zenon
    <2> QED BY <2>2, <2>4, Zenon
  <1>5. ASSUME Dangles(t) PROVE Becomes(t, "dangling", opener[t].pnode, opener[t].grant)
    <2> DEFINE q == [opener[t] EXCEPT !.pc = "dangling"]
    <2>1. q \in OpenerRec /\ q.pc = "dangling" /\ q.pnode = opener[t].pnode /\ q.grant = opener[t].grant
      BY <1>r DEF OpenerRec
    <2>2. opener' = [opener EXCEPT ![t] = q]
      BY <1>5 DEF Dangles
    <2> HIDE DEF q
    <2>3. Becomes(t, q.pc, q.pnode, q.grant)
      BY <2>1, <2>2, OpenerWritten, Zenon
    <2> QED BY <2>1, <2>3
  <1>6. ASSUME ReadRefCount(t) PROVE Becomes(t, "write", opener[t].pnode, opener[t].grant)
    <2> DEFINE q(n) == [opener[t] EXCEPT !.pc = "write", !.read = n]
               m == cnode[opener[t].pnode].nRefCount
    <2>1. \A n \in Int : /\ q(n) \in OpenerRec /\ q(n).pc = "write"
                        /\ q(n).pnode = opener[t].pnode /\ q(n).grant = opener[t].grant
      BY <1>r, Zenon DEF OpenerRec
    <2>2. m \in Int
      BY <1>6, NodesTyped DEF ReadRefCount, ConnTypes
    <2>3. opener' = [opener EXCEPT ![t] = q(m)]
      BY <1>6, Zenon DEF ReadRefCount
    <2> HIDE DEF q, m
    <2>4. Becomes(t, q(m).pc, q(m).pnode, q(m).grant)
      BY <2>1, <2>2, <2>3, OpenerWritten, Zenon
    <2> QED BY <2>1, <2>2, <2>4
  <1>7. ASSUME WriteRefCount(t) PROVE Becomes(t, "move", opener[t].pnode, opener[t].grant)
    <2> DEFINE q(n) == [opener[t] EXCEPT !.pc = "move", !.read = n]
               m == 0
    <2>1. \A n \in Int : /\ q(n) \in OpenerRec /\ q(n).pc = "move"
                        /\ q(n).pnode = opener[t].pnode /\ q(n).grant = opener[t].grant
      BY <1>r, Zenon DEF OpenerRec
    <2>2. m \in Int
      OBVIOUS
    <2>3. opener' = [opener EXCEPT ![t] = q(m)]
      BY <1>7, Zenon DEF WriteRefCount
    <2> HIDE DEF q, m
    <2>4. Becomes(t, q(m).pc, q(m).pnode, q(m).grant)
      BY <2>1, <2>2, <2>3, OpenerWritten, Zenon
    <2> QED BY <2>1, <2>2, <2>4
  <1>8. ASSUME Dial(t) PROVE Becomes(t, "move", Len(cnode) + 1, opener[t].grant)
    <2> DEFINE q(n) == [opener[t] EXCEPT !.pc = "move", !.pnode = n]
               m == Len(cnode) + 1
    <2>1. \A n \in Nat : /\ q(n) \in OpenerRec /\ q(n).pc = "move"
                        /\ q(n).pnode = n /\ q(n).grant = opener[t].grant
      BY <1>r, Zenon DEF OpenerRec
    <2>2. m \in Nat
      BY <1>0
    <2>3. opener' = [opener EXCEPT ![t] = q(m)]
      BY <1>8, Zenon DEF Dial
    <2> HIDE DEF q, m
    <2>4. Becomes(t, q(m).pc, q(m).pnode, q(m).grant)
      BY <2>1, <2>2, <2>3, OpenerWritten, Zenon
    <2> QED BY <2>1, <2>2, <2>4 DEF m
  <1>9. ASSUME ReleaseOwnGrant(t) PROVE Becomes(t, "moving", opener[t].pnode, opener[t].grant)
    <2> DEFINE q == [opener[t] EXCEPT !.pc = "moving"]
    <2>1. q \in OpenerRec /\ q.pc = "moving" /\ q.pnode = opener[t].pnode /\ q.grant = opener[t].grant
      BY <1>r DEF OpenerRec
    <2>2. opener' = [opener EXCEPT ![t] = q]
      BY <1>9 DEF ReleaseOwnGrant
    <2> HIDE DEF q
    <2>3. Becomes(t, q.pc, q.pnode, q.grant)
      BY <2>1, <2>2, OpenerWritten, Zenon
    <2> QED BY <2>1, <2>3
  <1>10. ASSUME MoveGrant(t) PROVE Becomes(t, "mark", opener[t].pnode, FALSE)
    <2> DEFINE q == [opener[t] EXCEPT !.pc = "mark", !.grant = FALSE]
    <2>1. q \in OpenerRec /\ q.pc = "mark" /\ q.pnode = opener[t].pnode /\ q.grant = FALSE
      BY <1>r, Zenon DEF OpenerRec
    <2>2. opener' = [opener EXCEPT ![t] = q]
      BY <1>10, Zenon DEF MoveGrant
    <2> HIDE DEF q
    <2>3. Becomes(t, q.pc, q.pnode, q.grant)
      BY <2>1, <2>2, OpenerWritten, Zenon
    <2> QED BY <2>1, <2>3, Zenon
  <1> QED BY <1>1, <1>2, <1>3, <1>4, <1>5, <1>6, <1>7, <1>8, <1>9, <1>10, Zenon

\* What those that write a node do to the nodes.
LEMMA OpenerNodeEffects ==
  ASSUME ConnTypes, NEW t \in Opener, NEW k, k = opener[t].pnode,
         WriteRefCount(t) \/ MoveGrant(t) \/ MarkNetworkNode(t)
  PROVE  /\ k \in Node /\ Node' = Node /\ cnode' \in Seq(CNodeRec)
         /\ \A i \in Node \ {k} : cnode'[i] = cnode[i]
         /\ cnode'[k].deleted = cnode[k].deleted /\ cnode'[k].fInbound = cnode[k].fInbound
         /\ WriteRefCount(t) \/ cnode'[k].nRefCount = cnode[k].nRefCount
         /\ MoveGrant(t) => cnode'[k].grant = opener[t].grant
         /\ MoveGrant(t) \/ cnode'[k].grant = cnode[k].grant
         /\ MarkNetworkNode(t) \/ cnode'[k].fNetworkNode = cnode[k].fNetworkNode
  <1>0. k \in Node /\ cnode[k] \in CNodeRec
    <2>1. k \in Node
      BY DEF ConnTypes, WriteRefCount, MoveGrant, MarkNetworkNode
    <2> QED BY <2>1, NodesTyped
  <1>1. opener[t].read + 1 \in Int /\ opener[t].grant \in BOOLEAN
    BY DEF ConnTypes, OpenerRec
  <1>2. CASE WriteRefCount(t)
    <2> DEFINE n(v) == [cnode[k] EXCEPT !.nRefCount = v]
    <2>1. \A v \in Int : /\ n(v) \in CNodeRec /\ n(v).deleted = cnode[k].deleted
                         /\ n(v).fInbound = cnode[k].fInbound /\ n(v).grant = cnode[k].grant
                         /\ n(v).fNetworkNode = cnode[k].fNetworkNode
      BY <1>0 DEF CNodeRec
    <2>2. cnode' = [cnode EXCEPT ![k] = n(opener[t].read + 1)]
      BY <1>2 DEF WriteRefCount
    <2> HIDE DEF n
    <2>3. n(opener[t].read + 1) \in CNodeRec
      BY <1>1, <2>1
    <2>4. /\ Node' = Node /\ cnode' \in Seq(CNodeRec)
          /\ \A i \in Node : cnode'[i] = IF i = k THEN n(opener[t].read + 1) ELSE cnode[i]
      BY <1>0, <2>2, <2>3, NodeWritten, Zenon
    <2>5. ~MoveGrant(t)
      BY <1>2 DEF WriteRefCount, MoveGrant
    <2> QED BY <1>0, <1>1, <1>2, <2>1, <2>4, <2>5
  <1>3. CASE MoveGrant(t)
    <2> DEFINE n(v) == [cnode[k] EXCEPT !.grant = v]
    <2>1. \A v \in BOOLEAN : /\ n(v) \in CNodeRec /\ n(v).deleted = cnode[k].deleted
                             /\ n(v).fInbound = cnode[k].fInbound
                             /\ n(v).nRefCount = cnode[k].nRefCount /\ n(v).grant = v
                             /\ n(v).fNetworkNode = cnode[k].fNetworkNode
      BY <1>0 DEF CNodeRec
    <2>2. cnode' = [cnode EXCEPT ![k] = n(opener[t].grant)]
      BY <1>3 DEF MoveGrant
    <2> HIDE DEF n
    <2>3. n(opener[t].grant) \in CNodeRec
      BY <1>1, <2>1
    <2>4. /\ Node' = Node /\ cnode' \in Seq(CNodeRec)
          /\ \A i \in Node : cnode'[i] = IF i = k THEN n(opener[t].grant) ELSE cnode[i]
      BY <1>0, <2>2, <2>3, NodeWritten, Zenon
    <2> QED BY <1>0, <1>1, <1>3, <2>1, <2>4
  <1>4. CASE MarkNetworkNode(t)
    <2> DEFINE n == [cnode[k] EXCEPT !.fNetworkNode = TRUE]
    <2>1. /\ n \in CNodeRec /\ n.deleted = cnode[k].deleted
          /\ n.fInbound = cnode[k].fInbound /\ n.nRefCount = cnode[k].nRefCount
          /\ n.grant = cnode[k].grant
      BY <1>0, Zenon DEF CNodeRec
    <2>2. cnode' = [cnode EXCEPT ![k] = n]
      BY <1>4 DEF MarkNetworkNode
    <2> HIDE DEF n
    <2>3. /\ Node' = Node /\ cnode' \in Seq(CNodeRec)
          /\ \A i \in Node : cnode'[i] = IF i = k THEN n ELSE cnode[i]
      BY <1>0, <2>1, <2>2, NodeWritten, Zenon
    <2>4. ~MoveGrant(t)
      BY <1>4 DEF MarkNetworkNode, MoveGrant
    <2> QED BY <1>0, <1>4, <2>1, <2>3, <2>4
  <1> QED BY <1>2, <1>3, <1>4

\* A step that keeps the nodes keeps the types if every thread that moved points to one.
LEMMA TypesKept ==
  ASSUME ConnTypes,
         cnode' \in Seq(CNodeRec), Node \subseteq Node',
         vNodes' \subseteq Node', pooled' \subseteq Node', message' \subseteq Node',
         found \subseteq found', found' \subseteq Node', unmarked' \subseteq Node',
         semOutbound' \in Int,
         socket' \in [pc : {"disconnect", "delete", "copy", "serve"}, vNodesCopy : SUBSET Node'],
         \/ opener' = opener
         \/ \E t \in Opener : \E label, i, b :
              /\ Becomes(t, label, i, b)
              /\ label \in {"read", "write", "move", "moving", "mark"} => i \in Node'
              /\ label \in {"read", "write"} => i \in found'
  PROVE  ConnTypes'
  <1>1. CASE opener' = opener
    BY <1>1 DEF ConnTypes
  <1>2. ASSUME NEW t \in Opener, NEW label, NEW i, NEW b, Becomes(t, label, i, b),
               label \in {"read", "write", "move", "moving", "mark"} => i \in Node',
               label \in {"read", "write"} => i \in found'
        PROVE  ConnTypes'
    <2>1. /\ opener' \in [Opener -> OpenerRec]
          /\ \A u \in Opener :
            /\ opener'[u].pc \in {"read", "write", "move", "moving", "mark"} =>
                 opener'[u].pnode \in Node'
            /\ opener'[u].pc \in {"read", "write"} => opener'[u].pnode \in found'
      BY <1>2 DEF ConnTypes, Becomes
    <2> QED BY <2>1 DEF ConnTypes
  <1> QED BY <1>1, <1>2

\* Every step of ThreadSocketHandler and ThreadMessageHandler keeps the types.
LEMMA TypesStepNodes ==
  ASSUME ConnTypes,
         \/ DisconnectNodes \/ CopyForSockets \/ ReleaseSockets \/ AssertFails
         \/ CopyForMessages \/ ReleaseMessages
         \/ \E i \in Node : DeleteNode(i) \/ SocketDisconnects(i) \/ MessageDisconnects(i)
         \/ \E addr \in Address : AcceptConnection(addr)
  PROVE  ConnTypes'
  <1>0. /\ cnode \in Seq(CNodeRec) /\ Len(cnode) \in Nat
        /\ vNodes \subseteq Node /\ pooled \subseteq Node /\ message \subseteq Node
        /\ found \subseteq Node /\ unmarked \subseteq Node
        /\ semOutbound \in Int
        /\ socket \in [pc : {"disconnect", "delete", "copy", "serve"}, vNodesCopy : SUBSET Node]
        /\ \A i \in Node : cnode[i] \in CNodeRec
    BY NodesTyped DEF ConnTypes
  <1>1. CASE DisconnectNodes
    <2>0. PICK S \in SUBSET vNodes : \E owned \in SUBSET S : Disconnects(S, owned)
      BY <1>1, DisconnectEffect
    <2>1. PICK owned \in SUBSET S : Disconnects(S, owned)
      BY <2>0
    <2>2. Cardinality({i \in S : cnode[i].grant}) \in Int
      <3>1. IsFiniteSet(Node)
        BY <1>0, FS_Interval DEF Node
      <3>2. {i \in S : cnode[i].grant} \in SUBSET Node
        BY <1>0
      <3> QED BY <3>1, <3>2, FS_Subset, FS_CardinalityType
    <2> QED BY <1>0, <2>1, <2>2, TypesKept DEF Disconnects
  <1>2. CASE CopyForSockets
    BY <1>0, <1>2, CountsChange, TypesKept DEF CopyForSockets, Node
  <1>3. CASE ReleaseSockets
    BY <1>0, <1>3, CountsChange, TypesKept DEF ReleaseSockets, Node
  <1>4. CASE AssertFails
    <2>1. ConnInit'
      BY <1>4 DEF AssertFails, ConnInit
    <2> QED BY <2>1, TypesInit, PTL
  <1>5. CASE CopyForMessages
    BY <1>0, <1>5, CountsChange, TypesKept DEF CopyForMessages, Node
  <1>6. CASE ReleaseMessages
    BY <1>0, <1>6, CountsChange, TypesKept DEF ReleaseMessages, Node
  <1>7. ASSUME NEW i \in Node, DeleteNode(i) PROVE ConnTypes'
    <2>1. CASE cnode[i].nRefCount = 0
      <3> DEFINE r == [cnode[i] EXCEPT !.deleted = TRUE, !.grant = FALSE]
      <3>1. r \in CNodeRec
        BY <1>0, Zenon DEF CNodeRec
      <3>2. cnode' = [cnode EXCEPT ![i] = r]
        BY <1>7, <2>1, Zenon DEF DeleteNode
      <3> HIDE DEF r
      <3>3. cnode' \in Seq(CNodeRec) /\ Node' = Node
        BY <3>1, <3>2, NodeWritten, Zenon
      <3>4. socket' \in [pc : {"disconnect", "delete", "copy", "serve"}, vNodesCopy : SUBSET Node]
        BY <1>0, <1>7 DEF DeleteNode
      <3> QED BY <1>0, <1>7, <2>1, <3>3, <3>4, TypesKept DEF DeleteNode
    <2>2. CASE cnode[i].nRefCount # 0
      <3>1. socket' \in [pc : {"disconnect", "delete", "copy", "serve"}, vNodesCopy : SUBSET Node]
        BY <1>0, <1>7 DEF DeleteNode
      <3>2. cnode' = cnode /\ Node' = Node
        BY <1>7, <2>2 DEF DeleteNode, Node
      <3> QED BY <1>0, <1>7, <2>2, <3>1, <3>2, TypesKept DEF DeleteNode
    <2> QED BY <2>1, <2>2
  <1>8. ASSUME NEW i \in Node, SocketDisconnects(i) \/ MessageDisconnects(i) PROVE ConnTypes'
    <2>1. [cnode[i] EXCEPT !.fDisconnect = TRUE] \in CNodeRec
      BY <1>0, Zenon DEF CNodeRec
    <2>2. cnode' = [cnode EXCEPT ![i] = [cnode[i] EXCEPT !.fDisconnect = TRUE]]
      BY <1>8 DEF SocketDisconnects, MessageDisconnects
    <2>3. cnode' \in Seq(CNodeRec) /\ Node' = Node
      BY <2>1, <2>2, NodeWritten, Zenon
    <2> QED BY <1>0, <1>8, <2>3, TypesKept DEF SocketDisconnects, MessageDisconnects
  <1>9. ASSUME NEW addr \in Address, AcceptConnection(addr) PROVE ConnTypes'
    <2>1. cnode' \in Seq(CNodeRec) /\ Node' = Node \cup {Len(cnode) + 1}
      BY <1>9, NodeAppended, Zenon DEF AcceptConnection
    <2>2. socket' \in [pc : {"disconnect", "delete", "copy", "serve"}, vNodesCopy : SUBSET Node']
      BY <1>0, <1>9, <2>1 DEF AcceptConnection
    <2> QED BY <1>0, <1>9, <2>1, <2>2, TypesKept DEF AcceptConnection
  <1> QED BY <1>1, <1>2, <1>3, <1>4, <1>5, <1>6, <1>7, <1>8, <1>9

\* Every step of a thread that opens connections keeps the types.
LEMMA TypesStepOpener ==
  ASSUME ConnTypes, NEW t \in Opener,
         \/ AcquireSlot(t) \/ CheckConnected(t) \/ FindConnected(t)
         \/ ReadRefCount(t) \/ WriteRefCount(t) \/ Dangles(t)
         \/ DialFails(t) \/ Dial(t) \/ ReleaseOwnGrant(t) \/ MoveGrant(t) \/ MarkNetworkNode(t)
  PROVE  ConnTypes'
  <1>0. /\ cnode \in Seq(CNodeRec)
        /\ vNodes \subseteq Node /\ pooled \subseteq Node /\ message \subseteq Node
        /\ found \subseteq Node /\ unmarked \subseteq Node
        /\ semOutbound \in Int
        /\ socket \in [pc : {"disconnect", "delete", "copy", "serve"}, vNodesCopy : SUBSET Node]
    BY DEF ConnTypes
  <1>p. /\ opener[t].pc \in {"read", "write", "move", "moving", "mark"} => opener[t].pnode \in Node
        /\ opener[t].pc \in {"read", "write"} => opener[t].pnode \in found
    BY DEF ConnTypes
  <1>s. semOutbound' \in Int
    <2>1. AcquireSlot(t) => semOutbound' = semOutbound - 1
      BY Zenon DEF AcquireSlot
    <2>2. GiveUp(t) \/ ReleaseOwnGrant(t) =>
            semOutbound' = semOutbound + 1 \/ semOutbound' = semOutbound + 0
      BY DEF GiveUp, ReleaseOwnGrant
    <2>3. CheckConnected(t) \/ DialFails(t) \/ MarkNetworkNode(t) =>
            GiveUp(t) \/ semOutbound' = semOutbound
      BY DEF CheckConnected, DialFails, MarkNetworkNode
    <2>4. FindConnected(t) \/ ReadRefCount(t) \/ WriteRefCount(t) \/ Dangles(t) \/ Dial(t) \/ MoveGrant(t)
            => semOutbound' = semOutbound
      BY Zenon DEF FindConnected, ReadRefCount, WriteRefCount, Dangles, Dial, MoveGrant
    <2> QED BY <1>0, <2>1, <2>2, <2>3, <2>4
  <1>1. CASE AcquireSlot(t) \/ CheckConnected(t) \/ DialFails(t) \/ Dangles(t)
    <2>1. \E label \in {"wait", "check", "find", "dangling"} : \E i, b : Becomes(t, label, i, b)
      BY <1>1, OpenerEffects, Zenon DEF DialFails
    <2>2. UNCHANGED <<cnode, vNodes, pooled, socket, message, found, unmarked>> /\ Node' = Node
      BY <1>1, Zenon DEF AcquireSlot, CheckConnected, DialFails, Dangles, Node
    <2> QED BY <1>0, <1>s, <2>1, <2>2, TypesKept
  <1>2. CASE FindConnected(t)
    <2>1. UNCHANGED <<cnode, vNodes, pooled, socket, message, unmarked>> /\ Node' = Node
      BY <1>2 DEF FindConnected, Node
    <2>2. CASE Becomes(t, "dial", opener[t].pnode, opener[t].grant) /\ found' = found
      BY <1>0, <1>s, <2>1, <2>2, TypesKept
    <2>3. ASSUME NEW i \in vNodes, Becomes(t, "read", i, opener[t].grant), found' = found \cup {i}
          PROVE  ConnTypes'
      BY <1>0, <1>s, <2>1, <2>3, TypesKept
    <2> QED BY <1>2, <2>2, <2>3, OpenerEffects, Zenon
  <1>3. CASE ReadRefCount(t) \/ ReleaseOwnGrant(t)
    <2>1. /\ UNCHANGED <<cnode, vNodes, pooled, socket, message, found, unmarked>> /\ Node' = Node
          /\ opener[t].pc \in {"read", "move"}
      BY <1>3 DEF ReadRefCount, ReleaseOwnGrant, Node
    <2>2. \/ Becomes(t, "write", opener[t].pnode, opener[t].grant) /\ opener[t].pc = "read"
          \/ Becomes(t, "moving", opener[t].pnode, opener[t].grant)
      BY <1>3, OpenerEffects, Zenon DEF ReadRefCount
    <2> QED BY <1>0, <1>p, <1>s, <2>1, <2>2, TypesKept
  <1>4. CASE WriteRefCount(t) \/ MoveGrant(t) \/ MarkNetworkNode(t)
    <2>1. UNCHANGED <<vNodes, pooled, socket, message, found, unmarked>>
      BY <1>4 DEF WriteRefCount, MoveGrant, MarkNetworkNode
    <2>2. opener[t].pnode \in Node /\ Node' = Node /\ cnode' \in Seq(CNodeRec)
      BY <1>4, OpenerNodeEffects
    <2>3. \/ \E label \in {"move", "mark"} : \E b : Becomes(t, label, opener[t].pnode, b)
          \/ Becomes(t, "wait", 0, FALSE)
      BY <1>4, OpenerEffects, Zenon DEF MarkNetworkNode
    <2>4. \E label, i, b : /\ Becomes(t, label, i, b)
                           /\ label \in {"read", "write", "move", "moving", "mark"} => i \in Node'
                           /\ label \in {"read", "write"} => i \in found'
      <3>1. CASE Becomes(t, "wait", 0, FALSE)
        <4>1. "wait" \notin {"read", "write", "move", "moving", "mark"}
          OBVIOUS
        <4> QED BY <3>1, <4>1, Zenon
      <3>2. ASSUME NEW label \in {"move", "mark"}, NEW b, Becomes(t, label, opener[t].pnode, b)
            PROVE  \E l, i, c : /\ Becomes(t, l, i, c)
                                /\ l \in {"read", "write", "move", "moving", "mark"} => i \in Node'
                                /\ l \in {"read", "write"} => i \in found'
        <4>1. label \notin {"read", "write"}
          BY <3>2
        <4> QED BY <2>2, <3>2, <4>1, Zenon
      <3> QED BY <2>3, <3>1, <3>2, Zenon
    <2>5. /\ vNodes' \subseteq Node' /\ pooled' \subseteq Node' /\ message' \subseteq Node'
          /\ found \subseteq found' /\ found' \subseteq Node' /\ unmarked' \subseteq Node'
          /\ Node \subseteq Node'
          /\ socket' \in [pc : {"disconnect", "delete", "copy", "serve"}, vNodesCopy : SUBSET Node']
      BY <1>0, <2>1, <2>2
    <2> QED BY <1>0, <1>s, <2>2, <2>4, <2>5, TypesKept, Zenon
  <1>5. CASE Dial(t)
    <2>0. opener[t].addr \in Address \cup {0}
      BY DEF ConnTypes, OpenerRec
    <2>1. cnode' \in Seq(CNodeRec) /\ Node' = Node \cup {Len(cnode) + 1}
      BY <1>5, <2>0, NodeAppended, Zenon DEF Dial
    <2>2. Becomes(t, "move", Len(cnode) + 1, opener[t].grant)
      BY <1>5, OpenerEffects, Zenon
    <2>3. socket' \in [pc : {"disconnect", "delete", "copy", "serve"}, vNodesCopy : SUBSET Node']
      BY <1>0, <1>5, <2>1 DEF Dial
    <2> QED BY <1>0, <1>5, <1>s, <2>1, <2>2, <2>3, TypesKept DEF Dial
  <1> QED BY <1>1, <1>2, <1>3, <1>4, <1>5

\* Every step keeps the types.
LEMMA TypesStep == ConnTypes /\ [ConnNext]_connVars => ConnTypes'
  <1> SUFFICES ASSUME ConnTypes, [ConnNext]_connVars PROVE ConnTypes'
    OBVIOUS
  <1>1. CASE UNCHANGED connVars
    BY <1>1 DEF connVars, ConnTypes, Node
  <1>2. CASE ConnNext
    BY <1>2, TypesStepNodes, TypesStepOpener DEF ConnNext
  <1> QED BY <1>1, <1>2
-----------------------------------------------------------------------------
\* A node is in one list, and the nodes that are about to be deleted are disconnected.
Lists ==
    /\ vNodes \cap pooled = {} /\ vNodes \cap unmarked = {}
    /\ socket.pc = "delete" => socket.vNodesCopy \subseteq pooled

\* A node that no thread found has, until it is marked, one thread that points to it,
\* and a count that "Disconnect nodes" leaves to it.
Pointers ==
    \A t \in Opener :
        opener[t].pc \in {"move", "moving", "mark"} /\ opener[t].pnode \notin found =>
           /\ ~cnode[opener[t].pnode].fNetworkNode /\ ~cnode[opener[t].pnode].fInbound
           /\ ~cnode[opener[t].pnode].deleted
           /\ opener[t].pnode \in vNodes \cup unmarked
           /\ \A u \in Opener \ {t} : opener[u].pc \in {"move", "moving", "mark"} =>
                                          opener[u].pnode # opener[t].pnode

CountInv == RefsExact /\ Lists /\ Pointers

Held == {t \in Opener : opener[t].grant}

Taken == {i \in Node : cnode[i].grant}

\* Until a node is found twice, a thread that moves its grant moves it to a node
\* without one.
SlotInv ==
    /\ SlotsExact
    /\ \A t \in Opener : opener[t].pc = "wait" => ~opener[t].grant
    /\ found = {} => \A t \in Opener :
                       opener[t].pc \in {"move", "moving"} => ~cnode[opener[t].pnode].grant

-----------------------------------------------------------------------------
(* RefsExact.                                                              *)

\* The counts are exact at first.
LEMMA CountInit == ConnInit => CountInv
  <1> SUFFICES ASSUME ConnInit PROVE CountInv
    OBVIOUS
  <1>1. Node = {} /\ socket.pc = "disconnect" /\ vNodes = {}
    BY DEF ConnInit, Node
  <1>2. \A t \in Opener : opener[t].pc = "wait"
    BY DEF ConnInit, Waiting
  <1> QED BY <1>1, <1>2 DEF CountInv, RefsExact, Lists, Pointers

\* "Disconnect nodes" takes from a node the count of vNodes, or keeps it as unmarked.
LEMMA CountDisconnect ==
  ASSUME ConnTypes, CountInv, DisconnectNodes
  PROVE  CountInv'
  <1>0. PICK S \in SUBSET vNodes : \E owned \in SUBSET S : Disconnects(S, owned)
    BY DisconnectEffect
  <1>1. PICK owned \in SUBSET S : Disconnects(S, owned)
    BY <1>0
  <1>2. Lists'
    BY <1>1 DEF CountInv, Lists, Disconnects
  <1>3. Pointers'
    BY <1>1 DEF CountInv, Pointers, ConnTypes, Disconnects
  <1>4. ASSUME NEW i \in Node \ found
        PROVE  /\ cnode'[i].deleted => i \notin vNodes' \cup pooled' \cup message'
               /\ ~cnode'[i].deleted =>
                      /\ i \in vNodes' \/ i \in pooled'
                      /\ cnode'[i].nRefCount = In(i, vNodes') + In(i, unmarked') + In(i, message')
    <2>1. /\ cnode[i].deleted => i \notin vNodes \cup pooled \cup message
          /\ ~cnode[i].deleted =>
               /\ i \in vNodes \/ i \in pooled
               /\ cnode[i].nRefCount = In(i, vNodes) + In(i, unmarked) + In(i, message)
      BY <1>1 DEF CountInv, RefsExact, In, Disconnects
    <2>2. i \in vNodes => i \notin unmarked
      BY DEF CountInv, Lists
    <2> QED BY <1>1, <2>1, <2>2 DEF In, Disconnects
  <1>5. RefsExact'
    <2>1. socket'.pc = "delete" /\ Node' = Node /\ found' = found /\ opener' = opener
      BY <1>1 DEF Disconnects
    <2>2. \A t \in Opener : opener[t].pc = "dangling" => opener[t].pnode \in found
      BY DEF CountInv, RefsExact
    <2> QED BY <1>4, <2>1, <2>2 DEF RefsExact, In
  <1> QED BY <1>2, <1>3, <1>5 DEF CountInv

\* The other steps of ThreadSocketHandler and ThreadMessageHandler.
LEMMA CountNodes ==
  ASSUME ConnTypes, CountInv,
         \/ CopyForSockets \/ ReleaseSockets \/ CopyForMessages \/ ReleaseMessages
         \/ \E i \in Node : SocketDisconnects(i) \/ MessageDisconnects(i)
  PROVE  CountInv'
  <1>0. /\ vNodes \subseteq Node /\ message \subseteq Node /\ socket.vNodesCopy \subseteq Node
        /\ \A i \in Node : cnode[i].nRefCount \in Int /\ cnode[i] \in CNodeRec
    BY NodesTyped DEF ConnTypes
  <1>1. /\ vNodes' = vNodes /\ pooled' = pooled /\ unmarked' = unmarked
        /\ opener' = opener /\ found' = found
    BY DEF CopyForSockets, ReleaseSockets, CopyForMessages, ReleaseMessages,
           SocketDisconnects, MessageDisconnects
  <1>2. Lists'
    BY <1>1 DEF CountInv, Lists, CopyForSockets, ReleaseSockets, CopyForMessages,
                ReleaseMessages, SocketDisconnects, MessageDisconnects
  <1>3. /\ Node' = Node
        /\ \A i \in Node : /\ cnode'[i].deleted = cnode[i].deleted
                           /\ cnode'[i].fInbound = cnode[i].fInbound
                           /\ cnode'[i].fNetworkNode = cnode[i].fNetworkNode
    <2>1. CASE CopyForSockets \/ ReleaseSockets \/ CopyForMessages \/ ReleaseMessages
      <3>1. PICK S : cnode' = AddRef(cnode, S) \/ cnode' = Release(cnode, S)
        BY <2>1 DEF CopyForSockets, ReleaseSockets, CopyForMessages, ReleaseMessages
      <3> QED BY <3>1, CountsChange DEF Node
    <2>2. ASSUME NEW k \in Node, SocketDisconnects(k) \/ MessageDisconnects(k)
          PROVE  /\ Node' = Node
                 /\ \A i \in Node : /\ cnode'[i].deleted = cnode[i].deleted
                                    /\ cnode'[i].fInbound = cnode[i].fInbound
                                    /\ cnode'[i].fNetworkNode = cnode[i].fNetworkNode
      <3>1. cnode' = [cnode EXCEPT ![k] = [cnode[k] EXCEPT !.fDisconnect = TRUE]]
        BY <2>2 DEF SocketDisconnects, MessageDisconnects
      <3> DEFINE r == [cnode[k] EXCEPT !.fDisconnect = TRUE]
      <3>2. /\ r \in CNodeRec /\ r.deleted = cnode[k].deleted /\ r.fInbound = cnode[k].fInbound
            /\ r.fNetworkNode = cnode[k].fNetworkNode
        BY <1>0, Zenon DEF CNodeRec
      <3>3. cnode' = [cnode EXCEPT ![k] = r]
        BY <3>1
      <3> HIDE DEF r
      <3>4. Node' = Node /\ \A i \in Node : cnode'[i] = IF i = k THEN r ELSE cnode[i]
        BY <3>2, <3>3, NodeWritten, Zenon
      <3> QED BY <3>2, <3>4
    <2> QED BY <2>1, <2>2
  <1>4. Pointers'
    <2>1. \A t \in Opener : opener[t].pc \in {"move", "moving", "mark"} => opener[t].pnode \in Node
      BY DEF ConnTypes
    <2> QED BY <1>1, <1>3, <2>1 DEF CountInv, Pointers
  <1>5. ASSUME NEW i \in Node \ found
        PROVE  /\ cnode'[i].deleted => i \notin vNodes' \cup pooled' \cup message' \cup
                                      (IF socket'.pc = "serve" THEN socket'.vNodesCopy ELSE {})
               /\ ~cnode'[i].deleted =>
                      /\ i \in vNodes' \/ i \in pooled'
                      /\ cnode'[i].nRefCount = In(i, vNodes') + In(i, unmarked') + In(i, message')
                           + IF socket'.pc = "serve" THEN In(i, socket'.vNodesCopy) ELSE 0
    <2>0. /\ cnode[i].deleted => i \notin vNodes \cup pooled \cup message \cup
                                      (IF socket.pc = "serve" THEN socket.vNodesCopy ELSE {})
          /\ ~cnode[i].deleted =>
               /\ i \in vNodes \/ i \in pooled
               /\ cnode[i].nRefCount = In(i, vNodes) + In(i, unmarked) + In(i, message)
                    + IF socket.pc = "serve" THEN In(i, socket.vNodesCopy) ELSE 0
      BY DEF CountInv, RefsExact
    <2>1. CASE CopyForSockets
      <3>1. /\ cnode'[i].nRefCount = cnode[i].nRefCount + In(i, vNodes)
            /\ socket.pc # "serve" /\ socket'.pc = "serve" /\ socket'.vNodesCopy = vNodes
            /\ message' = message
        <4>1. cnode'[i].nRefCount = cnode[i].nRefCount + In(i, vNodes)
          BY <2>1, CountsChange, Zenon DEF CopyForSockets
        <4>2. /\ socket.pc # "serve" /\ socket'.pc = "serve" /\ socket'.vNodesCopy = vNodes
              /\ message' = message
          BY <2>1 DEF CopyForSockets
        <4> QED BY <4>1, <4>2
      <3> QED BY <1>0, <1>1, <1>3, <2>0, <3>1 DEF In
    <2>2. CASE ReleaseSockets
      <3>1. /\ cnode'[i].nRefCount = cnode[i].nRefCount - In(i, socket.vNodesCopy)
            /\ socket.pc = "serve" /\ socket'.pc = "disconnect" /\ message' = message
        BY <2>2, CountsChange DEF ReleaseSockets
      <3> QED BY <1>0, <1>1, <1>3, <2>0, <3>1 DEF In
    <2>3. CASE CopyForMessages
      <3>1. /\ cnode'[i].nRefCount = cnode[i].nRefCount + In(i, vNodes)
            /\ message = {} /\ message' = vNodes /\ socket' = socket
        BY <2>3, CountsChange DEF CopyForMessages
      <3> QED BY <1>0, <1>1, <1>3, <2>0, <3>1 DEF In
    <2>4. CASE ReleaseMessages
      <3>1. /\ cnode'[i].nRefCount = cnode[i].nRefCount - In(i, message)
            /\ message' = {} /\ socket' = socket
        BY <2>4, CountsChange DEF ReleaseMessages
      <3> QED BY <1>0, <1>1, <1>3, <2>0, <3>1 DEF In
    <2>5. ASSUME NEW k \in Node, SocketDisconnects(k) \/ MessageDisconnects(k)
          PROVE  message' = message /\ socket' = socket /\ cnode'[i].nRefCount = cnode[i].nRefCount
      <3>1. cnode' = [cnode EXCEPT ![k] = [cnode[k] EXCEPT !.fDisconnect = TRUE]]
        BY <2>5 DEF SocketDisconnects, MessageDisconnects
      <3> DEFINE r == [cnode[k] EXCEPT !.fDisconnect = TRUE]
      <3>2. r \in CNodeRec /\ r.nRefCount = cnode[k].nRefCount
        BY <1>0, Zenon DEF CNodeRec
      <3>3. cnode' = [cnode EXCEPT ![k] = r]
        BY <3>1
      <3> HIDE DEF r
      <3>4. cnode'[i].nRefCount = cnode[i].nRefCount
        BY <3>2, <3>3, NodeWritten
      <3> QED BY <2>5, <3>4 DEF SocketDisconnects, MessageDisconnects
    <2> QED BY <1>1, <1>3, <2>0, <2>1, <2>2, <2>3, <2>4, <2>5
  <1>6. RefsExact'
    <2>1. \A t \in Opener : opener'[t].pc = "dangling" => opener'[t].pnode \in found'
      BY <1>1 DEF CountInv, RefsExact
    <2> QED BY <1>1, <1>3, <1>5, <2>1 DEF RefsExact
  <1> QED BY <1>2, <1>4, <1>6 DEF CountInv

\* A node is deleted when nobody counts on it, so that no thread points to it.
LEMMA CountDelete ==
  ASSUME ConnTypes, CountInv, NEW k \in Node, DeleteNode(k)
  PROVE  CountInv'
  <1>0. /\ cnode[k] \in CNodeRec
        /\ \A i \in Node : cnode[i].nRefCount \in Int
    BY NodesTyped
  <1>1. /\ vNodes' = vNodes /\ unmarked' = unmarked /\ message' = message
        /\ opener' = opener /\ found' = found
        /\ socket.pc = "delete" /\ k \in socket.vNodesCopy /\ k \in pooled
        /\ socket'.pc = "delete" /\ socket'.vNodesCopy = socket.vNodesCopy \ {k}
    BY DEF DeleteNode, ConnTypes, CountInv, Lists
  <1>2. CASE cnode[k].nRefCount # 0
    <2>1. cnode' = cnode /\ pooled' = pooled /\ Node' = Node
      BY <1>2 DEF DeleteNode, Node
    <2> QED BY <1>1, <2>1 DEF CountInv, RefsExact, Lists, Pointers
  <1>3. CASE cnode[k].nRefCount = 0
    <2> DEFINE r == [cnode[k] EXCEPT !.deleted = TRUE, !.grant = FALSE]
    <2>1. r \in CNodeRec /\ r.deleted
      BY <1>0, Zenon DEF CNodeRec
    <2>2. cnode' = [cnode EXCEPT ![k] = r] /\ pooled' = pooled \ {k}
      BY <1>3, Zenon DEF DeleteNode
    <2> HIDE DEF r
    <2>3. Node' = Node /\ \A i \in Node : cnode'[i] = IF i = k THEN r ELSE cnode[i]
      BY <2>1, <2>2, NodeWritten, Zenon
    <2>4. Lists'
      BY <1>1, <2>2 DEF CountInv, Lists
    <2>5. k \notin found => k \notin vNodes /\ k \notin unmarked /\ k \notin message
      <3> SUFFICES ASSUME k \notin found
                   PROVE  k \notin vNodes /\ k \notin unmarked /\ k \notin message
        OBVIOUS
      <3>1. ~cnode[k].deleted
        BY <1>1 DEF CountInv, RefsExact
      <3>2. 0 = In(k, vNodes) + In(k, unmarked) + In(k, message) + 0
        BY <1>1, <1>3, <3>1 DEF CountInv, RefsExact
      <3> QED BY <3>2 DEF In
    <2>6. RefsExact'
      <3>1. ASSUME NEW i \in Node \ found
            PROVE  /\ cnode'[i].deleted => i \notin vNodes \cup pooled' \cup message
                   /\ ~cnode'[i].deleted =>
                        /\ i \in vNodes \/ i \in pooled'
                        /\ cnode'[i].nRefCount = In(i, vNodes) + In(i, unmarked) + In(i, message) + 0
        BY <1>1, <2>1, <2>2, <2>3, <2>5 DEF CountInv, RefsExact
      <3>2. \A t \in Opener : opener'[t].pc = "dangling" => opener'[t].pnode \in found'
        BY <1>1 DEF CountInv, RefsExact
      <3> QED BY <1>1, <2>3, <3>1, <3>2 DEF RefsExact
    <2>7. Pointers'
      <3>1. \A t \in Opener : opener[t].pc \in {"move", "moving", "mark"} => opener[t].pnode \in Node
        BY DEF ConnTypes
      <3>2. \A t \in Opener : opener[t].pc \in {"move", "moving", "mark"}
                                /\ opener[t].pnode \notin found => opener[t].pnode # k
        BY <2>5 DEF CountInv, Pointers
      <3> QED BY <1>1, <2>3, <3>1, <3>2 DEF CountInv, Pointers
    <2> QED BY <2>4, <2>6, <2>7 DEF CountInv
  <1> QED BY <1>2, <1>3

\* A new node has the count of vNodes.
LEMMA CountAppend ==
  ASSUME ConnTypes, CountInv, NEW addr \in Address \cup {0}, NEW b \in BOOLEAN,
         cnode' = Append(cnode, NewCNode(addr, b)),
         vNodes' = vNodes \cup {Len(cnode) + 1},
         pooled' = pooled /\ message' = message /\ found' = found /\ unmarked' = unmarked,
         \/ socket' = socket
         \/ socket.pc = "delete" /\ socket'.pc = "copy"
  PROVE  /\ Lists'
         /\ \A i \in Node' \ found' :
              /\ cnode'[i].deleted => i \notin vNodes' \cup pooled' \cup message' \cup
                                         (IF socket'.pc = "serve" THEN socket'.vNodesCopy ELSE {})
              /\ ~cnode'[i].deleted =>
                     /\ i \in vNodes' \/ i \in pooled'
                     /\ cnode'[i].nRefCount = In(i, vNodes') + In(i, unmarked') + In(i, message')
                          + IF socket'.pc = "serve" THEN In(i, socket'.vNodesCopy) ELSE 0
  <1> DEFINE n == Len(cnode) + 1
  <1>1. /\ Node' = Node \cup {n} /\ n \notin Node
        /\ \A i \in Node : cnode'[i] = cnode[i]
        /\ cnode'[n].deleted = FALSE /\ cnode'[n].nRefCount = 1
    <2>1. /\ Node' = Node \cup {n} /\ n \notin Node
          /\ \A i \in Node : cnode'[i] = cnode[i]
          /\ cnode'[n] = NewCNode(addr, b)
      BY NodeAppended, Zenon
    <2>2. NewCNode(addr, b).deleted = FALSE /\ NewCNode(addr, b).nRefCount = 1
      BY DEF NewCNode
    <2> QED BY <2>1, <2>2, Zenon
  <1> HIDE DEF n
  <1>2. vNodes' = vNodes \cup {n}
    BY DEF n
  <1>3. /\ n \notin vNodes /\ n \notin pooled /\ n \notin message /\ n \notin unmarked
        /\ n \notin socket.vNodesCopy
    BY <1>1 DEF ConnTypes
  <1>4. Lists'
    BY <1>2, <1>3 DEF CountInv, Lists
  <1>5. ASSUME NEW i \in Node' \ found'
        PROVE  /\ cnode'[i].deleted => i \notin vNodes' \cup pooled' \cup message' \cup
                                         (IF socket'.pc = "serve" THEN socket'.vNodesCopy ELSE {})
               /\ ~cnode'[i].deleted =>
                     /\ i \in vNodes' \/ i \in pooled'
                     /\ cnode'[i].nRefCount = In(i, vNodes') + In(i, unmarked') + In(i, message')
                          + IF socket'.pc = "serve" THEN In(i, socket'.vNodesCopy) ELSE 0
    <2>1. CASE i = n
      BY <1>1, <1>2, <1>3, <2>1 DEF In
    <2>2. CASE i # n
      BY <1>1, <1>2, <2>2, Zenon DEF In, CountInv, RefsExact
    <2> QED BY <2>1, <2>2, Zenon
  <1> QED BY <1>4, <1>5, Zenon

\* A connection is accepted.
LEMMA CountAccept ==
  ASSUME ConnTypes, CountInv, NEW addr \in Address, AcceptConnection(addr)
  PROVE  CountInv'
  <1>1. /\ cnode' = Append(cnode, NewCNode(addr, TRUE)) /\ vNodes' = vNodes \cup {Len(cnode) + 1}
        /\ pooled' = pooled /\ message' = message /\ found' = found /\ unmarked' = unmarked
        /\ opener' = opener /\ socket.pc = "delete" /\ socket'.pc = "copy"
    BY DEF AcceptConnection
  <1>2. /\ Lists'
        /\ \A i \in Node' \ found' :
              /\ cnode'[i].deleted => i \notin vNodes' \cup pooled' \cup message' \cup
                                         (IF socket'.pc = "serve" THEN socket'.vNodesCopy ELSE {})
              /\ ~cnode'[i].deleted =>
                     /\ i \in vNodes' \/ i \in pooled'
                     /\ cnode'[i].nRefCount = In(i, vNodes') + In(i, unmarked') + In(i, message')
                          + IF socket'.pc = "serve" THEN In(i, socket'.vNodesCopy) ELSE 0
    BY <1>1, CountAppend, Zenon
  <1>3. RefsExact'
    <2>1. \A t \in Opener : opener'[t].pc = "dangling" => opener'[t].pnode \in found'
      BY <1>1 DEF CountInv, RefsExact
    <2> QED BY <1>2, <2>1 DEF RefsExact
  <1>4. Pointers'
    <2>1. \A i \in Node : cnode'[i] = cnode[i]
      BY <1>1, NodeAppended, Zenon
    <2>2. \A t \in Opener : opener[t].pc \in {"move", "moving", "mark"} => opener[t].pnode \in Node
      BY DEF ConnTypes
    <2> QED BY <1>1, <2>1, <2>2, Zenon DEF CountInv, Pointers
  <1> QED BY <1>2, <1>3, <1>4 DEF CountInv

\* A thread that opens connections keeps the counts of the nodes that no thread found,
\* its own pointer, and the mark of a node unless it is about to forget the node.
LEMMA CountOpener ==
  ASSUME ConnTypes, CountInv, NEW t \in Opener, NEW label, NEW k, NEW b,
         Becomes(t, label, k, b), Node' = Node, found \subseteq found',
         UNCHANGED <<vNodes, pooled, socket, message, unmarked>>,
         \A i \in Node \ found' : /\ cnode'[i].deleted = cnode[i].deleted
                                  /\ cnode'[i].nRefCount = cnode[i].nRefCount
                                  /\ cnode'[i].fInbound = cnode[i].fInbound
                                  /\ \/ cnode'[i].fNetworkNode = cnode[i].fNetworkNode
                                     \/ /\ i = opener[t].pnode /\ opener[t].pc = "mark"
                                        /\ label = "wait",
         label = "dangling" => k \in found',
         label \in {"move", "moving", "mark"} =>
             /\ k = opener[t].pnode
             /\ opener[t].pc \in {"move", "moving", "mark"} \/ k \in found'
  PROVE  CountInv'
  <1>1. /\ \A u \in Opener \ {t} : opener'[u] = opener[u]
        /\ opener'[t].pc = label /\ opener'[t].pnode = k
    BY DEF Becomes
  <1>2. Lists'
    BY DEF CountInv, Lists
  <1>3. RefsExact'
    <2>1. \A u \in Opener : opener'[u].pc = "dangling" => opener'[u].pnode \in found'
      BY <1>1 DEF CountInv, RefsExact
    <2>2. \A i \in Node \ found' : i \in Node \ found
      OBVIOUS
    <2> QED BY <2>1, <2>2 DEF CountInv, RefsExact
  <1>4. Pointers'
    <2> SUFFICES ASSUME NEW u \in Opener, opener'[u].pc \in {"move", "moving", "mark"},
                        opener'[u].pnode \notin found'
                 PROVE  LET i == opener'[u].pnode
                        IN  /\ ~cnode'[i].fNetworkNode /\ ~cnode'[i].fInbound
                            /\ ~cnode'[i].deleted /\ i \in vNodes \cup unmarked
                            /\ \A v \in Opener \ {u} :
                                 opener'[v].pc \in {"move", "moving", "mark"} =>
                                   opener'[v].pnode # i
      BY DEF Pointers
    <2> DEFINE i == opener'[u].pnode
    <2>1. opener[u].pc \in {"move", "moving", "mark"} /\ opener[u].pnode = i /\ i \notin found
      BY <1>1
    <2>2. /\ ~cnode[i].fNetworkNode /\ ~cnode[i].fInbound /\ ~cnode[i].deleted
          /\ i \in vNodes \cup unmarked
          /\ \A v \in Opener \ {u} : opener[v].pc \in {"move", "moving", "mark"} =>
                                         opener[v].pnode # i
      BY <2>1 DEF CountInv, Pointers
    <2>3. i \in Node \ found'
      BY <2>1 DEF ConnTypes
    <2>4. ~cnode'[i].fNetworkNode /\ ~cnode'[i].fInbound /\ ~cnode'[i].deleted
      <3>1. CASE u = t
        BY <1>1, <2>1, <2>2, <2>3, <3>1
      <3>2. CASE u # t
        BY <2>2, <2>3, <3>2
      <3> QED BY <3>1, <3>2
    <2>5. ASSUME NEW v \in Opener \ {u}, opener'[v].pc \in {"move", "moving", "mark"}
          PROVE  opener'[v].pnode # i
      BY <1>1, <2>2, <2>3, <2>5
    <2> QED BY <2>2, <2>4, <2>5
  <1> QED BY <1>2, <1>3, <1>4 DEF CountInv

\* Every step of a thread that opens connections keeps the counts exact.
LEMMA CountStepOpener ==
  ASSUME ConnTypes, CountInv, NEW t \in Opener,
         \/ AcquireSlot(t) \/ CheckConnected(t) \/ FindConnected(t)
         \/ ReadRefCount(t) \/ WriteRefCount(t) \/ Dangles(t)
         \/ DialFails(t) \/ Dial(t) \/ ReleaseOwnGrant(t) \/ MoveGrant(t) \/ MarkNetworkNode(t)
  PROVE  CountInv'
  <1>1. CASE AcquireSlot(t) \/ CheckConnected(t) \/ FindConnected(t) \/ ReadRefCount(t) \/ DialFails(t)
    <2>1. UNCHANGED <<cnode, vNodes, pooled, socket, message, unmarked>> /\ Node' = Node
      BY <1>1, ZenonT(30) DEF AcquireSlot, CheckConnected, FindConnected, ReadRefCount, DialFails, Node
    <2>2. found \subseteq found'
      BY <1>1, OpenerEffects, ZenonT(30) DEF AcquireSlot, CheckConnected, ReadRefCount, DialFails
    <2>3. \E label \in {"wait", "check", "find", "dial", "read", "write"} :
            \E k, b : Becomes(t, label, k, b)
      BY <1>1, OpenerEffects, Zenon DEF DialFails
    <2> QED BY <2>1, <2>2, <2>3, CountOpener
  <1>2. CASE Dangles(t) \/ ReleaseOwnGrant(t)
    <2>1. UNCHANGED <<cnode, vNodes, pooled, socket, message, unmarked, found>> /\ Node' = Node
      BY <1>2 DEF Dangles, ReleaseOwnGrant, Node
    <2>2. \/ Becomes(t, "dangling", opener[t].pnode, opener[t].grant) /\ Dangles(t)
          \/ Becomes(t, "moving", opener[t].pnode, opener[t].grant) /\ opener[t].pc = "move"
      BY <1>2, OpenerEffects, ZenonT(30) DEF ReleaseOwnGrant
    <2>3. Dangles(t) => opener[t].pnode \in found
      BY DEF Dangles, ConnTypes, CountInv, Pointers
    <2> QED BY <2>1, <2>2, <2>3, CountOpener
  <1>3. CASE WriteRefCount(t) \/ MoveGrant(t) \/ MarkNetworkNode(t)
    <2> DEFINE k == opener[t].pnode
    <2>1. UNCHANGED <<vNodes, pooled, socket, message, unmarked, found>>
      BY <1>3 DEF WriteRefCount, MoveGrant, MarkNetworkNode
    <2>2. /\ k \in Node /\ Node' = Node
          /\ \A i \in Node \ {k} : cnode'[i] = cnode[i]
          /\ cnode'[k].deleted = cnode[k].deleted /\ cnode'[k].fInbound = cnode[k].fInbound
          /\ WriteRefCount(t) \/ cnode'[k].nRefCount = cnode[k].nRefCount
          /\ MarkNetworkNode(t) \/ cnode'[k].fNetworkNode = cnode[k].fNetworkNode
      BY <1>3, OpenerNodeEffects
    <2>3. CASE WriteRefCount(t)
      <3>1. k \in found /\ ~MarkNetworkNode(t)
        BY <2>3 DEF WriteRefCount, MarkNetworkNode, ConnTypes
      <3>2. Becomes(t, "move", k, opener[t].grant)
        BY <2>3, OpenerEffects, Zenon
      <3> QED BY <2>1, <2>2, <3>1, <3>2, CountOpener
    <2>4. CASE MoveGrant(t)
      <3>1. opener[t].pc = "moving" /\ ~MarkNetworkNode(t) /\ ~WriteRefCount(t)
        BY <2>4 DEF MoveGrant, WriteRefCount, MarkNetworkNode
      <3>2. Becomes(t, "mark", k, FALSE)
        BY <2>4, OpenerEffects, Zenon
      <3> QED BY <2>1, <2>2, <3>1, <3>2, CountOpener, Zenon
    <2>5. CASE MarkNetworkNode(t)
      <3>1. opener[t].pc = "mark" /\ ~WriteRefCount(t)
        BY <2>5 DEF MarkNetworkNode, WriteRefCount
      <3>2. Becomes(t, "wait", 0, FALSE)
        BY <2>5, OpenerEffects, Zenon DEF MarkNetworkNode
      <3> QED BY <2>1, <2>2, <3>1, <3>2, CountOpener, Zenon
    <2> QED BY <1>3, <2>3, <2>4, <2>5
  <1>4. CASE Dial(t)
    <2> DEFINE n == Len(cnode) + 1
    <2>1. /\ cnode' = Append(cnode, NewCNode(opener[t].addr, FALSE)) /\ vNodes' = vNodes \cup {n}
          /\ pooled' = pooled /\ message' = message /\ found' = found /\ unmarked' = unmarked
          /\ socket' = socket
      BY <1>4 DEF Dial
    <2>2. opener[t].addr \in Address \cup {0}
      BY DEF ConnTypes, OpenerRec
    <2>3. /\ Lists'
          /\ \A i \in Node' \ found' :
              /\ cnode'[i].deleted => i \notin vNodes' \cup pooled' \cup message' \cup
                                         (IF socket'.pc = "serve" THEN socket'.vNodesCopy ELSE {})
              /\ ~cnode'[i].deleted =>
                     /\ i \in vNodes' \/ i \in pooled'
                     /\ cnode'[i].nRefCount = In(i, vNodes') + In(i, unmarked') + In(i, message')
                          + IF socket'.pc = "serve" THEN In(i, socket'.vNodesCopy) ELSE 0
      BY <2>1, <2>2, CountAppend, Zenon
    <2>4. /\ n \notin Node /\ \A i \in Node : cnode'[i] = cnode[i]
          /\ cnode'[n] = NewCNode(opener[t].addr, FALSE)
      BY <2>1, <2>2, NodeAppended, ZenonT(30)
    <2>5. ~cnode'[n].fNetworkNode /\ ~cnode'[n].fInbound /\ ~cnode'[n].deleted
      <3>1. LET c == NewCNode(opener[t].addr, FALSE)
            IN  ~c.fNetworkNode /\ ~c.fInbound /\ ~c.deleted
        BY DEF NewCNode
      <3> QED BY <2>4, <3>1, Zenon
    <2>6. Becomes(t, "move", n, opener[t].grant)
      BY <1>4, OpenerEffects, Zenon
    <2> HIDE DEF n
    <2>7. /\ \A u \in Opener \ {t} : opener'[u] = opener[u]
          /\ opener'[t].pc = "move" /\ opener'[t].pnode = n
      BY <2>6 DEF Becomes
    <2>8. RefsExact'
      <3>1. \A u \in Opener : opener'[u].pc = "dangling" => opener'[u].pnode \in found'
        BY <2>1, <2>7 DEF CountInv, RefsExact
      <3> QED BY <2>3, <3>1 DEF RefsExact
    <2>9. Pointers'
      <3>1. \A u \in Opener : opener[u].pc \in {"move", "moving", "mark"} =>
                                opener[u].pnode \in Node /\ opener[u].pnode # n
        BY <2>4 DEF ConnTypes
      <3>2. ASSUME NEW u \in Opener, opener'[u].pc \in {"move", "moving", "mark"},
                   opener'[u].pnode \notin found'
            PROVE  LET i == opener'[u].pnode
                   IN  /\ ~cnode'[i].fNetworkNode /\ ~cnode'[i].fInbound
                       /\ ~cnode'[i].deleted /\ i \in vNodes' \cup unmarked'
                       /\ \A v \in Opener \ {u} :
                            opener'[v].pc \in {"move", "moving", "mark"} => opener'[v].pnode # i
        <4>1. CASE u = t
          BY <2>1, <2>5, <2>7, <3>1, <4>1, Zenon
        <4>2. CASE u # t
          <5> DEFINE i == opener[u].pnode
          <5>1. opener'[u] = opener[u] /\ i \notin found /\ i \in Node /\ i # n
            BY <2>1, <2>7, <3>1, <3>2, <4>2
          <5>2. /\ ~cnode[i].fNetworkNode /\ ~cnode[i].fInbound /\ ~cnode[i].deleted
                /\ i \in vNodes \cup unmarked
                /\ \A v \in Opener \ {u} : opener[v].pc \in {"move", "moving", "mark"} =>
                                               opener[v].pnode # i
            BY <3>2, <5>1, Zenon DEF CountInv, Pointers
          <5>3. \A v \in Opener \ {u} : opener'[v].pc \in {"move", "moving", "mark"} =>
                                             opener'[v].pnode # i
            BY <2>7, <5>1, <5>2
          <5> QED BY <2>1, <2>4, <5>1, <5>2, <5>3, ZenonT(30)
        <4> QED BY <4>1, <4>2
      <3> QED BY <3>2 DEF Pointers
    <2> QED BY <2>3, <2>8, <2>9 DEF CountInv
  <1> QED BY <1>1, <1>2, <1>3, <1>4

\* Every step keeps the counts exact.
LEMMA CountStep == ConnTypes /\ CountInv /\ [ConnNext]_connVars => CountInv'
  <1> SUFFICES ASSUME ConnTypes, CountInv, [ConnNext]_connVars PROVE CountInv'
    OBVIOUS
  <1>1. CASE UNCHANGED connVars
    BY <1>1 DEF connVars, CountInv, RefsExact, Lists, Pointers, Node
  <1>2. CASE AssertFails
    <2>1. ConnInit'
      BY <1>2 DEF AssertFails, ConnInit
    <2> QED BY <2>1, CountInit, PTL
  <1> QED BY <1>1, <1>2, CountDisconnect, CountNodes, CountDelete, CountAccept,
             CountStepOpener DEF ConnNext

\* RefsExact for any number of peers, threads, slots and nodes: as long as no thread
\* found a node with FindNode in ConnectNode, nRefCount is what the lists and the
\* threads hold, and nobody is left with a deleted node.
THEOREM RefsExactSafety == ConnSpec => []RefsExact
  <1>1. ConnInit => ConnTypes /\ CountInv
    BY TypesInit, CountInit
  <1>2. ConnTypes /\ CountInv /\ [ConnNext]_connVars => ConnTypes' /\ CountInv'
    BY TypesStep, CountStep
  <1>3. CountInv => RefsExact
    BY DEF CountInv
  <1> QED BY <1>1, <1>2, <1>3, PTL DEF ConnSpec

-----------------------------------------------------------------------------
(* SlotsExact.                                                             *)

\* The sets that SlotsExact counts are finite.
LEMMA GrantsFinite ==
  ConnTypes => /\ IsFiniteSet(Held) /\ Cardinality(Held) \in Nat
               /\ IsFiniteSet(Taken) /\ Cardinality(Taken) \in Nat
  <1> SUFFICES ASSUME ConnTypes PROVE /\ IsFiniteSet(Held) /\ Cardinality(Held) \in Nat
                                      /\ IsFiniteSet(Taken) /\ Cardinality(Taken) \in Nat
    OBVIOUS
  <1>1. IsFiniteSet(Held)
    <2>1. Held \in SUBSET Opener
      BY DEF Held
    <2> QED BY <2>1, ConnectionsAssumption, FS_Subset
  <1>2. IsFiniteSet(Taken)
    <2>1. IsFiniteSet(Node)
      BY NodesTyped, FS_Interval DEF Node
    <2>2. Taken \in SUBSET Node
      BY DEF Taken
    <2> QED BY <2>1, <2>2, FS_Subset
  <1> QED BY <1>1, <1>2, FS_CardinalityType

\* The slots are all free at first.
LEMMA SlotInit == ConnInit => SlotInv
  <1> SUFFICES ASSUME ConnInit PROVE SlotInv
    OBVIOUS
  <1>1. \A t \in Opener : opener[t].pc = "wait" /\ opener[t].grant = FALSE
    BY DEF ConnInit, Waiting
  <1>2. Node = {} /\ semOutbound = MAX_OUTBOUND_CONNECTIONS
    BY DEF ConnInit, Node
  <1>3. {t \in Opener : opener[t].grant} = {} /\ {i \in Node : cnode[i].grant} = {}
    BY <1>1, <1>2
  <1>4. SlotsExact
    BY <1>2, <1>3, FS_EmptySet, ConnectionsAssumption DEF SlotsExact
  <1> QED BY <1>1, <1>4 DEF SlotInv

\* A step that moves no slot.
LEMMA SlotKept ==
  ASSUME SlotInv, semOutbound' = semOutbound, found \subseteq found',
         Held' = Held, Taken' = Taken
  PROVE  SlotsExact'
  BY Zenon DEF SlotInv, SlotsExact, Held, Taken

\* "Disconnect nodes" gives back the slots of the nodes it takes from vNodes.
LEMMA SlotDisconnect ==
  ASSUME ConnTypes, SlotInv, DisconnectNodes
  PROVE  SlotInv'
  <1>0. PICK S \in SUBSET vNodes : \E owned \in SUBSET S : Disconnects(S, owned)
    BY DisconnectEffect
  <1>1. /\ Node' = Node
        /\ \A i \in Node : cnode'[i].grant <=> cnode[i].grant /\ i \notin S
        /\ semOutbound' = semOutbound + Cardinality({i \in S : cnode[i].grant})
        /\ opener' = opener /\ found' = found
    BY <1>0, Zenon DEF Disconnects
  <1>2. S \subseteq Node
    BY DEF ConnTypes
  <1>3. Held' = Held
    BY <1>1 DEF Held
  <1>4. Taken' = Taken \ S /\ {i \in S : cnode[i].grant} = Taken \cap S
    BY <1>1, <1>2 DEF Taken
  <1>5. Cardinality(Taken') = Cardinality(Taken) - Cardinality(Taken \cap S)
    BY <1>4, GrantsFinite, FS_Difference, Zenon
  <1>6. Cardinality(Taken \cap S) \in Nat /\ semOutbound \in Int
    BY GrantsFinite, FS_Intersection, FS_CardinalityType, Zenon DEF ConnTypes
  <1>7. SlotsExact'
    <2> SUFFICES ASSUME found' = {}
                 PROVE  semOutbound' + Cardinality(Held') + Cardinality(Taken')
                          = MAX_OUTBOUND_CONNECTIONS
      BY DEF SlotsExact, Held, Taken
    <2>1. semOutbound + Cardinality(Held) + Cardinality(Taken) = MAX_OUTBOUND_CONNECTIONS
      BY <1>1 DEF SlotInv, SlotsExact, Held, Taken
    <2>2. semOutbound' = semOutbound + Cardinality(Taken \cap S)
      BY <1>1, <1>4, Zenon
    <2>3. Cardinality(Held) \in Nat /\ Cardinality(Taken) \in Nat
      BY GrantsFinite
    <2> QED BY <1>3, <1>5, <1>6, <2>1, <2>2, <2>3
  <1>8. \A t \in Opener : opener[t].pc \in {"move", "moving"} => opener[t].pnode \in Node
    BY DEF ConnTypes
  <1> QED BY <1>1, <1>7, <1>8 DEF SlotInv

\* ~CNode gives back the slot of the node.
LEMMA SlotDelete ==
  ASSUME ConnTypes, SlotInv, NEW k \in Node, DeleteNode(k)
  PROVE  SlotInv'
  <1>0. cnode[k] \in CNodeRec /\ cnode[k].grant \in BOOLEAN
    BY NodesTyped
  <1>1. opener' = opener /\ found' = found /\ Held' = Held
    BY DEF DeleteNode, Held
  <1>2. \A t \in Opener : opener[t].pc \in {"move", "moving"} => opener[t].pnode \in Node
    BY DEF ConnTypes
  <1>3. CASE cnode[k].nRefCount # 0
    <2>1. cnode' = cnode /\ semOutbound' = semOutbound /\ Taken' = Taken
      BY <1>3 DEF DeleteNode, Taken, Node
    <2>2. SlotsExact'
      BY <1>1, <2>1, SlotKept
    <2> QED BY <1>1, <2>1, <2>2 DEF SlotInv
  <1>4. CASE cnode[k].nRefCount = 0
    <2> DEFINE r == [cnode[k] EXCEPT !.deleted = TRUE, !.grant = FALSE]
    <2>1. r \in CNodeRec /\ ~r.grant
      BY <1>0, Zenon DEF CNodeRec
    <2>2. /\ cnode' = [cnode EXCEPT ![k] = r]
          /\ semOutbound' = semOutbound + IF cnode[k].grant THEN 1 ELSE 0
      BY <1>4, Zenon DEF DeleteNode
    <2> HIDE DEF r
    <2>3. Node' = Node /\ \A i \in Node : cnode'[i] = IF i = k THEN r ELSE cnode[i]
      BY <2>1, <2>2, NodeWritten, Zenon
    <2>4. Taken' = Taken \ {k} /\ (k \in Taken <=> cnode[k].grant)
      BY <2>1, <2>3 DEF Taken
    <2>5. Cardinality(Taken') = IF k \in Taken THEN Cardinality(Taken) - 1 ELSE Cardinality(Taken)
      BY <2>4, GrantsFinite, FS_RemoveElement, Zenon
    <2>6. SlotsExact'
      <3> SUFFICES ASSUME found' = {}
                   PROVE  semOutbound' + Cardinality(Held') + Cardinality(Taken')
                            = MAX_OUTBOUND_CONNECTIONS
        BY DEF SlotsExact, Held, Taken
      <3>1. semOutbound + Cardinality(Held) + Cardinality(Taken) = MAX_OUTBOUND_CONNECTIONS
        BY <1>1 DEF SlotInv, SlotsExact, Held, Taken
      <3>2. Cardinality(Held) \in Nat /\ Cardinality(Taken) \in Nat /\ semOutbound \in Int
        BY GrantsFinite DEF ConnTypes
      <3> QED BY <1>1, <2>2, <2>4, <2>5, <3>1, <3>2
    <2> QED BY <1>1, <1>2, <2>1, <2>3, <2>6 DEF SlotInv
  <1> QED BY <1>3, <1>4

\* The other steps of ThreadSocketHandler and ThreadMessageHandler move no slot.
LEMMA SlotNodes ==
  ASSUME ConnTypes, SlotInv,
         \/ CopyForSockets \/ ReleaseSockets \/ CopyForMessages \/ ReleaseMessages
         \/ \E i \in Node : SocketDisconnects(i) \/ MessageDisconnects(i)
         \/ \E addr \in Address : AcceptConnection(addr)
  PROVE  SlotInv'
  <1>1. opener' = opener /\ found' = found /\ semOutbound' = semOutbound /\ Held' = Held
    BY ZenonT(30) DEF CopyForSockets, ReleaseSockets, CopyForMessages, ReleaseMessages,
           SocketDisconnects, MessageDisconnects, AcceptConnection, Held
  <1>2. Taken' = Taken /\ \A i \in Node : cnode'[i].grant = cnode[i].grant
    <2>1. CASE CopyForSockets \/ ReleaseSockets \/ CopyForMessages \/ ReleaseMessages
      <3>1. PICK S : cnode' = AddRef(cnode, S) \/ cnode' = Release(cnode, S)
        BY <2>1 DEF CopyForSockets, ReleaseSockets, CopyForMessages, ReleaseMessages
      <3>2. Node' = Node /\ \A i \in Node : cnode'[i].grant = cnode[i].grant
        BY <3>1, CountsChange DEF Node
      <3> QED BY <3>2 DEF Taken
    <2>2. ASSUME NEW k \in Node, SocketDisconnects(k) \/ MessageDisconnects(k)
          PROVE  Taken' = Taken /\ \A i \in Node : cnode'[i].grant = cnode[i].grant
      <3> DEFINE r == [cnode[k] EXCEPT !.fDisconnect = TRUE]
      <3>1. cnode[k] \in CNodeRec
        BY NodesTyped
      <3>2. r \in CNodeRec /\ r.grant = cnode[k].grant
        BY <3>1, Zenon DEF CNodeRec
      <3>3. cnode' = [cnode EXCEPT ![k] = r]
        BY <2>2 DEF SocketDisconnects, MessageDisconnects
      <3> HIDE DEF r
      <3>4. Node' = Node /\ \A i \in Node : cnode'[i] = IF i = k THEN r ELSE cnode[i]
        BY <3>2, <3>3, NodeWritten, Zenon
      <3> QED BY <3>2, <3>4 DEF Taken
    <2>3. ASSUME NEW addr \in Address, AcceptConnection(addr)
          PROVE  Taken' = Taken /\ \A i \in Node : cnode'[i].grant = cnode[i].grant
      <3>1. /\ Node' = Node \cup {Len(cnode) + 1} /\ Len(cnode) + 1 \notin Node
            /\ \A i \in Node : cnode'[i] = cnode[i]
            /\ cnode'[Len(cnode) + 1] = NewCNode(addr, TRUE)
        BY <2>3, NodeAppended, Zenon DEF AcceptConnection
      <3>2. ~NewCNode(addr, TRUE).grant
        BY DEF NewCNode
      <3> QED BY <3>1, <3>2, Zenon DEF Taken
    <2> QED BY <2>1, <2>2, <2>3
  <1>3. \A t \in Opener : opener[t].pc \in {"move", "moving"} => opener[t].pnode \in Node
    BY DEF ConnTypes
  <1>4. SlotsExact'
    BY <1>1, <1>2, SlotKept
  <1> QED BY <1>1, <1>2, <1>3, <1>4 DEF SlotInv

\* A thread that opens connections keeps the slots exact if what it gains or loses
\* is lost or gained by the semaphore and the nodes.
LEMMA SlotOpener ==
  ASSUME ConnTypes, ConnTypes', SlotInv, NEW t \in Opener, NEW label, NEW k, NEW b \in BOOLEAN,
         Becomes(t, label, k, b), found \subseteq found',
         label = "wait" => ~b,
         found' = {} =>
             /\ semOutbound' + Cardinality(Taken') + (IF b THEN 1 ELSE 0)
                  = semOutbound + Cardinality(Taken) + IF opener[t].grant THEN 1 ELSE 0
             /\ \A u \in Opener \ {t} : opener[u].pc \in {"move", "moving"} =>
                                            ~cnode'[opener[u].pnode].grant
             /\ label \in {"move", "moving"} => ~cnode'[k].grant
  PROVE  SlotInv'
  <1>1. /\ \A u \in Opener \ {t} : opener'[u] = opener[u]
        /\ opener'[t].pc = label /\ opener'[t].pnode = k /\ opener'[t].grant = b
    BY DEF Becomes
  <1>2. Held' = IF b THEN Held \cup {t} ELSE Held \ {t}
    BY <1>1 DEF Held
  <1>3. t \in Held <=> opener[t].grant
    BY DEF Held
  <1>4. /\ Cardinality(Held) \in Nat /\ Cardinality(Taken) \in Nat /\ IsFiniteSet(Held)
        /\ semOutbound \in Int
    BY GrantsFinite DEF ConnTypes
  <1>5. Cardinality(Taken') \in Nat /\ semOutbound' \in Int
    <2>1. ConnTypes' => (Cardinality(Taken) \in Nat)'
      BY GrantsFinite, PTL
    <2> QED BY <2>1 DEF ConnTypes
  <1>6. Cardinality(Held') + (IF opener[t].grant THEN 1 ELSE 0)
          = Cardinality(Held) + IF b THEN 1 ELSE 0
    <2>1. Cardinality(Held \cup {t}) = IF t \in Held THEN Cardinality(Held) ELSE Cardinality(Held) + 1
      BY <1>4, FS_AddElement, Zenon
    <2>2. Cardinality(Held \ {t}) = IF t \in Held THEN Cardinality(Held) - 1 ELSE Cardinality(Held)
      BY <1>4, FS_RemoveElement, Zenon
    <2> QED BY <1>2, <1>3, <1>4, <2>1, <2>2
  <1>7. Cardinality(Held') \in Nat
    BY <1>2, <1>4, FS_AddElement, FS_RemoveElement, FS_CardinalityType, Zenon
  <1>8. SlotsExact'
    <2> SUFFICES ASSUME found' = {}
                 PROVE  semOutbound' + Cardinality(Held') + Cardinality(Taken')
                          = MAX_OUTBOUND_CONNECTIONS
      BY DEF SlotsExact, Held, Taken
    <2>1. semOutbound + Cardinality(Held) + Cardinality(Taken) = MAX_OUTBOUND_CONNECTIONS
      BY DEF SlotInv, SlotsExact, Held, Taken
    <2> QED BY <1>4, <1>5, <1>6, <1>7, <2>1
  <1> QED BY <1>1, <1>8 DEF SlotInv

\* Every step of a thread that opens connections keeps the slots exact.
LEMMA SlotStepOpener ==
  ASSUME ConnTypes, ConnTypes', CountInv, SlotInv, NEW t \in Opener,
         \/ AcquireSlot(t) \/ CheckConnected(t) \/ FindConnected(t)
         \/ ReadRefCount(t) \/ WriteRefCount(t) \/ Dangles(t)
         \/ DialFails(t) \/ Dial(t) \/ ReleaseOwnGrant(t) \/ MoveGrant(t) \/ MarkNetworkNode(t)
  PROVE  SlotInv'
  <1>0. /\ Cardinality(Taken) \in Nat /\ IsFiniteSet(Taken) /\ semOutbound \in Int
        /\ opener[t].grant \in BOOLEAN
    BY GrantsFinite, Zenon DEF ConnTypes, OpenerRec
  <1>n. Cardinality(Taken) \in Int /\ semOutbound \in Int
    BY <1>0
  <1>p. \A u \in Opener : opener[u].pc \in {"move", "moving"} => opener[u].pnode \in Node
    BY DEF ConnTypes
  <1>q. found = {} => \A u \in Opener : opener[u].pc \in {"move", "moving"} =>
                                           ~cnode[opener[u].pnode].grant
    BY DEF SlotInv
  <1>g. GiveUp(t) => semOutbound' = semOutbound + IF opener[t].grant THEN 1 ELSE 0
    BY DEF GiveUp
  <1>1. ASSUME cnode' = cnode PROVE Taken' = Taken
    BY <1>1 DEF Taken, Node
  <1>2. CASE AcquireSlot(t)
    <2>1. Becomes(t, "check", opener[t].pnode, TRUE)
      BY <1>2, OpenerEffects, Zenon
    <2>2. cnode' = cnode /\ found' = found /\ semOutbound' = semOutbound - 1 /\ ~opener[t].grant
      BY <1>2, ZenonT(30) DEF AcquireSlot, SlotInv
    <2>3. semOutbound' + Cardinality(Taken') + 1 = semOutbound + Cardinality(Taken) + 0
      <3>1. Cardinality(Taken') = Cardinality(Taken) /\ semOutbound' = semOutbound - 1
        BY <1>1, <2>2, Zenon
      <3> QED BY <1>n, <3>1
    <2> QED BY <1>q, <2>1, <2>2, <2>3, SlotOpener, ZenonT(30)
  <1>3. ASSUME GiveUp(t), found' = found, Taken' = Taken,
               \A i \in Node : cnode'[i].grant = cnode[i].grant
        PROVE  SlotInv'
    <2>1. Becomes(t, "wait", 0, FALSE)
      BY <1>3, OpenerEffects, ZenonT(30)
    <2>2. semOutbound' + Cardinality(Taken') + 0
            = semOutbound + Cardinality(Taken) + IF opener[t].grant THEN 1 ELSE 0
      <3>1. /\ Cardinality(Taken') = Cardinality(Taken)
            /\ semOutbound' = semOutbound + IF opener[t].grant THEN 1 ELSE 0
        BY <1>3, <1>g, Zenon
      <3> QED BY <1>n, <3>1
    <2>3. found' = {} => \A u \in Opener \ {t} : opener[u].pc \in {"move", "moving"} =>
                                                     ~cnode'[opener[u].pnode].grant
      BY <1>3, <1>p, <1>q, ZenonT(30)
    <2> QED BY <1>3, <2>1, <2>2, <2>3, SlotOpener, ZenonT(30)
  <1>4. CASE CheckConnected(t)
    <2>1. cnode' = cnode /\ found' = found
      BY <1>4 DEF CheckConnected
    <2>2. CASE GiveUp(t)
      BY <1>1, <1>3, <2>1, <2>2
    <2>3. CASE Becomes(t, "find", opener[t].pnode, opener[t].grant) /\ semOutbound' = semOutbound
      BY <1>0, <1>1, <1>q, <2>1, <2>3, SlotOpener
    <2> QED BY <1>4, <2>2, <2>3, OpenerEffects, Zenon
  <1>5. CASE DialFails(t)
    BY <1>1, <1>3, <1>5, ZenonT(30) DEF DialFails
  <1>6. CASE FindConnected(t) \/ ReadRefCount(t) \/ Dangles(t)
    <2>1. cnode' = cnode /\ semOutbound' = semOutbound
      BY <1>6 DEF FindConnected, ReadRefCount, Dangles
    <2>2. /\ found \subseteq found'
          /\ \E label \in {"dial", "read", "write", "dangling"} :
               \E k : Becomes(t, label, k, opener[t].grant)
      BY <1>6, OpenerEffects, ZenonT(30) DEF ReadRefCount, Dangles
    <2> QED BY <1>0, <1>1, <1>q, <2>1, <2>2, SlotOpener
  <1>7. CASE WriteRefCount(t)
    <2>1. opener[t].pnode \in found /\ found' = found
      BY <1>7 DEF WriteRefCount, ConnTypes
    <2>2. Becomes(t, "move", opener[t].pnode, opener[t].grant)
      BY <1>7, OpenerEffects, Zenon
    <2> QED BY <1>0, <2>1, <2>2, SlotOpener
  <1>8. CASE Dial(t)
    <2> DEFINE n == Len(cnode) + 1
    <2>1. opener[t].addr \in Address \cup {0}
      BY DEF ConnTypes, OpenerRec
    <2>2. /\ Node' = Node \cup {n} /\ n \notin Node
          /\ \A i \in Node : cnode'[i] = cnode[i]
          /\ cnode'[n] = NewCNode(opener[t].addr, FALSE)
      BY <1>8, <2>1, NodeAppended, Zenon DEF Dial
    <2>3. ~cnode'[n].grant
      BY <2>2 DEF NewCNode
    <2>4. Taken' = Taken
      BY <2>2, <2>3, Zenon DEF Taken
    <2>5. Becomes(t, "move", n, opener[t].grant)
      BY <1>8, OpenerEffects, Zenon
    <2>6. semOutbound' = semOutbound /\ found' = found
      BY <1>8 DEF Dial
    <2> HIDE DEF n
    <2> QED BY <1>0, <1>p, <1>q, <2>2, <2>3, <2>4, <2>5, <2>6, SlotOpener, Zenon
  <1>9. CASE ReleaseOwnGrant(t)
    <2>1. Becomes(t, "moving", opener[t].pnode, opener[t].grant)
      BY <1>9, OpenerEffects, Zenon
    <2>2. /\ cnode' = cnode /\ found' = found /\ opener[t].pc = "move"
          /\ semOutbound' = semOutbound + IF cnode[opener[t].pnode].grant THEN 1 ELSE 0
      BY <1>9 DEF ReleaseOwnGrant
    <2>3. found = {} => semOutbound' = semOutbound
      BY <1>0, <1>q, <2>2
    <2> QED BY <1>0, <1>1, <1>q, <2>1, <2>2, <2>3, SlotOpener
  <1>10. CASE MoveGrant(t)
    <2> DEFINE k == opener[t].pnode
    <2>1. /\ k \in Node /\ Node' = Node
          /\ \A i \in Node \ {k} : cnode'[i] = cnode[i]
          /\ cnode'[k].grant = opener[t].grant
      BY <1>10, OpenerNodeEffects
    <2>2. Becomes(t, "mark", k, FALSE)
      BY <1>10, OpenerEffects, Zenon
    <2>3. semOutbound' = semOutbound /\ found' = found /\ opener[t].pc = "moving"
      BY <1>10 DEF MoveGrant
    <2>4. found = {} => \A u \in Opener \ {t} : opener[u].pc \in {"move", "moving"} =>
                                                    opener[u].pnode # k
      BY <2>3, ZenonT(30) DEF CountInv, Pointers
    <2>5. found = {} => /\ k \notin Taken
                        /\ Taken' = IF opener[t].grant THEN Taken \cup {k} ELSE Taken
      BY <1>0, <1>q, <2>1, <2>3, ZenonT(30) DEF Taken
    <2>6. found = {} => Cardinality(Taken') = Cardinality(Taken) + IF opener[t].grant THEN 1 ELSE 0
      <3>1. Cardinality(Taken \cup {k}) = IF k \in Taken THEN Cardinality(Taken)
                                                         ELSE Cardinality(Taken) + 1
        BY <1>0, FS_AddElement, Zenon
      <3> HIDE DEF k
      <3>2. CASE opener[t].grant
        BY <2>5, <3>1, <3>2, Zenon
      <3>3. CASE ~opener[t].grant
        BY <1>n, <2>5, <3>3
      <3> QED BY <3>2, <3>3
    <2>7. found = {} => \A u \in Opener \ {t} : opener[u].pc \in {"move", "moving"} =>
                                                    ~cnode'[opener[u].pnode].grant
      BY <1>p, <1>q, <2>1, <2>4, ZenonT(30)
    <2> HIDE DEF k
    <2>8. found = {} => semOutbound' + Cardinality(Taken') + 0
                          = semOutbound + Cardinality(Taken) + IF opener[t].grant THEN 1 ELSE 0
      <3>1. CASE opener[t].grant
        BY <1>n, <2>3, <2>6, <3>1
      <3>2. CASE ~opener[t].grant
        BY <1>n, <2>3, <2>6, <3>2
      <3> QED BY <3>1, <3>2
    <2> QED BY <2>2, <2>3, <2>7, <2>8, SlotOpener, ZenonT(30)
  <1>11. CASE MarkNetworkNode(t)
    <2> DEFINE k == opener[t].pnode
    <2>1. /\ k \in Node /\ Node' = Node
          /\ \A i \in Node \ {k} : cnode'[i] = cnode[i]
          /\ MoveGrant(t) \/ cnode'[k].grant = cnode[k].grant
      BY <1>11, OpenerNodeEffects
    <2>2. ~MoveGrant(t) /\ GiveUp(t) /\ found' = found
      BY <1>11 DEF MarkNetworkNode, MoveGrant
    <2>3. \A i \in Node : cnode'[i].grant = cnode[i].grant
      BY <2>1, <2>2, Zenon
    <2>4. Taken' = Taken
      BY <2>1, <2>3 DEF Taken
    <2> QED BY <1>3, <2>2, <2>3, <2>4, Zenon
  <1> QED BY <1>2, <1>4, <1>5, <1>6, <1>7, <1>8, <1>9, <1>10, <1>11

\* Every step keeps the slots exact.
LEMMA SlotStep ==
  ConnTypes /\ ConnTypes' /\ CountInv /\ SlotInv /\ [ConnNext]_connVars => SlotInv'
  <1> SUFFICES ASSUME ConnTypes, ConnTypes', CountInv, SlotInv, [ConnNext]_connVars PROVE SlotInv'
    OBVIOUS
  <1>1. CASE UNCHANGED connVars
    BY <1>1 DEF connVars, SlotInv, SlotsExact, Node
  <1>2. CASE AssertFails
    <2>1. ConnInit'
      BY <1>2 DEF AssertFails, ConnInit
    <2> QED BY <2>1, SlotInit, PTL
  <1> QED BY <1>1, <1>2, SlotDisconnect, SlotDelete, SlotNodes, SlotStepOpener DEF ConnNext

\* SlotsExact for any number of peers, threads, slots and nodes: as long as no thread
\* found a node with FindNode in ConnectNode, the free slots of semOutbound, the grants
\* of the threads and those of the nodes add up to MAX_OUTBOUND_CONNECTIONS.
THEOREM SlotsExactSafety == ConnSpec => []SlotsExact
  <1>1. ConnInit => ConnTypes /\ CountInv /\ SlotInv
    BY TypesInit, CountInit, SlotInit
  <1>2. ConnTypes /\ CountInv /\ SlotInv /\ [ConnNext]_connVars
          => ConnTypes' /\ CountInv' /\ SlotInv'
    BY TypesStep, CountStep, SlotStep
  <1>3. SlotInv => SlotsExact
    BY DEF SlotInv
  <1> QED BY <1>1, <1>2, <1>3, PTL DEF ConnSpec
=============================================================================
