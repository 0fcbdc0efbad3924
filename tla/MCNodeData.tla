----------------------------- MODULE MCNodeData -----------------------------
(***************************************************************************)
(* Small instances of four components that share no state: the address     *)
(* manager, the keys of the wallet, the walks over the block index and the *)
(* Merkle trees.  `focus' is the component of a behaviour; it is chosen in *)
(* the initial state, and the others stay as they are.                     *)
(***************************************************************************)
EXTENDS MCAddrMan, MCWalletKeys, BlockIndex, Merkle

VARIABLE focus

Ids == [k \in 1 .. 9 |-> <<k>>]

\* Every number of different transactions up to nine, every list over two ids up
\* to eight and over three ids up to four.
MCTxLists == {SubSeq(Ids, 1, n) : n \in 1 .. 9}
                \cup UNION {[1 .. n -> {<<1>>, <<2>>}] : n \in 1 .. 8}
                \cup UNION {[1 .. n -> {<<1>>, <<2>>, <<3>>}] : n \in 1 .. 4}

Init ==
    /\ focus \in {"addrman", "wallet", "index", "merkle"}
    /\ AddrInit /\ WalletInit /\ IndexInit /\ MerkleInit
    /\ focus # "index" => fork = Min(Forks)
    /\ focus # "merkle" => vtx = SubSeq(Ids, 1, 1)

Next ==
    /\ UNCHANGED focus
    /\ \/ focus = "addrman" /\ AddrNext /\ UNCHANGED <<walletVars, indexVars, merkleVars>>
       \/ focus = "wallet" /\ WalletNext /\ UNCHANGED <<addrVars, indexVars, merkleVars>>
       \/ focus = "index" /\ IndexNext /\ UNCHANGED <<addrVars, walletVars, merkleVars>>
       \/ focus = "merkle" /\ MerkleNext /\ UNCHANGED <<addrVars, walletVars, indexVars>>

Spec == Init /\ [][Next]_<<focus, addrVars, walletVars, indexVars, merkleVars>>
=============================================================================
