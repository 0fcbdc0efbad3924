------------------------------- MODULE Merkle -------------------------------
(***************************************************************************)
(* The Merkle tree of a block and the three uses made of it: the root in   *)
(* the header (CBlock::BuildMerkleTree), the branch a wallet transaction   *)
(* keeps (GetMerkleBranch and CheckMerkleBranch), and the partial tree of  *)
(* a merkleblock message (CPartialMerkleTree).                             *)
(*                                                                         *)
(* The hash function is free of collisions: the hash of two hashes is the  *)
(* pair, a transaction id is a 1-tuple, and the hash 0 is the empty tuple. *)
(* Sequences start at 1, positions in the tree at 0, as in the code.       *)
(***************************************************************************)
EXTENDS Integers, Sequences, SequencesExt

CONSTANTS
    TxLists,            \* the transaction ids of a block, in order
    MaxTransactions     \* MAX_BLOCK_SIZE / 60

VARIABLES
    vtx,                \* the transactions of a block
    checked,            \* CheckBlock accepted its tree
    wire,               \* the partial tree of a merkleblock message on its way
    vMatch,             \* the positions the filter matched
    extracted           \* what ExtractMatches returned, with its vMatch: at most one

merkleVars == <<vtx, checked, wire, vMatch, extracted>>

NoMessage == [nTransactions |-> 0, vHash |-> <<>>, vBytes |-> <<>>]

NoResult == [hash |-> <<>>, vMatch |-> <<>>]

Hash(left, right) == <<left, right>>

NullHash == <<>>

MinOf(a, b) == IF a < b THEN a ELSE b

-----------------------------------------------------------------------------
(* primitives/block.cpp                                                    *)

\* One round of the outer loop: the level above `level'.
LevelAbove(level) ==
    [k \in 1 .. (Len(level) + 1) \div 2 |->
        Hash(level[2 * k - 1], level[MinOf(2 * k, Len(level))])]

\* The number of rounds: nSize, from n on, becomes (nSize + 1) / 2 until it is 1.
Rounds[n \in Nat] == IF n <= 1 THEN 0 ELSE 1 + Rounds[(n + 1) \div 2]

\* vMerkleTree, level by level.
Levels(txs) ==
    LET level[k \in 0 .. Rounds[Len(txs)]] == IF k = 0 THEN txs ELSE LevelAbove(level[k - 1])
    IN  [k \in 1 .. Rounds[Len(txs)] + 1 |-> level[k - 1]]

\* Two identical hashes at the end of a level, which has an even size.
EndsInPair(level) ==
    LET nSize == Len(level) IN
      nSize > 1 /\ nSize % 2 = 0 /\ level[nSize - 1] = level[nSize]

\* Repetitions are looked for among the transactions only.
MutatedAtLeaves(txs) == [root |-> Last(Levels(txs))[1], mutated |-> EndsInPair(txs)]

BuildMerkleTree(txs) ==
    LET levels == Levels(txs)
    IN  [root    |-> Last(levels)[1],
         mutated |-> \E k \in DOMAIN levels : EndsInPair(levels[k])]

\* Every list with its tree.
Trees == {<<txs, BuildMerkleTree(txs)>> : txs \in TxLists}

\* At each level below the root, the neighbour of the node on the path.
GetMerkleBranch(txs, nIndex) ==
    LET levels == Levels(txs)
    IN  [k \in 1 .. Len(levels) - 1 |->
           LET i == nIndex \div 2 ^ (k - 1)
               neighbour == IF i % 2 = 0 THEN i + 1 ELSE i - 1
           IN  levels[k][MinOf(neighbour, Len(levels[k]) - 1) + 1]]

RECURSIVE CheckMerkleBranch(_, _, _)
CheckMerkleBranch(hash, branch, nIndex) ==
    IF nIndex = -1 THEN NullHash
    ELSE IF branch = <<>> THEN hash
    ELSE CheckMerkleBranch(IF nIndex % 2 = 1 THEN Hash(Head(branch), hash)
                                             ELSE Hash(hash, Head(branch)),
                           Tail(branch), nIndex \div 2)

-----------------------------------------------------------------------------
(* merkleblock.cpp                                                         *)

\* The number of nodes at a height, and the first height with one node.
CalcTreeWidth(n, height) == (n + 2 ^ height - 1) \div 2 ^ height

TreeHeight(n) == CHOOSE h \in 0 .. n :
    CalcTreeWidth(n, h) <= 1 /\ \A g \in 0 .. h - 1 : CalcTreeWidth(n, g) > 1

RECURSIVE CalcHash(_, _, _)
CalcHash(height, pos, vTxid) ==
    IF height = 0 THEN vTxid[pos + 1]
    ELSE LET left  == CalcHash(height - 1, pos * 2, vTxid)
             right == IF pos * 2 + 1 < CalcTreeWidth(Len(vTxid), height - 1)
                      THEN CalcHash(height - 1, pos * 2 + 1, vTxid) ELSE left
         IN  Hash(left, right)

\* What TraverseAndBuild pushes on vBits and vHash.
RECURSIVE TraverseAndBuild(_, _, _, _)
TraverseAndBuild(height, pos, vTxid, match) ==
    LET fParentOfMatch == \E p \in match : pos * 2 ^ height <= p /\ p < (pos + 1) * 2 ^ height
    IN  IF height = 0 \/ ~fParentOfMatch
        THEN [vBits |-> <<fParentOfMatch>>, vHash |-> <<CalcHash(height, pos, vTxid)>>]
        ELSE LET left  == TraverseAndBuild(height - 1, pos * 2, vTxid, match)
                 right == IF pos * 2 + 1 < CalcTreeWidth(Len(vTxid), height - 1)
                          THEN TraverseAndBuild(height - 1, pos * 2 + 1, vTxid, match)
                          ELSE [vBits |-> <<>>, vHash |-> <<>>]
             IN  [vBits |-> <<TRUE>> \o left.vBits \o right.vBits,
                  vHash |-> left.vHash \o right.vHash]

\* The reader's state, in st, and the hash of the node.
RECURSIVE TraverseAndExtract(_, _, _, _)
TraverseAndExtract(height, pos, tree, st) ==
    IF st.nBitsUsed >= Len(tree.vBits) THEN [st EXCEPT !.fBad = TRUE, !.hash = NullHash]
    ELSE LET fParentOfMatch == tree.vBits[st.nBitsUsed + 1]
             bit == [st EXCEPT !.nBitsUsed = @ + 1]
         IN  IF height = 0 \/ ~fParentOfMatch
             THEN IF bit.nHashUsed >= Len(tree.vHash) THEN [bit EXCEPT !.fBad = TRUE, !.hash = NullHash]
                  ELSE LET hash == tree.vHash[bit.nHashUsed + 1]
                       IN  [bit EXCEPT !.nHashUsed = @ + 1, !.hash = hash,
                              !.vMatch = IF height = 0 /\ fParentOfMatch THEN Append(@, hash) ELSE @]
             ELSE LET left == TraverseAndExtract(height - 1, pos * 2, tree, bit)
                      right == IF pos * 2 + 1 < CalcTreeWidth(tree.nTransactions, height - 1)
                               THEN TraverseAndExtract(height - 1, pos * 2 + 1, tree, left)
                               ELSE left
                  IN  [right EXCEPT !.hash = Hash(left.hash, right.hash)]

\* The first bit is the most significant one.
PackHighFirst(vBits) ==
    [k \in 1 .. (Len(vBits) + 7) \div 8 |->
        SumFunction([p \in 8 * (k - 1) + 1 .. MinOf(8 * k, Len(vBits)) |->
            IF vBits[p] THEN 2 ^ (7 - ((p - 1) % 8)) ELSE 0])]

\* SerializationOp: eight bits to a byte, the first one least significant.
PackBits(vBits) ==
    [k \in 1 .. (Len(vBits) + 7) \div 8 |->
        SumFunction([p \in 8 * (k - 1) + 1 .. MinOf(8 * k, Len(vBits)) |->
            IF vBits[p] THEN 2 ^ ((p - 1) % 8) ELSE 0])]

UnpackBits(vBytes) ==
    [p \in 1 .. 8 * Len(vBytes) |->
        (vBytes[(p - 1) \div 8 + 1] \div 2 ^ ((p - 1) % 8)) % 2 = 1]

\* ExtractMatches with its early returns.
ExtractMatches(tree) ==
    IF \/ tree.nTransactions = 0
       \/ tree.nTransactions > MaxTransactions
       \/ Len(tree.vHash) > tree.nTransactions
       \/ Len(tree.vBits) < Len(tree.vHash)
    THEN NoResult
    ELSE LET end == TraverseAndExtract(TreeHeight(tree.nTransactions), 0, tree,
                      [nBitsUsed |-> 0, nHashUsed |-> 0, vMatch |-> <<>>, fBad |-> FALSE, hash |-> NullHash])
         IN  IF \/ end.fBad
                \/ (end.nBitsUsed + 7) \div 8 # (Len(tree.vBits) + 7) \div 8
                \/ end.nHashUsed # Len(tree.vHash)
             THEN [hash |-> NullHash, vMatch |-> end.vMatch]
             ELSE [hash |-> end.hash, vMatch |-> end.vMatch]

-----------------------------------------------------------------------------

MerkleInit ==
    /\ vtx \in TxLists
    /\ checked = FALSE
    /\ wire = NoMessage
    /\ vMatch = {}
    /\ extracted = {}

\* CheckBlock of a block whose header has the right root: a mutated one is refused.
CheckBlock ==
    /\ checked' = ~BuildMerkleTree(vtx).mutated
    /\ UNCHANGED <<vtx, wire, vMatch, extracted>>

\* The CMerkleBlock, serialized, of a block of the chain (its transactions differ)
\* for a filter that matches any of them.
SendMerkleBlock ==
    /\ checked
    /\ wire = NoMessage
    /\ IsInjective(vtx)
    /\ \E match \in SUBSET (0 .. Len(vtx) - 1) :
         LET tree == TraverseAndBuild(TreeHeight(Len(vtx)), 0, vtx, match)
         IN  /\ vMatch' = match
             /\ wire' = [nTransactions |-> Len(vtx), vHash |-> tree.vHash, vBytes |-> PackBits(tree.vBits)]
    /\ UNCHANGED <<vtx, checked, extracted>>

\* The other side reads the message and extracts the matches.
ReadMerkleBlock ==
    /\ wire # NoMessage
    /\ extracted' = {ExtractMatches([nTransactions |-> wire.nTransactions, vHash |-> wire.vHash,
                                     vBits |-> UnpackBits(wire.vBytes)])}
    /\ UNCHANGED <<vtx, checked, wire, vMatch>>

MerkleNext == CheckBlock \/ SendMerkleBlock \/ ReadMerkleBlock

-----------------------------------------------------------------------------

\* The three algorithms agree on the tree.  What a light client extracts from a
\* merkleblock message is the root that BuildMerkleTree puts in the header and
\* exactly the matched transactions in block order; and the branch of every
\* transaction leads CheckMerkleBranch to the same root.
MerkleProofsExact ==
    LET root    == BuildMerkleTree(vtx).root
        matched == SelectSeq([k \in DOMAIN vtx |-> k], LAMBDA k : k - 1 \in vMatch)
    IN
      /\ \A result \in extracted :
           /\ result.hash = root
           /\ result.vMatch = [k \in DOMAIN matched |-> vtx[matched[k]]]
      /\ \A i \in 0 .. Len(vtx) - 1 :
           CheckMerkleBranch(vtx[i + 1], GetMerkleBranch(vtx, i), i) = root

\* "This will detect all known ways of changing the transactions without affecting
\* the merkle root" (BuildMerkleTree): of all lists of transactions with the root of
\* a block that CheckBlock accepts, it accepts no other.
RootIdentifiesBlock ==
    checked => LET root == BuildMerkleTree(vtx).root IN
        \A other \in Trees : other[2].root = root => other[1] = vtx \/ other[2].mutated

=============================================================================
