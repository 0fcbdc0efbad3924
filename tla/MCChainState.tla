---------------------------- MODULE MCChainState ----------------------------
(***************************************************************************)
(* Block trees for ChainState.  Two branches fork at the genesis block g:  *)
(* a1 - a2 and the longer b1 - b2 - b3.  Every block adds one unit of      *)
(* work.                                                                   *)
(***************************************************************************)
EXTENDS ChainState, SequencesExt

CONSTANTS g, a1, a2, b1, b2, b3

TreeParent == [b \in Block \ {g} |->
  CASE b = a1 -> g [] b = a2 -> a1
    [] b = b1 -> g [] b = b2 -> b1 [] b = b3 -> b2]

TreeAncestors == LET anc[b \in Block] ==
                       IF b = g THEN {g} ELSE {b} \cup anc[TreeParent[b]]
                 IN  anc

TreeWork == [b \in Block |-> Cardinality(TreeAncestors[b])]

\* Where the allocator puts the entries: parents first.
ParentsFirst == [b \in Block |->
  CASE b = g -> 0 [] b = a1 -> 1 [] b = b1 -> 2 [] b = a2 -> 3 [] b = b2 -> 4
    [] b = b3 -> 5]

\* And a2's entry below a1's.
ChildFirst == [ParentsFirst EXCEPT ![a1] = 3, ![a2] = 1]

Sorted(addr) == [S \in SUBSET Block |->
  SetToSortSeq(S, LAMBDA a, b : addr[a] < addr[b])]
ByParentsFirst == Sorted(ParentsFirst)
ByChildFirst == Sorted(ChildFirst)
=============================================================================
