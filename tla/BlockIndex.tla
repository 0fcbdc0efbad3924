----------------------------- MODULE BlockIndex -----------------------------
(***************************************************************************)
(* Walking the block tree: the skip pointers of CBlockIndex (main.cpp),    *)
(* CChain (chain.cpp, chain.h) and block locators.                         *)
(*                                                                         *)
(* The tree is a trunk "a" and a branch "b" that leaves it after height    *)
(* `fork'; a block is <<branch, height>>.  A block's skip pointer depends  *)
(* on its ancestors only, so the trunk is made before the branch.          *)
(***************************************************************************)
EXTENDS Integers, Sequences, FiniteSetsExt, Bitwise

CONSTANTS
    Forks,          \* the heights where the branch may leave the trunk
    MaxHeight       \* bound on the height of a block

VARIABLES
    fork,
    height,         \* of the last block of each branch: mapBlockIndex
    pskip,          \* block -> block
    vChain,         \* chainActive, from height 0
    tip             \* the argument of the last SetTip

indexVars == <<fork, height, pskip, vChain, tip>>

Null == <<"null", -1>>

GenesisBlock == <<"a", 0>>

nHeight(b) == b[2]

mapBlockIndex ==
    ({"a"} \X (0 .. height["a"])) \cup ({"b"} \X (fork + 1 .. height["b"]))

pprev(b) ==
    IF nHeight(b) = 0 THEN Null
    ELSE <<IF nHeight(b) = fork + 1 THEN "a" ELSE b[1], nHeight(b) - 1>>

-----------------------------------------------------------------------------
(* The skip list.                                                          *)

InvertLowestOne(n) == n & (n - 1)

GetSkipHeight(h) ==
    IF h < 2 THEN 0
    ELSE IF h % 2 = 1 THEN InvertLowestOne(InvertLowestOne(h - 1)) + 1
    ELSE InvertLowestOne(h)

\* Whether the walk to `target' takes the skip pointer of a block at `walk'.
TakeSkip(walk, target) ==
    LET skip     == GetSkipHeight(walk)
        skipPrev == GetSkipHeight(walk - 1)
    IN  \/ skip = target
        \/ skip > target /\ ~(skipPrev < skip - 2 /\ skipPrev >= target)

RECURSIVE WalkTo(_, _, _)
WalkTo(b, heightWalk, target) ==
    IF heightWalk <= target THEN b
    ELSE IF TakeSkip(heightWalk, target)
    THEN WalkTo(pskip[b], GetSkipHeight(heightWalk), target)
    ELSE WalkTo(pprev(b), heightWalk - 1, target)

GetAncestor(b, target) ==
    IF target > nHeight(b) \/ target < 0 THEN Null ELSE WalkTo(b, nHeight(b), target)

\* The skip height of the parent.
BuildSkipTooFar(b) == GetAncestor(pprev(b), GetSkipHeight(nHeight(pprev(b))))

BuildSkip(b) == GetAncestor(pprev(b), GetSkipHeight(nHeight(b)))

-----------------------------------------------------------------------------
(* CChain.                                                                 *)

At(h) == IF h < 0 \/ h >= Len(vChain) THEN Null ELSE vChain[h + 1]

Height == Len(vChain) - 1

\* CChain::Contains.
InChain(b) == At(nHeight(b)) = b

\* resize, then up to the first block that is in its place already.
RECURSIVE FillFrom(_, _)
FillFrom(chain, b) ==
    IF b = Null \/ chain[nHeight(b) + 1] = b THEN chain
    ELSE FillFrom([chain EXCEPT ![nHeight(b) + 1] = b], pprev(b))

SetTipChain(b) ==
    FillFrom([k \in 1 .. nHeight(b) + 1 |-> IF k <= Len(vChain) THEN vChain[k] ELSE Null], b)

RECURSIVE FirstContained(_)
FirstContained(b) == IF b = Null \/ InChain(b) THEN b ELSE FirstContained(pprev(b))

FindFork(b) == FirstContained(IF nHeight(b) > Height THEN GetAncestor(b, Height) ELSE b)

\* The rest of the locator, from b on, with nStep and what vHave has so far.
RECURSIVE Locate(_, _, _)
Locate(b, nStep, vHave) ==
    LET have == Append(vHave, b)
        h    == IF nHeight(b) - nStep > 0 THEN nHeight(b) - nStep ELSE 0
    IN  IF nHeight(b) = 0 THEN have
        ELSE Locate(IF InChain(b) THEN At(h) ELSE GetAncestor(b, h),
                    IF Len(have) > 10 THEN nStep * 2 ELSE nStep, have)

GetLocator(b) == Locate(b, 1, <<>>)

\* The locator is searched from the genesis block on.
FindForkFromOldest(locator) ==
    LET found == {k \in DOMAIN locator : locator[k] \in mapBlockIndex /\ InChain(locator[k])}
    IN  IF found = {} THEN At(0) ELSE locator[Max(found)]

\* The first block of a locator that is in the chain, else its genesis block.
FindForkInGlobalIndex(locator) ==
    LET found == {k \in DOMAIN locator : locator[k] \in mapBlockIndex /\ InChain(locator[k])}
    IN  IF found = {} THEN At(0) ELSE locator[Min(found)]

\* The two blocks at the same height, then both one block down at a time.
RECURSIVE MeetAt(_, _)
MeetAt(pa, pb) == IF pa = pb \/ Null \in {pa, pb} THEN <<pa, pb>> ELSE MeetAt(pprev(pa), pprev(pb))

LastCommonAncestor(pa, pb) ==
    LET h == IF nHeight(pa) < nHeight(pb) THEN nHeight(pa) ELSE nHeight(pb)
    IN  MeetAt(GetAncestor(pa, h), GetAncestor(pb, h))

-----------------------------------------------------------------------------

IndexInit ==
    /\ fork \in Forks
    /\ height = [a |-> 0, b |-> fork]
    /\ pskip = [x \in {GenesisBlock} |-> Null]
    /\ vChain = <<GenesisBlock>>
    /\ tip = GenesisBlock

\* AddToBlockIndex: pprev, nHeight and BuildSkip.
AddToBlockIndex ==
    /\ \E br \in {"a", "b"} :
         LET b == <<br, height[br] + 1>> IN
           /\ br = "b" => height["a"] = MaxHeight
           /\ nHeight(b) <= MaxHeight
           /\ height' = [height EXCEPT ![br] = nHeight(b)]
           /\ pskip' = [x \in DOMAIN pskip \cup {b} |-> IF x = b THEN BuildSkip(b) ELSE pskip[x]]
    /\ UNCHANGED <<fork, vChain, tip>>

\* UpdateTip, after a block is connected or disconnected, and LoadBlockIndexDB.
SetTip ==
    /\ \E b \in mapBlockIndex : tip' = b /\ vChain' = SetTipChain(b)
    /\ UNCHANGED <<fork, height, pskip>>

IndexNext == AddToBlockIndex \/ SetTip

-----------------------------------------------------------------------------

\* The reference: the ancestor of b at height h, by the shape of the tree.
Ancestor(b, h) == IF b[1] = "b" /\ h <= fork THEN <<"a", h>> ELSE <<b[1], h>>

\* The highest block that two blocks have in common.
Common(b, c) == Ancestor(b, Max({h \in 0 .. nHeight(b) : h <= nHeight(c) /\ Ancestor(b, h) = Ancestor(c, h)}))

Newest == {<<"a", height["a"]>>} \cup
          IF height["b"] > fork THEN {<<"b", height["b"]>>} ELSE {}

\* Skip pointers and the shortcut of SetTip, which stops at the first block in its
\* place, change no answer: GetAncestor is the ancestor at every height, vChain is
\* the path to the tip, FindFork and LastCommonAncestor find the last common block,
\* and the assertion of LastCommonAncestor holds.
WalksExact ==
    /\ \A b \in Newest : \A h \in 0 .. nHeight(b) : GetAncestor(b, h) = Ancestor(b, h)
    /\ vChain = [k \in 1 .. nHeight(tip) + 1 |-> Ancestor(tip, k - 1)]
    /\ \A b \in Newest :
         /\ FindFork(b) = Common(b, tip)
         /\ LastCommonAncestor(b, tip) = <<Common(b, tip), Common(b, tip)>>

\* A locator leads a node with another active chain to a common block, and to one
\* that is not much too old: at most twice as far back as the fork is.
LocatorNearFork ==
    \A b \in Newest :
        LET found == FindForkInGlobalIndex(GetLocator(b))
            best  == Common(b, tip)
        IN  /\ found = Ancestor(best, nHeight(found)) /\ nHeight(found) <= nHeight(best)
            /\ nHeight(b) - nHeight(found) <= 2 * (nHeight(b) - nHeight(best))

=============================================================================
