-------------------------- MODULE ChainStateProofs --------------------------
(***************************************************************************)
(* What ChainState guarantees in every reachable state, for every block    *)
(* tree, every set of threads and every bound on crashes, flushes and      *)
(* operator commands.                                                      *)
(*                                                                         *)
(* A crash keeps the invariant of ChainStateExact because of what the disk *)
(* says.  Without invalidateblock a failure flag, in memory or on disk, is *)
(* on a block that is unsound or descends from one, and undo data only on  *)
(* sound ones (SoundInv).  When parents are written before their children, *)
(* the disk has with every failure flag its cause and the data of the      *)
(* ancestors (TornInv).                                                    *)
(***************************************************************************)
EXTENDS ChainStateExactSteps, TLAPS

SoundFlags(s, b) ==
  /\ s[b] # {} => "TREE" \in s[b]
  /\ "HAVE_DATA" \in s[b] => "TRANSACTIONS" \in s[b] /\ b \notin Malformed
  /\ "HAVE_UNDO" \in s[b] => "SCRIPTS" \in s[b] /\ Sound(b)
  /\ Failed(s, b) => ~Sound(b)

SoundInv ==
  /\ \A b \in Block : SoundFlags(nStatus, b) /\ SoundFlags(diskStatus, b)
  /\ \A t \in Thread : ~Doing(t, "invalidate")

DiskInvalid(b) == \E a \in Ancestors[b] : "FAILED_VALID" \in diskStatus[a]
DiskComplete(b) == \A a \in Ancestors[b] : "HAVE_DATA" \in diskStatus[a]

\* FindMostWorkChain does not mark what it flags FAILED_CHILD as dirty.
TornInv ==
  /\ \A b \in Block : diskStatus[b] \subseteq nStatus[b]
  /\ \A b \in Block \ dirty : nStatus[b] \ {"FAILED_CHILD"} \subseteq diskStatus[b]
  /\ \A b \in Block : Failed(diskStatus, b) =>
       /\ DiskInvalid(b)
       /\ "HAVE_DATA" \in diskStatus[b] => DiskComplete(b)

\* No operator has intervened, and parents are written first.
Untouched == used["reconsider"] = 0 /\ used["invalidate"] = 0 /\ ParentsLower

FullInv ==
  /\ IInv /\ ExactInv
  /\ used["invalidate"] = 0 => SoundInv
  /\ Untouched => TornInv
-----------------------------------------------------------------------------
\* Soundness is inherited by ancestors.
LEMMA SoundBelow ==
  ASSUME NEW b \in Block, NEW a \in Ancestors[b], Sound(b)
  PROVE  a \in Block /\ Sound(a) /\ a \notin Malformed /\ a \notin Unconnectable
<1>1. a \in Block /\ Ancestors[a] \subseteq Ancestors[b] /\ a \in Ancestors[a]
  BY Tree, TreeAssumption
<1>. QED BY <1>1 DEF Sound

\* Flags that are added keep a block's flags sound, if they are sound.
LEMMA SoundAdd ==
  ASSUME NEW s, NEW r, NEW b, NEW F, SoundFlags(s, b), r[b] = s[b] \cup F,
         "TREE" \in r[b],
         "HAVE_DATA" \in F => "TRANSACTIONS" \in F /\ b \notin Malformed,
         "HAVE_UNDO" \in F => "SCRIPTS" \in F /\ Sound(b),
         F \cap FAILED_MASK # {} => ~Sound(b)
  PROVE  SoundFlags(r, b)
<1>1. Failed(r, b) => Failed(s, b) \/ F \cap FAILED_MASK # {}
  BY DEF Failed
<1>. QED BY <1>1 DEF SoundFlags

\* Flags that stay, stay sound.
LEMMA SoundSame ==
  ASSUME NEW s, NEW r, NEW b, SoundFlags(s, b), r[b] = s[b]
  PROVE  SoundFlags(r, b)
  BY DEF SoundFlags, Failed

\* Only invalidateblock puts a thread into InvalidateBlock.
LEMMA NobodyInvalidates ==
  ASSUME IInv, \A x \in Thread : ~Doing(x, "invalidate"),
         NEW t \in Thread, ThreadStep(t) \/ Call(t),
         used'["invalidate"] = used["invalidate"]
  PROVE  /\ \A x \in Thread : ~Doing(x, "invalidate")'
         /\ \A b \in Block : ~InvalidateBlock(t, b)
         /\ ~InvalidateTip(t) /\ ~InvalidateDone(t)
<1>0. TypeOK /\ LockInv
  BY DEF IInv
<1>1. ~InvalidateTip(t) /\ ~InvalidateDone(t)
  BY Zenon DEF InvalidateTip, InvalidateDone, Doing
<1>2. \A b \in Block : ~InvalidateBlock(t, b)
  <2>1. used \in [{"invalidate", "reconsider", "flush", "crash"} -> Nat]
    BY <1>0 DEF TypeOK
  <2>2. used' # [used EXCEPT !["invalidate"] = @ + 1]
    BY <2>1
  <2>. QED BY <2>2, Zenon DEF InvalidateBlock
<1>3. CASE Move(t)
  <2>1. /\ \A x \in Thread \ {t} : pc'[x] = pc[x] /\ ret'[x] = ret[x]
        /\ Doing(t, "invalidate")' <=> Doing(t, "invalidate")
    BY <1>3, MoveEffect DEF Still
  <2>. QED BY <1>1, <1>2, <2>1 DEF Doing
<1>4. CASE DisconnectTip(t) \/ ConnectTip(t)
  <2>1. PICK next \in {"step", "loop"}, keep \in BOOLEAN : FlushStateToDisk(t, next, keep)
    BY <1>4, Zenon DEF DisconnectTip, ConnectTip
  <2>2. pc[t] = "step"
    BY <1>4, Zenon DEF DisconnectTip, ConnectTip
  <2>3. \A x \in Thread : Doing(x, "invalidate")' <=> x = t /\ next = "invalidate"
    BY <2>1, <2>2, StepThreads
  <2>. QED BY <1>1, <1>2, <2>1, <2>3
<1>5. ASSUME ret' = ret, NEW to \in {"idle", "link", "activate", "find", "step", "loop"},
             pc' = pc \/ pc' = [pc EXCEPT ![t] = to]
      PROVE  \A x \in Thread : ~Doing(x, "invalidate")'
  BY <1>0, <1>5 DEF Doing, TypeOK
<1>6. CASE LinkBlock(t) \/ DropFailedChain(t) \/ BeginStep(t) \/ ConnectTipFails(t)
  BY <1>1, <1>2, <1>5, <1>6, Zenon DEF LinkBlock, DropFailedChain, BeginStep, ConnectTipFails
<1>7. CASE \/ \E b \in Block \ {Genesis} :
                ProcessHeader(t, b) \/ RejectBlock(t, b) \/ ReceiveBlock(t, b)
           \/ \E b \in Block : ReconsiderBlock(t, b)
  BY <1>1, <1>2, <1>5, <1>7 DEF ProcessHeader, RejectBlock, ReceiveBlock, ReconsiderBlock
<1>. QED BY <1>1, <1>2, <1>3, <1>4, <1>6, <1>7 DEF ThreadStep, Call, Move

\* Block x only gets flags, and any but FAILED_CHILD makes it dirty.
Grows(x) == /\ nStatus[x] \subseteq nStatus'[x]
            /\ x \notin dirty' =>
                 x \notin dirty /\ nStatus'[x] \ {"FAILED_CHILD"} \subseteq nStatus[x]

\* What a step other than a write does to the flags: it leaves the disk alone,
\* keeps them sound, and only adds some, unless it is reconsiderblock.
LEMMA FlagsEffect ==
  ASSUME IInv, ExactInv, SoundInv, NEW t \in Thread, ThreadStep(t) \/ Call(t),
         ~WriteBlockIndex(t), used'["invalidate"] = used["invalidate"]
  PROVE  /\ diskStatus' = diskStatus
         /\ \A x \in Block : SoundFlags(nStatus', x)
         /\ used'["reconsider"] = used["reconsider"] => \A x \in Block : Grows(x)
<1>0. TypeOK /\ LinkInv /\ DiskInv
  BY DEF IInv
<1>1. \A x \in Block : SoundFlags(nStatus, x)
  BY DEF SoundInv
<1>2. CASE nStatus' = nStatus /\ dirty' = dirty /\ diskStatus' = diskStatus
  BY <1>1, <1>2 DEF Grows
<1>3. ASSUME NEW b \in Block \ {Genesis}, ProcessHeader(t, b)
      PROVE  /\ diskStatus' = diskStatus
             /\ \A x \in Block : SoundFlags(nStatus', x) /\ Grows(x)
  <2>1. /\ \A x \in Block : nStatus'[x] = IF x = b THEN nStatus[x] \cup {"TREE"} ELSE nStatus[x]
        /\ dirty' = dirty \cup {b} /\ diskStatus' = diskStatus
    BY <1>0, <1>3, Zenon DEF ProcessHeader, WithHeader, disk, TypeOK
  <2>2. \A x \in Block : SoundFlags(nStatus', x)
    <3>1. "TREE" \in nStatus'[b] /\ {"TREE"} \cap FAILED_MASK = {}
      BY <1>1, <2>1, Zenon DEF SoundFlags, FAILED_MASK
    <3>2. SoundFlags(nStatus', b)
      BY <1>1, <2>1, <3>1, SoundAdd, Zenon
    <3>. QED BY <1>1, <2>1, <3>2, SoundSame, Zenon
  <2>. QED BY <2>1, <2>2, Zenon DEF Grows
<1>4. ASSUME NEW b \in Block \ {Genesis}, RejectBlock(t, b)
      PROVE  /\ diskStatus' = diskStatus
             /\ \A x \in Block : SoundFlags(nStatus', x) /\ Grows(x)
  <2>1. WithHeader(b) \in [Block -> SUBSET Flag] /\ WithHeader(b)[b] = nStatus[b] \cup {"TREE"}
        /\ \A x \in Block \ {b} : WithHeader(b)[x] = nStatus[x]
    BY <1>0 DEF WithHeader, TypeOK, Flag
  <2>2. /\ \A x \in Block : nStatus'[x] = IF x = b THEN nStatus[x] \cup {"TREE", "FAILED_VALID"}
                                                   ELSE nStatus[x]
        /\ dirty' = dirty \cup {b} /\ diskStatus' = diskStatus
    BY <1>4, <2>1 DEF RejectBlock, disk
  <2>3. ~Sound(b)
    BY <1>4, Tree DEF RejectBlock, Sound
  <2>4. \A x \in Block : SoundFlags(nStatus', x)
    <3>1. "TREE" \in nStatus'[b] /\ {"TREE", "FAILED_VALID"} \cap FAILED_MASK # {}
      BY <1>1, <2>2, <2>3, Zenon DEF SoundFlags, FAILED_MASK
    <3>2. SoundFlags(nStatus', b)
      BY <1>1, <2>2, <2>3, <3>1, SoundAdd, Zenon
    <3>. QED BY <1>1, <2>2, <2>3, <3>2, SoundSame, Zenon
  <2>. QED BY <2>2, <2>4, Zenon DEF Grows
<1>5. ASSUME NEW b \in Block \ {Genesis}, ReceiveBlock(t, b)
      PROVE  /\ diskStatus' = diskStatus
             /\ \A x \in Block : SoundFlags(nStatus', x) /\ Grows(x)
  <2>1. WithHeader(b) \in [Block -> SUBSET Flag] /\ WithHeader(b)[b] = nStatus[b] \cup {"TREE"}
        /\ \A x \in Block \ {b} : WithHeader(b)[x] = nStatus[x]
    BY <1>0 DEF WithHeader, TypeOK, Flag
  <2>2. /\ \A x \in Block : nStatus'[x] =
             IF x = b THEN nStatus[x] \cup {"TREE", "TRANSACTIONS", "HAVE_DATA"} ELSE nStatus[x]
        /\ dirty' = dirty \cup {b} /\ diskStatus' = diskStatus /\ b \notin Malformed
    BY <1>5, <2>1, Zenon DEF ReceiveBlock, disk
  <2>3. \A x \in Block : SoundFlags(nStatus', x)
    <3>1. "TREE" \in nStatus'[b] /\ {"TREE", "TRANSACTIONS", "HAVE_DATA"} \cap FAILED_MASK = {}
      BY <1>1, <2>2, Zenon DEF SoundFlags, FAILED_MASK
    <3>2. SoundFlags(nStatus', b)
      BY <1>1, <2>2, <3>1, SoundAdd, Zenon
    <3>. QED BY <1>1, <2>2, <3>2, SoundSame, Zenon
  <2>. QED BY <2>2, <2>3, Zenon DEF Grows
<1>6. CASE DropFailedChain(t)
  <2>1. PICK test \in Path, marked \in SUBSET Path :
           /\ Failed(nStatus, test)
           /\ \A b \in marked : test \in Ancestors[b]
           /\ nStatus' = [b \in Block |-> IF b \in marked
                            THEN nStatus[b] \cup {"FAILED_CHILD"} ELSE nStatus[b]]
           /\ Path \subseteq linked \ Active
    BY <1>6, DropEffect
  <2>2. marked \subseteq Block /\ test \in Block /\ ~Sound(test)
    BY <1>0, <1>1, <2>1 DEF TypeOK, SoundFlags
  <2>3. \A x \in marked : ~Sound(x) /\ nStatus[x] # {}
    BY <1>0, <2>1, <2>2, SoundBelow DEF LinkInv, HasData
  <2>4. \A x \in Block : SoundFlags(nStatus', x)
    BY <1>1, <2>1, <2>3 DEF SoundFlags, Failed
  <2>5. dirty' = dirty /\ diskStatus' = diskStatus
    BY <1>6 DEF DropFailedChain, disk
  <2>. QED BY <2>1, <2>4, <2>5 DEF Grows
<1>7. CASE ConnectTip(t)
  <2>1. PICK b : b = NextBlock(t)
    OBVIOUS
  <2>2. /\ nStatus' = [nStatus EXCEPT ![b] = @ \cup ConnectFlags] /\ b \notin Unconnectable
        /\ dirty' = (IF nStatus' = nStatus THEN dirty ELSE dirty \cup {b})
        /\ diskStatus' = diskStatus /\ pc[t] = "step" /\ tip \in Ancestors[mostWork[t]]
    BY <1>7, <2>1 DEF ConnectTip, disk
  <2>3. b \in Block \ {Genesis} /\ HasData(b) /\ Parent[b] = tip /\ tip \in Block
    BY <2>1, <2>2, StepFacts
  <2>4. Sound(tip)
    <3>1. CASE tip = Genesis
      BY <3>1, BlockAssumption, TreeAssumption DEF Sound
    <3>2. CASE tip # Genesis
      <4>1. "HAVE_UNDO" \in nStatus[tip]
        BY <1>0, <2>3, <3>2, Tree DEF DiskInv, Active, Kept
      <4>. QED BY <1>1, <2>3, <4>1 DEF SoundFlags
    <3>. QED BY <3>1, <3>2
  <2>5. Sound(b) /\ nStatus[b] # {}
    BY <1>1, <2>2, <2>3, <2>4, Tree DEF Sound, SoundFlags, HasData
  <2>6. \A x \in Block : nStatus'[x] = IF x = b THEN nStatus[x] \cup {"SCRIPTS", "HAVE_UNDO"}
                                                ELSE nStatus[x]
    BY <1>0, <2>2, Zenon DEF TypeOK, ConnectFlags
  <2>7. \A x \in Block : SoundFlags(nStatus', x)
    <3>1. "TREE" \in nStatus'[b] /\ {"SCRIPTS", "HAVE_UNDO"} \cap FAILED_MASK = {}
      BY <1>1, <2>3, <2>5, <2>6, Zenon DEF SoundFlags, FAILED_MASK
    <3>2. SoundFlags(nStatus', b)
      BY <1>1, <2>3, <2>5, <2>6, <3>1, SoundAdd, Zenon
    <3>. QED BY <1>1, <2>3, <2>5, <2>6, <3>2, SoundSame, Zenon
  <2>8. diskStatus' = diskStatus /\ (dirty' = dirty \cup {b} \/ (dirty' = dirty /\ nStatus' = nStatus))
    BY <2>2
  <2>. QED BY <2>6, <2>7, <2>8, Zenon DEF Grows
<1>8. CASE ConnectTipFails(t)
  <2>1. PICK b : b = NextBlock(t)
    OBVIOUS
  <2>2. /\ nStatus' = [nStatus EXCEPT ![b] = @ \cup {"FAILED_VALID"}] /\ b \in Unconnectable
        /\ dirty' = dirty \cup {b} /\ diskStatus' = diskStatus
        /\ pc[t] = "step" /\ tip \in Ancestors[mostWork[t]]
    BY <1>8, <2>1 DEF ConnectTipFails, disk
  <2>3. b \in Block /\ HasData(b)
    BY <2>1, <2>2, StepFacts
  <2>4. ~Sound(b) /\ nStatus[b] # {}
    BY <2>2, <2>3, Tree DEF Sound, HasData
  <2>5. \A x \in Block : nStatus'[x] = IF x = b THEN nStatus[x] \cup {"FAILED_VALID"}
                                                ELSE nStatus[x]
    BY <1>0, <2>2, Zenon DEF TypeOK
  <2>6. \A x \in Block : SoundFlags(nStatus', x)
    <3>1. "TREE" \in nStatus'[b] /\ {"FAILED_VALID"} \cap FAILED_MASK # {}
      BY <1>1, <2>3, <2>4, <2>5, Zenon DEF SoundFlags, FAILED_MASK
    <3>2. SoundFlags(nStatus', b)
      BY <1>1, <2>3, <2>4, <2>5, <3>1, SoundAdd, Zenon
    <3>. QED BY <1>1, <2>3, <2>4, <2>5, <3>2, SoundSame, Zenon
  <2>7. diskStatus' = diskStatus /\ dirty' = dirty \cup {b}
    BY <2>2
  <2>. QED BY <2>5, <2>6, <2>7, Zenon DEF Grows
<1>9. ASSUME NEW b \in Block, ReconsiderBlock(t, b)
      PROVE  /\ diskStatus' = diskStatus /\ used'["reconsider"] # used["reconsider"]
             /\ \A x \in Block : SoundFlags(nStatus', x)
  <2>1. /\ \A x \in Block : nStatus'[x] \in {nStatus[x], nStatus[x] \ FAILED_MASK}
        /\ diskStatus' = diskStatus
    BY <1>9 DEF ReconsiderBlock, disk
  <2>2. used'["reconsider"] # used["reconsider"]
    BY <1>0, <1>9 DEF ReconsiderBlock, TypeOK
  <2>3. \A x \in Block : SoundFlags(nStatus', x)
    BY <1>1, <2>1 DEF SoundFlags, Failed, FAILED_MASK
  <2>. QED BY <2>1, <2>2, <2>3
<1>10. CASE \/ LinkBlock(t) \/ BeginStep(t) \/ DisconnectTip(t) \/ NothingToDo(t)
            \/ LoopCondition(t) \/ EndActivate(t) \/ FlushCoins(t) \/ FlushAlways(t)
            \/ \E b \in Block : AcceptDuplicate(t, b) \/ RefuseHeader(t, b)
  <2>1. nStatus' = nStatus /\ dirty' = dirty /\ diskStatus' = diskStatus
    BY <1>10, Zenon DEF LinkBlock, BeginStep, DisconnectTip, NothingToDo, LoopCondition, EndActivate,
       FlushCoins, FlushAlways, AcceptDuplicate, RefuseHeader, vars, index, disk
  <2>. QED BY <1>2, <2>1
<1>11. /\ \A b \in Block : ~InvalidateBlock(t, b)
       /\ ~InvalidateTip(t) /\ ~InvalidateDone(t)
  BY NobodyInvalidates DEF SoundInv
<1>. QED BY <1>3, <1>4, <1>5, <1>6, <1>7, <1>8, <1>9, <1>10, <1>11 DEF ThreadStep, Call

\* Flags stay sound, in memory and on disk.
LEMMA SoundStep ==
  ASSUME IInv, ExactInv, SoundInv, NEW t \in Thread, ThreadStep(t) \/ Call(t),
         used'["invalidate"] = used["invalidate"]
  PROVE  SoundInv'
<1>1. \A x \in Thread : ~Doing(x, "invalidate")'
  BY NobodyInvalidates DEF SoundInv
<1>2. CASE ~WriteBlockIndex(t)
  <2>1. diskStatus' = diskStatus /\ \A x \in Block : SoundFlags(nStatus', x)
    BY <1>2, FlagsEffect
  <2>. QED BY <1>1, <2>1 DEF SoundInv
<1>3. CASE WriteBlockIndex(t)
  <2>1. nStatus' = nStatus /\ \A x \in Block : diskStatus'[x] \in {diskStatus[x], nStatus[x]}
    <3>1. PICK b : diskStatus' = [diskStatus EXCEPT ![b] = nStatus[b]]
      BY <1>3, Zenon DEF WriteBlockIndex
    <3>2. nStatus' = nStatus /\ diskStatus \in [Block -> SUBSET Flag]
      BY <1>3 DEF WriteBlockIndex, index, IInv, TypeOK
    <3>. QED BY <3>1, <3>2
  <2>2. \A x \in Block : SoundFlags(diskStatus', x)
    BY <2>1, SoundSame DEF SoundInv
  <2>. QED BY <1>1, <2>1, <2>2 DEF SoundInv
<1>. QED BY <1>2, <1>3

\* Where parents lie lower than their children, so do all ancestors.
LEMMA AncestorLower ==
  ASSUME ParentsLower, NEW b \in Block, NEW a \in Ancestors[b], a # b
  PROVE  a \in Block /\ Addr[a] < Addr[b]
<1>. DEFINE Bad(x) == \E y \in Ancestors[x] : y # x /\ ~(Addr[y] < Addr[x])
            W == {ChainWork[x] : x \in {x \in Block : Bad(x)}}
<1>1. ASSUME W # {} PROVE FALSE
  <2>1. W \in SUBSET Nat
    BY Tree
  <2>2. PICK w \in W : \A v \in W : w <= v
    <3>. HIDE DEF W
    <3>. QED BY <1>1, <2>1, NatMin
  <2>3. PICK x \in Block : Bad(x) /\ w = ChainWork[x]
    OBVIOUS
  <2>4. PICK y \in Ancestors[x] : y # x /\ ~(Addr[y] < Addr[x])
    BY <2>3
  <2>5. x # Genesis /\ y \in Block
    BY <2>4, Tree, TreeAssumption
  <2>6. /\ Parent[x] \in Block /\ y \in Ancestors[Parent[x]]
        /\ ChainWork[Parent[x]] < ChainWork[x] /\ Addr[Parent[x]] < Addr[x]
    BY <2>4, <2>5, Tree DEF ParentsLower
  <2>7. /\ ChainWork[Parent[x]] \in Nat /\ ChainWork[x] \in Nat
        /\ Addr[y] \in Nat /\ Addr[x] \in Nat /\ Addr[Parent[x]] \in Nat
    BY <2>5, <2>6, Tree, AddrAssumption
  <2>8. y # Parent[x] /\ ~(Addr[y] < Addr[Parent[x]])
    BY <2>4, <2>6, <2>7
  <2>9. ChainWork[Parent[x]] \in W
    BY <2>6, <2>8
  <2>. HIDE DEF W
  <2>. QED BY <2>2, <2>3, <2>6, <2>7, <2>9
<1>2. ~Bad(b)
  <2>. HIDE DEF Bad
  <2>. QED BY <1>1
<1>. QED BY <1>2, Tree

\* FlushStateToDisk writes the dirty entry with the lowest address.
LEMMA FirstDirty ==
  ASSUME NEW S \in SUBSET Block, S # {}
  PROVE  Head(ByAddr[S]) \in S /\ \A x \in S : ~(Addr[x] < Addr[Head(ByAddr[S])])
<1>. DEFINE s == ByAddr[S]
<1>1. /\ s \in Seq(Block) /\ S = {s[i] : i \in DOMAIN s}
      /\ \A i, j \in DOMAIN s : i < j => Addr[s[i]] < Addr[s[j]]
  BY AddrAssumption, Zenon
<1>. HIDE DEF s
<1>2. DOMAIN s = 1..Len(s) /\ Len(s) \in Nat /\ \A i \in DOMAIN s : s[i] \in Block
  BY <1>1
<1>3. 1 \in DOMAIN s /\ Head(s) = s[1]
  <2>1. PICK i \in DOMAIN s : TRUE
    BY <1>1
  <2>2. 1 \in DOMAIN s
    BY <1>2, <2>1
  <2>. QED BY <1>1, <2>2
<1>4. \A i \in DOMAIN s : ~(Addr[s[i]] < Addr[s[1]])
  <2>1. TAKE i \in DOMAIN s
  <2>2. i = 1 \/ 1 < i
    BY <1>2
  <2>3. Addr[s[i]] \in Nat /\ Addr[s[1]] \in Nat
    BY <1>2, <1>3, AddrAssumption
  <2>. QED BY <1>1, <1>3, <2>2, <2>3
<1>5. Head(s) \in S /\ \A x \in S : ~(Addr[x] < Addr[Head(s)])
  BY <1>1, <1>3, <1>4
<1>. QED BY <1>5 DEF s

\* With a failure flag its cause and the data of the ancestors reach the disk.
LEMMA TornStep ==
  ASSUME IInv, ExactInv, SoundInv, TornInv, Untouched, Untouched',
         NEW t \in Thread, ThreadStep(t) \/ Call(t)
  PROVE  TornInv'
<1>0. TypeOK /\ LinkInv /\ CauseInv /\ DataInv
  BY DEF IInv, ExactInv, Untouched, Orderly, BestChainInv
<1>1. used'["invalidate"] = used["invalidate"] /\ used'["reconsider"] = used["reconsider"]
  BY DEF Untouched
<1>2. CASE ~WriteBlockIndex(t)
  <2>1. diskStatus' = diskStatus /\ \A x \in Block : Grows(x)
    BY <1>1, <1>2, FlagsEffect
  <2>. QED BY <2>1 DEF TornInv, Grows, DiskInvalid, DiskComplete, Failed
<1>3. CASE WriteBlockIndex(t)
  <2>1. PICK b : b = Head(ByAddr[dirty])
    OBVIOUS
  <2>2. /\ dirty # {} /\ diskStatus' = [diskStatus EXCEPT ![b] = nStatus[b]]
        /\ dirty' = dirty \ {b} /\ nStatus' = nStatus
    BY <1>3, <2>1 DEF WriteBlockIndex, index
  <2>3. dirty \in SUBSET Block /\ diskStatus \in [Block -> SUBSET Flag]
    BY <1>0 DEF TypeOK
  <2>4. b \in dirty /\ b \in Block /\ \A x \in dirty : ~(Addr[x] < Addr[b])
    BY <2>1, <2>2, <2>3, FirstDirty
  <2>5. \A x \in Block : diskStatus'[x] = IF x = b THEN nStatus[b] ELSE diskStatus[x]
    BY <2>2, <2>3
  <2>6. \A a \in Ancestors[b] : a \in Block /\ nStatus[a] \ {"FAILED_CHILD"} \subseteq diskStatus'[a]
    <3>1. SUFFICES ASSUME NEW a \in Ancestors[b]
                   PROVE  a \in Block /\ nStatus[a] \ {"FAILED_CHILD"} \subseteq diskStatus'[a]
      OBVIOUS
    <3>2. CASE a = b
      BY <2>4, <2>5, <3>2
    <3>3. CASE a # b
      <4>1. a \in Block /\ Addr[a] < Addr[b]
        BY <2>4, <3>3, AncestorLower DEF Untouched
      <4>2. a \notin dirty
        BY <2>4, <4>1
      <4>. QED BY <2>5, <3>3, <4>1, <4>2 DEF TornInv
    <3>. QED BY <3>2, <3>3
  <2>7. \A x \in Block : diskStatus[x] \subseteq diskStatus'[x] /\ diskStatus'[x] \subseteq nStatus'[x]
    BY <2>2, <2>5 DEF TornInv
  <2>8. \A x \in Block \ dirty' : nStatus'[x] \ {"FAILED_CHILD"} \subseteq diskStatus'[x]
    BY <2>2, <2>5 DEF TornInv
  <2>9. Failed(nStatus, b) => DiskInvalid(b)' /\ (HasData(b) => DiskComplete(b)')
    <3>1. SUFFICES ASSUME Failed(nStatus, b)
                   PROVE  DiskInvalid(b)' /\ (HasData(b) => DiskComplete(b)')
      OBVIOUS
    <3>2. PICK a \in Ancestors[b] : "FAILED_VALID" \in nStatus[a]
      BY <1>0, <2>4, <3>1 DEF CauseInv, Invalid
    <3>3. DiskInvalid(b)'
      BY <2>6, <3>2 DEF DiskInvalid
    <3>4. HasData(b) => \A x \in Ancestors[b] : HasData(x)
      BY <1>0, <2>4, <3>1 DEF DataInv, LinkInv, Untouched
    <3>5. HasData(b) => DiskComplete(b)'
      BY <2>6, <3>4 DEF DiskComplete, HasData
    <3>. QED BY <3>3, <3>5
  <2>10. \A x \in Block : Failed(diskStatus, x)' =>
           /\ DiskInvalid(x)'
           /\ "HAVE_DATA" \in diskStatus'[x] => DiskComplete(x)'
    <3>1. TAKE x \in Block
    <3>2. CASE x = b
      <4>1. diskStatus'[x] = nStatus[b]
        BY <2>4, <2>5, <3>2
      <4>. QED BY <2>9, <3>2, <4>1 DEF Failed, HasData
    <3>3. CASE x # b
      <4>1. diskStatus'[x] = diskStatus[x]
        BY <2>5, <3>3
      <4>2. DiskInvalid(x) => DiskInvalid(x)'
        BY <2>7, Tree DEF DiskInvalid
      <4>3. DiskComplete(x) => DiskComplete(x)'
        BY <2>7, Tree DEF DiskComplete
      <4>. QED BY <4>1, <4>2, <4>3 DEF TornInv, Failed
    <3>. QED BY <3>2, <3>3
  <2>. QED BY <2>7, <2>8, <2>10 DEF TornInv
<1>. QED BY <1>2, <1>3

\* LoadBlockIndexDB rebuilds the lists without duplicates, and starts at a
\* tip that has its whole chain.
LEMMA RestartExact ==
  ASSUME FullInv, NEW t \in Thread, Restart(t)
  PROVE  /\ ExactInv'
         /\ used'["invalidate"] = 0 => SoundInv'
         /\ Untouched' => TornInv'
<1>0. TypeOK /\ DiskInv /\ OrderInv
  BY DEF FullInv, IInv, ExactInv
<1>. DEFINE data == {b \in Block : "HAVE_DATA" \in diskStatus[b]}
            whole == WholeChains(data)
            zero == [b \in Block |-> 0]
            waiting(p) == {b \in data \ {Genesis} : Parent[b] = p /\ AwaitsParent(b, whole)}
<1>1. /\ used' = [used EXCEPT !["crash"] = @ + 1]
      /\ linked' = whole /\ nSequenceId' = zero
      /\ unlinked' = [p \in Block |-> ByAddr[waiting(p)]]
      /\ tip' = diskBest
      /\ candidates' = {b \in whole : /\ IsValid(diskStatus, b, "TRANSACTIONS")
                                      /\ ~Less(zero, b, diskBest)}
      /\ pc' = [x \in Thread |-> IF x = t THEN "activate" ELSE "idle"]
      /\ queue' = << >> /\ diskStatus' = diskStatus /\ nStatus' = diskStatus
      /\ dirty' = {} /\ diskBest' = diskBest
  BY DEF Restart, disk
<1>2. /\ used'["crash"] # 0 /\ used'["invalidate"] = used["invalidate"]
      /\ used'["reconsider"] = used["reconsider"]
  BY <1>0, <1>1 DEF TypeOK
<1>3. \A x \in Thread : pc'[x] \in {"activate", "idle"}
  BY <1>1
<1>4. ListInv'
  <2>1. Once(<< >>) /\ Items(<< >>) = {}
    BY DEF Once, Items
  <2>2. ASSUME NEW S \in SUBSET Block PROVE Once(ByAddr[S])
    <3>. DEFINE s == ByAddr[S]
    <3>1. s \in Seq(Block) /\ \A i, j \in DOMAIN s : i < j => Addr[s[i]] < Addr[s[j]]
      BY AddrAssumption, Zenon
    <3>2. \A i \in DOMAIN s : i \in Nat /\ s[i] \in Block
      BY <3>1
    <3>. HIDE DEF s
    <3>3. \A i \in DOMAIN s : Addr[s[i]] \in Nat
      BY <3>2, AddrAssumption
    <3>4. \A i, j \in DOMAIN s : s[i] = s[j] => ~(i < j) /\ ~(j < i)
      BY <3>1, <3>3
    <3>5. Once(s)
      BY <3>2, <3>4 DEF Once
    <3>. QED BY <3>5 DEF s
  <2>3. \A p \in Block : waiting(p) \in SUBSET Block
    OBVIOUS
  <2>4. \A p \in Block : Once(unlinked'[p])
    <3>. HIDE DEF waiting
    <3>. QED BY <1>1, <2>2, <2>3
  <2>5. ByAddr[{}] = << >>
    <3>. DEFINE s == ByAddr[{}]
    <3>1. s \in Seq(Block) /\ {} = {s[i] : i \in DOMAIN s}
      BY AddrAssumption, Zenon
    <3>. HIDE DEF s
    <3>2. DOMAIN s = {}
      BY <3>1, Zenon
    <3>3. s = << >>
      BY <3>1, <3>2
    <3>. QED BY <3>3 DEF s
  <2>6. \A p \in linked' : unlinked'[p] = << >>
    <3>1. \A p \in whole : p \in Block /\ waiting(p) = {}
      BY DEF AwaitsParent, WholeChains
    <3>. HIDE DEF waiting, whole
    <3>. QED BY <1>1, <2>5, <3>1, Zenon
  <2>. QED BY <1>1, <2>1, <2>4, <2>6, Zenon DEF ListInv
<1>5. OrderInv'
  <2>1. Ancestors[diskBest] \subseteq data
    <3>1. \A b \in Ancestors[diskBest] \ {Genesis} : "HAVE_DATA" \in diskStatus[b]
      BY <1>0 DEF DiskInv, DiskChainComplete
    <3>2. Ancestors[diskBest] \subseteq Block
      BY <1>0, Tree DEF TypeOK
    <3>. QED BY <1>0, <3>1, <3>2 DEF OrderInv
  <2>2. tip' \in linked'
    BY <1>0, <1>1, <2>1 DEF WholeChains, TypeOK
  <2>3. \A c \in candidates' : ~Less(nSequenceId', c, tip')
    BY <1>1
  <2>4. \A x \in Thread : ~Doing(x, "step")'
    BY <1>3 DEF Doing
  <2>. QED BY <1>0, <1>1, <2>2, <2>3, <2>4 DEF OrderInv
<1>6. used'["invalidate"] = 0 => SoundInv'
  <2>1. \A x \in Thread : ~Doing(x, "invalidate")'
    BY <1>3 DEF Doing
  <2>. QED BY <1>1, <1>2, <2>1, Zenon DEF FullInv, SoundInv
<1>7. \A x \in Block : /\ Invalid(x)' <=> DiskInvalid(x)
                       /\ Failed(nStatus, x)' <=> Failed(diskStatus, x)
                       /\ HasData(x)' <=> "HAVE_DATA" \in diskStatus[x]
  BY <1>1 DEF Invalid, DiskInvalid, Failed, HasData
<1>8. ASSUME SoundInv
      PROVE  /\ Sound(diskBest)
             /\ \A a \in Ancestors[diskBest] :
                  a \in Block /\ ~Failed(diskStatus, a) /\ a \notin Unconnectable
  <2>1. diskBest \in Block
    BY <1>0 DEF TypeOK
  <2>2. Sound(diskBest)
    <3>1. CASE diskBest = Genesis
      BY <3>1, BlockAssumption, TreeAssumption DEF Sound
    <3>2. CASE diskBest # Genesis
      <4>1. "HAVE_UNDO" \in diskStatus[diskBest]
        BY <1>0, <2>1, <3>2, Tree DEF DiskInv, DiskChainComplete
      <4>. QED BY <1>8, <2>1, <4>1 DEF SoundInv, SoundFlags
    <3>. QED BY <3>1, <3>2
  <2>. QED BY <1>8, <2>1, <2>2, SoundBelow DEF SoundInv, SoundFlags
<1>9. ASSUME SoundInv PROVE ChainInv'
  <2>1. FlagInv'
    BY <1>1, <1>7, <1>9, Zenon DEF FlagInv, SoundInv, SoundFlags
  <2>2. Active' = Ancestors[diskBest]
    BY <1>1 DEF Active
  <2>3. \A b \in Active' \ {Genesis} :
          "SCRIPTS" \in nStatus'[b] /\ b \notin Unconnectable /\ ~Failed(nStatus, b)'
    <3>1. TAKE b \in Active' \ {Genesis}
    <3>2. "HAVE_UNDO" \in diskStatus[b]
      BY <1>0, <2>2 DEF DiskInv, DiskChainComplete
    <3>3. b \in Block /\ ~Failed(diskStatus, b) /\ b \notin Unconnectable
      BY <1>8, <1>9, <2>2
    <3>. QED BY <1>1, <1>7, <1>9, <3>2, <3>3 DEF SoundInv, SoundFlags
  <2>4. ~Failed(nStatus, Genesis)'
    BY <1>0, <1>7, <1>8, <1>9, TreeAssumption DEF TypeOK
  <2>5. \A x \in Thread : ~Doing(x, "step")' /\ ~Doing(x, "invalidate")'
    BY <1>3 DEF Doing
  <2>6. ValidInv'
    BY <2>3, <2>4, <2>5 DEF ValidInv
  <2>. QED BY <2>1, <2>6 DEF ChainInv
<1>10. ASSUME SoundInv, TornInv PROVE BestChainInv'
  <2>1. CauseInv'
    BY <1>7, <1>10, Zenon DEF CauseInv, TornInv
  <2>2. ~DiskInvalid(diskBest) /\ Ancestors[diskBest] \cap Unconnectable = {}
    BY <1>8, <1>10 DEF DiskInvalid, Failed, FAILED_MASK
  <2>3. \A x \in whole : x \in Block /\ "HAVE_DATA" \in diskStatus[x]
    BY Tree DEF WholeChains
  <2>4. \A x \in whole : ~DiskInvalid(x) /\ ~Less(zero, x, diskBest) => x \in candidates'
    BY <1>1, <1>10, <2>3, Zenon DEF SoundInv, SoundFlags, TornInv, IsValid
  <2>5. diskBest \in whole /\ diskBest \in Block
    BY <1>0, <1>1, <1>5, Zenon DEF OrderInv, TypeOK
  <2>6. diskBest \in candidates'
    <3>1. zero \in [Block -> Nat]
      OBVIOUS
    <3>2. ~Less(zero, diskBest, diskBest)
      <4>. HIDE DEF zero
      <4>. QED BY <2>5, <3>1, LessOrder
    <3>. QED BY <2>2, <2>4, <2>5, <3>2
  <2>7. \A x \in linked' : ~Invalid(x)' /\ ~Less(nSequenceId', x, diskBest) => x \in candidates'
    BY <1>1, <1>7, <2>3, <2>4
  <2>8. ~Invalid(diskBest)'
    BY <1>1, <2>2 DEF Invalid, DiskInvalid
  <2>9. CoverInv'
    BY <1>1, <2>2, <2>6, <2>7, <2>8 DEF CoverInv, Covers, Invalid
  <2>10. BestInv'
    <3>1. pc'[t] = "activate"
      BY <1>1
    <3>. QED BY <1>3, <3>1 DEF BestInv, Working
  <2>11. DataInv'
    <3>1. ASSUME NEW b \in Block \ {Genesis}, HasData(b)', b \notin linked'
          PROVE  b \in Items(unlinked'[Parent[b]])
      <4>1. b \in data /\ Parent[b] \in Block /\ b \notin whole
        BY <1>1, <1>7, <3>1, Tree, Zenon
      <4>2. Parent[b] \notin whole
        BY <3>1, <4>1, Tree DEF WholeChains
      <4>3. b \in waiting(Parent[b])
        BY <3>1, <4>1, <4>2 DEF AwaitsParent
      <4>4. waiting(Parent[b]) \in SUBSET Block
        OBVIOUS
      <4>. HIDE DEF waiting
      <4>5. b \in Items(ByAddr[waiting(Parent[b])])
        BY <4>3, <4>4, AddrAssumption, Zenon DEF Items
      <4>. QED BY <1>1, <4>1, <4>5
    <3>2. \A b \in Block : HasData(b)' /\ Failed(nStatus, b)' => b \in linked'
      <4>1. \A b \in Block : DiskComplete(b) => b \in whole
        BY Tree DEF DiskComplete, WholeChains
      <4>. QED BY <1>1, <1>7, <1>10, <4>1 DEF TornInv
    <3>. QED BY <3>1, <3>2 DEF DataInv
  <2>. QED BY <2>1, <2>9, <2>10, <2>11 DEF BestChainInv
<1>11. Untouched' => TornInv'
  <2>1. Untouched' => TornInv
    BY <1>2 DEF FullInv, Untouched
  <2>2. ASSUME TornInv PROVE TornInv'
    BY <1>1, <2>2 DEF TornInv, DiskInvalid, DiskComplete, Failed
  <2>. QED BY <2>1, <2>2
<1>12. ExactInv'
  <2>1. Untorn' => SoundInv
    BY <1>2 DEF FullInv, Untorn
  <2>2. Orderly' => SoundInv /\ TornInv
    BY <1>2 DEF FullInv, Orderly, Untouched
  <2>. QED BY <1>4, <1>5, <1>9, <1>10, <2>1, <2>2 DEF ExactInv
<1>. QED BY <1>6, <1>11, <1>12
-----------------------------------------------------------------------------
\* The counts of bounded events never go down.
LEMMA UsedGrows ==
  ASSUME TypeOK, NEW t \in Thread, ThreadStep(t) \/ Call(t)
  PROVE  \A e \in {"invalidate", "reconsider"} : used'[e] = 0 => used[e] = 0
<1>1. used' = used \/ \E e \in DOMAIN used : used' = [used EXCEPT ![e] = @ + 1]
  BY Zenon DEF TypeOK, ThreadStep, Call, LinkBlock, WriteBlockIndex, FlushCoins, DropFailedChain,
     NothingToDo, BeginStep, DisconnectTip, ConnectTip, ConnectTipFails, LoopCondition,
     EndActivate, InvalidateTip, InvalidateDone, ProcessHeader, RefuseHeader, AcceptDuplicate,
     RejectBlock, ReceiveBlock, InvalidateBlock, ReconsiderBlock, FlushAlways, FlushStateToDisk,
     vars
<1>. QED BY <1>1 DEF TypeOK

\* InitBlockIndex establishes the invariant: Genesis is the best candidate.
LEMMA InitFull == Init => FullInv
<1>. SUFFICES ASSUME Init PROVE FullInv
  OBVIOUS
<1>0. IInv /\ TypeOK
  BY InitInv DEF IInv
<1>1. /\ linked = {Genesis} /\ candidates = {Genesis} /\ tip = Genesis /\ queue = << >>
      /\ \A t \in Thread : pc[t] = "idle" /\ ret[t] = "idle"
      /\ \A p \in Block : unlinked[p] = << >>
      /\ \A b \in Block : nStatus[b] = IF b = Genesis THEN GenesisStatus ELSE {}
      /\ diskStatus = nStatus
  BY DEF Init
<1>2. \A t \in Thread : ~Doing(t, "step") /\ ~Doing(t, "invalidate")
  BY <1>1 DEF Doing
<1>3. \A b \in Block : ~Failed(nStatus, b) /\ "FAILED_VALID" \notin nStatus[b]
  BY <1>1 DEF Failed, FAILED_MASK, GenesisStatus
<1>4. \A b \in Block : ~Invalid(b)
  BY <1>3, Tree DEF Invalid
<1>5. ListInv
  <2>1. Once(<< >>) /\ Items(<< >>) = {}
    BY DEF Once, Items
  <2>. QED BY <1>1, <2>1, Tree DEF ListInv
<1>6. ~Less(nSequenceId, Genesis, Genesis)
  BY <1>0, Tree, LessOrder, Zenon DEF TypeOK
<1>7. OrderInv
  BY <1>1, <1>2, <1>6, Tree DEF OrderInv, GenesisStatus
<1>8. FlagInv
  BY <1>1, BlockAssumption DEF FlagInv, HasData, GenesisStatus
<1>9. Ancestors[Genesis] = {Genesis}
  BY TreeAssumption
<1>10. ValidInv
  BY <1>1, <1>2, <1>3, <1>9, Tree DEF ValidInv, Active
<1>11. CauseInv
  BY <1>3 DEF CauseInv
<1>12. CoverInv
  BY <1>1, <1>4, <1>9, Tree, BlockAssumption DEF CoverInv, Covers
<1>13. BestInv
  BY <1>1, <1>6 DEF BestInv, TipBest
<1>14. DataInv
  BY <1>1, <1>3 DEF DataInv, HasData
<1>15. ExactInv
  BY <1>5, <1>7, <1>8, <1>10, <1>11, <1>12, <1>13, <1>14 DEF ExactInv, ChainInv, BestChainInv
<1>16. SoundInv
  BY <1>1, <1>2, <1>3, BlockAssumption DEF SoundInv, SoundFlags, GenesisStatus
<1>17. TornInv
  BY <1>1, <1>3 DEF TornInv, Failed
<1>. QED BY <1>0, <1>15, <1>16, <1>17 DEF FullInv

\* Every action of every thread keeps the invariant.
LEMMA NextFull == FullInv /\ [Next]_vars => FullInv'
<1>. SUFFICES ASSUME FullInv, [Next]_vars PROVE FullInv'
  OBVIOUS
<1>0. IInv /\ ExactInv /\ IInv'
  BY NextInv DEF FullInv
<1>1. CASE UNCHANGED vars
  <2>1. UNCHANGED <<nStatus, linked, nSequenceId, unlinked, queue, candidates,
                    tip, target, pc, ret, mostWork, used, diskStatus, dirty>>
    BY <1>1 DEF vars, index, locals, disk
  <2>2. \A x \in Thread : Still(x)
    BY <2>1 DEF Still, Doing
  <2>3. /\ ListInv => ListInv'
        /\ OrderInv /\ "HAVE_DATA" \in diskStatus'[Genesis] => OrderInv'
        /\ ChainInv => ChainInv'
        /\ CauseInv => CauseInv'
        /\ CoverInv => CoverInv'
        /\ DataInv => DataInv'
    BY <2>1, <2>2, SameIndex
  <2>4. BestInv => BestInv'
    BY <2>1 DEF BestInv, TipBest, Working, Doing, Invalid
  <2>5. "HAVE_DATA" \in diskStatus'[Genesis]
    BY <1>0, <2>1 DEF ExactInv, OrderInv
  <2>6. ExactInv'
    BY <1>0, <2>1, <2>3, <2>4, <2>5, Zenon DEF ExactInv, BestChainInv, Untorn, Orderly
  <2>7. SoundInv => SoundInv'
    BY <2>1 DEF SoundInv, SoundFlags, Doing, Failed
  <2>8. TornInv => TornInv'
    BY <2>1 DEF TornInv, DiskInvalid, DiskComplete, Failed
  <2>. QED BY <1>0, <2>1, <2>6, <2>7, <2>8 DEF FullInv, Untouched
<1>2. ASSUME NEW t \in Thread, ThreadStep(t) PROVE ExactInv'
  BY <1>0, <1>2, LinkExact, DropExact, BeginExact, DisconnectExact, ConnectExact, FailsExact,
     InvTipExact, InvDoneExact, MoveExact DEF ThreadStep, Move
<1>3. ASSUME IndexIntact, NEW t \in Thread, Call(t) PROVE ExactInv'
  <2>1. ASSUME NEW b \in Block \ {Genesis}, ProcessHeader(t, b) \/ RejectBlock(t, b)
        PROVE  ExactInv'
    BY <1>0, <2>1, HeaderExact
  <2>2. ASSUME NEW b \in Block \ {Genesis}, ReceiveBlock(t, b) PROVE ExactInv'
    BY <1>0, <1>3, <2>2, ReceiveExact
  <2>3. ASSUME NEW b \in Block \ {Genesis}, RefuseHeader(t, b) \/ AcceptDuplicate(t, b)
        PROVE  ExactInv'
    BY <1>0, <2>3, MoveExact DEF Move
  <2>. QED BY <1>0, <1>3, <2>1, <2>2, <2>3, InvalidateExact, ReconsiderExact, MoveExact DEF Call, Move
<1>4. ASSUME NEW t \in Thread, ThreadStep(t) \/ Call(t)
      PROVE  /\ used'["invalidate"] = 0 => SoundInv'
             /\ Untouched' => TornInv'
  <2>1. \A e \in {"invalidate", "reconsider"} : used'[e] = 0 => used[e] = 0
    BY <1>0, <1>4, UsedGrows DEF IInv
  <2>2. used'["invalidate"] = 0 => SoundInv'
    BY <1>0, <1>4, <2>1, SoundStep DEF FullInv
  <2>3. Untouched' => Untouched
    BY <2>1 DEF Untouched
  <2>4. Untouched' => SoundInv /\ TornInv
    BY <2>3 DEF FullInv, Untouched
  <2>. QED BY <1>0, <1>4, <2>2, <2>3, <2>4, TornStep
<1>5. ASSUME NEW t \in Thread, Restart(t) PROVE FullInv'
  BY <1>0, <1>5, RestartExact DEF FullInv
<1>6. ASSUME IndexIntact, NEW t \in Thread, ThreadStep(t) \/ Call(t) PROVE FullInv'
  BY <1>0, <1>2, <1>3, <1>4, <1>6 DEF FullInv
<1>. QED BY <1>1, <1>5, <1>6 DEF Next

\* The invariant holds in every reachable state.
THEOREM FullInductive == Spec => []FullInv
  BY InitFull, NextFull, PTL DEF Spec
-----------------------------------------------------------------------------
\* While cs_main is free, no thread is in one of the functions it protects.
LEMMA NobodyInside ==
  ASSUME IInv, cs_main = None
  PROVE  \A x \in Thread : /\ pc[x] \notin Locked
                           /\ ~Doing(x, "step") /\ ~Doing(x, "invalidate")
  BY Tree DEF IInv, TypeOK, LockInv, Locked, Doing

\* Below a block whose nChainTx is 0 there is a first one.
LEMMA FirstUnlinked ==
  ASSUME IInv, OrderInv, NEW b \in Block, b \notin linked
  PROVE  \E a \in Ancestors[b] \ {Genesis} : a \in Block /\ a \notin linked /\ Parent[a] \in linked
<1>. DEFINE U == {a \in Ancestors[b] : a \notin linked}
            W == {ChainWork[a] : a \in U}
<1>1. W \in SUBSET Nat /\ W # {}
  BY Tree
<1>2. PICK w \in W : \A v \in W : w <= v
  <2>. HIDE DEF W
  <2>. QED BY <1>1, NatMin
<1>3. PICK a \in U : ChainWork[a] = w
  OBVIOUS
<1>4. a \in Block \ {Genesis}
  <2>1. tip \in Block /\ Ancestors[tip] \subseteq linked
    BY DEF IInv, TypeOK, LinkInv, OrderInv
  <2>2. Genesis \in linked
    BY <2>1, TreeAssumption
  <2>. QED BY <1>3, <2>2, Tree
<1>5. /\ Parent[a] \in Ancestors[b] /\ Parent[a] \in Block
      /\ ChainWork[Parent[a]] < ChainWork[a]
      /\ ChainWork[Parent[a]] \in Nat /\ ChainWork[a] \in Nat
  <2>1. Ancestors[a] \subseteq Ancestors[b]
    BY TreeAssumption
  <2>. QED BY <1>4, <2>1, Tree
<1>6. Parent[a] \notin U
  BY <1>2, <1>3, <1>5
<1>. QED BY <1>4, <1>5, <1>6

\* What is invalid makes its descendants invalid.
LEMMA InvalidBelow ==
  ASSUME NEW b \in Block, NEW a \in Ancestors[b], Invalid(a)
  PROVE  Invalid(b)
  BY TreeAssumption DEF Invalid

\* nChainTx: the first block that is not linked, of a chain with all its data,
\* came when its parent had been invalidated.
LEMMA LinkedIsExact ==
  ASSUME FullInv, Orderly
  PROVE  LinkedExactly
<1>0. LinkInv /\ ListInv /\ OrderInv /\ CauseInv /\ DataInv
  BY DEF FullInv, IInv, ExactInv, BestChainInv
<1>1. SUFFICES ASSUME cs_main = None, NEW b \in Block
               PROVE  /\ b \in linked => Complete(b)
                      /\ Complete(b) => b \in linked \/ Excused(b)
  BY DEF LinkedExactly
<1>2. b \in linked => Complete(b)
  BY <1>0 DEF LinkInv, Complete
<1>3. ASSUME Complete(b), b \notin linked PROVE Excused(b)
  <2>1. PICK a \in Ancestors[b] \ {Genesis} :
          a \in Block /\ a \notin linked /\ Parent[a] \in linked
    BY <1>0, <1>3, FirstUnlinked DEF FullInv
  <2>2. HasData(a) /\ HasData(Parent[a]) /\ Parent[a] \in Ancestors[b]
    <3>1. Ancestors[a] \subseteq Ancestors[b] /\ Parent[a] \in Ancestors[a]
      BY <2>1, Tree, TreeAssumption
    <3>. QED BY <1>3, <3>1 DEF Complete
  <2>3. a \notin Items(queue) \cup Items(unlinked[Parent[a]])
    <3>1. \A x \in Thread : pc[x] # "link"
      BY <1>1, NobodyInside DEF FullInv, Locked
    <3>2. queue = << >> /\ unlinked[Parent[a]] = << >>
      BY <1>0, <2>1, <3>1 DEF ListInv
    <3>. QED BY <3>2 DEF Items
  <2>4. Shut(a)
    BY <1>0, <2>1, <2>2, <2>3 DEF DataInv
  <2>5. Invalid(Parent[a]) /\ used["invalidate"] > 0
    BY <1>0, <2>1, <2>2, <2>4, Tree DEF Shut, CauseInv
  <2>. QED BY <2>2, <2>5, InvalidBelow DEF Excused
<1>. QED BY <1>2, <1>3

\* mapBlocksUnlinked has exactly the blocks that wait for an ancestor's data.
LEMMA UnlinkedIsExact ==
  ASSUME FullInv, Orderly
  PROVE  UnlinkedExactly
<1>0. TypeOK /\ LinkInv /\ ListInv /\ OrderInv /\ CauseInv /\ DataInv
  BY DEF FullInv, IInv, ExactInv, BestChainInv
<1>1. SUFFICES ASSUME cs_main = None, NEW b \in Block \ {Genesis}, NEW found,
                      found = {i \in DOMAIN unlinked[Parent[b]] : unlinked[Parent[b]][i] = b}
               PROVE  IF HasData(b) /\ ~Complete(b)
                      THEN Invalid(b) \/ Cardinality(found) = 1
                      ELSE found = {} \/ Excused(b)
  BY DEF UnlinkedExactly
<1>2. Parent[b] \in Block /\ Parent[b] \in Ancestors[b]
  BY Tree
<1>3. ASSUME HasData(b), ~Complete(b), ~Invalid(b) PROVE Cardinality(found) = 1
  <2>1. b \notin linked
    BY <1>0, <1>3 DEF LinkInv, Complete
  <2>2. ~Shut(b)
    BY <1>0, <1>2, <1>3, InvalidBelow DEF Shut, CauseInv
  <2>3. \A x \in Thread : pc[x] # "link"
    BY <1>1, NobodyInside DEF FullInv, Locked
  <2>4. b \notin Items(queue)
    BY <1>0, <2>3 DEF ListInv, Items
  <2>5. PICK i \in DOMAIN unlinked[Parent[b]] : unlinked[Parent[b]][i] = b
    BY <1>0, <1>3, <2>1, <2>2, <2>4 DEF DataInv, Items
  <2>6. found = {i}
    BY <1>0, <1>1, <1>2, <2>5 DEF ListInv, Once
  <2>. QED BY <2>6, FS_Singleton, Zenon
<1>4. ASSUME found # {} PROVE HasData(b) /\ b \notin linked
  <2>1. HasData(b) /\ unlinked[Parent[b]] # << >>
    BY <1>0, <1>1, <1>2, <1>4 DEF LinkInv, Awaits
  <2>2. Parent[b] \notin linked
    BY <1>0, <2>1 DEF ListInv
  <2>. QED BY <1>0, <1>2, <2>1, <2>2 DEF LinkInv
<1>5. Complete(b) => b \in linked \/ Excused(b)
  BY <1>1, LinkedIsExact DEF LinkedExactly
<1>. QED BY <1>3, <1>4, <1>5

\* When every call has returned, the tip is the block that covers the rest.
LEMMA QuietIsExact ==
  ASSUME FullInv, Orderly, Quiet
  PROVE  /\ \A c \in candidates : ~Less(nSequenceId, c, tip)
         /\ \A b \in Block : Complete(b) /\ ~Invalid(b) /\ ~Less(nSequenceId, b, tip)
                               => b \in candidates
         /\ TipBest
<1>0. TypeOK /\ OrderInv /\ CoverInv /\ BestInv
  BY DEF FullInv, IInv, ExactInv, BestChainInv
<1>1. \A x \in Thread : ~Working(x) /\ ~Doing(x, "invalidate")
  BY DEF Quiet, Working, Doing
<1>2. TipBest
  BY <1>0, <1>1 DEF BestInv
<1>3. PICK r \in candidates : Covers(r)
  BY <1>0, <1>1 DEF CoverInv
<1>4. r = tip
  <2>1. ~Less(nSequenceId, tip, r) /\ ~Less(nSequenceId, r, tip)
    BY <1>0, <1>2, <1>3, Zenon DEF TipBest, Covers, OrderInv
  <2>. QED BY <1>0, <2>1, LessOrder, Zenon DEF TypeOK
<1>5. \A b \in Block : Complete(b) /\ ~Invalid(b) => b \in linked
  BY LinkedIsExact DEF LinkedExactly, Excused, Quiet
<1>. QED BY <1>0, <1>2, <1>3, <1>4, <1>5 DEF OrderInv, Covers
-----------------------------------------------------------------------------
\* Every variable keeps its type: no call leaves a flag, a tip or a local
\* that main.cpp's declarations do not allow.
THEOREM TypeCorrect == Spec => []TypeOK
<1>1. IInv => TypeOK
  BY DEF IInv
<1>. QED BY <1>1, Inductive, PTL

\* The assertions of FindMostWorkChain never fail: every block on the way to
\* a candidate has its data and its nChainTx, whatever the order of arrival,
\* the interleaving, the operator commands and the crashes.
THEOREM CandidatesAreUsable == Spec => []CandidatesUsable
<1>1. IInv => CandidatesUsable
  BY DEF IInv, LinkInv, CandidatesUsable, Complete
<1>. QED BY <1>1, Inductive, PTL

\* A crash at any instant, also in the middle of FlushStateToDisk, finds on
\* disk the index entries of the chain that the coin database describes.
THEOREM DiskIsComplete == Spec => []DiskChainComplete
<1>1. IInv => DiskChainComplete
  BY DEF IInv, DiskInv
<1>. QED BY <1>1, Inductive, PTL

\* What CheckBlockIndex asserts holds: the links, the list of unlinked blocks
\* and the failure flags whenever cs_main is free, the candidates when every
\* call has returned.  It holds for every order of arrival and interleaving, as
\* long as no failure flag was taken back, with invalidateblock until the
\* process dies, and across crashes if parents are written before children.
THEOREM IndexIsChecked == Spec => [](Orderly => CheckBlockIndex)
<1>1. ASSUME FullInv, Orderly PROVE CheckBlockIndex
  <2>1. FailedHasCause
    BY <1>1 DEF FullInv, ExactInv, BestChainInv, CauseInv, FailedHasCause, mapBlockIndex
  <2>2. CandidatesWhenQuiet
    BY <1>1, QuietIsExact DEF CandidatesWhenQuiet, CandidatesExact, mapBlockIndex
  <2>. QED BY <1>1, <2>1, <2>2, LinkedIsExact, UnlinkedIsExact DEF CheckBlockIndex
<1>. QED BY <1>1, FullInductive, PTL

\* ActivateBestChain leaves no better chain behind: once every call has
\* returned, no block with all its data and no invalid ancestor has more work
\* than the tip, however the callers interleaved.
THEOREM BestIsActive == Spec => [](Orderly => BestChainActive)
<1>1. ASSUME FullInv, Orderly PROVE BestChainActive
  <2>1. SUFFICES ASSUME Quiet, NEW b \in Block, Complete(b), ~Invalid(b)
                 PROVE  ChainWork[b] <= ChainWork[tip]
    BY DEF BestChainActive
  <2>2. /\ nSequenceId \in [Block -> Nat] /\ tip \in Block
        /\ ChainWork[b] \in Nat /\ ChainWork[tip] \in Nat
    BY <1>1, Tree DEF FullInv, IInv, TypeOK
  <2>3. ASSUME ChainWork[tip] < ChainWork[b] PROVE FALSE
    <3>1. ~Less(nSequenceId, b, tip) /\ Less(nSequenceId, tip, b)
      BY <2>2, <2>3, LessOrder
    <3>2. b \in candidates /\ TipBest
      BY <1>1, <2>1, <3>1, QuietIsExact
    <3>. QED BY <2>1, <3>1, <3>2 DEF TipBest
  <2>. QED BY <2>2, <2>3
<1>. QED BY <1>1, FullInductive, PTL

\* Until the process dies, InvalidateBlock leaves an index that CheckBlockIndex
\* passes and no better chain behind, however often it is called.
THEOREM InvalidationIsExact == Spec => [](used["crash"] = 0 => InvalidateIsExact)
<1>1. (Orderly => CheckBlockIndex) /\ (Orderly => BestChainActive)
        => (used["crash"] = 0 => InvalidateIsExact)
  BY DEF Orderly, InvalidateIsExact
<1>. QED BY <1>1, IndexIsChecked, BestIsActive, PTL

\* If every entry lies above its parent's, so that FlushStateToDisk writes
\* parents first, any number of crashes in the middle of its writes leave an
\* index that CheckBlockIndex passes after the reload, and no better chain.
THEOREM ReloadIsExact == Spec => [](Untouched => RecoveryIsExact)
<1>1. (Orderly => CheckBlockIndex) /\ (Orderly => BestChainActive)
        => (Untouched => RecoveryIsExact)
  BY DEF Orderly, Untouched, RecoveryIsExact
<1>. QED BY <1>1, IndexIsChecked, BestIsActive, PTL

\* PruneBlockIndexCandidates' assertion never fails: the goal of a step is a
\* candidate until the step is over, after any commands and crashes.
THEOREM GoalStays ==
  Spec => [](\A t \in Thread : pc[t] = "step" => mostWork[t] \in candidates)
<1>1. FullInv => \A t \in Thread : pc[t] = "step" => mostWork[t] \in candidates
  BY DEF FullInv, ExactInv, OrderInv, Doing
<1>. QED BY <1>1, FullInductive, PTL

\* The goal of a step stays a candidate; and until reconsiderblock is called one
\* is left whenever cs_main is free, unless a crash has torn an invalidation, or
\* an index written children first.
THEOREM CandidatesAreLeft ==
  Spec => [](used["crash"] = 0 \/ (used["invalidate"] = 0 /\ ParentsLower) => CandidatesLeft)
<1>1. ASSUME FullInv, used["crash"] = 0 \/ (used["invalidate"] = 0 /\ ParentsLower)
      PROVE  CandidatesLeft
  <2>1. \A t \in Thread : pc[t] = "step" => mostWork[t] \in candidates
    BY <1>1 DEF FullInv, ExactInv, OrderInv, Doing
  <2>2. ASSUME cs_main = None, used["reconsider"] = 0 PROVE candidates # {}
    <3>1. CoverInv
      BY <1>1, <2>2 DEF FullInv, ExactInv, BestChainInv, Orderly
    <3>2. \A x \in Thread : ~Doing(x, "invalidate")
      BY <1>1, <2>2, NobodyInside DEF FullInv
    <3>. QED BY <3>1, <3>2 DEF CoverInv
  <2>. QED BY <2>1, <2>2 DEF CandidatesLeft
<1>. QED BY <1>1, FullInductive, PTL

\* Every block of the active chain has been connected, with its scripts checked
\* and its undo data written, and none is failed, whenever cs_main is free: for
\* ever without invalidateblock, and with it until the process dies.
THEOREM ActiveIsValid ==
  Spec => [](used["crash"] = 0 \/ used["invalidate"] = 0 => ActiveChainValid)
<1>1. ASSUME FullInv, used["crash"] = 0 \/ used["invalidate"] = 0
      PROVE  ActiveChainValid
  <2>1. SUFFICES ASSUME cs_main = None, NEW b \in Active \ {Genesis}
                 PROVE  /\ {"SCRIPTS", "HAVE_UNDO", "HAVE_DATA"} \subseteq nStatus[b]
                        /\ ~Failed(nStatus, b)
    BY DEF ActiveChainValid
  <2>2. ValidInv /\ DiskInv
    BY <1>1 DEF FullInv, IInv, ExactInv, ChainInv, Untorn
  <2>3. {"HAVE_UNDO", "HAVE_DATA"} \subseteq nStatus[b]
    BY <2>2 DEF DiskInv, Kept
  <2>4. \A x \in Thread : ~Doing(x, "invalidate")
    BY <1>1, <2>1, NobodyInside DEF FullInv
  <2>5. "SCRIPTS" \in nStatus[b] /\ ~Failed(nStatus, b)
    BY <2>2, <2>4 DEF ValidInv
  <2>. QED BY <2>3, <2>5
<1>. QED BY <1>1, FullInductive, PTL

\* The key by which std::set orders a candidate does not change while it is one:
\* nSequenceId is set when a block is linked, and only a linked block is one.
THEOREM KeysAreStable == Spec => CandidateKeysStable
<1>. DEFINE Keys == used'["crash"] = used["crash"] =>
                      \A c \in candidates \cap candidates' : nSequenceId'[c] = nSequenceId[c]
<1>1. ASSUME FullInv, [Next]_vars PROVE [Keys]_vars
  <2>1. CASE UNCHANGED vars
    BY <2>1
  <2>2. ASSUME NEW t \in Thread, LinkBlock(t) PROVE Keys
    <3>0. TypeOK /\ LinkInv /\ ListInv
      BY <1>1 DEF FullInv, IInv, ExactInv
    <3>1. PICK b : b = Head(queue)
      OBVIOUS
    <3>2. nSequenceId' = [nSequenceId EXCEPT ![b] = nBlockSequenceId]
      BY <2>2, <3>1 DEF LinkBlock
    <3>3. queue \in Seq(Block) /\ queue # << >> /\ Once(queue)
      BY <2>2, <3>0, Zenon DEF LinkBlock, LinkInv, TypeOK, ListInv
    <3>4. b \notin candidates
      BY <3>0, <3>1, <3>3, OnceTail, Zenon DEF ListInv, LinkInv
    <3>. QED BY <3>0, <3>2, <3>4 DEF TypeOK
  <2>3. ASSUME NEW t \in Thread, ThreadStep(t) \/ Call(t), ~LinkBlock(t) PROVE Keys
    <3>1. nSequenceId' = nSequenceId
      BY <2>3, Zenon DEF ThreadStep, Call, WriteBlockIndex, FlushCoins, DropFailedChain,
         NothingToDo, BeginStep, DisconnectTip, ConnectTip, ConnectTipFails, LoopCondition,
         EndActivate, InvalidateTip, InvalidateDone, ProcessHeader, RefuseHeader,
         AcceptDuplicate, RejectBlock, ReceiveBlock, InvalidateBlock, ReconsiderBlock,
         FlushAlways, index, vars
    <3>. QED BY <3>1
  <2>4. ASSUME NEW t \in Thread, Restart(t) PROVE Keys
    <3>0. used \in [{"invalidate", "reconsider", "flush", "crash"} -> Nat]
      BY <1>1 DEF FullInv, IInv, TypeOK
    <3>1. used'["crash"] = used["crash"] + 1
      BY <2>4, <3>0 DEF Restart
    <3>. QED BY <3>0, <3>1
  <2>. QED BY <1>1, <2>1, <2>2, <2>3, <2>4, Zenon DEF Next
<1>. QED BY <1>1, FullInductive, PTL DEF Spec, CandidateKeysStable
=============================================================================
