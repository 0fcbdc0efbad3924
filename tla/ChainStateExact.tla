-------------------------- MODULE ChainStateExact --------------------------
(***************************************************************************)
(* That ChainState keeps its books exactly, for every block tree, every    *)
(* set of threads and every bound: a second inductive invariant on top of  *)
(* IInv.                                                                   *)
(*                                                                         *)
(* Its parts hold for different lengths of time.  The lists of unlinked    *)
(* blocks have no duplicates and the candidates are sorted above the tip   *)
(* in every state (ListInv, OrderInv).  Until the process has died and     *)
(* invalidateblock has been called, no failed block is in the active chain *)
(* (FlagInv, ValidInv).  As long as reconsiderblock has not been called    *)
(* either, and flushes write parents before children if a crash can cut    *)
(* them short, failure flags have a cause, every block with data is where  *)
(* it will be found (CauseInv, DataInv), and the candidates suffice to     *)
(* find the best chain, which some thread is working on unless it is       *)
(* active (CoverInv, BestInv).                                             *)
(*                                                                         *)
(* The first section has the facts about the tree and the order of the     *)
(* candidates that need least and greatest elements, and with them that    *)
(* IInv is inductive.                                                      *)
(***************************************************************************)
EXTENDS ChainStateSteps, FiniteSetTheorems, WellFoundedInduction, TLAPS

\* A set of naturals that is not empty has a least element.
LEMMA NatMin ==
  ASSUME NEW T \in SUBSET Nat, T # {}
  PROVE  \E x \in T : \A y \in T : x <= y
<1>1. \A x, y \in Nat : <<y, x>> \in OpToRel(<, Nat) <=> y < x
  BY DEF OpToRel
<1>2. PICK R : /\ IsWellFoundedOn(R, Nat)
               /\ \A x, y \in Nat : <<y, x>> \in R <=> y < x
  BY <1>1, NatLessThanWellFounded, Zenon
<1>3. PICK x \in T : \A y \in T : ~(<<y, x>> \in R)
  BY <1>2, WFMin, Zenon
<1>4. \A y \in T : x <= y
  <2>1. TAKE y \in T
  <2>2. x \in Nat /\ y \in Nat
    OBVIOUS
  <2>3. ~(y < x)
    BY <1>2, <1>3, <2>2, Zenon
  <2>. QED BY <2>2, <2>3
<1>. QED BY <1>4

\* A function from a finite set into the naturals is bounded.
LEMMA FiniteBound ==
  ASSUME NEW S, IsFiniteSet(S), NEW f \in [S -> Nat]
  PROVE  \E w \in Nat : \A s \in S : f[s] <= w
<1>0. PICK n \in Nat : Bijection(1..n, S) # {}
  BY FS_NatBijection DEF ExistsBijection
<1>1. PICK e \in Bijection(1..n, S) : TRUE
  BY <1>0
<1>2. e \in [1..n -> S] /\ \A s \in S : \E i \in 1..n : e[i] = s
  BY DEF Bijection, Surjection
<1>. DEFINE Bounded(k) == \E w \in Nat : \A i \in 1..k : f[e[i]] <= w
            Bad == {k \in 0..n : ~Bounded(k)}
<1>3. ASSUME Bad # {} PROVE FALSE
  <2>0. Bad \in SUBSET Nat
    OBVIOUS
  <2>1. PICK k \in Bad : \A j \in Bad : k <= j
    <3>. HIDE DEF Bad
    <3>. QED BY <1>3, <2>0, NatMin
  <2>2. k # 0
    <3>1. Bounded(0)
      <4>1. 1..0 = {}
        OBVIOUS
      <4>. QED BY <4>1, Zenon
    <3>. QED BY <3>1
  <2>3. k \in 1..n
    BY <2>2
  <2>4. k - 1 \notin Bad
    <3>. HIDE DEF Bad
    <3>. QED BY <2>1, <2>3
  <2>5. PICK w \in Nat : \A i \in 1..(k-1) : f[e[i]] <= w
    <3>1. k - 1 \in 0..n
      BY <2>3
    <3>2. Bounded(k - 1)
      <4>. HIDE DEF Bounded
      <4>. QED BY <2>4, <3>1
    <3>. QED BY <3>2, Zenon
  <2>6. f[e[k]] \in Nat
    BY <1>2, <2>3
  <2>. HIDE DEF Bounded, Bad
  <2>. PICK v \in Nat : v = w + f[e[k]]
    <3>1. w + f[e[k]] \in Nat
      BY <2>6
    <3>. QED BY <3>1
  <2>7. \A i \in 1..k : f[e[i]] <= v
    <3>1. TAKE i \in 1..k
    <3>2. CASE i = k
      BY <2>5, <2>6, <3>2
    <3>3. CASE i # k
      <4>1. i \in 1..(k-1) /\ e[i] \in S
        BY <1>2, <2>3, <3>3
      <4>2. f[e[i]] <= w /\ f[e[i]] \in Nat
        BY <2>5, <4>1
      <4>. QED BY <2>6, <4>2
    <3>. QED BY <3>2, <3>3
  <2>8. Bounded(k)
    BY <2>7, Zenon DEF Bounded
  <2>. QED BY <2>8 DEF Bad
<1>4. Bounded(n)
  <2>1. n \in 0..n
    OBVIOUS
  <2>. HIDE DEF Bounded
  <2>. QED BY <1>3, <2>1
<1>. QED BY <1>2, <1>4

\* Of a finite set, some elements have the greatest value of f.
LEMMA FiniteMax ==
  ASSUME NEW S, IsFiniteSet(S), S # {}, NEW f \in [S -> Nat]
  PROVE  \E m \in S : \A s \in S : f[s] <= f[m]
<1>1. PICK w \in Nat : \A s \in S : f[s] <= w
  BY FiniteBound
<1>. DEFINE T == {w - f[s] : s \in S}
<1>2. T \in SUBSET Nat /\ T # {}
  BY <1>1
<1>3. PICK x \in T : \A y \in T : x <= y
  BY <1>2, NatMin, Zenon
<1>4. PICK m \in S : x = w - f[m]
  BY <1>3
<1>5. \A s \in S : w - f[m] <= w - f[s]
  BY <1>3, <1>4
<1>. QED BY <1>5
-----------------------------------------------------------------------------
\* Work grows along the chain.
LEMMA AncestorWork ==
  ASSUME NEW b \in Block, NEW a \in Ancestors[b]
  PROVE  ChainWork[a] <= ChainWork[b]
<1>. DEFINE Bad(x) == \E y \in Ancestors[x] : ~(ChainWork[y] <= ChainWork[x])
            W == {ChainWork[x] : x \in {x \in Block : Bad(x)}}
<1>1. ASSUME W # {} PROVE FALSE
  <2>1. W \in SUBSET Nat
    BY Tree
  <2>2. PICK w \in W : \A v \in W : w <= v
    <3>. HIDE DEF W
    <3>. QED BY <1>1, <2>1, NatMin
  <2>3. PICK x \in Block : Bad(x) /\ w = ChainWork[x]
    OBVIOUS
  <2>4. PICK y \in Ancestors[x] : ~(ChainWork[y] <= ChainWork[x])
    BY <2>3
  <2>5. x # Genesis /\ y # x /\ y \in Block
    BY <2>4, Tree, TreeAssumption
  <2>6. /\ Parent[x] \in Block /\ y \in Ancestors[Parent[x]]
        /\ ChainWork[Parent[x]] < ChainWork[x]
    BY <2>5, Tree
  <2>7. /\ ChainWork[Parent[x]] \in Nat /\ ChainWork[x] \in Nat
        /\ ChainWork[y] \in Nat
    BY <2>5, <2>6, Tree
  <2>8. ~(ChainWork[y] <= ChainWork[Parent[x]])
    BY <2>4, <2>6, <2>7
  <2>9. ChainWork[Parent[x]] \in W
    BY <2>6, <2>8
  <2>. HIDE DEF W
  <2>. QED BY <2>2, <2>3, <2>6, <2>7, <2>9
<1>2. ~Bad(b)
  <2>. HIDE DEF Bad
  <2>. QED BY <1>1
<1>. QED BY <1>2

\* A block has more work than its other ancestors.
LEMMA AncestorLess ==
  ASSUME NEW b \in Block, NEW a \in Ancestors[b], a # b
  PROVE  a \in Block /\ ChainWork[a] < ChainWork[b]
<1>1. b \in Block \ {Genesis} /\ a \in Block
  BY Tree, TreeAssumption
<1>2. a \in Ancestors[Parent[b]] /\ Parent[b] \in Block /\ ChainWork[Parent[b]] < ChainWork[b]
  BY <1>1, Tree
<1>3. ChainWork[a] <= ChainWork[Parent[b]]
  BY <1>2, AncestorWork
<1>. QED BY <1>1, <1>2, <1>3, Tree

\* The ancestors of a block are a chain.
LEMMA AncestorsChain ==
  ASSUME NEW c \in Block, NEW x \in Ancestors[c], NEW y \in Ancestors[c]
  PROVE  /\ x \in Ancestors[y] \/ y \in Ancestors[x]
         /\ ChainWork[x] <= ChainWork[y] => x \in Ancestors[y]
<1>. DEFINE Bad(b) == \E u, v \in Ancestors[b] : u \notin Ancestors[v] /\ v \notin Ancestors[u]
            W == {ChainWork[b] : b \in {b \in Block : Bad(b)}}
<1>1. ASSUME W # {} PROVE FALSE
  <2>1. W \in SUBSET Nat
    BY Tree
  <2>2. PICK w \in W : \A v \in W : w <= v
    <3>. HIDE DEF W
    <3>. QED BY <1>1, <2>1, NatMin
  <2>3. PICK b \in Block : Bad(b) /\ w = ChainWork[b]
    OBVIOUS
  <2>4. b # Genesis
    <3>1. Ancestors[Genesis] = {Genesis}
      BY TreeAssumption
    <3>. QED BY <2>3, <3>1
  <2>5. /\ Parent[b] \in Block /\ Ancestors[b] = Ancestors[Parent[b]] \cup {b}
        /\ ChainWork[Parent[b]] < ChainWork[b]
        /\ ChainWork[Parent[b]] \in Nat /\ ChainWork[b] \in Nat
    BY <2>4, Tree
  <2>6. Bad(Parent[b])
    BY <2>3, <2>5
  <2>7. ChainWork[Parent[b]] \in W
    BY <2>5, <2>6
  <2>. HIDE DEF W
  <2>. QED BY <2>2, <2>3, <2>5, <2>7
<1>2. ~Bad(c)
  <2>. HIDE DEF Bad
  <2>. QED BY <1>1
<1>3. x \in Ancestors[y] \/ y \in Ancestors[x]
  BY <1>2
<1>4. y \in Ancestors[x] /\ y # x => ChainWork[y] < ChainWork[x]
  BY Tree, AncestorLess
<1>5. x \in Block /\ y \in Block /\ x \in Ancestors[x]
  BY Tree
<1>. QED BY <1>3, <1>4, <1>5, Tree

\* FindMostWorkChain's rbegin(): candidates that are not empty have a best.
LEMMA BestExists ==
  ASSUME TypeOK, candidates # {}
  PROVE  /\ BestCandidate \in candidates
         /\ \A d \in candidates : ~Less(nSequenceId, BestCandidate, d)
<1>1. candidates \subseteq Block /\ IsFiniteSet(candidates)
  BY BlockAssumption, FS_Subset DEF TypeOK
<1>. DEFINE work == [c \in candidates |-> ChainWork[c]]
<1>2. work \in [candidates -> Nat]
  BY <1>1, Tree
<1>3. PICK m \in candidates : \A c \in candidates : work[c] <= work[m]
  <2>. HIDE DEF work
  <2>. QED BY <1>1, <1>2, FiniteMax
<1>. DEFINE A == {c \in candidates : ChainWork[c] = ChainWork[m]}
            SeqA == {nSequenceId[c] : c \in A}
<1>4. PICK s \in SeqA : \A x \in SeqA : s <= x
  <2>1. SeqA \in SUBSET Nat /\ SeqA # {}
    BY <1>1 DEF TypeOK
  <2>. HIDE DEF SeqA
  <2>. QED BY <2>1, NatMin
<1>. DEFINE B == {c \in A : nSequenceId[c] = s}
            AddrB == {Addr[c] : c \in B}
<1>5. PICK d \in AddrB : \A x \in AddrB : d <= x
  <2>1. AddrB \in SUBSET Nat /\ AddrB # {}
    BY <1>1, <1>4, AddrAssumption
  <2>. HIDE DEF AddrB
  <2>. QED BY <2>1, NatMin
<1>6. PICK c \in B : Addr[c] = d
  BY <1>5
<1>7. \A x \in candidates : ~Less(nSequenceId, c, x)
  <2>1. TAKE x \in candidates
  <2>2. /\ ChainWork[x] \in Nat /\ ChainWork[c] \in Nat /\ ChainWork[x] <= ChainWork[c]
        /\ nSequenceId[x] \in Nat /\ nSequenceId[c] \in Nat
        /\ Addr[x] \in Nat /\ Addr[c] \in Nat
    BY <1>1, <1>3, Tree, AddrAssumption, Zenon DEF TypeOK
  <2>3. ChainWork[x] = ChainWork[c] => nSequenceId[c] <= nSequenceId[x]
    BY <1>4
  <2>4. ChainWork[x] = ChainWork[c] /\ nSequenceId[c] = nSequenceId[x]
          => Addr[c] <= Addr[x]
    BY <1>5, <1>6
  <2>. QED BY <2>2, <2>3, <2>4 DEF Less
<1>. QED BY <1>7 DEF BestCandidate
-----------------------------------------------------------------------------
\* Every action of every thread keeps the invariant.
LEMMA NextInv == IInv /\ [Next]_vars => IInv'
<1>. SUFFICES ASSUME IInv, [Next]_vars PROVE IInv'
  OBVIOUS
<1>1. CASE UNCHANGED vars
  <2>1. UNCHANGED <<index, candidates, tip, dirty, cs_main, pc, mostWork, ret,
                    locals, disk, used>>
    BY <1>1 DEF vars
  <2>2. TypeOK'
    BY <2>1 DEF IInv, TypeOK, index, locals, disk
  <2>3. LockInv' /\ StepInv'
    BY <2>1, Zenon DEF IInv, LockInv, StepInv, InStep
  <2>4. LinkInv'
    BY <2>1 DEF IInv, LinkInv, ReadyToLink, Awaits, HasData, index, locals
  <2>5. DiskInv'
    BY <2>1, Zenon DEF IInv, DiskInv, DiskChainComplete, Active, index, disk
  <2>. QED BY <2>2, <2>3, <2>4, <2>5 DEF IInv
<1>2. ASSUME NEW t \in Thread, ThreadStep(t) PROVE IInv'
  <2>1. CASE NothingToDo(t)
    <3>1. "idle" \in PCs \ Locked
      BY DEF PCs, Locked
    <3>. QED BY <2>1, <3>1, FindingLock, MoveInv, Zenon DEF NothingToDo, Locked
  <2>2. CASE LoopCondition(t)
    <3>1. "activate" \in PCs \ Locked /\ "end" \in PCs \ Locked
      BY DEF PCs, Locked
    <3>. QED BY <2>2, <3>1, MoveInv DEF LoopCondition, Locked
  <2>3. CASE BeginStep(t)
    BY <2>3, BestExists, BeginStepInv, Zenon DEF IInv, BeginStep
  <2>4. CASE ConnectTip(t)
    BY <2>4, AncestorWork, ConnectInv
  <2>. QED BY <1>2, <2>1, <2>2, <2>3, <2>4, LinkBlockInv, WriteInv, FlushCoinsInv, DropInv,
              DisconnectInv, ConnectFailsInv, EndInv,
              InvalidateTipInv, InvalidateDoneInv DEF ThreadStep
<1>3. ASSUME NEW t \in Thread, Call(t) PROVE IInv'
  <2>1. ASSUME NEW b \in Block \ {Genesis}, AcceptDuplicate(t, b) PROVE IInv'
    <3>1. "activate" \in PCs \ Locked
      BY DEF PCs, Locked
    <3>. QED BY <2>1, <3>1, MoveInv, Zenon DEF AcceptDuplicate, Locked
  <2>2. ASSUME NEW b \in Block \ {Genesis}, RefuseHeader(t, b) PROVE IInv'
    BY <1>1, <2>2 DEF RefuseHeader
  <2>. QED BY <1>3, <2>1, <2>2, HeaderInv, ReceiveInv, InvalidateInv,
              ReconsiderInv, FlushAlwaysInv DEF Call
<1>. QED BY <1>1, <1>2, <1>3, RestartInv DEF Next

\* The inductive invariant holds in every reachable state.
THEOREM Inductive == Spec => []IInv
  BY InitInv, NextInv, PTL DEF Spec
-----------------------------------------------------------------------------
\* Thread t is doing something, or flushing on the way.
Doing(t, what) == pc[t] = what \/ (pc[t] = "flush" /\ ret[t] = what)

Items(s) == {s[i] : i \in DOMAIN s}
Once(s) == \A i, j \in DOMAIN s : s[i] = s[j] => i = j

ListInv ==
  /\ Once(queue) /\ Items(queue) \cap linked = {}
  /\ \A p \in Block : Once(unlinked[p])
  /\ \A p \in linked : unlinked[p] = << >>
  /\ (\A t \in Thread : pc[t] # "link") => queue = << >>

OrderInv ==
  /\ tip \in linked /\ "HAVE_DATA" \in diskStatus[Genesis]
  /\ \A c \in candidates : ~Less(nSequenceId, c, tip)
  /\ \A t \in Thread : Doing(t, "step") =>
       /\ mostWork[t] \in candidates
       /\ \A c \in candidates : ~Less(nSequenceId, mostWork[t], c)

FlagInv == \A b \in Block :
  /\ nStatus[b] # {} => "TREE" \in nStatus[b]
  /\ HasData(b) => "TRANSACTIONS" \in nStatus[b] /\ b \notin Malformed

\* Only InvalidateBlock, on its way down, has a failed block in the chain.
ValidInv ==
  /\ \A b \in Active \ {Genesis} :
       /\ "SCRIPTS" \in nStatus[b] /\ b \notin Unconnectable
       /\ Failed(nStatus, b) =>
            b = target /\ \E t \in Thread : Doing(t, "invalidate")
  /\ ~Failed(nStatus, Genesis)
  /\ \A t \in Thread : Doing(t, "invalidate") =>
       target # None /\ "FAILED_VALID" \in nStatus[target]
  /\ \A t \in Thread : Doing(t, "step") =>
       \A a \in Ancestors[mostWork[t]] : ~Failed(nStatus, a)

CauseInv == \A b \in Block : Failed(nStatus, b) => Invalid(b)

\* A block that was connected once is a candidate, and so is every valid
\* block that sorts no worse: pruning below the tip lost nothing better.
Covers(r) ==
  /\ ~Invalid(r) /\ Ancestors[r] \cap Unconnectable = {}
  /\ \A b \in linked : ~Invalid(b) /\ ~Less(nSequenceId, b, r) => b \in candidates

CoverInv == (\A t \in Thread : ~Doing(t, "invalidate")) =>
              \E r \in candidates : Covers(r)

TipBest == \A c \in candidates : ~Invalid(c) => ~Less(nSequenceId, tip, c)

\* Thread t will look for the best chain, or is making it active.
Working(t) == \/ pc[t] \in {"link", "activate", "find"}
              \/ Doing(t, "step") \/ Doing(t, "invalidate")
              \/ Doing(t, "loop") /\ mostWork[t] # tip

BestInv ==
  /\ (\E t \in Thread : Working(t)) \/ TipBest
  /\ \A t \in Thread :
       pc[t] = "flush" /\ ret[t] = "loop" /\ mostWork[t] = tip => TipBest

\* b came when its parent had failed, and was not put in mapBlocksUnlinked.
Shut(b) == /\ Failed(nStatus, Parent[b])
           /\ HasData(Parent[b]) => used["invalidate"] > 0

DataInv ==
  /\ \A b \in Block \ {Genesis} : HasData(b) /\ b \notin linked =>
       b \in Items(queue) \cup Items(unlinked[Parent[b]]) \/ Shut(b)
  /\ \A b \in Block : HasData(b) /\ Failed(nStatus, b) =>
       b \in linked \/ used["invalidate"] > 0

ChainInv == FlagInv /\ ValidInv
BestChainInv == CauseInv /\ CoverInv /\ BestInv /\ DataInv

\* The index entries are written by address: parents first, if they lie lower.
ParentsLower == \A b \in Block \ {Genesis} : Addr[Parent[b]] < Addr[b]

\* No crash can have kept the mark of an invalidated block and lost the
\* disconnection.
Untorn == used["crash"] = 0 \/ used["invalidate"] = 0

\* No crash can have separated a failure from its cause, and no failure flag
\* has been taken back.
Orderly == /\ used["reconsider"] = 0
           /\ used["crash"] = 0 \/ (used["invalidate"] = 0 /\ ParentsLower)

ExactInv ==
  /\ ListInv /\ OrderInv
  /\ Untorn => ChainInv
  /\ Orderly => BestChainInv
-----------------------------------------------------------------------------
\* The comparator is a total order that ranks a child above its parent.
LEMMA LessOrder ==
  ASSUME NEW seq \in [Block -> Nat], NEW a \in Block, NEW b \in Block, NEW c \in Block
  PROVE  /\ ~Less(seq, a, a)
         /\ Less(seq, a, b) => ~Less(seq, b, a)
         /\ ~Less(seq, a, b) /\ ~Less(seq, b, a) => a = b
         /\ ~Less(seq, a, b) /\ ~Less(seq, b, c) => ~Less(seq, a, c)
         /\ ChainWork[b] < ChainWork[a] => ~Less(seq, a, b) /\ Less(seq, b, a)
<1>1. /\ ChainWork[a] \in Nat /\ ChainWork[b] \in Nat /\ ChainWork[c] \in Nat
      /\ seq[a] \in Nat /\ seq[b] \in Nat /\ seq[c] \in Nat
      /\ Addr[a] \in Nat /\ Addr[b] \in Nat /\ Addr[c] \in Nat
      /\ Addr[a] = Addr[b] => a = b
  BY Tree, AddrAssumption
<1>. QED BY <1>1 DEF Less

\* Where a call of FlushStateToDisk leaves its thread.
LEMMA FlushDoing ==
  ASSUME TypeOK, NEW t \in Thread, NEW next \in {"idle", "step", "loop", "invalidate"},
         NEW keep, FlushStateToDisk(t, next, keep)
  PROVE  /\ Doing(t, next)'
         /\ \A w \in {"idle", "step", "loop", "invalidate"} : Doing(t, w)' => w = next \/ ret[t] = w
         /\ pc'[t] \in {next, "flush"}
         /\ \A x \in Thread \ {t} : pc'[x] = pc[x] /\ ret'[x] = ret[x]
         /\ \A e \in {"invalidate", "reconsider", "crash"} : used'[e] = used[e]
  BY DEF TypeOK, FlushStateToDisk, Doing

\* FAILED_VALID marks are not taken back.
LEMMA InvalidGrows ==
  ASSUME \A a \in Block : "FAILED_VALID" \in nStatus[a] => "FAILED_VALID" \in nStatus'[a]
  PROVE  \A b \in Block : Invalid(b) => Invalid(b)'
  BY Tree DEF Invalid

\* Actions that leave the index, the candidates and the chain alone.
Move(t) == \/ NothingToDo(t) \/ LoopCondition(t) \/ EndActivate(t)
           \/ FlushAlways(t) \/ WriteBlockIndex(t) \/ FlushCoins(t)
           \/ \E b \in Block : AcceptDuplicate(t, b) \/ RefuseHeader(t, b)

\* Thread x stays in, or out of, a step, InvalidateBlock and the linking loop.
Still(x) == /\ \A w \in {"step", "invalidate"} : Doing(x, w)' <=> Doing(x, w)
            /\ Doing(x, "step") => mostWork'[x] = mostWork[x]
            /\ pc'[x] = "link" <=> pc[x] = "link"

\* They change where their thread is, but not whether it is inside a step or
\* InvalidateBlock.
LEMMA MoveEffect ==
  ASSUME IInv, NEW t \in Thread, Move(t)
  PROVE  /\ UNCHANGED <<nStatus, linked, nSequenceId, unlinked, queue, candidates,
                        tip, target>>
         /\ \A e \in {"invalidate", "reconsider", "crash"} : used'[e] = used[e]
         /\ \A x \in Thread \ {t} :
              pc'[x] = pc[x] /\ ret'[x] = ret[x] /\ mostWork'[x] = mostWork[x]
         /\ Still(t)
<1>0. /\ TypeOK /\ LockInv /\ "flush" \notin {"idle", "step", "loop", "invalidate"}
      /\ ret[t] \in {"idle", "step", "loop", "invalidate"}
  BY DEF IInv, TypeOK
<1>1. CASE NothingToDo(t)
  <2>1. pc[t] \in {"find", "activate"}
    BY <1>1, FindingLock DEF NothingToDo
  <2>. QED BY <1>0, <1>1, <2>1 DEF NothingToDo, index, locals, TypeOK, Still, Doing
<1>2. CASE LoopCondition(t)
  BY <1>0, <1>2 DEF LoopCondition, index, locals, TypeOK, Still, Doing
<1>3. CASE EndActivate(t)
  <2>1. ret[t] = "idle"
    BY <1>0, <1>3 DEF EndActivate, LockInv
  <2>2. /\ pc'[t] \in {"idle", "flush"}
        /\ \A w \in {"step", "invalidate"} : ~Doing(t, w)'
        /\ \A x \in Thread \ {t} : pc'[x] = pc[x] /\ ret'[x] = ret[x]
        /\ \A e \in {"invalidate", "reconsider", "crash"} : used'[e] = used[e]
    BY <1>0, <1>3, <2>1, FlushDoing, Zenon DEF EndActivate
  <2>. QED BY <1>3, <2>2 DEF EndActivate, index, locals, Still, Doing
<1>4. CASE FlushAlways(t)
  <2>1. ret[t] = "idle"
    BY <1>0, <1>4 DEF FlushAlways, LockInv
  <2>. QED BY <1>0, <1>4, <2>1 DEF FlushAlways, index, locals, TypeOK, Still, Doing
<1>5. CASE WriteBlockIndex(t)
  BY <1>0, <1>5 DEF WriteBlockIndex, index, locals, TypeOK, Still, Doing
<1>6. CASE FlushCoins(t)
  BY <1>0, <1>6 DEF FlushCoins, index, locals, TypeOK, Still, Doing
<1>7. ASSUME NEW b \in Block, AcceptDuplicate(t, b) \/ RefuseHeader(t, b)
      PROVE  /\ UNCHANGED <<nStatus, linked, nSequenceId, unlinked, queue,
                            candidates, tip, target, used, mostWork, ret>>
             /\ \A x \in Thread \ {t} : pc'[x] = pc[x]
             /\ pc[t] = "idle" /\ pc'[t] \in {"idle", "activate"}
  BY <1>0, <1>7 DEF AcceptDuplicate, RefuseHeader, vars, index, locals, TypeOK
<1>8. CASE \E b \in Block : AcceptDuplicate(t, b) \/ RefuseHeader(t, b)
  BY <1>7, <1>8 DEF Still, Doing
<1>. QED BY <1>1, <1>2, <1>3, <1>4, <1>5, <1>6, <1>8 DEF Move

\* What the parts of the invariant say survives when what they speak of stays.
LEMMA SameIndex ==
  ASSUME UNCHANGED <<nStatus, linked, nSequenceId, unlinked, queue, candidates,
                     tip, target>>,
         \A e \in {"invalidate", "reconsider", "crash"} : used'[e] = used[e],
         \A x \in Thread : Still(x)
  PROVE  /\ ListInv => ListInv'
         /\ OrderInv /\ "HAVE_DATA" \in diskStatus'[Genesis] => OrderInv'
         /\ ChainInv => ChainInv'
         /\ CauseInv => CauseInv'
         /\ CoverInv => CoverInv'
         /\ DataInv => DataInv'
<1>1. ListInv => ListInv'
  BY DEF ListInv, Once, Items, Still
<1>2. OrderInv /\ "HAVE_DATA" \in diskStatus'[Genesis] => OrderInv'
  BY DEF OrderInv, Still
<1>3. ChainInv => ChainInv'
  <2>1. FlagInv => FlagInv'
    BY DEF FlagInv, HasData
  <2>2. ValidInv => ValidInv'
    BY DEF ValidInv, Active, Still
  <2>. QED BY <2>1, <2>2 DEF ChainInv
<1>4. CauseInv => CauseInv'
  BY DEF CauseInv, Invalid
<1>5. CoverInv => CoverInv'
  BY DEF CoverInv, Covers, Invalid, Still
<1>6. DataInv => DataInv'
  BY DEF DataInv, HasData, Items, Shut
<1>. QED BY <1>1, <1>2, <1>3, <1>4, <1>5, <1>6

\* A thread gives up only when the tip is the best candidate, or, having read
\* it in a race, when the thread that holds cs_main goes on.
LEMMA MoveBest ==
  ASSUME IInv, NEW t \in Thread, Move(t), BestInv
  PROVE  BestInv'
<1>0. /\ UNCHANGED <<nStatus, nSequenceId, candidates, tip>>
      /\ \A x \in Thread \ {t} :
           pc'[x] = pc[x] /\ ret'[x] = ret[x] /\ mostWork'[x] = mostWork[x]
  BY MoveEffect
<1>1. TipBest => TipBest'
  BY <1>0 DEF TipBest, Invalid
<1>2. \A x \in Thread \ {t} : Working(x) => Working(x)'
  BY <1>0 DEF Working, Doing
<1>3. /\ TypeOK /\ LockInv /\ ret[t] \in {"idle", "step", "loop", "invalidate"}
  BY DEF IInv, TypeOK
<1>4. \A x \in Thread \ {t} :
        pc'[x] = "flush" /\ ret'[x] = "loop" /\ mostWork'[x] = tip' => TipBest'
  BY <1>0, <1>1 DEF BestInv
<1>5. CASE NothingToDo(t)
  <2>1. \A c \in candidates : ~Less(nSequenceId, tip, c)
    BY <1>3, <1>5, BestExists DEF NothingToDo
  <2>2. TipBest'
    BY <1>0, <2>1 DEF TipBest
  <2>. QED BY <2>2 DEF BestInv
<1>6. CASE LoopCondition(t)
  <2>1. pc[t] = "loop" /\ pc'[t] \in {"activate", "end"}
    BY <1>3, <1>6 DEF LoopCondition, TypeOK
  <2>2. CASE pc'[t] = "activate"
    BY <1>4, <2>2 DEF BestInv, Working
  <2>3. CASE pc'[t] = "end"
    <3>1. mostWork[t] = tip \/ TipRace
      BY <1>3, <1>6, <2>3 DEF LoopCondition, TypeOK
    <3>2. ASSUME ~TipRace PROVE ~Working(t)
      BY <2>1, <3>1, <3>2 DEF Working, Doing
    <3>3. ASSUME TipRace
          PROVE  TipBest \/ \E x \in Thread \ {t} : Working(x)
      <4>1. PICK x \in Thread : x = cs_main
        BY <1>3, <3>3, Tree DEF TipRace, TypeOK
      <4>2. \/ pc[x] \in {"step", "invalidate"}
            \/ pc[x] = "flush" /\ ret[x] \in {"step", "loop", "invalidate"}
        BY <1>3, <3>3, <4>1 DEF TipRace, TypeOK
      <4>3. Working(x) \/ TipBest
        BY <4>2 DEF Working, Doing, BestInv
      <4>. QED BY <2>1, <4>2, <4>3
    <3>4. TipBest \/ \E x \in Thread \ {t} : Working(x)
      BY <3>2, <3>3 DEF BestInv
    <3>. QED BY <1>1, <1>2, <1>4, <2>3, <3>4 DEF BestInv
  <2>. QED BY <2>1, <2>2, <2>3
<1>7. ASSUME ~NothingToDo(t), ~LoopCondition(t)
      PROVE  /\ Working(t) => Working(t)'
             /\ pc'[t] = "flush" /\ ret'[t] = "loop" =>
                  /\ pc[t] = "flush" /\ ret[t] = "loop"
                  /\ mostWork'[t] = mostWork[t]
  <2>1. CASE EndActivate(t)
    <3>1. pc[t] = "end" /\ ret[t] = "idle" /\ FlushStateToDisk(t, "idle", FALSE)
      BY <1>3, <2>1, Zenon DEF EndActivate, LockInv
    <3>2. ~Doing(t, "loop")' /\ ~Working(t)
      BY <1>3, <3>1, FlushDoing, Zenon DEF Working, Doing
    <3>. QED BY <3>2 DEF Doing
  <2>2. CASE FlushAlways(t)
    <3>1. pc[t] = "idle" /\ ret[t] = "idle" /\ ret' = ret
      BY <1>3, <2>2 DEF FlushAlways, LockInv
    <3>. QED BY <3>1 DEF Working, Doing
  <2>3. CASE WriteBlockIndex(t)
    BY <2>3 DEF WriteBlockIndex, Working, Doing
  <2>4. CASE FlushCoins(t)
    <3>1. pc[t] = "flush" /\ pc'[t] = ret[t] /\ mostWork' = mostWork /\ tip' = tip
      BY <1>3, <2>4 DEF FlushCoins, TypeOK
    <3>. QED BY <1>3, <3>1 DEF Working, Doing
  <2>5. CASE \E b \in Block : AcceptDuplicate(t, b) \/ RefuseHeader(t, b)
    <3>1. pc[t] = "idle" /\ pc'[t] # "flush"
      BY <1>3, <2>5 DEF AcceptDuplicate, RefuseHeader, vars, TypeOK
    <3>. QED BY <3>1 DEF Working, Doing
  <2>. QED BY <1>7, <2>1, <2>2, <2>3, <2>4, <2>5 DEF Move
<1>8. CASE ~NothingToDo(t) /\ ~LoopCondition(t)
  <2>1. pc'[t] = "flush" /\ ret'[t] = "loop" /\ mostWork'[t] = tip' => TipBest'
    BY <1>0, <1>1, <1>7, <1>8 DEF BestInv
  <2>2. (\E x \in Thread : Working(x)') \/ TipBest'
    BY <1>1, <1>2, <1>7, <1>8 DEF BestInv
  <2>. QED BY <1>4, <2>1, <2>2 DEF BestInv
<1>. QED BY <1>5, <1>6, <1>8

\* So they keep the invariant.
LEMMA MoveExact ==
  ASSUME IInv, ExactInv, NEW t \in Thread, Move(t)
  PROVE  ExactInv'
<1>1. \A x \in Thread : Still(x)
  BY MoveEffect DEF Still, Doing
<1>2. "HAVE_DATA" \in diskStatus'[Genesis]
  <2>1. Genesis \in linked /\ HasData(Genesis)
    BY TreeAssumption DEF ExactInv, OrderInv, IInv, LinkInv, TypeOK
  <2>2. CASE WriteBlockIndex(t)
    <3>1. PICK b : diskStatus' = [diskStatus EXCEPT ![b] = nStatus[b]]
      BY <2>2, Zenon DEF WriteBlockIndex
    <3>. QED BY <2>1, <3>1, Tree DEF ExactInv, OrderInv, HasData, IInv, TypeOK
  <2>3. CASE ~WriteBlockIndex(t)
    <3>1. diskStatus' = diskStatus
      BY <2>3, Zenon DEF Move, NothingToDo, LoopCondition, EndActivate, FlushAlways,
         FlushCoins, AcceptDuplicate, RefuseHeader, vars, disk
    <3>. QED BY <3>1 DEF ExactInv, OrderInv
  <2>. QED BY <2>2, <2>3
<1>3. \A e \in {"invalidate", "reconsider", "crash"} : used'[e] = used[e]
  BY MoveEffect
<1>4. /\ ListInv => ListInv'
      /\ OrderInv /\ "HAVE_DATA" \in diskStatus'[Genesis] => OrderInv'
      /\ ChainInv => ChainInv'
      /\ CauseInv => CauseInv'
      /\ CoverInv => CoverInv'
      /\ DataInv => DataInv'
  BY <1>1, MoveEffect, SameIndex
<1>. QED BY <1>2, <1>3, <1>4, MoveBest DEF ExactInv, BestChainInv, Untorn, Orderly

\* What is not linked, and not in the queue, does not matter to ListInv.
LEMMA ListFrame ==
  ASSUME ListInv, UNCHANGED <<linked, unlinked, queue>>,
         \A x \in Thread : pc[x] = "link" => pc'[x] = "link"
  PROVE  ListInv'
  BY DEF ListInv, Once, Items

\* Candidates are taken away, or the tip goes back to its parent.
LEMMA OrderFrame ==
  ASSUME IInv, OrderInv, candidates' \subseteq candidates, linked \subseteq linked',
         UNCHANGED <<nSequenceId, diskStatus>>,
         tip' = tip \/ (tip # Genesis /\ tip' = Parent[tip]),
         \A x \in Thread : Doing(x, "step")' =>
           Doing(x, "step") /\ mostWork'[x] = mostWork[x] /\ mostWork[x] \in candidates'
  PROVE  OrderInv'
<1>1. /\ tip \in Block /\ candidates \subseteq Block /\ nSequenceId \in [Block -> Nat]
      /\ \A b \in linked : Ancestors[b] \subseteq linked
  BY DEF IInv, TypeOK, LinkInv
<1>2. tip' \in linked /\ tip' \in Block
  BY <1>1, Tree DEF OrderInv
<1>3. \A c \in candidates' : ~Less(nSequenceId, c, tip')
  <2>1. TAKE c \in candidates'
  <2>2. CASE tip' = tip
    BY <2>2 DEF OrderInv
  <2>3. CASE tip # Genesis /\ tip' = Parent[tip]
    <3>1. ~Less(nSequenceId, c, tip) /\ ~Less(nSequenceId, tip, tip')
      BY <1>1, <1>2, <2>3, Tree, LessOrder DEF OrderInv
    <3>. QED BY <1>1, <1>2, <3>1, LessOrder
  <2>. QED BY <2>2, <2>3
<1>. QED BY <1>2, <1>3 DEF OrderInv

\* Whether a linked block is invalid is decided by linked blocks.
LEMMA LinkedSame ==
  ASSUME IInv, \A x \in linked : nStatus'[x] = nStatus[x]
  PROVE  \A b \in linked : Invalid(b)' <=> Invalid(b)
  BY DEF IInv, LinkInv, Invalid

\* An arrival changes only the flags of a block that is not linked.
LEMMA ArrivalFrame ==
  ASSUME IInv, OrderInv, NEW t \in Thread, pc[t] = "idle", cs_main = None,
         \A x \in linked : nStatus'[x] = nStatus[x],
         \A x \in Block : nStatus[x] \subseteq nStatus'[x],
         UNCHANGED <<linked, candidates, tip, nSequenceId, target, mostWork, ret>>,
         pc'[t] \in {"idle", "link", "activate"},
         \A x \in Thread \ {t} : pc'[x] = pc[x]
  PROVE  /\ ValidInv => ValidInv'
         /\ CoverInv => CoverInv'
         /\ BestInv => BestInv'
<1>1. /\ Active \subseteq linked /\ Genesis \in linked /\ candidates \subseteq linked
      /\ \A x \in Thread : Doing(x, "step") => Ancestors[mostWork[x]] \subseteq linked
  BY TreeAssumption DEF OrderInv, IInv, LinkInv, TypeOK, Active
<1>2. \A x \in Thread : \A w \in {"step", "invalidate", "loop"} : Doing(x, w)' <=> Doing(x, w)
  BY DEF Doing
<1>3. \A x \in linked : Invalid(x)' <=> Invalid(x)
  BY LinkedSame
<1>4. ValidInv => ValidInv'
  <2>1. target \in Block \cup {None}
    BY DEF IInv, TypeOK
  <2>. QED BY <1>1, <1>2, <2>1 DEF ValidInv, Active, Failed
<1>5. CoverInv => CoverInv'
  BY <1>1, <1>2, <1>3 DEF CoverInv, Covers
<1>6. TipBest => TipBest'
  BY <1>1, <1>3 DEF TipBest
<1>7. \A x \in Thread : Working(x) => Working(x)'
  BY <1>2 DEF Working, Doing
<1>8. BestInv => BestInv'
  BY <1>6, <1>7 DEF BestInv
<1>. QED BY <1>4, <1>5, <1>8

\* A header, or a block that fails its own checks.
LEMMA HeaderExact ==
  ASSUME IInv, ExactInv, NEW t \in Thread, NEW b \in Block \ {Genesis},
         ProcessHeader(t, b) \/ RejectBlock(t, b)
  PROVE  ExactInv'
<1>0. TypeOK /\ LinkInv
  BY DEF IInv
<1>1. /\ pc[t] = "idle" /\ cs_main = None /\ ~HasData(b)
      /\ UNCHANGED <<linked, nSequenceId, unlinked, candidates, tip, pc, mostWork,
                     ret, queue, target, diskStatus, used>>
  <2>1. CASE ProcessHeader(t, b)
    BY <2>1 DEF ProcessHeader, locals, disk, HasData, mapBlockIndex
  <2>2. CASE RejectBlock(t, b)
    BY <2>2 DEF RejectBlock, locals, disk, HasData, AlreadyHave
  <2>. QED BY <2>1, <2>2
<1>2. PICK f \in {{"TREE"}, {"TREE", "FAILED_VALID"}} : \A x \in Block :
        nStatus'[x] = IF x = b THEN nStatus[x] \cup f ELSE nStatus[x]
  <2>1. CASE ProcessHeader(t, b)
    BY <1>0, <2>1, Zenon DEF ProcessHeader, WithHeader, TypeOK
  <2>2. CASE RejectBlock(t, b)
    <3>1. \A x \in Block : nStatus'[x] = IF x = b THEN (nStatus[x] \cup {"TREE"}) \cup {"FAILED_VALID"}
                                                ELSE nStatus[x]
      BY <1>0, <2>2, Zenon DEF RejectBlock, WithHeader, TypeOK
    <3>2. \A x \in Block : nStatus'[x] = IF x = b THEN nStatus[x] \cup {"TREE", "FAILED_VALID"}
                                                ELSE nStatus[x]
      BY <3>1
    <3>. QED BY <3>2
  <2>. QED BY <2>1, <2>2
<1>3. /\ \A x \in Block : nStatus'[x] = IF x = b THEN nStatus[x] \cup f ELSE nStatus[x]
      /\ "TREE" \in f /\ "HAVE_DATA" \notin f /\ "TRANSACTIONS" \notin f
      /\ f \subseteq {"TREE", "FAILED_VALID"}
  BY <1>2
<1>4. b \notin linked /\ \A x \in linked : x \in Block /\ nStatus'[x] = nStatus[x]
  BY <1>0, <1>1, <1>3, Zenon DEF LinkInv, TypeOK
<1>5. ListInv' /\ OrderInv'
  <2>1. OrderInv'
    BY <1>1, OrderFrame DEF ExactInv, OrderInv, Doing
  <2>. QED BY <1>1, <2>1, ListFrame DEF ExactInv
<1>6. /\ ValidInv => ValidInv'
      /\ CoverInv => CoverInv'
      /\ BestInv => BestInv'
  BY <1>1, <1>3, <1>4, ArrivalFrame, Zenon DEF ExactInv
<1>7. \A x \in Block : HasData(x)' <=> HasData(x)
  BY <1>3, Zenon DEF HasData
<1>8. FlagInv => FlagInv'
  BY <1>1, <1>3, Zenon DEF FlagInv, HasData
<1>9. CauseInv => CauseInv'
  <2>1. \A x \in Block : Invalid(x) => Invalid(x)'
    BY <1>3, InvalidGrows, Zenon
  <2>2. \A x \in Block : Failed(nStatus', x) => Failed(nStatus, x) \/ "FAILED_VALID" \in nStatus'[x]
    BY <1>3, Zenon DEF Failed, FAILED_MASK
  <2>. QED BY <2>1, <2>2, Tree DEF CauseInv, Invalid
<1>10. DataInv => DataInv'
  <2>1. \A x \in Block : Failed(nStatus, x) => Failed(nStatus', x)
    BY <1>3, Zenon DEF Failed
  <2>2. \A x \in Block : HasData(x) => (Failed(nStatus', x) <=> Failed(nStatus, x))
    BY <1>1, <1>3, Zenon DEF Failed
  <2>3. \A x \in Block \ {Genesis} : Shut(x) => Shut(x)'
    BY <1>1, <1>7, <2>1, Tree DEF Shut
  <2>. QED BY <1>1, <1>7, <2>2, <2>3 DEF DataInv, Items
<1>. QED BY <1>1, <1>5, <1>6, <1>8, <1>9, <1>10 DEF ExactInv, ChainInv, BestChainInv, Untorn, Orderly

\* Sequences without duplicates.
LEMMA OnceAppend ==
  ASSUME NEW S, NEW s \in Seq(S), NEW b \in S, Once(s), b \notin Items(s)
  PROVE  Once(Append(s, b)) /\ Items(Append(s, b)) = Items(s) \cup {b}
<1>. DEFINE r == Append(s, b)
<1>1. /\ DOMAIN r = DOMAIN s \cup {Len(s) + 1} /\ Len(s) + 1 \notin DOMAIN s
      /\ r[Len(s) + 1] = b /\ \A i \in DOMAIN s : r[i] = s[i]
  OBVIOUS
<1>. HIDE DEF r
<1>2. Once(r) /\ Items(r) = Items(s) \cup {b}
  BY <1>1 DEF Once, Items
<1>. QED BY <1>2 DEF r

\* Its first member is taken from a list.
LEMMA OnceTail ==
  ASSUME NEW S, NEW s \in Seq(S), s # << >>, Once(s)
  PROVE  Once(Tail(s)) /\ Items(Tail(s)) = Items(s) \ {Head(s)} /\ Head(s) \in Items(s)
<1>. DEFINE r == Tail(s)
<1>1. /\ Len(s) \in Nat \ {0} /\ DOMAIN s = 1..Len(s) /\ DOMAIN r = 1..(Len(s) - 1)
      /\ Head(s) = s[1] /\ \A i \in DOMAIN r : r[i] = s[i + 1]
  OBVIOUS
<1>. HIDE DEF r
<1>2. Once(r)
  BY <1>1 DEF Once
<1>3. \A i \in DOMAIN r : r[i] \in Items(s) /\ r[i] # Head(s)
  <2>1. TAKE i \in DOMAIN r
  <2>2. i + 1 \in DOMAIN s /\ 1 \in DOMAIN s /\ i + 1 # 1
    BY <1>1
  <2>. QED BY <1>1, <2>2 DEF Items, Once
<1>4. \A i \in DOMAIN s : s[i] # Head(s) => \E j \in DOMAIN r : r[j] = s[i]
  <2>1. SUFFICES ASSUME NEW i \in DOMAIN s, s[i] # Head(s)
                 PROVE  \E j \in DOMAIN r : r[j] = s[i]
    OBVIOUS
  <2>2. i # 1 /\ i \in Nat
    BY <1>1, <2>1
  <2>3. i - 1 \in DOMAIN r /\ r[i - 1] = s[i]
    BY <1>1, <2>2
  <2>. QED BY <2>3
<1>5. Items(r) = Items(s) \ {Head(s)}
  BY <1>3, <1>4 DEF Items
<1>6. 1 \in DOMAIN s
  BY <1>1
<1>. QED BY <1>1, <1>2, <1>5, <1>6, Zenon DEF r, Items

\* Two lists that share no member are joined.
LEMMA OnceConcat ==
  ASSUME NEW S, NEW s \in Seq(S), NEW r \in Seq(S), Once(s), Once(r),
         Items(s) \cap Items(r) = {}
  PROVE  Once(s \o r) /\ Items(s \o r) = Items(s) \cup Items(r)
<1>. DEFINE q == s \o r
<1>1. /\ Len(s) \in Nat /\ Len(r) \in Nat
      /\ DOMAIN s = 1..Len(s) /\ DOMAIN r = 1..Len(r)
      /\ DOMAIN q = 1..(Len(s) + Len(r))
      /\ \A i \in DOMAIN q : q[i] = IF i <= Len(s) THEN s[i] ELSE r[i - Len(s)]
  OBVIOUS
<1>. HIDE DEF q
<1>2. \A i \in DOMAIN q : \/ i \in DOMAIN s /\ q[i] = s[i] /\ q[i] \in Items(s)
                          \/ /\ i - Len(s) \in DOMAIN r /\ q[i] = r[i - Len(s)]
                             /\ q[i] \in Items(r)
  BY <1>1 DEF Items
<1>3. \A i \in DOMAIN s : i \in DOMAIN q /\ q[i] = s[i]
  BY <1>1
<1>4. \A i \in DOMAIN r : i + Len(s) \in DOMAIN q /\ q[i + Len(s)] = r[i]
  BY <1>1
<1>5. Items(q) = Items(s) \cup Items(r)
  BY <1>2, <1>3, <1>4 DEF Items
<1>6. Once(q)
  <2>1. SUFFICES ASSUME NEW i \in DOMAIN q, NEW j \in DOMAIN q, q[i] = q[j] PROVE i = j
    BY DEF Once
  <2>2. CASE q[i] \in Items(s)
    BY <1>2, <2>1, <2>2 DEF Once
  <2>3. CASE q[i] \in Items(r)
    <3>1. /\ i - Len(s) \in DOMAIN r /\ j - Len(s) \in DOMAIN r
          /\ r[i - Len(s)] = r[j - Len(s)]
      BY <1>2, <2>1, <2>3
    <3>2. i - Len(s) = j - Len(s) /\ i \in Nat /\ j \in Nat
      BY <1>1, <3>1 DEF Once
    <3>. QED BY <1>1, <3>2
  <2>. QED BY <1>2, <2>2, <2>3
<1>. QED BY <1>5, <1>6 DEF q

\* Block data arrives.
LEMMA ReceiveExact ==
  ASSUME IInv, ExactInv, IndexIntact, NEW t \in Thread, NEW b \in Block \ {Genesis},
         ReceiveBlock(t, b)
  PROVE  ExactInv'
<1>0. TypeOK /\ LinkInv /\ LockInv /\ ListInv /\ OrderInv
  BY DEF IInv, ExactInv
<1>1. /\ pc[t] = "idle" /\ cs_main = None /\ ~HasData(b) /\ b \notin Malformed
      /\ UNCHANGED <<linked, nSequenceId, candidates, tip, mostWork, ret, target,
                     diskStatus, used>>
  BY DEF ReceiveBlock, AlreadyHave, HasData, disk
<1>2. \A x \in Block : nStatus'[x] = IF x = b
        THEN nStatus[x] \cup {"TREE", "TRANSACTIONS", "HAVE_DATA"} ELSE nStatus[x]
  <2>1. \A x \in Block : nStatus'[x] = IF x = b
          THEN (nStatus[x] \cup {"TREE"}) \cup {"TRANSACTIONS", "HAVE_DATA"} ELSE nStatus[x]
    BY <1>0, Zenon DEF ReceiveBlock, WithHeader, TypeOK
  <2>. QED BY <2>1
<1>3. b \notin linked /\ \A x \in linked : x \in Block /\ nStatus'[x] = nStatus[x]
  BY <1>0, <1>1, <1>2, Zenon DEF LinkInv, TypeOK
<1>4. \/ /\ Parent[b] \in linked /\ queue' = <<b>> /\ unlinked' = unlinked
         /\ pc' = [pc EXCEPT ![t] = "link"]
      \/ /\ Parent[b] \notin linked /\ queue' = queue
         /\ pc' = [pc EXCEPT ![t] = "activate"]
         /\ unlinked' = IF IsValid(nStatus, Parent[b], "TREE")
                        THEN [unlinked EXCEPT ![Parent[b]] = Append(@, b)]
                        ELSE unlinked
  BY DEF ReceiveBlock, ParentReady
<1>5. queue = << >> /\ (\A x \in Thread \ {t} : pc'[x] = pc[x])
      /\ pc'[t] \in {"link", "activate"}
  <2>1. \A x \in Thread : pc[x] # "link"
    BY <1>0, <1>1, Tree DEF LockInv, Locked
  <2>. QED BY <1>0, <1>4, <2>1 DEF ListInv, TypeOK
<1>6. Parent[b] \in Block /\ Parent[b] # b
  <2>1. Parent[b] \in Block /\ ChainWork[Parent[b]] < ChainWork[b] /\ ChainWork[b] \in Nat
    BY Tree
  <2>. QED BY <2>1
<1>a. \A p \in Block : /\ unlinked[p] \in Seq(Block) /\ Once(unlinked[p])
                       /\ b \notin Items(unlinked[p])
  <2>1. TAKE p \in Block
  <2>2. unlinked[p] \in Seq(Block) /\ Once(unlinked[p])
    BY <1>0 DEF TypeOK, ListInv
  <2>3. \A i \in DOMAIN unlinked[p] : HasData(unlinked[p][i])
    BY <1>0, Zenon DEF LinkInv, Awaits
  <2>4. b \notin Items(unlinked[p])
    BY <1>1, <2>3, Zenon DEF Items
  <2>. QED BY <2>2, <2>4
<1>7. \A p \in Block : /\ unlinked'[p] = unlinked[p]
                          \/ /\ p = Parent[b] /\ p \notin linked
                             /\ unlinked'[p] = Append(unlinked[p], b)
                       /\ Once(unlinked'[p]) /\ Items(unlinked[p]) \subseteq Items(unlinked'[p])
  <2>1. TAKE p \in Block
  <2>2. \/ unlinked'[p] = unlinked[p]
        \/ /\ p = Parent[b] /\ p \notin linked
           /\ unlinked'[p] = Append(unlinked[p], b)
    <3>1. CASE unlinked' = unlinked
      BY <3>1
    <3>2. CASE /\ Parent[b] \notin linked
               /\ unlinked' = [unlinked EXCEPT ![Parent[b]] = Append(@, b)]
      BY <1>0, <1>6, <3>2, Zenon DEF TypeOK
    <3>. QED BY <1>4, <3>1, <3>2
  <2>3. unlinked[p] \in Seq(Block) /\ Once(unlinked[p]) /\ b \notin Items(unlinked[p])
    BY <1>a
  <2>4. /\ Once(Append(unlinked[p], b))
        /\ Items(unlinked[p]) \subseteq Items(Append(unlinked[p], b))
    BY <2>3, OnceAppend
  <2>. QED BY <2>2, <2>3, <2>4, Zenon
<1>8. ListInv'
  <2>1. CASE queue' = queue
    <3>1. \A p \in linked' : unlinked'[p] = << >>
      BY <1>0, <1>1, <1>7 DEF ListInv, TypeOK
    <3>. QED BY <1>0, <1>1, <1>5, <1>7, <2>1, <3>1 DEF ListInv
  <2>2. CASE queue' = <<b>> /\ unlinked' = unlinked /\ pc'[t] = "link"
    <3>1. Once(<<b>>) /\ Items(<<b>>) = {b}
      BY DEF Once, Items
    <3>. QED BY <1>0, <1>1, <1>3, <2>2, <3>1, Zenon DEF ListInv
  <2>. QED BY <1>0, <1>4, <2>1, <2>2 DEF TypeOK
<1>9. OrderInv'
  BY <1>0, <1>1, <1>5, OrderFrame, Zenon DEF OrderInv, Doing
<1>10. /\ ValidInv => ValidInv'
       /\ CoverInv => CoverInv'
       /\ BestInv => BestInv'
  BY <1>0, <1>1, <1>2, <1>3, <1>5, ArrivalFrame, Zenon
<1>11. FlagInv => FlagInv'
  BY <1>1, <1>2, Zenon DEF FlagInv, HasData
<1>12. \A x \in Block : Failed(nStatus', x) <=> Failed(nStatus, x)
  BY <1>2, Zenon DEF Failed, FAILED_MASK
<1>13. CauseInv => CauseInv'
  <2>1. \A x \in Block : Invalid(x) => Invalid(x)'
    BY <1>2, InvalidGrows, Zenon
  <2>. QED BY <1>12, <2>1 DEF CauseInv
<1>14. /\ ~Failed(nStatus, b)
       /\ FlagInv => (IsValid(nStatus, Parent[b], "TREE") \/ Failed(nStatus, Parent[b]))
  <2>1. AcceptBlockHeader(b)
    BY DEF ReceiveBlock
  <2>2. ~Failed(nStatus, b) /\ Parent[b] \in mapBlockIndex
    BY <2>1 DEF AcceptBlockHeader, IndexIntact, mapBlockIndex, Failed
  <2>. QED BY <1>6, <2>2 DEF mapBlockIndex, FlagInv, IsValid
<1>15. FlagInv /\ DataInv => DataInv'
  <2>1. SUFFICES ASSUME FlagInv, DataInv PROVE DataInv'
    OBVIOUS
  <2>2. \A x \in Block : HasData(x)' <=> x = b \/ HasData(x)
    BY <1>2, Zenon DEF HasData
  <2>3. \A x \in Block \ {Genesis} : Shut(x) => Shut(x)'
    BY <1>1, <1>12, <1>14, <2>2, Tree DEF Shut
  <2>4. \A x \in Block : HasData(x)' /\ Failed(nStatus', x) =>
          x \in linked' \/ used'["invalidate"] > 0
    BY <1>1, <1>12, <1>14, <2>1, <2>2 DEF DataInv
  <2>5. b \in Items(queue') \cup Items(unlinked'[Parent[b]]) \/ Shut(b)'
    <3>1. CASE queue' = <<b>>
      BY <3>1 DEF Items
    <3>2. CASE unlinked' = [unlinked EXCEPT ![Parent[b]] = Append(@, b)]
      <4>1. unlinked'[Parent[b]] = Append(unlinked[Parent[b]], b)
        BY <1>0, <1>6, <3>2 DEF TypeOK
      <4>2. /\ unlinked[Parent[b]] \in Seq(Block) /\ Once(unlinked[Parent[b]])
            /\ b \notin Items(unlinked[Parent[b]])
        BY <1>6, <1>a
      <4>. QED BY <4>1, <4>2, OnceAppend
    <3>3. CASE Parent[b] \notin linked /\ Failed(nStatus, Parent[b])
      BY <1>1, <1>6, <1>12, <2>1, <2>2, <3>3, Zenon DEF Shut, DataInv
    <3>. QED BY <1>4, <1>14, <2>1, <3>1, <3>2, <3>3
  <2>6. ASSUME NEW x \in Block \ {Genesis}, HasData(x), x \notin linked
        PROVE  x \in Items(queue') \cup Items(unlinked'[Parent[x]]) \/ Shut(x)'
    <3>0. Items(queue) = {}
      BY <1>5 DEF Items
    <3>1. x \in Items(unlinked[Parent[x]]) \/ Shut(x)
      BY <2>1, <2>6, <3>0, Zenon DEF DataInv
    <3>. QED BY <1>7, <2>3, <3>1, Tree, Zenon
  <2>. QED BY <1>1, <2>2, <2>4, <2>5, <2>6 DEF DataInv
<1>. QED BY <1>1, <1>8, <1>9, <1>10, <1>11, <1>13, <1>15 DEF ExactInv, ChainInv, BestChainInv, Untorn, Orderly
=============================================================================
