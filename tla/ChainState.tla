----------------------------- MODULE ChainState -----------------------------
(***************************************************************************)
(* The block index and the active chain (main.cpp): headers and blocks     *)
(* arrive in any order, the candidate with the most work is made active    *)
(* step by step, an operator invalidates and reconsiders blocks, and the   *)
(* index and the coin database's best block reach the disk in a flush that *)
(* a crash can cut short.                                                  *)
(*                                                                         *)
(* Several threads call ProcessNewBlock and ActivateBestChain (message     *)
(* handler, import, miner, RPC).  cs_main serialises them, and             *)
(* ActivateBestChain releases it after every step.  The functions that     *)
(* loop under cs_main (ReceivedBlockTransactions, FindMostWorkChain,       *)
(* ActivateBestChainStep, InvalidateBlock, FlushStateToDisk) take one      *)
(* action per iteration, so a crash finds them halfway.                    *)
(*                                                                         *)
(* A block's nTx and nChainTx are only ever compared with 0; nChainTx # 0  *)
(* is membership of linked.  The validity level of nStatus is the set of   *)
(* the levels reached.                                                     *)
(***************************************************************************)
EXTENDS Integers, Sequences, FiniteSets

CONSTANTS Block,          \* the blocks that exist
          Genesis,
          Parent,         \* the block a header's hashPrevBlock names
          Ancestors,      \* a block, its parent, and so on down to Genesis
          ChainWork,      \* nChainWork
          Addr,           \* where a block's CBlockIndex lies in memory
          ByAddr,         \* the members of a set, by their address
          Malformed,      \* blocks that ContextualCheckBlock refuses
          Unconnectable,  \* blocks that ConnectBlock refuses
          Thread,
          None,
          MaxInvalidate, MaxReconsider, MaxFlushes, MaxCrashes \* bounds

ASSUME BlockAssumption ==
  /\ IsFiniteSet(Block) /\ Genesis \in Block /\ None \notin Block \cup Thread
  /\ Malformed \subseteq Block \ {Genesis}
  /\ Unconnectable \subseteq Block \ {Genesis}
ASSUME TreeAssumption ==
  /\ Parent \in [Block \ {Genesis} -> Block]
  /\ Ancestors \in [Block -> SUBSET Block]
  /\ Ancestors[Genesis] = {Genesis}
  /\ \A b \in Block \ {Genesis} :
       Ancestors[b] = Ancestors[Parent[b]] \cup {b}
  /\ \A b \in Block : Genesis \in Ancestors[b]
  /\ \A b \in Block : \A a \in Ancestors[b] :
       /\ Ancestors[a] \subseteq Ancestors[b]
       /\ a # b => \E c \in Ancestors[b] \ {Genesis} : Parent[c] = a
ASSUME WorkAssumption ==
  /\ ChainWork \in [Block -> Nat]
  /\ \A b \in Block \ {Genesis} : ChainWork[Parent[b]] < ChainWork[b]
ASSUME AddrAssumption ==
  /\ Addr \in [Block -> Nat]
  /\ \A a, b \in Block : Addr[a] = Addr[b] => a = b
  /\ ByAddr \in [SUBSET Block -> Seq(Block)]
  /\ \A S \in SUBSET Block :
       /\ S = {ByAddr[S][i] : i \in DOMAIN ByAddr[S]}
       /\ \A i, j \in DOMAIN ByAddr[S] :
            i < j => Addr[ByAddr[S][i]] < Addr[ByAddr[S][j]]
ASSUME BoundAssumption ==
  {MaxInvalidate, MaxReconsider, MaxFlushes, MaxCrashes} \subseteq Nat

Flag == {"TREE", "TRANSACTIONS", "SCRIPTS", "HAVE_DATA", "HAVE_UNDO",
         "FAILED_VALID", "FAILED_CHILD"}
FAILED_MASK == {"FAILED_VALID", "FAILED_CHILD"}

VARIABLES
  nStatus,     \* flags of each block; {} when it is not in mapBlockIndex
  linked,      \* blocks with nChainTx # 0
  nSequenceId, nBlockSequenceId,
  candidates,  \* setBlockIndexCandidates
  unlinked,    \* mapBlocksUnlinked: per parent, its children as inserted
  tip,         \* chainActive.Tip()
  dirty,       \* setDirtyBlockIndex
  cs_main,     \* the thread that holds it, or None
  pc,          \* where each thread is
  mostWork,    \* each thread's pindexMostWork
  ret,         \* where each thread continues after FlushStateToDisk
  queue, target, oldTip,  \* locals of the thread that holds cs_main
  diskStatus,  \* what the block index database says of each block
  diskBest,    \* the coin database's best block
  used         \* how often each bounded event has happened

index == <<nStatus, linked, nSequenceId, nBlockSequenceId, unlinked>>
locals == <<queue, target, oldTip>>
disk == <<diskStatus, diskBest>>
vars == <<index, candidates, tip, dirty, cs_main, pc, mostWork, ret, locals,
          disk, used>>

mapBlockIndex == {b \in Block : nStatus[b] # {}}
Failed(status, b) == status[b] \cap FAILED_MASK # {}
\* CBlockIndex::IsValid
IsValid(status, b, level) == level \in status[b] /\ ~Failed(status, b)

Active == Ancestors[tip]

\* CBlockIndexWorkComparator, the order of setBlockIndexCandidates.
Less(seq, a, b) ==
  \/ ChainWork[a] < ChainWork[b]
  \/ ChainWork[a] = ChainWork[b] /\ seq[a] > seq[b]
  \/ ChainWork[a] = ChainWork[b] /\ seq[a] = seq[b] /\ Addr[a] > Addr[b]

GenesisStatus == {"TREE", "TRANSACTIONS", "HAVE_DATA"}

\* What InitBlockIndex leaves.
Init ==
  /\ nStatus = [b \in Block |-> IF b = Genesis THEN GenesisStatus ELSE {}]
  /\ linked = {Genesis}
  /\ nSequenceId = [b \in Block |-> IF b = Genesis THEN 1 ELSE 0]
  /\ nBlockSequenceId = 2
  /\ candidates = {Genesis}
  /\ unlinked = [b \in Block |-> << >>]
  /\ tip = Genesis
  /\ dirty = {}
  /\ cs_main = None
  /\ pc = [t \in Thread |-> "idle"]
  /\ mostWork = [t \in Thread |-> None]
  /\ ret = [t \in Thread |-> "idle"]
  /\ queue = << >> /\ target = None /\ oldTip = None
  /\ diskStatus = nStatus
  /\ diskBest = Genesis
  /\ used = [e \in {"invalidate", "reconsider", "flush", "crash"} |-> 0]
-----------------------------------------------------------------------------
\* The conditions under which AcceptBlockHeader returns true.
AcceptBlockHeader(b) ==
  IF b \in mapBlockIndex
  THEN ~Failed(nStatus, b)
  ELSE Parent[b] \in mapBlockIndex /\ ~Failed(nStatus, Parent[b])

\* nStatus once AcceptBlockHeader has run AddToBlockIndex if it is needed.
WithHeader(b) == [nStatus EXCEPT ![b] = @ \cup {"TREE"}]

\* The "headers" message: a header alone.
ProcessHeader(t, b) ==
  /\ pc[t] = "idle" /\ cs_main = None
  /\ b \notin mapBlockIndex /\ AcceptBlockHeader(b)
  /\ nStatus' = WithHeader(b)
  /\ dirty' = dirty \cup {b}
  /\ UNCHANGED <<linked, nSequenceId, nBlockSequenceId, unlinked, candidates,
                 tip, cs_main, pc, mostWork, ret, locals, disk, used>>

\* A header or a block that AcceptBlockHeader refuses leaves no trace.
RefuseHeader(t, b) ==
  /\ pc[t] = "idle" /\ cs_main = None
  /\ ~AcceptBlockHeader(b)
  /\ UNCHANGED vars

NeverHave(b) == FALSE

\* AcceptBlock does not store a block twice.
AlreadyHave(b) == "HAVE_DATA" \in nStatus[b]

\* AcceptBlock: the data is there already, ProcessNewBlock goes on.
AcceptDuplicate(t, b) ==
  /\ pc[t] = "idle" /\ cs_main = None
  /\ AcceptBlockHeader(b) /\ AlreadyHave(b)
  /\ pc' = [pc EXCEPT ![t] = "activate"]
  /\ UNCHANGED <<index, candidates, tip, dirty, cs_main, mostWork, ret,
                 locals, disk, used>>

\* AcceptBlock: the block's own checks fail.
RejectBlock(t, b) ==
  /\ pc[t] = "idle" /\ cs_main = None
  /\ AcceptBlockHeader(b) /\ ~AlreadyHave(b)
  /\ b \in Malformed
  /\ nStatus' = [WithHeader(b) EXCEPT ![b] = @ \cup {"FAILED_VALID"}]
  /\ dirty' = dirty \cup {b}
  /\ UNCHANGED <<linked, nSequenceId, nBlockSequenceId, unlinked, candidates,
                 tip, cs_main, pc, mostWork, ret, locals, disk, used>>

AlwaysReady(b) == TRUE

\* Whether a block whose data arrives can be linked at once.
ParentReady(b) == Parent[b] \in linked

\* ReceivedBlockTransactions, up to its loop over the blocks to link.
ReceiveBlock(t, b) ==
  /\ pc[t] = "idle" /\ cs_main = None
  /\ AcceptBlockHeader(b) /\ ~AlreadyHave(b)
  /\ b \notin Malformed
  /\ nStatus' = [WithHeader(b) EXCEPT ![b] =
                   @ \cup {"TRANSACTIONS", "HAVE_DATA"}]
  /\ dirty' = dirty \cup {b}
  /\ \/ /\ ParentReady(b)
        /\ queue' = <<b>>
        /\ pc' = [pc EXCEPT ![t] = "link"]
        /\ cs_main' = t
        /\ UNCHANGED unlinked
     \/ /\ ~ParentReady(b)
        /\ unlinked' = IF IsValid(nStatus, Parent[b], "TREE")
                       THEN [unlinked EXCEPT ![Parent[b]] = Append(@, b)]
                       ELSE unlinked
        /\ pc' = [pc EXCEPT ![t] = "activate"]
        /\ UNCHANGED <<queue, cs_main>>
  /\ UNCHANGED <<linked, nSequenceId, nBlockSequenceId, candidates, tip,
                 mostWork, ret, target, oldTip, disk, used>>

NotErased(p) == unlinked
NoChildren(p) == << >>

\* mapBlocksUnlinked.equal_range(p), and its erasure.
UnlinkedChildren(p) == unlinked[p]
EraseUnlinked(p) == [unlinked EXCEPT ![p] = << >>]

\* One round of the loop in ReceivedBlockTransactions.
LinkBlock(t) ==
  LET b == Head(queue)
      seq == [nSequenceId EXCEPT ![b] = nBlockSequenceId]
  IN  /\ pc[t] = "link"
      /\ linked' = linked \cup {b}
      /\ nSequenceId' = seq
      /\ nBlockSequenceId' = nBlockSequenceId + 1
      /\ candidates' = IF Less(seq, b, tip) THEN candidates
                       ELSE candidates \cup {b}
      /\ queue' = Tail(queue) \o UnlinkedChildren(b)
      /\ unlinked' = EraseUnlinked(b)
      /\ IF queue' = << >>
         THEN pc' = [pc EXCEPT ![t] = "activate"] /\ cs_main' = None
         ELSE UNCHANGED <<pc, cs_main>>
      /\ UNCHANGED <<nStatus, tip, dirty, mostWork, ret, target, oldTip,
                     disk, used>>
-----------------------------------------------------------------------------
\* FlushStateToDisk decides by the cache's size and the clock whether to
\* write; thread t continues at next, which runs under cs_main iff keep.
FlushStateToDisk(t, next, keep) ==
  \/ /\ pc' = [pc EXCEPT ![t] = next]
     /\ cs_main' = IF keep THEN t ELSE None
     /\ UNCHANGED <<ret, used>>
  \/ /\ used["flush"] < MaxFlushes
     /\ used' = [used EXCEPT !["flush"] = @ + 1]
     /\ pc' = [pc EXCEPT ![t] = "flush"]
     /\ ret' = [ret EXCEPT ![t] = next]
     /\ cs_main' = t

\* FlushStateToDisk() itself, called by gettxoutsetinfo and by Shutdown.
FlushAlways(t) ==
  /\ pc[t] = "idle" /\ cs_main = None
  /\ used["flush"] < MaxFlushes
  /\ used' = [used EXCEPT !["flush"] = @ + 1]
  /\ pc' = [pc EXCEPT ![t] = "flush"]
  /\ cs_main' = t
  /\ UNCHANGED <<index, candidates, tip, dirty, mostWork, ret, locals, disk>>

\* Dirty index entries are written one by one, in the set's order.
WriteBlockIndex(t) ==
  /\ pc[t] = "flush"
  /\ dirty # {}
  /\ LET b == Head(ByAddr[dirty])
     IN  /\ diskStatus' = [diskStatus EXCEPT ![b] = nStatus[b]]
         /\ dirty' = dirty \ {b}
  /\ UNCHANGED <<index, candidates, tip, cs_main, pc, mostWork, ret, locals,
                 diskBest, used>>

CoinsAnyTime == TRUE

\* pcoinsTip->Flush() comes after the last index entry.
IndexWritten == dirty = {}

\* The coins are written; FlushStateToDisk returns.
FlushCoins(t) ==
  /\ pc[t] = "flush" /\ IndexWritten
  /\ diskBest' = tip
  /\ pc' = [pc EXCEPT ![t] = ret[t]]
  /\ ret' = [ret EXCEPT ![t] = "idle"]
  /\ cs_main' = IF ret[t] \in {"step", "invalidate"} THEN t ELSE None
  /\ UNCHANGED <<index, candidates, tip, dirty, mostWork, locals,
                 diskStatus, used>>
-----------------------------------------------------------------------------
\* FindMostWorkChain runs: at the head of ActivateBestChain's loop, or again.
Finding(t) == pc[t] = "find" \/ (pc[t] = "activate" /\ cs_main = None)

BestCandidate ==
  CHOOSE c \in candidates : \A d \in candidates : ~Less(nSequenceId, c, d)
Path == Ancestors[BestCandidate] \ Active
NoneFailed == {}
FailedOnPath == {b \in Path : Failed(nStatus, b)}

WholePath(test) == Path \ {test}
NothingErased(chain) == candidates

\* The blocks that descend from the failed block, up to the candidate.
DescendsFrom(test) == {b \in Path \ {test} : test \in Ancestors[b]}

WithoutChain(chain) == candidates \ chain

\* The best candidate has a failed ancestor: its chain leaves the set.
DropFailedChain(t) ==
  /\ Finding(t)
  /\ candidates # {} /\ FailedOnPath # {}
  /\ LET test == CHOOSE f \in FailedOnPath : FailedOnPath \subseteq Ancestors[f]
         marked == DescendsFrom(test)
     IN  /\ nStatus' = [b \in Block |-> IF b \in marked
                          THEN nStatus[b] \cup {"FAILED_CHILD"}
                          ELSE nStatus[b]]
         /\ candidates' = WithoutChain(marked \cup {test})
  /\ pc' = [pc EXCEPT ![t] = "find"]
  /\ cs_main' = t
  /\ UNCHANGED <<linked, nSequenceId, nBlockSequenceId, unlinked, tip, dirty,
                 mostWork, ret, locals, disk, used>>

\* No candidate, or the tip is the best: ActivateBestChain returns.
NothingToDo(t) ==
  /\ Finding(t)
  /\ candidates # {} => FailedOnPath = {} /\ BestCandidate = tip
  /\ pc' = [pc EXCEPT ![t] = "idle"]
  /\ mostWork' = [mostWork EXCEPT ![t] = None]
  /\ cs_main' = None
  /\ UNCHANGED <<index, candidates, tip, dirty, ret, locals, disk, used>>

\* ActivateBestChainStep begins.
BeginStep(t) ==
  /\ Finding(t)
  /\ candidates # {} /\ FailedOnPath = {} /\ BestCandidate # tip
  /\ mostWork' = [mostWork EXCEPT ![t] = BestCandidate]
  /\ oldTip' = tip
  /\ pc' = [pc EXCEPT ![t] = "step"]
  /\ cs_main' = t
  /\ UNCHANGED <<index, candidates, tip, dirty, ret, queue, target, disk,
                 used>>

\* DisconnectTip, for a tip that is not on the way to mostWork.
DisconnectTip(t) ==
  /\ pc[t] = "step"
  /\ tip \notin Ancestors[mostWork[t]]
  /\ tip' = Parent[tip]
  /\ FlushStateToDisk(t, "step", TRUE)
  /\ UNCHANGED <<index, candidates, dirty, mostWork, locals, disk>>

\* The next block on the way to mostWork.
NextBlock(t) ==
  CHOOSE b \in Ancestors[mostWork[t]] \ {Genesis} : Parent[b] = tip

PruneTipToo(cands, newTip) == {c \in cands : Less(nSequenceId, newTip, c)}

PruneBlockIndexCandidates(cands, newTip) ==
  {c \in cands : ~Less(nSequenceId, c, newTip)}

\* What ConnectBlock adds to nStatus.
ConnectFlags == {"SCRIPTS", "HAVE_UNDO"}

\* ConnectTip succeeds.  The step is over once the new tip has more work
\* than the tip it began with, or is mostWork.
ConnectTip(t) ==
  /\ pc[t] = "step"
  /\ tip \in Ancestors[mostWork[t]]
  /\ LET b == NextBlock(t)
         over == ChainWork[b] > ChainWork[oldTip] \/ b = mostWork[t]
     IN  /\ b \notin Unconnectable
         /\ nStatus' = [nStatus EXCEPT ![b] = @ \cup ConnectFlags]
         /\ dirty' = IF nStatus' = nStatus THEN dirty ELSE dirty \cup {b}
         /\ tip' = b
         /\ candidates' = PruneBlockIndexCandidates(candidates, b)
         /\ oldTip' = IF over THEN None ELSE oldTip
         /\ FlushStateToDisk(t, IF over THEN "loop" ELSE "step", ~over)
  /\ UNCHANGED <<linked, nSequenceId, nBlockSequenceId, unlinked, mostWork,
                 queue, target, disk>>

\* ConnectTip fails: InvalidBlockFound, and the step is over.
ConnectTipFails(t) ==
  /\ pc[t] = "step"
  /\ tip \in Ancestors[mostWork[t]]
  /\ LET b == NextBlock(t)
     IN  /\ b \in Unconnectable
         /\ nStatus' = [nStatus EXCEPT ![b] = @ \cup {"FAILED_VALID"}]
         /\ dirty' = dirty \cup {b}
         /\ candidates' = candidates \ {b}
  /\ oldTip' = None
  /\ pc' = [pc EXCEPT ![t] = "loop"]
  /\ cs_main' = None
  /\ UNCHANGED <<linked, nSequenceId, nBlockSequenceId, unlinked, tip,
                 mostWork, ret, queue, target, disk, used>>

\* The thread that holds cs_main is writing chainActive; inside a flush it is
\* between its change of the coins and UpdateTip.
TipRace == /\ cs_main # None
           /\ \/ pc[cs_main] \in {"step", "invalidate"}
              \/ pc[cs_main] = "flush" /\ ret[cs_main] # "idle"

\* The loop condition of ActivateBestChain reads the tip without cs_main:
\* in a race it may come out either way.
LoopCondition(t) ==
  /\ pc[t] = "loop"
  /\ \/ /\ mostWork[t] # tip \/ TipRace
        /\ pc' = [pc EXCEPT ![t] = "activate"]
        /\ UNCHANGED mostWork
     \/ /\ mostWork[t] = tip \/ TipRace
        /\ pc' = [pc EXCEPT ![t] = "end"]
        /\ mostWork' = [mostWork EXCEPT ![t] = None]
  /\ UNCHANGED <<index, candidates, tip, dirty, cs_main, ret, locals, disk,
                 used>>

\* ActivateBestChain ends with a periodic flush.
EndActivate(t) ==
  /\ pc[t] = "end" /\ cs_main = None
  /\ FlushStateToDisk(t, "idle", FALSE)
  /\ UNCHANGED <<index, candidates, tip, dirty, mostWork, locals, disk>>
-----------------------------------------------------------------------------
\* The RPC invalidateblock: InvalidateBlock up to its loop.
InvalidateBlock(t, b) ==
  /\ used["invalidate"] < MaxInvalidate
  /\ pc[t] = "idle" /\ cs_main = None
  /\ b \in mapBlockIndex \ {Genesis}
  /\ nStatus' = [nStatus EXCEPT ![b] = @ \cup {"FAILED_VALID"}]
  /\ dirty' = dirty \cup {b}
  /\ candidates' = candidates \ {b}
  /\ target' = b
  /\ pc' = [pc EXCEPT ![t] = "invalidate"]
  /\ cs_main' = t
  /\ used' = [used EXCEPT !["invalidate"] = @ + 1]
  /\ UNCHANGED <<linked, nSequenceId, nBlockSequenceId, unlinked, tip,
                 mostWork, ret, queue, oldTip, disk>>

\* One round of its loop.
InvalidateTip(t) ==
  /\ pc[t] = "invalidate" /\ target \in Active
  /\ nStatus' = [nStatus EXCEPT ![tip] = @ \cup {"FAILED_CHILD"}]
  /\ dirty' = dirty \cup {tip}
  /\ candidates' = candidates \ {tip}
  /\ tip' = Parent[tip]
  /\ FlushStateToDisk(t, "invalidate", TRUE)
  /\ UNCHANGED <<linked, nSequenceId, nBlockSequenceId, unlinked, mostWork,
                 locals, disk>>

NoRefill == {}

\* The blocks InvalidateBlock adds to the candidates again.
Refill == {b \in linked : /\ IsValid(nStatus, b, "TRANSACTIONS")
                          /\ ~Less(nSequenceId, b, tip)}

\* It refills the candidates and returns; the RPC goes on to activate.
InvalidateDone(t) ==
  /\ pc[t] = "invalidate" /\ target \notin Active
  /\ candidates' = candidates \cup Refill
  /\ target' = None
  /\ pc' = [pc EXCEPT ![t] = "activate"]
  /\ cs_main' = None
  /\ UNCHANGED <<index, tip, dirty, mostWork, ret, queue, oldTip, disk, used>>

\* A reconsidered block becomes a candidate.
WorthTrying(x) ==
  /\ "TRANSACTIONS" \in nStatus[x] /\ x \in linked
  /\ Less(nSequenceId, tip, x)

\* The RPC reconsiderblock.
ReconsiderBlock(t, b) ==
  LET below == {x \in mapBlockIndex : /\ ~IsValid(nStatus, x, "TRANSACTIONS")
                                      /\ b \in Ancestors[x]}
      above == {x \in Ancestors[b] : Failed(nStatus, x)}
      status == [x \in Block |-> IF x \in below \cup above
                                 THEN nStatus[x] \ FAILED_MASK
                                 ELSE nStatus[x]]
  IN  /\ used["reconsider"] < MaxReconsider
      /\ pc[t] = "idle" /\ cs_main = None
      /\ b \in mapBlockIndex
      /\ nStatus' = status
      /\ dirty' = dirty \cup below \cup above
      /\ candidates' = candidates \cup {x \in below : WorthTrying(x)}
      /\ pc' = [pc EXCEPT ![t] = "activate"]
      /\ used' = [used EXCEPT !["reconsider"] = @ + 1]
      /\ UNCHANGED <<linked, nSequenceId, nBlockSequenceId, unlinked, tip,
                     cs_main, mostWork, ret, locals, disk>>
-----------------------------------------------------------------------------
DataAlone(data) == data

\* LoadBlockIndexDB: nChainTx is set where all ancestors' data is there, and
\* a block with data is unlinked where it is not set for the parent.
WholeChains(data) == {b \in Block : Ancestors[b] \subseteq data}
AwaitsParent(b, whole) == Parent[b] \notin whole

\* The process dies, and LoadBlockIndexDB rebuilds the rest from the disk;
\* AppInit2 then calls ActivateBestChain in thread t.
Restart(t) ==
  LET data == {b \in Block : "HAVE_DATA" \in diskStatus[b]}
      whole == WholeChains(data)
      zero == [b \in Block |-> 0]
      waiting(p) == {b \in data \ {Genesis} :
                       Parent[b] = p /\ AwaitsParent(b, whole)}
  IN  /\ used["crash"] < MaxCrashes
      /\ used' = [used EXCEPT !["crash"] = @ + 1]
      /\ nStatus' = diskStatus
      /\ linked' = whole
      /\ nSequenceId' = zero /\ nBlockSequenceId' = 1
      /\ unlinked' = [p \in Block |-> ByAddr[waiting(p)]]
      /\ tip' = diskBest
      /\ candidates' =
           {b \in whole : /\ IsValid(diskStatus, b, "TRANSACTIONS")
                          /\ ~Less(zero, b, diskBest)}
      /\ dirty' = {}
      /\ cs_main' = None
      /\ pc' = [x \in Thread |-> IF x = t THEN "activate" ELSE "idle"]
      /\ mostWork' = [x \in Thread |-> None]
      /\ ret' = [x \in Thread |-> "idle"]
      /\ queue' = << >> /\ target' = None /\ oldTip' = None
      /\ UNCHANGED disk

\* Every entry's parent was on disk when the index was loaded.  Otherwise
\* InsertBlockIndex has made an empty entry for it, and what the program
\* does from there is not modelled.
IndexIntact == \A b \in mapBlockIndex \ {Genesis} : Parent[b] \in mapBlockIndex

ThreadStep(t) ==
  \/ LinkBlock(t)
  \/ WriteBlockIndex(t) \/ FlushCoins(t)
  \/ DropFailedChain(t) \/ NothingToDo(t) \/ BeginStep(t)
  \/ DisconnectTip(t) \/ ConnectTip(t) \/ ConnectTipFails(t)
  \/ LoopCondition(t) \/ EndActivate(t)
  \/ InvalidateTip(t) \/ InvalidateDone(t)

Call(t) ==
  \/ \E b \in Block \ {Genesis} :
       \/ ProcessHeader(t, b) \/ RefuseHeader(t, b)
       \/ AcceptDuplicate(t, b) \/ RejectBlock(t, b) \/ ReceiveBlock(t, b)
       \/ InvalidateBlock(t, b)
  \/ \E b \in Block : ReconsiderBlock(t, b)
  \/ FlushAlways(t)

Next == /\ IndexIntact
        /\ \E t \in Thread : ThreadStep(t) \/ Call(t) \/ Restart(t)

\* A thread that is inside one of these functions keeps running.
Fairness == \A t \in Thread : WF_vars(ThreadStep(t))

Spec == Init /\ [][Next]_vars /\ Fairness
-----------------------------------------------------------------------------
PCs == {"idle", "link", "activate", "find", "step", "loop", "end", "flush",
        "invalidate"}

\* The type of every variable.
TypeOK ==
  /\ nStatus \in [Block -> SUBSET Flag] /\ diskStatus \in [Block -> SUBSET Flag]
  /\ linked \subseteq Block /\ candidates \subseteq Block /\ dirty \subseteq Block
  /\ nSequenceId \in [Block -> Nat] /\ nBlockSequenceId \in Nat
  /\ unlinked \in [Block -> Seq(Block)] /\ queue \in Seq(Block)
  /\ tip \in Block /\ diskBest \in Block
  /\ cs_main \in Thread \cup {None}
  /\ pc \in [Thread -> PCs]
  /\ ret \in [Thread -> {"idle", "step", "loop", "invalidate"}]
  /\ mostWork \in [Thread -> Block \cup {None}]
  /\ target \in (Block \ {Genesis}) \cup {None} /\ oldTip \in Block \cup {None}
  /\ used \in [{"invalidate", "reconsider", "flush", "crash"} -> Nat]

HasData(b) == "HAVE_DATA" \in nStatus[b]
Invalid(b) == \E a \in Ancestors[b] : "FAILED_VALID" \in nStatus[a]
Complete(b) == \A a \in Ancestors[b] : HasData(a)
Quiet == cs_main = None /\ \A t \in Thread : pc[t] = "idle"

\* FindMostWorkChain asserts of every block on the way to a candidate that
\* its data is there and its nChainTx is set: in every state, even while
\* blocks are being linked or the candidates refilled.
CandidatesUsable == \A c \in candidates : Complete(c) /\ Ancestors[c] \subseteq linked

\* CheckBlockIndex: whenever cs_main is free, nChainTx is set exactly for the
\* blocks with all their ancestors' data.
NChainTxExact == cs_main = None => linked = {b \in Block : Complete(b)}

\* InvalidateBlock has been called, and b has an invalid ancestor.
Excused(b) == used["invalidate"] > 0 /\ Invalid(b)

\* The same, whatever order the data came in, except below an invalid block
\* that InvalidateBlock may have marked before the data came.
LinkedExactly == cs_main = None =>
  \A b \in Block : /\ b \in linked => Complete(b)
                   /\ Complete(b) => b \in linked \/ Excused(b)

\* CheckBlockIndex: a block with data that is not linked, and has no invalid
\* ancestor, is in mapBlocksUnlinked, once; no other block is, with the same
\* exception.
UnlinkedExactly ==
  cs_main = None =>
    \A b \in Block \ {Genesis} :
      LET found == {i \in DOMAIN unlinked[Parent[b]] : unlinked[Parent[b]][i] = b}
      IN  IF HasData(b) /\ ~Complete(b)
          THEN Invalid(b) \/ Cardinality(found) = 1
          ELSE found = {} \/ Excused(b)

\* CheckBlockIndex: a block marked failed has, or descends from, a block that
\* itself failed.
FailedHasCause == cs_main = None =>
  \A b \in mapBlockIndex : Failed(nStatus, b) => Invalid(b)

\* CheckBlockIndex, of the candidates: a block with all data and no invalid
\* ancestor that sorts no worse than the tip is one, and none sorts worse.
CandidatesExact ==
  /\ \A c \in candidates : ~Less(nSequenceId, c, tip)
  /\ \A b \in mapBlockIndex :
       Complete(b) /\ ~Invalid(b) /\ ~Less(nSequenceId, b, tip)
         => b \in candidates

\* CheckBlockIndex passes whenever no thread is inside ActivateBestChain.
CandidatesWhenQuiet == Quiet => CandidatesExact

\* What CheckBlockIndex asserts of the index, whatever order blocks came in,
\* threads interleaved and crashes interrupted a flush: the links, the failure
\* flags and, when no activation is under way, the candidates are exact.
CheckBlockIndex ==
  LinkedExactly /\ UnlinkedExactly /\ FailedHasCause /\ CandidatesWhenQuiet

\* CheckBlockIndex passes wherever it is called: by ProcessNewBlock when it
\* has accepted a block, and by ActivateBestChain at its end.
CandidatesWhenChecked ==
  cs_main = None /\ (\E t \in Thread : pc[t] \in {"activate", "end"})
    => CandidatesExact

\* PruneBlockIndexCandidates asserts that a successor of the tip "we're working
\* towards" is left: the goal of a step stays a candidate.  And as long as
\* reconsiderblock has not been called, there is one whenever cs_main is free.
CandidatesLeft ==
  /\ \A t \in Thread : pc[t] = "step" => mostWork[t] \in candidates
  /\ cs_main = None /\ used["reconsider"] = 0 => candidates # {}

\* Once every call has returned, no block that has all its data and no known
\* invalid ancestor has more work than the tip: ActivateBestChain does not
\* leave a better chain behind, however its callers interleave.
BestChainActive ==
  Quiet => \A b \in Block : Complete(b) /\ ~Invalid(b)
                               => ChainWork[b] <= ChainWork[tip]

\* As long as reconsiderblock has not been called, CheckBlockIndex passes and no
\* better chain is left behind: InvalidateBlock marks only what descends from
\* its target, and refills the candidates.
InvalidateIsExact ==
  used["reconsider"] = 0 => CheckBlockIndex /\ BestChainActive

\* However often the process died between two writes of FlushStateToDisk, after the
\* reload CheckBlockIndex passes and no better chain is left behind.
RecoveryIsExact == CheckBlockIndex /\ BestChainActive

\* Whenever cs_main is free, every block of the active chain has been
\* connected (its scripts checked, its undo data written) and is not failed.
ActiveChainValid ==
  cs_main = None => \A b \in Active \ {Genesis} :
    {"SCRIPTS", "HAVE_UNDO", "HAVE_DATA"} \subseteq nStatus[b]
      /\ ~Failed(nStatus, b)

\* At every instant a crash would find, on disk, the index entries of the
\* whole chain that the coin database describes, with data and undo data:
\* the order of the writes in FlushStateToDisk.
DiskChainComplete ==
  \A b \in Ancestors[diskBest] \ {Genesis} :
    {"HAVE_DATA", "HAVE_UNDO"} \subseteq diskStatus[b]

\* CheckBlockIndex: every entry of mapBlockIndex is at least TREE valid, so
\* LoadBlockIndexGuts never meets an entry whose parent is missing.
AllTreeValid == IndexIntact

\* The keys by which std::set orders the candidates do not change while a
\* block is in the set.
CandidateKeysStable ==
  [][used'["crash"] = used["crash"] =>
       \A c \in candidates \cap candidates' : nSequenceId'[c] = nSequenceId[c]]_vars

\* Every call of ActivateBestChain returns.
ActivationEnds == \A t \in Thread : pc[t] = "activate" ~> pc[t] = "idle"

Sound(b) == Ancestors[b] \cap (Malformed \cup Unconnectable) = {}

\* Once a chain of valid blocks has all its data, the node gets to a tip of
\* at least as much work, in spite of better-looking chains that turn out
\* invalid on the way.
ValidChainActivated ==
  \A b \in Block : Complete(b) /\ Sound(b) ~> ChainWork[tip] >= ChainWork[b]
=============================================================================
