----------------------- MODULE ChainStateExactSteps ------------------------
(***************************************************************************)
(* Linking, the actions of activation and the operator's commands keep the *)
(* invariant of ChainStateExact.                                           *)
(***************************************************************************)
EXTENDS ChainStateExact, TLAPS

\* A block is linked: only its own place in the order changes.
LEMMA LinkExact ==
  ASSUME IInv, ExactInv, NEW t \in Thread, LinkBlock(t)
  PROVE  ExactInv'
<1>0. TypeOK /\ LinkInv /\ LockInv /\ ListInv /\ OrderInv
  BY DEF IInv, ExactInv
<1>1. pc[t] = "link" /\ queue \in Seq(Block) /\ queue # << >>
  BY <1>0 DEF LinkBlock, LinkInv, TypeOK
<1>. PICK b \in Block : b = Head(queue) /\ b \in Items(queue)
  BY <1>0, <1>1, OnceTail DEF ListInv
<1>2. b \notin linked /\ ReadyToLink(b) /\ b # Genesis
  BY <1>0 DEF ListInv, LinkInv, Items, ReadyToLink
<1>3. /\ linked' = linked \cup {b}
      /\ nSequenceId' = [nSequenceId EXCEPT ![b] = nBlockSequenceId]
      /\ candidates' = IF Less(nSequenceId', b, tip) THEN candidates ELSE candidates \cup {b}
      /\ queue' = Tail(queue) \o unlinked[b]
      /\ unlinked' = [unlinked EXCEPT ![b] = << >>]
      /\ \/ queue' = << >> /\ pc' = [pc EXCEPT ![t] = "activate"]
         \/ queue' # << >> /\ pc' = pc
      /\ UNCHANGED <<nStatus, tip, mostWork, ret, target, diskStatus, used>>
  BY DEF LinkBlock, UnlinkedChildren, EraseUnlinked, disk
<1>4. \A x \in Thread : /\ x # t => pc[x] \notin Locked /\ pc'[x] = pc[x]
                        /\ \A w \in {"step", "invalidate"} : ~Doing(x, w) /\ ~Doing(x, w)'
                        /\ pc'[x] # "flush"
  <2>1. \A x \in Thread \ {t} : pc[x] \notin Locked
    BY <1>0, <1>1 DEF LockInv, Locked
  <2>2. \A x \in Thread : pc'[x] = pc[x] \/ (x = t /\ pc'[x] = "activate")
    BY <1>0, <1>3 DEF TypeOK
  <2>. QED BY <1>1, <2>1, <2>2 DEF Doing, Locked
<1>5. pc'[t] \in {"link", "activate"} /\ (queue' # << >> => pc'[t] = "link")
  BY <1>0, <1>1, <1>3, Zenon DEF TypeOK
<1>6. nSequenceId' \in [Block -> Nat] /\ tip \in linked /\ tip # b
  BY <1>0, <1>2, <1>3, Zenon DEF TypeOK, OrderInv
<1>7. \A x, y \in linked : Less(nSequenceId', x, y) <=> Less(nSequenceId, x, y)
  <2>1. \A x \in linked : nSequenceId'[x] = nSequenceId[x]
    BY <1>0, <1>2, <1>3 DEF TypeOK
  <2>. QED BY <2>1 DEF Less
<1>8. candidates \subseteq linked /\ linked \subseteq Block
  BY <1>0 DEF LinkInv, TypeOK
<1>9. /\ unlinked[b] \in Seq(Block) /\ Once(unlinked[b])
      /\ \A x \in Items(unlinked[b]) : Parent[x] = b /\ x # Genesis /\ x \in Block
  <2>1. unlinked[b] \in Seq(Block) /\ Once(unlinked[b])
    BY <1>0 DEF TypeOK, ListInv
  <2>2. \A i \in DOMAIN unlinked[b] : unlinked[b][i] \in Block
    BY <2>1
  <2>3. \A i \in DOMAIN unlinked[b] : Awaits(unlinked[b][i], b)
    BY <1>0 DEF LinkInv
  <2>. QED BY <2>1, <2>2, <2>3 DEF Items, Awaits
<1>10. /\ Tail(queue) \in Seq(Block) /\ Once(Tail(queue))
       /\ Items(Tail(queue)) = Items(queue) \ {b}
  BY <1>0, <1>1, OnceTail DEF ListInv
<1>11. \A x \in Items(queue) : x \notin linked /\ Parent[x] \in linked
  BY <1>0 DEF ListInv, LinkInv, Items, ReadyToLink
<1>12. /\ Once(queue') /\ Items(queue') = (Items(queue) \ {b}) \cup Items(unlinked[b])
  <2>1. Items(Tail(queue)) \cap Items(unlinked[b]) = {}
    BY <1>2, <1>9, <1>10, <1>11
  <2>2. /\ Once(Tail(queue) \o unlinked[b])
        /\ Items(Tail(queue) \o unlinked[b]) = Items(Tail(queue)) \cup Items(unlinked[b])
    <3>. DEFINE q == Tail(queue)  u == unlinked[b]
    <3>1. q \in Seq(Block) /\ u \in Seq(Block) /\ Once(q) /\ Once(u) /\ Items(q) \cap Items(u) = {}
      BY <1>9, <1>10, <2>1
    <3>. HIDE DEF q, u
    <3>2. Once(q \o u) /\ Items(q \o u) = Items(q) \cup Items(u)
      BY <3>1, OnceConcat
    <3>. QED BY <3>2 DEF q, u
  <2>. QED BY <1>3, <1>10, <2>2
<1>13. \A p \in Block : unlinked'[p] = IF p = b THEN << >> ELSE unlinked[p]
  BY <1>0, <1>3 DEF TypeOK
<1>14. ListInv'
  <2>1. \A x \in Items(unlinked[b]) : x \notin linked /\ x # b
    <3>1. TAKE x \in Items(unlinked[b])
    <3>2. Parent[x] = b /\ x \in Block \ {Genesis}
      BY <1>9
    <3>3. b \in Ancestors[x] /\ ChainWork[b] < ChainWork[x] /\ ChainWork[b] \in Nat
      BY <3>2, Tree
    <3>. QED BY <1>0, <1>2, <3>3 DEF LinkInv
  <2>2. Items(queue') \cap linked' = {}
    BY <1>3, <1>11, <1>12, <2>1
  <2>3. Once(<< >>)
    BY DEF Once
  <2>4. \A p \in Block : Once(unlinked'[p])
    BY <1>0, <1>13, <2>3 DEF ListInv
  <2>5. \A p \in linked' : unlinked'[p] = << >>
    BY <1>0, <1>3, <1>8, <1>13 DEF ListInv
  <2>. QED BY <1>5, <1>12, <2>2, <2>4, <2>5 DEF ListInv
<1>15. OrderInv'
  <2>1. \A c \in candidates' : ~Less(nSequenceId', c, tip)
    BY <1>0, <1>3, <1>6, <1>7, <1>8, Zenon DEF OrderInv
  <2>. QED BY <1>0, <1>3, <1>4, <2>1, Zenon DEF OrderInv
<1>16. ChainInv => ChainInv'
  BY <1>3, <1>4, Zenon DEF ChainInv, FlagInv, ValidInv, HasData, Active
<1>17. CauseInv => CauseInv'
  BY <1>3, Zenon DEF CauseInv, Invalid
<1>18. CoverInv => CoverInv'
  <2>1. SUFFICES ASSUME CoverInv PROVE \E r \in candidates' : Covers(r)'
    BY DEF CoverInv
  <2>2. PICK r \in candidates : Covers(r)
    BY <1>4, <2>1 DEF CoverInv
  <2>3. r \in linked /\ r \in Block /\ tip \in Block /\ r \in candidates'
    BY <1>3, <1>6, <1>8
  <2>4. ~Less(nSequenceId', r, tip)
    BY <1>0, <1>6, <1>7, <2>3 DEF OrderInv
  <2>5. ~Less(nSequenceId', b, r) => b \in candidates'
    <3>1. ~Less(nSequenceId', b, r) => ~Less(nSequenceId', b, tip)
      BY <1>6, <2>3, <2>4, LessOrder
    <3>. QED BY <1>3, <3>1
  <2>6. \A x \in linked' : ~Invalid(x)' /\ ~Less(nSequenceId', x, r) => x \in candidates'
    BY <1>3, <1>7, <2>2, <2>3, <2>5, Zenon DEF Covers, Invalid
  <2>. QED BY <1>3, <2>2, <2>3, <2>6, Zenon DEF Covers, Invalid
<1>19. BestInv'
  BY <1>4, <1>5 DEF BestInv, Working
<1>20. DataInv => DataInv'
  <2>1. \A x \in Block \ {Genesis} : Shut(x)' <=> Shut(x)
    BY <1>3, Zenon DEF Shut, HasData
  <2>2. ASSUME NEW x \in Block \ {Genesis},
               x \in Items(queue) \cup Items(unlinked[Parent[x]]), x \notin linked'
        PROVE  x \in Items(queue') \cup Items(unlinked'[Parent[x]])
    <3>1. x # b /\ Parent[x] \in Block
      BY <1>3, <2>2, Tree
    <3>2. CASE x \in Items(queue)
      BY <1>12, <3>1, <3>2
    <3>3. CASE x \in Items(unlinked[b]) /\ Parent[x] = b
      BY <1>12, <3>3
    <3>4. CASE x \in Items(unlinked[Parent[x]]) /\ Parent[x] # b
      <4>1. unlinked'[Parent[x]] = unlinked[Parent[x]]
        BY <1>13, <3>1, <3>4
      <4>. QED BY <3>4, <4>1
    <3>. QED BY <2>2, <3>2, <3>3, <3>4
  <2>. QED BY <1>3, <2>1, <2>2, Zenon DEF DataInv, HasData
<1>. QED BY <1>3, <1>14, <1>15, <1>16, <1>17, <1>18, <1>19, <1>20 DEF ExactInv, BestChainInv, Untorn, Orderly

\* FindMostWorkChain stops at the topmost failed block of the path, and drops
\* what descends from it: invalid blocks that the active chain does not have.
LEMMA DropEffect ==
  ASSUME IInv, ExactInv, NEW t \in Thread, DropFailedChain(t)
  PROVE  \E test \in Path : \E marked \in SUBSET Path :
           /\ Failed(nStatus, test)
           /\ \A b \in marked : test \in Ancestors[b]
           /\ nStatus' = [b \in Block |-> IF b \in marked
                            THEN nStatus[b] \cup {"FAILED_CHILD"} ELSE nStatus[b]]
           /\ candidates' = candidates \ (marked \cup {test})
           /\ Path \subseteq linked \ Active
<1>0. TypeOK /\ LinkInv
  BY DEF IInv
<1>1. BestCandidate \in candidates /\ FailedOnPath # {}
  BY <1>0, BestExists DEF DropFailedChain
<1>2. BestCandidate \in Block /\ Path \subseteq Block /\ Path \subseteq linked \ Active
  BY <1>0, <1>1, Tree DEF LinkInv, TypeOK, Path
<1>3. FailedOnPath \subseteq Path /\ IsFiniteSet(FailedOnPath)
  BY <1>2, BlockAssumption, FS_Subset DEF FailedOnPath
<1>. DEFINE work == [f \in FailedOnPath |-> ChainWork[f]]
<1>4. work \in [FailedOnPath -> Nat]
  BY <1>2, <1>3, Tree
<1>5. PICK m \in FailedOnPath : \A f \in FailedOnPath : work[f] <= work[m]
  <2>. HIDE DEF work
  <2>. QED BY <1>1, <1>3, <1>4, FiniteMax
<1>6. FailedOnPath \subseteq Ancestors[m]
  <2>1. SUFFICES ASSUME NEW f \in FailedOnPath PROVE f \in Ancestors[m]
    OBVIOUS
  <2>2. f \in Ancestors[BestCandidate] /\ m \in Ancestors[BestCandidate]
    BY <1>3 DEF Path
  <2>3. ChainWork[f] <= ChainWork[m]
    BY <1>5
  <2>. QED BY <1>2, <2>2, <2>3, AncestorsChain
<1>7. PICK test : /\ test = CHOOSE f \in FailedOnPath : FailedOnPath \subseteq Ancestors[f]
                  /\ test \in FailedOnPath
  BY <1>6
<1>8. /\ nStatus' = [b \in Block |-> IF b \in DescendsFrom(test)
                       THEN nStatus[b] \cup {"FAILED_CHILD"} ELSE nStatus[b]]
      /\ candidates' = candidates \ (DescendsFrom(test) \cup {test})
  BY <1>7 DEF DropFailedChain, WithoutChain
<1>9. DescendsFrom(test) \in SUBSET Path /\ \A b \in DescendsFrom(test) : test \in Ancestors[b]
  BY DEF DescendsFrom
<1>. QED BY <1>2, <1>7, <1>8, <1>9, Zenon DEF FailedOnPath

\* The chain of a failed candidate leaves the set: nothing valid does.
LEMMA DropExact ==
  ASSUME IInv, ExactInv, NEW t \in Thread, DropFailedChain(t)
  PROVE  ExactInv'
<1>0. TypeOK /\ LinkInv /\ ListInv /\ OrderInv
  BY DEF IInv, ExactInv
<1>1. PICK test \in Path, marked \in SUBSET Path :
           /\ Failed(nStatus, test)
           /\ \A b \in marked : test \in Ancestors[b]
           /\ nStatus' = [b \in Block |-> IF b \in marked
                            THEN nStatus[b] \cup {"FAILED_CHILD"} ELSE nStatus[b]]
           /\ candidates' = candidates \ (marked \cup {test})
           /\ Path \subseteq linked \ Active
  BY DropEffect
<1>2. /\ pc' = [pc EXCEPT ![t] = "find"]
      /\ UNCHANGED <<linked, nSequenceId, unlinked, tip, mostWork, ret, queue, target,
                     diskStatus, used>>
      /\ Finding(t)
  BY DEF DropFailedChain, locals, disk
<1>3. \A x \in Thread : /\ \A w \in {"step", "invalidate"} : ~Doing(x, w) /\ ~Doing(x, w)'
                        /\ pc'[x] # "flush" /\ pc[x] # "link" /\ pc'[x] # "link"
  <2>1. /\ pc[t] \in {"find", "activate"} /\ ret[t] = "idle"
        /\ \A x \in Thread \ {t} : pc[x] \notin Locked /\ ret[x] = "idle"
    BY <1>2, FindingLock
  <2>2. \A x \in Thread : pc'[x] = IF x = t THEN "find" ELSE pc[x]
    BY <1>0, <1>2 DEF TypeOK
  <2>. QED BY <1>2, <2>1, <2>2 DEF Doing, Locked
<1>4. pc'[t] = "find"
  BY <1>0, <1>2 DEF TypeOK
<1>5. \A x \in Block : /\ nStatus[x] \subseteq nStatus'[x]
                       /\ x \notin marked => nStatus'[x] = nStatus[x]
                       /\ \A f \in {"HAVE_DATA", "TREE", "TRANSACTIONS", "SCRIPTS", "FAILED_VALID"} :
                            f \in nStatus'[x] <=> f \in nStatus[x]
  BY <1>1
<1>6. marked \subseteq linked \ Active /\ test \in linked \ Active /\ linked \subseteq Block
  BY <1>0, <1>1 DEF TypeOK
<1>7. \A x \in Block : Invalid(x)' <=> Invalid(x)
  BY <1>5, Tree DEF Invalid
<1>8. ListInv'
  BY <1>0, <1>2, <1>3, ListFrame
<1>9. OrderInv'
  BY <1>0, <1>1, <1>2, <1>3, OrderFrame
<1>10. FlagInv => FlagInv'
  <2>1. \A x \in marked : nStatus[x] # {}
    BY <1>0, <1>6 DEF LinkInv, HasData
  <2>. QED BY <1>5, <2>1 DEF FlagInv, HasData
<1>11. ValidInv => ValidInv'
  <2>1. Genesis \in Active /\ Active \subseteq Block
    BY <1>0, Tree, TreeAssumption DEF Active, TypeOK
  <2>2. \A x \in Active : nStatus'[x] = nStatus[x]
    BY <1>5, <1>6, <2>1, Zenon
  <2>. QED BY <1>2, <1>3, <2>1, <2>2 DEF ValidInv, Active, Failed
<1>12. CauseInv => \A x \in marked \cup {test} : Invalid(x)
  <2>1. CauseInv => Invalid(test)
    BY <1>1, <1>6 DEF CauseInv
  <2>2. \A x \in marked : Ancestors[test] \subseteq Ancestors[x]
    BY <1>1, <1>6, TreeAssumption
  <2>. QED BY <2>1, <2>2 DEF Invalid
<1>13. CauseInv => CauseInv'
  BY <1>5, <1>7, <1>12 DEF CauseInv, Failed
<1>14. CauseInv /\ CoverInv => CoverInv'
  <2>1. SUFFICES ASSUME CauseInv, CoverInv PROVE \E r \in candidates' : Covers(r)'
    BY DEF CoverInv
  <2>2. PICK r \in candidates : Covers(r)
    BY <1>3, <2>1 DEF CoverInv
  <2>3. r \in candidates' /\ r \in Block
    BY <1>0, <1>1, <1>12, <2>1, <2>2, Zenon DEF Covers, TypeOK
  <2>4. \A b \in linked' : ~Invalid(b)' /\ ~Less(nSequenceId', b, r) => b \in candidates'
    BY <1>1, <1>2, <1>6, <1>7, <1>12, <2>1, <2>2 DEF Covers
  <2>5. ~Invalid(r)' /\ Ancestors[r] \cap Unconnectable = {}
    BY <1>7, <2>2, <2>3 DEF Covers
  <2>. QED BY <2>3, <2>4, <2>5 DEF Covers
<1>15. BestInv'
  BY <1>3, <1>4 DEF BestInv, Working
<1>16. DataInv => DataInv'
  <2>1. \A x \in Block \ {Genesis} : Shut(x) => Shut(x)'
    BY <1>2, <1>5, Tree DEF Shut, HasData, Failed
  <2>2. \A x \in Block : HasData(x)' => HasData(x)
    BY <1>5 DEF HasData
  <2>3. \A x \in Block : Failed(nStatus, x)' => Failed(nStatus, x) \/ x \in linked
    BY <1>5, <1>6 DEF Failed
  <2>. QED BY <1>2, <2>1, <2>2, <2>3 DEF DataInv
<1>. QED BY <1>2, <1>8, <1>9, <1>10, <1>11, <1>13, <1>14, <1>15, <1>16
         DEF ExactInv, ChainInv, BestChainInv, Untorn, Orderly

\* A step towards the best candidate begins: nothing on the way has failed.
LEMMA BeginExact ==
  ASSUME IInv, ExactInv, NEW t \in Thread, BeginStep(t)
  PROVE  ExactInv'
<1>0. TypeOK /\ LinkInv /\ ListInv /\ OrderInv
  BY DEF IInv, ExactInv
<1>1. PICK m : m = BestCandidate
  OBVIOUS
<1>2. /\ Finding(t) /\ candidates # {} /\ FailedOnPath = {} /\ m # tip
      /\ mostWork' = [mostWork EXCEPT ![t] = m]
      /\ pc' = [pc EXCEPT ![t] = "step"]
      /\ UNCHANGED <<nStatus, linked, nSequenceId, unlinked, candidates, tip, ret, queue,
                     target, diskStatus, used>>
  BY <1>1 DEF BeginStep, index, disk
<1>3. /\ m \in candidates /\ m \in Block
      /\ \A d \in candidates : ~Less(nSequenceId, m, d)
  BY <1>0, <1>1, <1>2, BestExists DEF TypeOK
<1>4. /\ pc[t] \in {"find", "activate"} /\ ret[t] = "idle"
      /\ \A x \in Thread \ {t} : pc[x] \notin Locked /\ ret[x] = "idle"
  BY <1>2, FindingLock
<1>5. \A x \in Thread : /\ pc'[x] = IF x = t THEN "step" ELSE pc[x]
                        /\ mostWork'[x] = IF x = t THEN m ELSE mostWork[x]
  BY <1>0, <1>2 DEF TypeOK
<1>6. \A x \in Thread : /\ \A w \in {"step", "invalidate"} : ~Doing(x, w)
                        /\ ~Doing(x, "invalidate")' /\ pc'[x] # "flush"
                        /\ Doing(x, "step")' => x = t
                        /\ pc[x] # "link" /\ pc'[x] # "link"
  BY <1>2, <1>4, <1>5 DEF Doing, Locked
<1>7. ListInv'
  BY <1>0, <1>2, <1>6, ListFrame
<1>8. OrderInv'
  BY <1>0, <1>2, <1>3, <1>5, <1>6 DEF OrderInv
<1>9. ChainInv => ChainInv'
  <2>1. FlagInv => FlagInv'
    BY <1>2 DEF FlagInv, HasData
  <2>2. ASSUME ValidInv PROVE ValidInv'
    <3>1. \A b \in Active : ~Failed(nStatus, b)
      BY <1>6, <2>2, Zenon DEF ValidInv
    <3>2. \A b \in Ancestors[m] : ~Failed(nStatus, b)
      BY <1>1, <1>2, <3>1, Zenon DEF FailedOnPath, Path
    <3>3. \A x \in Thread : Doing(x, "step")' => mostWork'[x] = m
      BY <1>5, <1>6
    <3>. QED BY <1>2, <1>6, <2>2, <3>2, <3>3, Zenon DEF ValidInv, Active, Failed
  <2>. QED BY <2>1, <2>2 DEF ChainInv
<1>10. CauseInv => CauseInv'
  BY <1>2 DEF CauseInv, Invalid, Failed
<1>11. CoverInv => CoverInv'
  BY <1>2, <1>6 DEF CoverInv, Covers, Invalid
<1>12. BestInv'
  BY <1>5, <1>6 DEF BestInv, Working, Doing
<1>13. DataInv => DataInv'
  BY <1>2 DEF DataInv, HasData, Items, Shut, Failed
<1>. QED BY <1>2, <1>7, <1>8, <1>9, <1>10, <1>11, <1>12, <1>13 DEF ExactInv, BestChainInv, Untorn, Orderly

\* Between two blocks of a step or of InvalidateBlock only that thread moves.
LEMMA StepThreads ==
  ASSUME IInv, NEW t \in Thread, pc[t] \in {"step", "invalidate"},
         NEW next \in {"step", "loop", "invalidate"}, NEW keep,
         FlushStateToDisk(t, next, keep)
  PROVE  /\ Doing(t, next)'
         /\ \A x \in Thread :
              /\ \A w \in {"step", "invalidate"} : /\ Doing(x, w) <=> x = t /\ pc[t] = w
                                                   /\ Doing(x, w)' <=> x = t /\ next = w
              /\ pc'[x] = "flush" => x = t /\ ret'[x] = next
              /\ pc[x] # "link" /\ pc'[x] # "link"
         /\ \A e \in {"invalidate", "reconsider", "crash"} : used'[e] = used[e]
<1>0. TypeOK /\ LockInv
  BY DEF IInv
<1>1. cs_main = t /\ ret[t] = "idle" /\ \A x \in Thread \ {t} : pc[x] \notin Locked
  BY <1>0 DEF LockInv, Locked
<1>2. /\ Doing(t, next)'
      /\ \A w \in {"idle", "step", "loop", "invalidate"} : Doing(t, w)' => w = next \/ ret[t] = w
      /\ pc'[t] \in {next, "flush"}
      /\ \A x \in Thread \ {t} : pc'[x] = pc[x] /\ ret'[x] = ret[x]
      /\ \A e \in {"invalidate", "reconsider", "crash"} : used'[e] = used[e]
  BY <1>0, FlushDoing
<1>3. pc'[t] = "flush" => ret'[t] = next
  BY <1>0 DEF FlushStateToDisk, TypeOK
<1>. QED BY <1>1, <1>2, <1>3 DEF Doing, Locked

\* The tip goes back to its parent.
LEMMA DisconnectExact ==
  ASSUME IInv, ExactInv, NEW t \in Thread, DisconnectTip(t)
  PROVE  ExactInv'
<1>0. TypeOK /\ LinkInv /\ ListInv /\ OrderInv
  BY DEF IInv, ExactInv
<1>1. /\ pc[t] = "step" /\ tip \notin Ancestors[mostWork[t]] /\ tip' = Parent[tip]
      /\ FlushStateToDisk(t, "step", TRUE)
      /\ UNCHANGED <<nStatus, linked, nSequenceId, unlinked, candidates, mostWork, queue,
                     target, diskStatus>>
  BY Zenon DEF DisconnectTip, index, locals, disk
<1>2. tip \in Block \ {Genesis} /\ Ancestors[tip'] \subseteq Active
  BY <1>1, StepFacts, Tree DEF Active
<1>3. /\ Doing(t, "step")'
      /\ \A x \in Thread : /\ Doing(x, "step") <=> x = t
                           /\ Doing(x, "step")' <=> x = t
                           /\ ~Doing(x, "invalidate") /\ ~Doing(x, "invalidate")'
                           /\ pc'[x] = "flush" => ret'[x] = "step"
                           /\ pc[x] # "link" /\ pc'[x] # "link"
      /\ \A e \in {"invalidate", "reconsider", "crash"} : used'[e] = used[e]
  BY <1>1, StepThreads, Zenon
<1>4. ListInv'
  BY <1>0, <1>1, <1>3, ListFrame, Zenon
<1>5. OrderInv'
  <2>1. \A x \in Thread : Doing(x, "step")' =>
          Doing(x, "step") /\ mostWork'[x] = mostWork[x] /\ mostWork[x] \in candidates'
    BY <1>0, <1>1, <1>3, Zenon DEF OrderInv
  <2>. QED BY <1>0, <1>1, <1>2, <2>1, OrderFrame, Zenon
<1>6. ChainInv => ChainInv'
  <2>1. FlagInv => FlagInv'
    BY <1>1 DEF FlagInv, HasData
  <2>2. ValidInv => ValidInv'
    BY <1>1, <1>2, <1>3 DEF ValidInv, Active, Failed
  <2>. QED BY <2>1, <2>2 DEF ChainInv
<1>7. CauseInv => CauseInv'
  BY <1>1 DEF CauseInv, Invalid, Failed
<1>8. CoverInv => CoverInv'
  BY <1>1, <1>3, Zenon DEF CoverInv, Covers, Invalid
<1>9. BestInv'
  BY <1>3 DEF BestInv, Working
<1>10. DataInv => DataInv'
  BY <1>1, <1>3, Zenon DEF DataInv, HasData, Items, Shut, Failed
<1>. QED BY <1>3, <1>4, <1>5, <1>6, <1>7, <1>8, <1>9, <1>10 DEF ExactInv, BestChainInv, Untorn, Orderly

\* A block is connected, and the candidates below the new tip are pruned: the
\* goal of the step is not, nor is a block that covers the valid ones.
LEMMA ConnectExact ==
  ASSUME IInv, ExactInv, NEW t \in Thread, ConnectTip(t)
  PROVE  ExactInv'
<1>0. TypeOK /\ LinkInv /\ ListInv /\ OrderInv
  BY DEF IInv, ExactInv
<1>a. PICK b, m, next : /\ b = NextBlock(t) /\ m = mostWork[t]
                        /\ next = IF ChainWork[b] > ChainWork[oldTip] \/ b = m
                                  THEN "loop" ELSE "step"
  OBVIOUS
<1>1. /\ pc[t] = "step" /\ tip \in Ancestors[m] /\ b \notin Unconnectable
      /\ nStatus' = [nStatus EXCEPT ![b] = @ \cup ConnectFlags]
      /\ tip' = b
      /\ candidates' = {c \in candidates : ~Less(nSequenceId, c, b)}
      /\ \E keep : FlushStateToDisk(t, next, keep)
      /\ UNCHANGED <<linked, nSequenceId, unlinked, mostWork, queue, target, diskStatus>>
  <2>1. next = IF (ChainWork[b] > ChainWork[oldTip] \/ b = mostWork[t]) THEN "loop" ELSE "step"
    BY <1>a
  <2>. QED BY <1>a, <2>1, Zenon DEF ConnectTip, PruneBlockIndexCandidates, disk
<1>2. /\ b \in Ancestors[m] /\ b \in Block \ {Genesis} /\ b \in linked
      /\ Parent[b] = tip /\ m \in Block /\ tip \in Block
  BY <1>a, <1>1, StepFacts, Zenon
<1>3. /\ Doing(t, next)' /\ next \in {"step", "loop"} /\ (next = "step" => b # m)
      /\ \A x \in Thread : /\ Doing(x, "step") <=> x = t
                           /\ Doing(x, "step")' => x = t
                           /\ ~Doing(x, "invalidate") /\ ~Doing(x, "invalidate")'
                           /\ pc'[x] = "flush" => x = t
                           /\ pc[x] # "link" /\ pc'[x] # "link"
      /\ \A e \in {"invalidate", "reconsider", "crash"} : used'[e] = used[e]
  <2>1. next \in {"step", "loop"} /\ (next = "step" => b # m)
    BY <1>a
  <2>2. pc[t] \in {"step", "invalidate"} /\ next \in {"step", "loop", "invalidate"}
    BY <1>1, <2>1
  <2>3. PICK keep : FlushStateToDisk(t, next, keep)
    BY <1>1, Zenon
  <2>4. /\ Doing(t, next)'
        /\ \A x \in Thread :
             /\ \A w \in {"step", "invalidate"} : /\ Doing(x, w) <=> x = t /\ pc[t] = w
                                                  /\ Doing(x, w)' <=> x = t /\ next = w
             /\ pc'[x] = "flush" => x = t /\ ret'[x] = next
             /\ pc[x] # "link" /\ pc'[x] # "link"
        /\ \A e \in {"invalidate", "reconsider", "crash"} : used'[e] = used[e]
    BY <2>2, <2>3, StepThreads, Zenon
  <2>. QED BY <1>1, <2>1, <2>4
<1>4. \A x \in Block :
        /\ x # b => nStatus'[x] = nStatus[x]
        /\ "SCRIPTS" \in nStatus'[b] /\ nStatus[b] \subseteq nStatus'[b]
        /\ \A f \in {"HAVE_DATA", "TREE", "TRANSACTIONS", "FAILED_VALID", "FAILED_CHILD"} :
             f \in nStatus'[x] <=> f \in nStatus[x]
  BY <1>0, <1>1, <1>2, Zenon DEF TypeOK, ConnectFlags
<1>5. \A x \in Block : /\ Failed(nStatus, x)' <=> Failed(nStatus, x)
                       /\ Invalid(x)' <=> Invalid(x)
                       /\ HasData(x)' <=> HasData(x)
  <2>1. \A x \in Block : Failed(nStatus, x)' <=> Failed(nStatus, x)
    BY <1>4 DEF Failed, FAILED_MASK
  <2>2. \A x \in Block : Invalid(x)' <=> Invalid(x)
    BY <1>4, Tree DEF Invalid
  <2>. QED BY <1>4, <2>1, <2>2, Zenon DEF HasData
<1>6. ListInv'
  BY <1>0, <1>1, <1>3, ListFrame
<1>7. m \in candidates /\ m \in candidates' /\ \A c \in candidates : ~Less(nSequenceId, m, c)
  <2>1. m \in candidates /\ \A c \in candidates : ~Less(nSequenceId, m, c)
    BY <1>0, <1>a, <1>3 DEF OrderInv
  <2>2. b # m => ChainWork[b] < ChainWork[m]
    BY <1>2, AncestorLess
  <2>3. ~Less(nSequenceId, m, b)
    <3>1. nSequenceId \in [Block -> Nat]
      BY <1>0 DEF TypeOK
    <3>2. ~Less(nSequenceId, b, b)
      BY <1>2, <3>1, LessOrder
    <3>3. b # m => ~Less(nSequenceId, m, b)
      BY <1>2, <2>2, <3>1, LessOrder
    <3>. QED BY <3>2, <3>3
  <2>. QED BY <1>1, <2>1, <2>3
<1>8. OrderInv'
  <2>1. \A x \in Thread : Doing(x, "step")' => mostWork'[x] = m
    BY <1>a, <1>1, <1>3, Zenon
  <2>. QED BY <1>0, <1>1, <1>2, <1>7, <2>1, Zenon DEF OrderInv
<1>9. FlagInv => FlagInv'
  <2>1. HasData(b)
    BY <1>0, <1>2 DEF LinkInv
  <2>2. nStatus[b] # {}
    BY <2>1 DEF HasData
  <2>. QED BY <1>2, <1>4, <1>5, <2>2, Zenon DEF FlagInv
<1>10. ASSUME ValidInv
       PROVE  /\ Ancestors[b] = Active \cup {b}
              /\ \A a \in Ancestors[b] : ~Failed(nStatus, a) /\ a \notin Unconnectable
              /\ \A a \in Ancestors[m] : ~Failed(nStatus, a)
  <2>1. Ancestors[b] = Active \cup {b}
    BY <1>2, Tree DEF Active
  <2>2. \A a \in Ancestors[m] : ~Failed(nStatus, a)
    BY <1>a, <1>3, <1>10, Zenon DEF ValidInv
  <2>3. \A a \in Active : ~Failed(nStatus, a) /\ a \notin Unconnectable
    BY <1>3, <1>10, BlockAssumption DEF ValidInv
  <2>. QED BY <1>1, <1>2, <2>1, <2>2, <2>3, Zenon
<1>11. ASSUME ValidInv PROVE ValidInv'
  <2>1. Active' = Ancestors[b] /\ Ancestors[b] \subseteq Block /\ Ancestors[m] \subseteq Block
    BY <1>1, <1>2, Tree, Zenon DEF Active
  <2>2. \A a \in Active' \ {Genesis} : "SCRIPTS" \in nStatus'[a]
    BY <1>4, <1>10, <1>11, <2>1, Zenon DEF ValidInv
  <2>3. \A a \in Active' : ~Failed(nStatus, a)' /\ a \notin Unconnectable
    BY <1>5, <1>10, <1>11, <2>1, Zenon
  <2>4. \A x \in Thread : Doing(x, "step")' => mostWork'[x] = m
    BY <1>a, <1>1, <1>3, Zenon
  <2>5. \A a \in Ancestors[m] : ~Failed(nStatus, a)'
    BY <1>5, <1>10, <1>11, <2>1
  <2>6. ~Failed(nStatus, Genesis)'
    BY <1>5, <1>11, Tree, Zenon DEF ValidInv
  <2>. QED BY <1>3, <2>2, <2>3, <2>4, <2>5, <2>6 DEF ValidInv
<1>12. CauseInv => CauseInv'
  BY <1>5 DEF CauseInv
<1>13. ASSUME ValidInv, CoverInv PROVE CoverInv'
  <2>1. SUFFICES \E r \in candidates' : Covers(r)'
    BY DEF CoverInv
  <2>2. PICK r \in candidates : Covers(r)
    BY <1>3, <1>13 DEF CoverInv
  <2>3. /\ nSequenceId \in [Block -> Nat] /\ r \in Block /\ linked \subseteq Block
        /\ candidates \subseteq Block
    BY <1>0, <2>2 DEF TypeOK
  <2>4. CASE ~Less(nSequenceId, r, b)
    <3>1. \A x \in linked : ~Less(nSequenceId, x, r) => ~Less(nSequenceId, x, b)
      BY <1>2, <2>3, <2>4, LessOrder, Zenon
    <3>2. r \in candidates'
      BY <1>1, <2>4
    <3>3. \A x \in linked : ~Invalid(x)' /\ ~Less(nSequenceId, x, r) => x \in candidates'
      BY <1>1, <1>5, <2>2, <2>3, <3>1, Zenon DEF Covers
    <3>. QED BY <1>1, <1>5, <2>2, <2>3, <3>2, <3>3, Zenon DEF Covers
  <2>5. CASE Less(nSequenceId, r, b)
    <3>1. ~Less(nSequenceId, b, r) /\ ~Less(nSequenceId, b, b)
      BY <1>2, <2>3, <2>5, LessOrder
    <3>2. ~Invalid(b) /\ Ancestors[b] \cap Unconnectable = {}
      BY <1>10, <1>13 DEF Invalid, Failed, FAILED_MASK
    <3>3. b \in candidates'
      BY <1>1, <1>2, <2>2, <3>1, <3>2, Zenon DEF Covers
    <3>4. \A x \in linked : ~Less(nSequenceId, x, b) => ~Less(nSequenceId, x, r)
      BY <1>2, <2>3, <3>1, LessOrder
    <3>5. \A x \in linked : ~Invalid(x)' /\ ~Less(nSequenceId, x, b) => x \in candidates'
      BY <1>1, <1>5, <2>2, <2>3, <3>4, Zenon DEF Covers
    <3>6. ~Invalid(b)'
      BY <1>2, <1>5, <3>2, Zenon
    <3>. QED BY <1>1, <3>2, <3>3, <3>5, <3>6, Zenon DEF Covers
  <2>. QED BY <2>4, <2>5
<1>14. BestInv'
  <2>1. mostWork'[t] = m /\ tip' = b
    BY <1>a, <1>1, Zenon
  <2>2. b = m => TipBest'
    BY <1>1, <1>7 DEF TipBest
  <2>3. b # m => Working(t)'
    BY <1>3, <2>1 DEF Working
  <2>. QED BY <1>3, <2>1, <2>2, <2>3 DEF BestInv
<1>15. DataInv => DataInv'
  <2>1. \A x \in Block \ {Genesis} : Shut(x)' <=> Shut(x)
    BY <1>3, <1>5, Tree, Zenon DEF Shut
  <2>. QED BY <1>1, <1>3, <1>5, <2>1, Zenon DEF DataInv, Items
<1>. QED BY <1>3, <1>6, <1>8, <1>9, <1>11, <1>12, <1>13, <1>14, <1>15
         DEF ExactInv, ChainInv, BestChainInv, Untorn, Orderly

\* A block fails to connect: no block that covers the valid ones descends
\* from it, and the thread goes on looking.
LEMMA FailsExact ==
  ASSUME IInv, ExactInv, NEW t \in Thread, ConnectTipFails(t)
  PROVE  ExactInv'
<1>0. TypeOK /\ LinkInv /\ ListInv /\ OrderInv
  BY DEF IInv, ExactInv
<1>a. PICK b : b = NextBlock(t)
  OBVIOUS
<1>1. /\ pc[t] = "step" /\ tip \in Ancestors[mostWork[t]] /\ b \in Unconnectable
      /\ nStatus' = [nStatus EXCEPT ![b] = @ \cup {"FAILED_VALID"}]
      /\ candidates' = candidates \ {b}
      /\ pc' = [pc EXCEPT ![t] = "loop"]
      /\ UNCHANGED <<linked, nSequenceId, unlinked, tip, mostWork, ret, queue, target,
                     diskStatus, used>>
  BY <1>a, Zenon DEF ConnectTipFails, disk
<1>2. /\ b \in Block \ {Genesis} /\ b \in linked /\ Parent[b] = tip /\ tip \in Block
      /\ mostWork[t] # tip /\ ret[t] = "idle"
      /\ \A x \in Thread \ {t} : pc[x] \notin Locked
  BY <1>a, <1>1, StepFacts, Zenon
<1>3. \A x \in Thread : /\ pc'[x] = IF x = t THEN "loop" ELSE pc[x]
                        /\ \A w \in {"step", "invalidate"} : ~Doing(x, w)'
                        /\ ~Doing(x, "invalidate")
                        /\ pc'[x] # "flush" /\ pc[x] # "link" /\ pc'[x] # "link"
  <2>1. \A x \in Thread : pc'[x] = IF x = t THEN "loop" ELSE pc[x]
    BY <1>0, <1>1 DEF TypeOK
  <2>2. pc'[t] = "loop" /\ pc[t] = "step" /\ ret'[t] = "idle"
    BY <1>1, <1>2, <2>1
  <2>3. \A x \in Thread \ {t} : pc'[x] = pc[x] /\ pc[x] \notin Locked
    BY <1>2, <2>1
  <2>4. ASSUME NEW x \in Thread
        PROVE  /\ \A w \in {"step", "invalidate"} : ~Doing(x, w)'
               /\ ~Doing(x, "invalidate")
               /\ pc'[x] # "flush" /\ pc[x] # "link" /\ pc'[x] # "link"
    <3>1. CASE x = t
      BY <2>2, <3>1 DEF Doing
    <3>2. CASE x # t
      BY <2>3, <3>2 DEF Doing, Locked
    <3>. QED BY <3>1, <3>2
  <2>. QED BY <2>1, <2>4
<1>4. b \notin Active
  <2>1. ChainWork[tip] < ChainWork[b] /\ ChainWork[tip] \in Nat /\ ChainWork[b] \in Nat
    BY <1>2, Tree, Zenon
  <2>2. b \in Active => ChainWork[b] <= ChainWork[tip]
    BY <1>2, AncestorWork DEF Active
  <2>. QED BY <2>1, <2>2
<1>5. \A x \in Block :
        /\ x # b => nStatus'[x] = nStatus[x]
        /\ nStatus'[b] = nStatus[b] \cup {"FAILED_VALID"}
        /\ nStatus[x] \subseteq nStatus'[x]
        /\ "HAVE_DATA" \in nStatus'[x] <=> "HAVE_DATA" \in nStatus[x]
        /\ "FAILED_VALID" \in nStatus'[b]
  BY <1>0, <1>1, <1>2, Zenon DEF TypeOK
<1>6. \A x \in Block : Invalid(x) => Invalid(x)'
  BY <1>5, InvalidGrows, Zenon
<1>7. ListInv'
  BY <1>0, <1>1, <1>3, ListFrame, Zenon
<1>8. OrderInv'
  BY <1>0, <1>1, <1>3, OrderFrame, Zenon
<1>9. FlagInv => FlagInv'
  <2>1. nStatus[b] # {}
    BY <1>0, <1>2 DEF LinkInv, HasData
  <2>. QED BY <1>2, <1>5, <2>1, Zenon DEF FlagInv, HasData
<1>10. ValidInv => ValidInv'
  <2>1. Active' = Active /\ Active \subseteq Block /\ Genesis \in Active
    BY <1>1, <1>2, Tree, TreeAssumption DEF Active
  <2>2. \A x \in Active : nStatus'[x] = nStatus[x]
    BY <1>4, <1>5, <2>1
  <2>. QED BY <1>3, <2>1, <2>2, Zenon DEF ValidInv, Failed
<1>11. CauseInv => CauseInv'
  <2>1. Invalid(b)'
    BY <1>2, <1>5, Tree DEF Invalid
  <2>. QED BY <1>5, <1>6, <2>1, Zenon DEF CauseInv, Failed
<1>12. ASSUME CoverInv PROVE CoverInv'
  <2>1. SUFFICES \E r \in candidates' : Covers(r)'
    BY DEF CoverInv
  <2>2. PICK r \in candidates : Covers(r)
    BY <1>3, <1>12 DEF CoverInv
  <2>3. r \in Block /\ linked \subseteq Block /\ b \notin Ancestors[r]
    BY <1>0, <1>1, <2>2, Zenon DEF TypeOK, Covers
  <2>4. r # b /\ Ancestors[r] \subseteq Block
    BY <2>3, Tree, Zenon
  <2>5. ~Invalid(r)'
    BY <1>5, <2>2, <2>3, <2>4 DEF Covers, Invalid
  <2>6. Invalid(b)'
    BY <1>2, <1>5, Tree DEF Invalid
  <2>7. \A x \in linked : ~Invalid(x)' /\ ~Less(nSequenceId, x, r) => x \in candidates'
    BY <1>1, <1>6, <2>2, <2>3, <2>6 DEF Covers
  <2>. QED BY <1>1, <2>2, <2>4, <2>5, <2>7 DEF Covers
<1>13. BestInv'
  <2>1. Working(t)'
    BY <1>1, <1>2, <1>3, Zenon DEF Working, Doing
  <2>. QED BY <1>3, <2>1 DEF BestInv
<1>14. DataInv => DataInv'
  <2>1. \A x \in Block \ {Genesis} : Shut(x) => Shut(x)'
    BY <1>1, <1>5, Tree, Zenon DEF Shut, HasData, Failed
  <2>2. \A x \in Block : Failed(nStatus, x)' => Failed(nStatus, x) \/ x \in linked
    BY <1>2, <1>5 DEF Failed
  <2>3. \A x \in Block : HasData(x)' <=> HasData(x)
    BY <1>5 DEF HasData
  <2>. QED BY <1>1, <2>1, <2>2, <2>3, Zenon DEF DataInv, Items
<1>. QED BY <1>1, <1>7, <1>8, <1>9, <1>10, <1>11, <1>12, <1>13, <1>14
         DEF ExactInv, ChainInv, BestChainInv, Untorn, Orderly

\* invalidateblock marks its target.
LEMMA InvalidateExact ==
  ASSUME IInv, ExactInv, NEW t \in Thread, NEW b \in Block, InvalidateBlock(t, b)
  PROVE  ExactInv'
<1>0. TypeOK /\ LockInv /\ LinkInv /\ ListInv /\ OrderInv
  BY DEF IInv, ExactInv
<1>1. /\ pc[t] = "idle" /\ cs_main = None /\ b \in mapBlockIndex \ {Genesis}
      /\ nStatus' = [nStatus EXCEPT ![b] = @ \cup {"FAILED_VALID"}]
      /\ candidates' = candidates \ {b} /\ target' = b
      /\ pc' = [pc EXCEPT ![t] = "invalidate"]
      /\ used' = [used EXCEPT !["invalidate"] = @ + 1]
      /\ UNCHANGED <<linked, nSequenceId, unlinked, tip, mostWork, ret, queue, diskStatus>>
  BY DEF InvalidateBlock, disk
<1>2. /\ used'["invalidate"] > 0 /\ used'["crash"] = used["crash"]
      /\ used'["reconsider"] = used["reconsider"]
  BY <1>0, <1>1 DEF TypeOK
<1>3. /\ \A x \in Thread : /\ pc[x] \notin Locked
                           /\ \A w \in {"step", "invalidate"} : ~Doing(x, w)
                           /\ ~Doing(x, "step")' /\ pc'[x] # "flush"
                           /\ pc[x] # "link" /\ pc'[x] # "link"
      /\ Doing(t, "invalidate")'
  <2>1. \A x \in Thread : pc[x] \notin Locked
    BY <1>0, <1>1, Tree, Zenon DEF LockInv, TypeOK
  <2>2. \A x \in Thread : pc'[x] = IF x = t THEN "invalidate" ELSE pc[x]
    BY <1>0, <1>1 DEF TypeOK
  <2>. QED BY <1>1, <2>1, <2>2 DEF Doing, Locked
<1>4. \A x \in Block :
        /\ x # b => nStatus'[x] = nStatus[x]
        /\ nStatus'[b] = nStatus[b] \cup {"FAILED_VALID"}
        /\ nStatus[x] \subseteq nStatus'[x]
        /\ \A f \in {"HAVE_DATA", "TREE", "TRANSACTIONS", "SCRIPTS"} :
             f \in nStatus'[x] <=> f \in nStatus[x]
        /\ "FAILED_VALID" \in nStatus'[b]
  BY <1>0, <1>1 DEF TypeOK
<1>5. ListInv'
  BY <1>0, <1>1, <1>3, ListFrame
<1>6. OrderInv'
  BY <1>0, <1>1, <1>3, OrderFrame, Zenon
<1>7. FlagInv => FlagInv'
  <2>1. nStatus[b] # {}
    BY <1>1 DEF mapBlockIndex
  <2>. QED BY <1>4, <2>1, Zenon DEF FlagInv, HasData
<1>8. ASSUME ValidInv PROVE ValidInv'
  <2>1. Active' = Active /\ Active \subseteq Block /\ b # None
    BY <1>0, <1>1, Tree, Zenon DEF Active, TypeOK
  <2>2. \A x \in Active \ {Genesis} : ~Failed(nStatus, x)
    BY <1>3, <1>8, Zenon DEF ValidInv
  <2>3. \A x \in Active \ {Genesis} :
          /\ "SCRIPTS" \in nStatus'[x] /\ x \notin Unconnectable
          /\ Failed(nStatus, x)' => x = b
    BY <1>4, <1>8, <2>1, <2>2 DEF ValidInv, Failed
  <2>4. ~Failed(nStatus, Genesis)'
    BY <1>1, <1>4, <1>8, Tree, Zenon DEF ValidInv, Failed
  <2>. QED BY <1>1, <1>3, <1>4, <2>1, <2>3, <2>4, Zenon DEF ValidInv
<1>9. CauseInv => CauseInv'
  <2>1. Invalid(b)'
    BY <1>4, Tree DEF Invalid
  <2>2. \A x \in Block : Invalid(x) => Invalid(x)'
    BY <1>4, InvalidGrows
  <2>. QED BY <1>4, <2>1, <2>2, Zenon DEF CauseInv, Failed
<1>10. CoverInv'
  BY <1>3 DEF CoverInv
<1>11. BestInv'
  BY <1>3 DEF BestInv, Working
<1>12. DataInv => DataInv'
  <2>1. \A x \in Block \ {Genesis} : Shut(x) => Shut(x)'
    BY <1>2, <1>4, Tree DEF Shut, Failed
  <2>2. \A x \in Block : HasData(x)' <=> HasData(x)
    BY <1>4 DEF HasData
  <2>. QED BY <1>1, <1>2, <2>1, <2>2, Zenon DEF DataInv, Items
<1>. QED BY <1>2, <1>5, <1>6, <1>7, <1>8, <1>9, <1>10, <1>11, <1>12
         DEF ExactInv, ChainInv, BestChainInv, Untorn, Orderly

\* InvalidateBlock disconnects the tip, a descendant of its target.
LEMMA InvTipExact ==
  ASSUME IInv, ExactInv, NEW t \in Thread, InvalidateTip(t)
  PROVE  ExactInv'
<1>0. TypeOK /\ LinkInv /\ ListInv /\ OrderInv
  BY DEF IInv, ExactInv
<1>1. /\ pc[t] = "invalidate" /\ target \in Active
      /\ nStatus' = [nStatus EXCEPT ![tip] = @ \cup {"FAILED_CHILD"}]
      /\ candidates' = candidates \ {tip} /\ tip' = Parent[tip]
      /\ FlushStateToDisk(t, "invalidate", TRUE)
      /\ UNCHANGED <<linked, nSequenceId, unlinked, mostWork, queue, target, diskStatus>>
  BY Zenon DEF InvalidateTip, locals, disk
<1>2. tip \in Block \ {Genesis} /\ tip \in linked /\ target \in Block \ {Genesis}
  <2>1. /\ tip \in Block /\ tip \in linked /\ target \in (Block \ {Genesis}) \cup {None}
        /\ target \in Ancestors[tip]
    BY <1>0, <1>1, Zenon DEF Active, TypeOK, OrderInv
  <2>2. Ancestors[tip] \subseteq Block /\ None \notin Block
    BY <2>1, Tree, Zenon
  <2>3. tip # Genesis
    BY <2>1, <2>2, TreeAssumption
  <2>. QED BY <2>1, <2>2, <2>3, Zenon
<1>3. /\ Doing(t, "invalidate")'
      /\ \A x \in Thread : /\ ~Doing(x, "step") /\ ~Doing(x, "step")'
                           /\ Doing(x, "invalidate") <=> x = t
                           /\ Doing(x, "invalidate")' <=> x = t
                           /\ pc'[x] = "flush" => ret'[x] = "invalidate"
                           /\ pc[x] # "link" /\ pc'[x] # "link"
      /\ \A e \in {"invalidate", "reconsider", "crash"} : used'[e] = used[e]
  BY <1>1, StepThreads, Zenon
<1>4. Active' \subseteq Active /\ tip \notin Active' /\ Active \subseteq Block
  <2>1. /\ Parent[tip] \in Block /\ ChainWork[Parent[tip]] < ChainWork[tip]
        /\ ChainWork[tip] \in Nat /\ ChainWork[Parent[tip]] \in Nat
        /\ Ancestors[tip] = Ancestors[Parent[tip]] \cup {tip} /\ Ancestors[tip] \subseteq Block
    BY <1>2, Tree
  <2>2. tip \in Ancestors[Parent[tip]] => ChainWork[tip] <= ChainWork[Parent[tip]]
    BY <2>1, AncestorWork
  <2>3. tip \notin Ancestors[Parent[tip]]
    BY <2>1, <2>2
  <2>4. Active = Ancestors[tip] /\ Active' = Ancestors[Parent[tip]]
    BY <1>1, Zenon DEF Active
  <2>. QED BY <2>1, <2>3, <2>4, Zenon
<1>5. \A x \in Block :
        /\ x # tip => nStatus'[x] = nStatus[x]
        /\ nStatus'[tip] = nStatus[tip] \cup {"FAILED_CHILD"}
        /\ nStatus[x] \subseteq nStatus'[x]
        /\ "HAVE_DATA" \in nStatus'[x] <=> "HAVE_DATA" \in nStatus[x]
  BY <1>0, <1>1, <1>2 DEF TypeOK
<1>6. ListInv'
  BY <1>0, <1>1, <1>3, ListFrame
<1>7. OrderInv'
  BY <1>0, <1>1, <1>2, <1>3, OrderFrame
<1>8. FlagInv => FlagInv'
  <2>1. nStatus[tip] # {}
    BY <1>0, <1>2, Zenon DEF LinkInv, HasData
  <2>. QED BY <1>2, <1>5, <2>1 DEF FlagInv, HasData
<1>9. ValidInv => "FAILED_VALID" \in nStatus[target]
  BY <1>3 DEF ValidInv
<1>10. ASSUME ValidInv PROVE ValidInv'
  <2>1. \A x \in Active' : nStatus'[x] = nStatus[x]
    BY <1>4, <1>5
  <2>2. \A x \in Active' \ {Genesis} :
          /\ "SCRIPTS" \in nStatus'[x] /\ x \notin Unconnectable
          /\ Failed(nStatus, x)' => x = target
    BY <1>4, <1>10, <2>1 DEF ValidInv, Failed
  <2>3. ~Failed(nStatus, Genesis)'
    BY <1>2, <1>5, <1>10, Tree DEF ValidInv, Failed
  <2>4. target # None /\ "FAILED_VALID" \in nStatus'[target]
    BY <1>2, <1>5, <1>9, <1>10, Tree
  <2>. QED BY <1>1, <1>3, <2>2, <2>3, <2>4, Zenon DEF ValidInv
<1>11. ValidInv /\ CauseInv => CauseInv'
  <2>1. \A x \in Block : Invalid(x) => Invalid(x)'
    BY <1>5, InvalidGrows
  <2>2. ValidInv => Invalid(tip)
    BY <1>1, <1>9 DEF Invalid, Active
  <2>. QED BY <1>2, <1>5, <2>1, <2>2 DEF CauseInv, Failed
<1>12. CoverInv'
  BY <1>3 DEF CoverInv
<1>13. BestInv'
  BY <1>3 DEF BestInv, Working
<1>14. DataInv => DataInv'
  <2>1. \A x \in Block \ {Genesis} : Shut(x) => Shut(x)'
    BY <1>3, <1>5, Tree, Zenon DEF Shut, HasData, Failed
  <2>2. \A x \in Block : HasData(x)' <=> HasData(x)
    BY <1>5 DEF HasData
  <2>3. \A x \in Block : Failed(nStatus, x)' => Failed(nStatus, x) \/ x \in linked
    BY <1>2, <1>5 DEF Failed
  <2>. QED BY <1>1, <1>3, <2>1, <2>2, <2>3, Zenon DEF DataInv, Items
<1>. QED BY <1>3, <1>6, <1>7, <1>8, <1>10, <1>11, <1>12, <1>13, <1>14, Zenon
         DEF ExactInv, ChainInv, BestChainInv, Untorn, Orderly

\* InvalidateBlock refills the candidates: the tip covers the valid blocks.
LEMMA InvDoneExact ==
  ASSUME IInv, ExactInv, NEW t \in Thread, InvalidateDone(t)
  PROVE  ExactInv'
<1>0. TypeOK /\ LockInv /\ LinkInv /\ ListInv /\ OrderInv
  BY DEF IInv, ExactInv
<1>1. /\ pc[t] = "invalidate" /\ target \notin Active
      /\ candidates' = candidates \cup Refill
      /\ pc' = [pc EXCEPT ![t] = "activate"]
      /\ UNCHANGED <<nStatus, linked, nSequenceId, unlinked, tip, mostWork, ret, queue,
                     diskStatus, used>>
  BY DEF InvalidateDone, index, disk
<1>2. /\ pc'[t] = "activate"
      /\ \A x \in Thread : /\ \A w \in {"step", "invalidate"} : ~Doing(x, w)'
                           /\ pc'[x] # "flush" /\ pc[x] # "link" /\ pc'[x] # "link"
  <2>1. \A x \in Thread \ {t} : pc[x] \notin Locked
    BY <1>0, <1>1 DEF LockInv, Locked
  <2>2. \A x \in Thread : pc'[x] = IF x = t THEN "activate" ELSE pc[x]
    BY <1>0, <1>1 DEF TypeOK
  <2>. QED BY <1>1, <2>1, <2>2 DEF Doing, Locked
<1>3. ListInv'
  BY <1>0, <1>1, <1>2, ListFrame
<1>4. OrderInv'
  BY <1>0, <1>1, <1>2, Zenon DEF OrderInv, Refill
<1>5. FlagInv => FlagInv'
  BY <1>1, Zenon DEF FlagInv, HasData
<1>6. ValidInv => \A x \in Active : ~Failed(nStatus, x) /\ x \notin Unconnectable
  BY <1>1, BlockAssumption, Zenon DEF ValidInv
<1>7. ValidInv => ValidInv'
  BY <1>1, <1>2, <1>6, Zenon DEF ValidInv, Active, Failed
<1>8. CauseInv => CauseInv'
  BY <1>1 DEF CauseInv, Invalid, Failed
<1>9. ASSUME FlagInv, ValidInv, CauseInv PROVE CoverInv'
  <2>1. /\ nSequenceId \in [Block -> Nat] /\ linked \subseteq Block /\ tip \in Block
        /\ tip \in linked /\ tip \in Active
    BY <1>0, Tree, Zenon DEF TypeOK, OrderInv, Active
  <2>2. \A x \in linked : ~Invalid(x) => IsValid(nStatus, x, "TRANSACTIONS")
    BY <1>0, <1>9, <2>1, Zenon DEF LinkInv, FlagInv, CauseInv, IsValid
  <2>3. ~Invalid(tip) /\ Ancestors[tip] \cap Unconnectable = {}
    BY <1>6, <1>9 DEF Invalid, Active, Failed, FAILED_MASK
  <2>4. tip \in candidates'
    BY <1>1, <2>1, <2>2, <2>3, LessOrder, Zenon DEF Refill
  <2>5. \A x \in linked : ~Invalid(x) /\ ~Less(nSequenceId, x, tip) => x \in candidates'
    BY <1>1, <2>2 DEF Refill
  <2>6. Covers(tip)'
    BY <1>1, <2>3, <2>5 DEF Covers, Invalid
  <2>. QED BY <1>1, <2>4, <2>6 DEF CoverInv
<1>10. BestInv'
  BY <1>2 DEF BestInv, Working
<1>11. DataInv => DataInv'
  BY <1>1 DEF DataInv, HasData, Items, Shut, Failed
<1>. QED BY <1>1, <1>3, <1>4, <1>5, <1>7, <1>8, <1>9, <1>10, <1>11
         DEF ExactInv, ChainInv, BestChainInv, Untorn, Orderly

\* reconsiderblock only takes failure flags back, and only adds candidates
\* above the tip.
LEMMA ReconsiderExact ==
  ASSUME IInv, ExactInv, NEW t \in Thread, NEW b \in Block, ReconsiderBlock(t, b)
  PROVE  ExactInv'
<1>0. TypeOK /\ LockInv /\ LinkInv /\ ListInv /\ OrderInv
  BY DEF IInv, ExactInv
<1>1. /\ pc[t] = "idle" /\ cs_main = None
      /\ pc' = [pc EXCEPT ![t] = "activate"]
      /\ used' = [used EXCEPT !["reconsider"] = @ + 1]
      /\ UNCHANGED <<linked, nSequenceId, unlinked, tip, mostWork, ret, queue, target,
                     diskStatus>>
  BY Zenon DEF ReconsiderBlock, locals, disk
<1>2. /\ used'["reconsider"] # 0 /\ used'["crash"] = used["crash"]
      /\ used'["invalidate"] = used["invalidate"]
  BY <1>0, <1>1 DEF TypeOK
<1>3. \A x \in Block : nStatus'[x] \in {nStatus[x], nStatus[x] \ FAILED_MASK}
  BY Zenon DEF ReconsiderBlock
<1>4. \A c \in candidates' : c \in candidates \/ (c \in Block /\ Less(nSequenceId, tip, c))
  BY Zenon DEF ReconsiderBlock, WorthTrying, mapBlockIndex
<1>5. \A x \in Thread : /\ \A w \in {"step", "invalidate"} : ~Doing(x, w) /\ ~Doing(x, w)'
                        /\ pc[x] # "link" /\ pc'[x] # "link"
  <2>1. \A x \in Thread : pc[x] \notin Locked
    BY <1>0, <1>1, Tree, Zenon DEF LockInv, TypeOK
  <2>2. \A x \in Thread : pc'[x] = IF x = t THEN "activate" ELSE pc[x]
    BY <1>0, <1>1 DEF TypeOK
  <2>. QED BY <1>1, <2>1, <2>2 DEF Doing, Locked
<1>6. ListInv'
  BY <1>0, <1>1, <1>5, ListFrame
<1>7. OrderInv'
  <2>1. \A c \in candidates' : ~Less(nSequenceId, c, tip)
    BY <1>0, <1>4, LessOrder, Zenon DEF OrderInv, TypeOK
  <2>. QED BY <1>0, <1>1, <1>5, <2>1, Zenon DEF OrderInv
<1>8. FlagInv => FlagInv'
  <2>1. \A x \in Block : \A f \in {"HAVE_DATA", "TREE", "TRANSACTIONS", "SCRIPTS"} :
          f \in nStatus'[x] <=> f \in nStatus[x]
    BY <1>3 DEF FAILED_MASK
  <2>2. \A x \in Block : nStatus'[x] # {} => nStatus[x] # {}
    BY <1>3
  <2>. QED BY <2>1, <2>2, Zenon DEF FlagInv, HasData
<1>9. ValidInv => ValidInv'
  <2>1. \A x \in Block : /\ "SCRIPTS" \in nStatus'[x] <=> "SCRIPTS" \in nStatus[x]
                         /\ Failed(nStatus, x)' => Failed(nStatus, x)
    BY <1>3 DEF FAILED_MASK, Failed
  <2>2. Active' = Active /\ Active \subseteq Block
    BY <1>0, <1>1, Tree, Zenon DEF Active, TypeOK
  <2>. QED BY <1>5, <2>1, <2>2, Tree, Zenon DEF ValidInv
<1>. QED BY <1>2, <1>6, <1>7, <1>8, <1>9 DEF ExactInv, ChainInv, Untorn, Orderly
=============================================================================
