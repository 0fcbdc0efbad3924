-------------------------- MODULE ChainStateSteps --------------------------
(***************************************************************************)
(* The inductive invariant of ChainState, and that every action keeps it,  *)
(* for every block tree, every set of threads and every bound.             *)
(*                                                                         *)
(* The inductive invariant IInv rests on three observations.  cs_main      *)
(* protects the locals of its holder (LockInv).  A block is linked only    *)
(* after its parent and only with its data, whichever of the two ways it   *)
(* comes in, and candidates are linked blocks (LinkInv).  HAVE_DATA and    *)
(* HAVE_UNDO are never cleared, and a block whose flags are ahead of the   *)
(* disk's is dirty (DiskInv).                                              *)
(***************************************************************************)
EXTENDS ChainState, TLAPS

Locked == {"link", "find", "step", "flush", "invalidate"}

LockInv ==
  \A t \in Thread : /\ pc[t] \in Locked => cs_main = t
                    /\ pc[t] # "flush" => ret[t] = "idle"

ReadyToLink(b) == b # Genesis /\ Parent[b] \in linked /\ HasData(b)

\* b may be in mapBlocksUnlinked below p.
Awaits(b, p) == b # Genesis /\ Parent[b] = p /\ HasData(b)

LinkInv ==
  /\ \A b \in linked : Ancestors[b] \subseteq linked /\ HasData(b)
  /\ candidates \subseteq linked
  /\ \A i \in DOMAIN queue : ReadyToLink(queue[i])
  /\ \A p \in Block : \A i \in DOMAIN unlinked[p] : Awaits(unlinked[p][i], p)
  /\ \A t \in Thread : pc[t] = "link" => queue # << >>
  /\ \A t \in Thread : mostWork[t] # None => mostWork[t] \in linked

InStep(t) == pc[t] = "step" \/ (pc[t] = "flush" /\ ret[t] = "step")

\* A step climbs towards mostWork and ends when it is there.
StepInv ==
  /\ \A c \in candidates : ChainWork[c] >= ChainWork[tip]
  /\ \A t \in Thread : InStep(t) =>
       /\ mostWork[t] # None /\ mostWork[t] # tip
       /\ ChainWork[mostWork[t]] >= ChainWork[tip]

Kept == {"HAVE_DATA", "HAVE_UNDO"}

DiskInv ==
  /\ \A b \in Active \ {Genesis} : Kept \subseteq nStatus[b]
  /\ \A b \in Block \ dirty : Kept \cap nStatus[b] \subseteq diskStatus[b]
  /\ \A b \in Block : Kept \cap diskStatus[b] \subseteq nStatus[b]
  /\ DiskChainComplete

IInv == TypeOK /\ LockInv /\ LinkInv /\ StepInv /\ DiskInv
-----------------------------------------------------------------------------
\* The facts about the tree that the proofs use.
LEMMA Tree ==
  /\ \A b \in Block : b \in Ancestors[b] /\ Ancestors[b] \subseteq Block
  /\ \A b \in Block \ {Genesis} :
       /\ Parent[b] \in Block
       /\ Ancestors[b] = Ancestors[Parent[b]] \cup {b}
       /\ ChainWork[Parent[b]] < ChainWork[b]
  /\ \A b \in Block : ChainWork[b] \in Nat
  /\ Genesis \in Block /\ None \notin Block /\ None \notin Thread
<1>1. Genesis \in Block /\ None \notin Block /\ None \notin Thread
  BY BlockAssumption
<1>2. \A b \in Block \ {Genesis} : Parent[b] \in Block
  BY TreeAssumption
<1>3. \A b \in Block : Ancestors[b] \subseteq Block
  BY TreeAssumption
<1>4. \A b \in Block \ {Genesis} : Ancestors[b] = Ancestors[Parent[b]] \cup {b}
  BY TreeAssumption
<1>5. \A b \in Block : b \in Ancestors[b]
  <2>1. Genesis \in Ancestors[Genesis]
    BY TreeAssumption, <1>1
  <2>. QED BY <1>4, <2>1
<1>6. \A b \in Block : ChainWork[b] \in Nat
  BY WorkAssumption
<1>7. \A b \in Block \ {Genesis} : ChainWork[Parent[b]] < ChainWork[b]
  BY WorkAssumption
<1>. QED BY <1>1, <1>2, <1>3, <1>4, <1>5, <1>6, <1>7

\* Counting an event keeps the counters' type.
LEMMA CountUsed ==
  ASSUME NEW E, used \in [E -> Nat], NEW e \in E,
         used' = [used EXCEPT ![e] = @ + 1]
  PROVE  used' \in [E -> Nat]
<1>1. used[e] + 1 \in Nat
  OBVIOUS
<1>. QED BY <1>1

\* Where a call of FlushStateToDisk leaves its thread, and that it does not
\* let go of cs_main while it writes.
LEMMA FlushLock ==
  ASSUME TypeOK, LockInv, NEW t \in Thread,
         NEW next \in {"idle", "step", "loop", "invalidate"},
         NEW keep \in BOOLEAN, keep <=> next \in {"step", "invalidate"},
         pc[t] # "flush", cs_main \in {t, None},
         FlushStateToDisk(t, next, keep)
  PROVE  /\ pc' \in [Thread -> PCs]
         /\ ret' \in [Thread -> {"idle", "step", "loop", "invalidate"}]
         /\ cs_main' \in Thread \cup {None}
         /\ used' \in [{"invalidate", "reconsider", "flush", "crash"} -> Nat]
         /\ LockInv'
         /\ pc'[t] # "link" /\ (InStep(t)' => next = "step")
         /\ \A x \in Thread \ {t} : pc'[x] = pc[x] /\ ret'[x] = ret[x]
<1>0. None \notin Thread /\ ret[t] = "idle"
  BY BlockAssumption DEF LockInv
<1>1. \A x \in Thread \ {t} : pc[x] \notin Locked
  BY <1>0 DEF LockInv
<1>2. CASE /\ pc' = [pc EXCEPT ![t] = next]
           /\ cs_main' = IF keep THEN t ELSE None
           /\ UNCHANGED <<ret, used>>
  BY <1>0, <1>1, <1>2 DEF TypeOK, LockInv, InStep, Locked, PCs
<1>3. CASE /\ used["flush"] < MaxFlushes
           /\ used' = [used EXCEPT !["flush"] = @ + 1]
           /\ pc' = [pc EXCEPT ![t] = "flush"]
           /\ ret' = [ret EXCEPT ![t] = next]
           /\ cs_main' = t
  <2>1. used' \in [{"invalidate", "reconsider", "flush", "crash"} -> Nat]
    <3>1. used \in [{"invalidate", "reconsider", "flush", "crash"} -> Nat]
      BY DEF TypeOK
    <3>2. used["flush"] + 1 \in Nat
      BY <3>1
    <3>. QED BY <1>3, <3>1, <3>2, Zenon
  <2>2. /\ pc' \in [Thread -> PCs] /\ cs_main' \in Thread \cup {None}
        /\ ret' \in [Thread -> {"idle", "step", "loop", "invalidate"}]
        /\ pc'[t] = "flush" /\ ret'[t] = next
        /\ \A x \in Thread \ {t} : pc'[x] = pc[x] /\ ret'[x] = ret[x]
    BY <1>3 DEF TypeOK, PCs
  <2>3. LockInv'
    BY <1>1, <1>3, <2>2 DEF LockInv, Locked
  <2>. QED BY <2>1, <2>2, <2>3 DEF InStep
<1>. QED BY <1>2, <1>3 DEF FlushStateToDisk

\* What LinkInv says of a block survives as long as HAVE_DATA is not cleared
\* and linked only grows.
LEMMA DataKept ==
  ASSUME NEW b, Kept \cap nStatus[b] \subseteq nStatus'[b], linked \subseteq linked'
  PROVE  /\ HasData(b) => HasData(b)'
         /\ ReadyToLink(b) => ReadyToLink(b)'
         /\ \A p : Awaits(b, p) => Awaits(b, p)'
  BY DEF HasData, ReadyToLink, Awaits, Kept

\* The members of the sequences are blocks.
LEMMA Members ==
  ASSUME TypeOK
  PROVE  /\ \A i \in DOMAIN queue : queue[i] \in Block
         /\ \A p \in Block : \A i \in DOMAIN unlinked[p] : unlinked[p][i] \in Block
<1>1. queue \in Seq(Block) /\ \A p \in Block : unlinked[p] \in Seq(Block)
  BY DEF TypeOK
<1>2. \A s \in Seq(Block) : \A i \in DOMAIN s : s[i] \in Block
  OBVIOUS
<1>. QED BY <1>1, <1>2, Zenon

\* An action that links nothing keeps LinkInv.
LEMMA LinkFrame ==
  ASSUME TypeOK, LinkInv,
         \A x \in Block : Kept \cap nStatus[x] \subseteq nStatus'[x],
         UNCHANGED <<linked, queue, unlinked>>,
         candidates' \subseteq linked,
         \A x \in Thread : pc'[x] = "link" => pc[x] = "link",
         \A x \in Thread : mostWork'[x] \in {mostWork[x], None} \cup linked
  PROVE  LinkInv'
<1>1. \A b \in Block : /\ HasData(b) => HasData(b)'
                       /\ ReadyToLink(b) => ReadyToLink(b)'
                       /\ \A p : Awaits(b, p) => Awaits(b, p)'
  BY DataKept
<1>2. linked \subseteq Block
  BY DEF TypeOK
<1>3. \A b \in linked' : Ancestors[b] \subseteq linked' /\ HasData(b)'
  BY <1>1, <1>2 DEF LinkInv
<1>4. \A i \in DOMAIN queue' : ReadyToLink(queue[i])'
  BY <1>1, Members DEF LinkInv
<1>5. \A p \in Block : \A i \in DOMAIN unlinked'[p] : Awaits(unlinked[p][i], p)'
  BY <1>1, Members DEF LinkInv
<1>6. \A x \in Thread : pc'[x] = "link" => queue' # << >>
  BY DEF LinkInv
<1>7. \A x \in Thread : mostWork'[x] # None => mostWork'[x] \in linked'
  BY DEF LinkInv
<1>. QED BY <1>3, <1>4, <1>5, <1>6, <1>7 DEF LinkInv

\* An action that leaves tip and disk alone keeps DiskInv if it clears
\* neither of these flags and marks what it changes dirty.
LEMMA DiskFrame ==
  ASSUME TypeOK, DiskInv,
         \A x \in Block : Kept \cap nStatus[x] \subseteq nStatus'[x],
         \A x \in Block \ dirty' : Kept \cap nStatus'[x] \subseteq nStatus[x],
         dirty \subseteq dirty',
         UNCHANGED <<tip, diskStatus, diskBest>>
  PROVE  DiskInv'
  BY Tree DEF TypeOK, DiskInv, DiskChainComplete, Active

\* A header, a refused block and a duplicate touch neither data nor chain.
LEMMA HeaderInv ==
  ASSUME IInv, NEW t \in Thread, NEW b \in Block \ {Genesis},
         ProcessHeader(t, b) \/ RejectBlock(t, b)
  PROVE  IInv'
<1>1. \E f \in SUBSET Flag : nStatus' = [nStatus EXCEPT ![b] = @ \cup f]
  <2>1. CASE ProcessHeader(t, b)
    <3>1. {"TREE"} \in SUBSET Flag
      BY DEF Flag
    <3>. WITNESS {"TREE"} \in SUBSET Flag
    <3>. QED BY <2>1 DEF ProcessHeader, WithHeader, Flag
  <2>2. CASE RejectBlock(t, b)
    <3>1. {"TREE", "FAILED_VALID"} \in SUBSET Flag
      BY DEF Flag
    <3>. WITNESS {"TREE", "FAILED_VALID"} \in SUBSET Flag
    <3>. QED BY <2>2 DEF RejectBlock, WithHeader, IInv, TypeOK, Flag
  <2>. QED BY <2>1, <2>2
<1>2. /\ dirty' = dirty \cup {b}
      /\ UNCHANGED <<linked, nSequenceId, nBlockSequenceId, unlinked, candidates,
                     tip, cs_main, pc, mostWork, ret, locals, disk, used>>
  BY DEF ProcessHeader, RejectBlock
<1>3. TypeOK'
  BY <1>1, <1>2 DEF IInv, TypeOK, locals, disk
<1>4. LockInv'
  BY <1>2 DEF IInv, LockInv
<1>5. \A x \in Block : nStatus[x] \subseteq nStatus'[x]
  BY <1>1 DEF IInv, TypeOK
<1>6. LinkInv'
  <2>1. candidates' \subseteq linked
    BY <1>2 DEF IInv, LinkInv
  <2>2. \A x \in Block : Kept \cap nStatus[x] \subseteq nStatus'[x]
    BY <1>5
  <2>3. UNCHANGED <<linked, queue, unlinked>>
    BY <1>2 DEF locals
  <2>4. \A x \in Thread : /\ pc'[x] = "link" => pc[x] = "link"
                          /\ mostWork'[x] \in {mostWork[x], None}
    BY <1>2
  <2>. QED BY <2>1, <2>2, <2>3, <2>4, LinkFrame DEF IInv
<1>7. StepInv'
  BY <1>2 DEF IInv, StepInv, InStep
<1>8. DiskInv'
  <2>1. \A x \in Block \ dirty' : nStatus'[x] = nStatus[x]
    BY <1>1, <1>2 DEF IInv, TypeOK
  <2>. QED BY <1>2, <1>5, <2>1, DiskFrame DEF IInv, disk
<1>. QED BY <1>3, <1>4, <1>6, <1>7, <1>8 DEF IInv

\* ProcessNewBlock goes on to activate, a call flushes, or a thread leaves a
\* loop: only the thread moves, and it does not hold cs_main there.
LEMMA MoveInv ==
  ASSUME IInv, NEW t \in Thread, pc[t] \notin Locked \/ pc[t] = "find",
         NEW where \in PCs \ Locked,
         pc' = [pc EXCEPT ![t] = where],
         mostWork' \in {mostWork, [mostWork EXCEPT ![t] = None]},
         cs_main' = cs_main \/ (cs_main' = None /\ cs_main \in {t, None}),
         pc[t] = "find" => cs_main' = None,
         UNCHANGED <<index, candidates, tip, dirty, ret, locals, disk, used>>
  PROVE  IInv'
<1>1. TypeOK'
  BY DEF IInv, TypeOK, index, locals, disk
<1>2. LockInv'
  BY Tree DEF IInv, TypeOK, LockInv, Locked, PCs
<1>3. LinkInv'
  <2>1. candidates' \subseteq linked
    BY DEF IInv, LinkInv
  <2>2. \A x \in Thread : /\ pc'[x] = "link" => pc[x] = "link"
                          /\ mostWork'[x] \in {mostWork[x], None}
    BY DEF IInv, TypeOK, Locked
  <2>3. \A x \in Block : nStatus[x] \subseteq nStatus'[x]
    BY DEF index
  <2>4. UNCHANGED <<linked, queue, unlinked>>
    BY DEF index, locals
  <2>. QED BY <2>1, <2>2, <2>3, <2>4, LinkFrame DEF IInv
<1>4. StepInv'
  BY DEF IInv, TypeOK, StepInv, InStep, Locked
<1>5. DiskInv'
  BY DEF IInv, DiskInv, DiskChainComplete, Active, index, disk
<1>. QED BY <1>1, <1>2, <1>3, <1>4, <1>5 DEF IInv

\* Block data arrives: the block waits for its parent, or is linked next.
LEMMA ReceiveInv ==
  ASSUME IInv, NEW t \in Thread, NEW b \in Block \ {Genesis}, ReceiveBlock(t, b)
  PROVE  IInv'
<1>0. TypeOK /\ LockInv /\ LinkInv /\ StepInv /\ DiskInv
  BY DEF IInv
<1>1. /\ nStatus' = [nStatus EXCEPT ![b] =
                       nStatus[b] \cup {"TREE", "TRANSACTIONS", "HAVE_DATA"}]
      /\ dirty' = dirty \cup {b} /\ cs_main = None /\ pc[t] = "idle"
      /\ UNCHANGED <<linked, nSequenceId, nBlockSequenceId, candidates, tip,
                     mostWork, ret, target, oldTip, disk, used>>
  BY <1>0 DEF ReceiveBlock, WithHeader, TypeOK
<1>2. \/ /\ Parent[b] \in linked /\ queue' = <<b>> /\ unlinked' = unlinked
         /\ pc' = [pc EXCEPT ![t] = "link"] /\ cs_main' = t
      \/ /\ unlinked' \in {unlinked,
                           [unlinked EXCEPT ![Parent[b]] = Append(@, b)]}
         /\ pc' = [pc EXCEPT ![t] = "activate"] /\ UNCHANGED <<queue, cs_main>>
  BY DEF ReceiveBlock, ParentReady
<1>a. \A x \in Thread : pc[x] \notin Locked
  BY <1>0, <1>1, Tree DEF LockInv
<1>3. nStatus' \in [Block -> SUBSET Flag]
  <2>1. nStatus \in [Block -> SUBSET Flag]
    BY <1>0, Zenon DEF TypeOK
  <2>. QED BY <1>1, <2>1 DEF Flag
<1>4. unlinked' \in [Block -> Seq(Block)] /\ queue' \in Seq(Block)
  <2>1. Append(unlinked[Parent[b]], b) \in Seq(Block)
    <3>1. unlinked \in [Block -> Seq(Block)]
      BY <1>0, Zenon DEF TypeOK
    <3>2. unlinked[Parent[b]] \in Seq(Block)
      BY <3>1, Tree, Zenon
    <3>. QED BY <3>2
  <2>2. <<b>> \in Seq(Block)
    OBVIOUS
  <2>3. queue' \in {queue, <<b>>} /\ queue \in Seq(Block)
    BY <1>0, <1>2 DEF TypeOK
  <2>4. CASE unlinked' = unlinked
    BY <1>0, <2>2, <2>3, <2>4 DEF TypeOK
  <2>5. CASE unlinked' = [unlinked EXCEPT ![Parent[b]] = Append(@, b)]
    <3>1. unlinked' \in [Block -> Seq(Block)]
      BY <1>0, <2>1, <2>5 DEF TypeOK
    <3>. QED BY <2>2, <2>3, <3>1
  <2>. QED BY <1>2, <2>4, <2>5
<1>5. TypeOK'
  BY <1>0, <1>1, <1>2, <1>3, <1>4 DEF TypeOK, PCs, disk
<1>6. LockInv'
  <2>1. \A x \in Thread : ret[x] = "idle" \/ pc[x] = "flush"
    BY <1>0 DEF LockInv
  <2>2. CASE pc' = [pc EXCEPT ![t] = "link"] /\ cs_main' = t
    BY <1>0, <1>1, <1>a, <2>1, <2>2 DEF TypeOK, LockInv, Locked
  <2>3. CASE pc' = [pc EXCEPT ![t] = "activate"] /\ cs_main' = cs_main
    BY <1>0, <1>1, <1>a, <2>1, <2>3 DEF TypeOK, LockInv, Locked
  <2>. QED BY <1>2, <2>2, <2>3
<1>7. \A x \in Block : nStatus[x] \subseteq nStatus'[x]
  BY <1>0, <1>1 DEF TypeOK
<1>8. LinkInv'
  <2>1. HasData(b)'
    BY <1>0, <1>1 DEF TypeOK, HasData
  <2>2. \A x \in Block : /\ HasData(x) => HasData(x)'
                         /\ ReadyToLink(x) => ReadyToLink(x)'
                         /\ \A p : Awaits(x, p) => Awaits(x, p)'
    BY <1>1, <1>7, DataKept
  <2>3. \A x \in linked' : Ancestors[x] \subseteq linked' /\ HasData(x)'
    BY <1>0, <1>1, <2>2 DEF LinkInv, TypeOK
  <2>4. \A i \in DOMAIN queue' : ReadyToLink(queue[i])'
    <3>1. CASE queue' = queue
      BY <1>0, <2>2, <3>1, Members DEF LinkInv
    <3>2. CASE Parent[b] \in linked /\ queue' = <<b>>
      <4>1. ReadyToLink(b)'
        BY <1>1, <2>1, <3>2 DEF ReadyToLink
      <4>2. \A i \in DOMAIN queue' : queue'[i] = b
        BY <3>2
      <4>. QED BY <4>1, <4>2 DEF ReadyToLink, HasData
    <3>. QED BY <1>2, <3>1, <3>2
  <2>5. \A p \in Block : \A i \in DOMAIN unlinked'[p] : Awaits(unlinked[p][i], p)'
    <3>1. \A p \in Block : \A i \in DOMAIN unlinked'[p] :
            \/ i \in DOMAIN unlinked[p] /\ unlinked'[p][i] = unlinked[p][i]
            \/ p = Parent[b] /\ unlinked'[p][i] = b
      <4>1. CASE unlinked' = unlinked
        BY <4>1
      <4>2. CASE unlinked' = [unlinked EXCEPT ![Parent[b]] = Append(@, b)]
        <5>1. unlinked[Parent[b]] \in Seq(Block)
          BY <1>0, Tree DEF TypeOK
        <5>2. \A i \in DOMAIN Append(unlinked[Parent[b]], b) :
                \/ /\ i \in DOMAIN unlinked[Parent[b]]
                   /\ Append(unlinked[Parent[b]], b)[i] = unlinked[Parent[b]][i]
                \/ Append(unlinked[Parent[b]], b)[i] = b
          BY <5>1
        <5>3. \A p \in Block : unlinked'[p] =
                IF p = Parent[b] THEN Append(unlinked[p], b) ELSE unlinked[p]
          BY <1>0, <4>2 DEF TypeOK
        <5>. QED BY <5>2, <5>3
      <4>. QED BY <1>2, <4>1, <4>2
    <3>2. Awaits(b, Parent[b])'
      BY <2>1 DEF Awaits
    <3>3. SUFFICES ASSUME NEW p \in Block, NEW i \in DOMAIN unlinked'[p]
                   PROVE  Awaits(unlinked[p][i], p)'
      OBVIOUS
    <3>4. CASE i \in DOMAIN unlinked[p] /\ unlinked'[p][i] = unlinked[p][i]
      BY <1>0, <2>2, <3>4, Members DEF LinkInv, Awaits, HasData
    <3>5. CASE p = Parent[b] /\ unlinked'[p][i] = b
      BY <3>2, <3>5 DEF Awaits, HasData
    <3>. QED BY <3>1, <3>4, <3>5
  <2>6. \A x \in Thread : pc'[x] = "link" => queue' # << >>
    <3>1. <<b>> # << >>
      OBVIOUS
    <3>2. CASE pc' = [pc EXCEPT ![t] = "activate"]
      BY <1>0, <1>a, <3>2 DEF TypeOK, Locked
    <3>. QED BY <1>2, <3>1, <3>2
  <2>7. candidates' \subseteq linked' /\ \A x \in Thread :
          mostWork'[x] # None => mostWork'[x] \in linked'
    BY <1>0, <1>1 DEF LinkInv
  <2>. QED BY <2>3, <2>4, <2>5, <2>6, <2>7 DEF LinkInv
<1>9. StepInv'
  BY <1>0, <1>1, <1>2 DEF TypeOK, StepInv, InStep
<1>10. DiskInv'
  <2>1. \A x \in Block \ dirty' : nStatus'[x] = nStatus[x]
    BY <1>0, <1>1 DEF TypeOK
  <2>. QED BY <1>0, <1>1, <1>7, <2>1, DiskFrame DEF disk
<1>. QED BY <1>5, <1>6, <1>8, <1>9, <1>10 DEF IInv

\* One block is linked: its children leave mapBlocksUnlinked for the queue.
LEMMA LinkBlockInv ==
  ASSUME IInv, NEW t \in Thread, LinkBlock(t)
  PROVE  IInv'
<1>0. TypeOK /\ LockInv /\ LinkInv /\ StepInv /\ DiskInv
  BY DEF IInv
<1>4. queue \in Seq(Block) /\ queue # << >> /\ 1 \in DOMAIN queue /\ Head(queue) = queue[1]
  <2>1. queue \in Seq(Block)
    BY <1>0, Zenon DEF TypeOK
  <2>2. queue # << >>
    BY <1>0, Zenon DEF LinkInv, LinkBlock
  <2>. QED BY <2>1, <2>2
<1>. PICK b \in Block : b = Head(queue) /\ ReadyToLink(b)
  BY <1>0, <1>4, Members DEF LinkInv
<1>5. b \in Block /\ ReadyToLink(b)
  OBVIOUS
<1>1. /\ pc[t] = "link" /\ linked' = linked \cup {b}
      /\ nSequenceId' = [nSequenceId EXCEPT ![b] = nBlockSequenceId]
      /\ nBlockSequenceId' = nBlockSequenceId + 1
      /\ queue' = Tail(queue) \o unlinked[b]
      /\ unlinked' = [unlinked EXCEPT ![b] = << >>]
      /\ UNCHANGED <<nStatus, tip, dirty, mostWork, ret, target, oldTip, disk, used>>
  BY DEF LinkBlock, UnlinkedChildren, EraseUnlinked
<1>2. /\ candidates' \subseteq candidates \cup {b}
      /\ b \in candidates' => b \in candidates \/ ~Less(nSequenceId', b, tip)
  BY DEF LinkBlock
<1>3. \/ queue' = << >> /\ pc' = [pc EXCEPT ![t] = "activate"] /\ cs_main' = None
      \/ queue' # << >> /\ UNCHANGED <<pc, cs_main>>
  BY DEF LinkBlock
<1>6. unlinked[b] \in Seq(Block) /\ Tail(queue) \in Seq(Block)
  BY <1>0, <1>4, <1>5 DEF TypeOK
<1>7. \A i \in DOMAIN queue' :
        \/ \E j \in DOMAIN queue : queue'[i] = queue[j]
        \/ \E j \in DOMAIN unlinked[b] : queue'[i] = unlinked[b][j]
  <2>1. SUFFICES ASSUME NEW i \in DOMAIN queue'
                 PROVE  \/ \E j \in DOMAIN queue : queue'[i] = queue[j]
                        \/ \E j \in DOMAIN unlinked[b] : queue'[i] = unlinked[b][j]
    OBVIOUS
  <2>2. /\ i \in 1..(Len(Tail(queue)) + Len(unlinked[b]))
        /\ Len(Tail(queue)) = Len(queue) - 1 /\ Len(unlinked[b]) \in Nat
        /\ Len(queue) \in Nat
    BY <1>1, <1>4, <1>6
  <2>3. CASE i <= Len(Tail(queue))
    <3>1. queue'[i] = queue[i + 1] /\ i + 1 \in DOMAIN queue
      BY <1>1, <1>4, <1>6, <2>2, <2>3
    <3>. QED BY <3>1
  <2>4. CASE i > Len(Tail(queue))
    <3>1. /\ queue'[i] = unlinked[b][i - Len(Tail(queue))]
          /\ i - Len(Tail(queue)) \in DOMAIN unlinked[b]
      BY <1>1, <1>4, <1>6, <2>2, <2>4
    <3>. QED BY <3>1
  <2>. QED BY <2>2, <2>3, <2>4
<1>8. TypeOK'
  <2>1. queue' \in Seq(Block)
    BY <1>1, <1>6
  <2>2. unlinked' \in [Block -> Seq(Block)]
    BY <1>0, <1>1 DEF TypeOK
  <2>3. linked' \subseteq Block /\ candidates' \subseteq Block
    BY <1>0, <1>1, <1>2, <1>5 DEF TypeOK
  <2>4. nSequenceId' \in [Block -> Nat] /\ nBlockSequenceId' \in Nat
    BY <1>0, <1>1 DEF TypeOK
  <2>. QED BY <1>0, <1>1, <1>3, <2>1, <2>2, <2>3, <2>4 DEF TypeOK, PCs, disk
<1>9. cs_main = t /\ \A x \in Thread \ {t} : pc[x] \notin Locked
  BY <1>0, <1>1 DEF LockInv, Locked
<1>10. LockInv'
  BY <1>0, <1>1, <1>3, <1>9 DEF TypeOK, LockInv, Locked
<1>11. LinkInv'
  <2>2. \A x \in Block : /\ HasData(x) => HasData(x)'
                         /\ ReadyToLink(x) => ReadyToLink(x)'
                         /\ \A p : Awaits(x, p) => Awaits(x, p)'
    BY <1>1, DataKept
  <2>3. \A x \in linked' : Ancestors[x] \subseteq linked' /\ HasData(x)'
    <3>1. Ancestors[b] \subseteq linked' /\ HasData(b)'
      BY <1>0, <1>1, <1>5, <2>2, Tree DEF LinkInv, ReadyToLink
    <3>. QED BY <1>0, <1>1, <2>2, <3>1 DEF LinkInv, TypeOK
  <2>4. \A i \in DOMAIN queue' : ReadyToLink(queue[i])'
    <3>1. \A x \in Block : Awaits(x, b) => ReadyToLink(x)'
      BY <1>1, <2>2 DEF Awaits, ReadyToLink
    <3>2. \A j \in DOMAIN queue : ReadyToLink(queue[j]) /\ queue[j] \in Block
      BY <1>0, Members DEF LinkInv
    <3>3. \A j \in DOMAIN unlinked[b] :
            Awaits(unlinked[b][j], b) /\ unlinked[b][j] \in Block
      BY <1>0, Members DEF LinkInv
    <3>4. \A x \in Block : ReadyToLink(x) => ReadyToLink(x)'
      BY <2>2
    <3>5. SUFFICES ASSUME NEW i \in DOMAIN queue' PROVE ReadyToLink(queue[i])'
      OBVIOUS
    <3>6. PICK x \in Block : x = queue'[i] /\ ReadyToLink(x)'
      BY <1>7, <3>1, <3>2, <3>3, <3>4
    <3>. QED BY <3>6 DEF ReadyToLink, HasData
  <2>5. \A p \in Block : \A i \in DOMAIN unlinked'[p] : Awaits(unlinked[p][i], p)'
    <3>1. \A p \in Block : unlinked'[p] = IF p = b THEN << >> ELSE unlinked[p]
      BY <1>0, <1>1 DEF TypeOK
    <3>. QED BY <1>0, <1>1, <3>1 DEF LinkInv, Awaits, HasData
  <2>6. \A x \in Thread : pc'[x] = "link" => queue' # << >>
    BY <1>0, <1>3, <1>9 DEF TypeOK, Locked
  <2>7. candidates' \subseteq linked' /\ \A x \in Thread :
          mostWork'[x] # None => mostWork'[x] \in linked'
    BY <1>0, <1>1, <1>2 DEF LinkInv
  <2>. QED BY <2>3, <2>4, <2>5, <2>6, <2>7 DEF LinkInv
<1>12. StepInv'
  <2>1. ~Less(nSequenceId', b, tip) => ChainWork[b] >= ChainWork[tip]
    <3>1. ChainWork[b] \in Nat /\ ChainWork[tip] \in Nat
      BY <1>0, Tree DEF TypeOK
    <3>. QED BY <3>1 DEF Less
  <2>2. \A c \in candidates' : ChainWork[c] >= ChainWork[tip']
    BY <1>0, <1>1, <1>2, <2>1 DEF StepInv
  <2>. QED BY <1>0, <1>1, <1>3, <2>2 DEF TypeOK, StepInv, InStep
<1>13. DiskInv'
  BY <1>0, <1>1 DEF DiskInv, DiskChainComplete, Active, disk
<1>. QED BY <1>8, <1>10, <1>11, <1>12, <1>13 DEF IInv

\* The comparator looks at the work first.
LEMMA LessWork ==
  ASSUME NEW seq, NEW a \in Block, NEW b \in Block
  PROVE  /\ ~Less(seq, a, b) => ChainWork[a] >= ChainWork[b]
         /\ Less(seq, a, b) => ChainWork[b] >= ChainWork[a]
<1>1. ChainWork[a] \in Nat /\ ChainWork[b] \in Nat
  BY Tree
<1>. QED BY <1>1 DEF Less

\* FlushStateToDisk is entered from an idle thread.
LEMMA FlushAlwaysInv ==
  ASSUME IInv, NEW t \in Thread, FlushAlways(t)
  PROVE  IInv'
<1>0. TypeOK /\ LockInv /\ LinkInv /\ StepInv /\ DiskInv
  BY DEF IInv
<1>1. /\ pc[t] = "idle" /\ cs_main = None /\ cs_main' = t
      /\ pc' = [pc EXCEPT ![t] = "flush"]
      /\ used' = [used EXCEPT !["flush"] = @ + 1]
      /\ UNCHANGED <<index, candidates, tip, dirty, mostWork, ret, locals, disk>>
  BY DEF FlushAlways
<1>2. \A x \in Thread : pc[x] \notin Locked /\ ret[x] = "idle"
  BY <1>0, <1>1, Tree DEF LockInv, Locked
<1>3. TypeOK'
  <2>1. used' \in [{"invalidate", "reconsider", "flush", "crash"} -> Nat]
    <3>1. used \in [{"invalidate", "reconsider", "flush", "crash"} -> Nat]
      BY <1>0 DEF TypeOK
    <3>. QED BY <1>1, <3>1, CountUsed
  <2>2. pc' \in [Thread -> PCs]
    BY <1>0, <1>1 DEF TypeOK, PCs
  <2>. QED BY <1>0, <1>1, <2>1, <2>2 DEF TypeOK, index, locals, disk
<1>4. LockInv'
  BY <1>0, <1>1, <1>2 DEF TypeOK, LockInv
<1>5. LinkInv'
  <2>1. candidates' \subseteq linked
    BY <1>0, <1>1 DEF LinkInv
  <2>2. \A x \in Thread : /\ pc'[x] = "link" => pc[x] = "link"
                          /\ mostWork'[x] \in {mostWork[x], None}
    BY <1>0, <1>1 DEF TypeOK
  <2>3. \A x \in Block : nStatus[x] \subseteq nStatus'[x]
    BY <1>1 DEF index
  <2>4. UNCHANGED <<linked, queue, unlinked>>
    BY <1>1 DEF index, locals
  <2>. QED BY <1>0, <2>1, <2>2, <2>3, <2>4, LinkFrame
<1>6. StepInv'
  BY <1>0, <1>1, <1>2 DEF TypeOK, StepInv, InStep
<1>7. DiskInv'
  BY <1>0, <1>1 DEF DiskInv, DiskChainComplete, Active, index, disk
<1>. QED BY <1>3, <1>4, <1>5, <1>6, <1>7 DEF IInv

\* One index entry is written.
LEMMA WriteInv ==
  ASSUME IInv, NEW t \in Thread, WriteBlockIndex(t)
  PROVE  IInv'
<1>0. TypeOK /\ LockInv /\ LinkInv /\ StepInv /\ DiskInv
  BY DEF IInv
<1>1. dirty \in SUBSET Block /\ dirty # {}
  BY <1>0 DEF TypeOK, WriteBlockIndex
<1>2. /\ ByAddr[dirty] \in Seq(Block)
      /\ dirty = {ByAddr[dirty][i] : i \in DOMAIN ByAddr[dirty]}
  BY <1>1, AddrAssumption
<1>3. Head(ByAddr[dirty]) \in dirty
  <2>1. 1 \in DOMAIN ByAddr[dirty]
    BY <1>1, <1>2
  <2>. QED BY <1>2, <2>1
<1>. PICK b \in dirty : b = Head(ByAddr[dirty])
  BY <1>3
<1>4. /\ diskStatus' = [diskStatus EXCEPT ![b] = nStatus[b]]
      /\ dirty' = dirty \ {b}
      /\ UNCHANGED <<index, candidates, tip, cs_main, pc, mostWork, ret, locals,
                     diskBest, used>>
  BY DEF WriteBlockIndex
<1>5. TypeOK'
  <2>1. nStatus[b] \in SUBSET Flag
    BY <1>0, <1>1 DEF TypeOK
  <2>2. diskStatus' \in [Block -> SUBSET Flag]
    BY <1>0, <1>4, <2>1 DEF TypeOK
  <2>. QED BY <1>0, <1>4, <2>2 DEF TypeOK, index, locals
<1>6. LockInv' /\ StepInv'
  BY <1>0, <1>4 DEF LockInv, StepInv, InStep
<1>7. LinkInv'
  <2>1. candidates' \subseteq linked
    BY <1>0, <1>4 DEF LinkInv
  <2>2. \A x \in Block : Kept \cap nStatus[x] \subseteq nStatus'[x]
    BY <1>4 DEF index
  <2>3. UNCHANGED <<linked, queue, unlinked>>
    BY <1>4 DEF index, locals
  <2>4. \A x \in Thread : /\ pc'[x] = "link" => pc[x] = "link"
                          /\ mostWork'[x] \in {mostWork[x], None}
    BY <1>4
  <2>. QED BY <1>0, <2>1, <2>2, <2>3, <2>4, LinkFrame
<1>8. DiskInv'
  <2>1. \A x \in Block : diskStatus'[x] = IF x = b THEN nStatus[x] ELSE diskStatus[x]
    BY <1>0, <1>4 DEF TypeOK
  <2>2. nStatus' = nStatus /\ tip' = tip /\ diskBest' = diskBest
    BY <1>4 DEF index
  <2>3. \A x \in Block \ dirty' : Kept \cap nStatus'[x] \subseteq diskStatus'[x]
    BY <1>0, <1>4, <2>1, <2>2 DEF DiskInv
  <2>4. \A x \in Block : Kept \cap diskStatus'[x] \subseteq nStatus'[x]
    BY <1>0, <2>1, <2>2 DEF DiskInv
  <2>5. \A x \in Block : Kept \cap diskStatus[x] \subseteq diskStatus'[x]
    BY <1>0, <2>1 DEF DiskInv
  <2>6. DiskChainComplete'
    <3>1. Ancestors[diskBest] \subseteq Block
      BY <1>0, Tree DEF TypeOK
    <3>. QED BY <1>0, <2>2, <2>5, <3>1 DEF DiskInv, DiskChainComplete, Kept
  <2>. QED BY <1>0, <2>2, <2>3, <2>4, <2>6 DEF DiskInv, Active
<1>. QED BY <1>5, <1>6, <1>7, <1>8 DEF IInv

\* The coins are written, once every index entry is.
LEMMA FlushCoinsInv ==
  ASSUME IInv, NEW t \in Thread, FlushCoins(t)
  PROVE  IInv'
<1>0. TypeOK /\ LockInv /\ LinkInv /\ StepInv /\ DiskInv
  BY DEF IInv
<1>1. /\ pc[t] = "flush" /\ dirty = {} /\ diskBest' = tip
      /\ pc' = [pc EXCEPT ![t] = ret[t]]
      /\ ret' = [ret EXCEPT ![t] = "idle"]
      /\ cs_main' = IF ret[t] \in {"step", "invalidate"} THEN t ELSE None
      /\ UNCHANGED <<index, candidates, tip, dirty, mostWork, locals, diskStatus,
                     used>>
  BY DEF FlushCoins, IndexWritten
<1>2. ret[t] \in {"idle", "step", "loop", "invalidate"}
  BY <1>0 DEF TypeOK
<1>3. TypeOK'
  BY <1>0, <1>1, <1>2 DEF TypeOK, PCs, index, locals
<1>4. \A x \in Thread \ {t} : pc[x] \notin Locked
  BY <1>0, <1>1 DEF LockInv, Locked
<1>5. LockInv'
  BY <1>0, <1>1, <1>2, <1>4 DEF TypeOK, LockInv, Locked
<1>6. LinkInv'
  <2>1. candidates' \subseteq linked
    BY <1>0, <1>1 DEF LinkInv
  <2>2. \A x \in Thread : /\ pc'[x] = "link" => pc[x] = "link"
                          /\ mostWork'[x] \in {mostWork[x], None}
    BY <1>0, <1>1, <1>2 DEF TypeOK
  <2>3. \A x \in Block : nStatus[x] \subseteq nStatus'[x]
    BY <1>1 DEF index
  <2>4. UNCHANGED <<linked, queue, unlinked>>
    BY <1>1 DEF index, locals
  <2>. QED BY <1>0, <2>1, <2>2, <2>3, <2>4, LinkFrame
<1>7. StepInv'
  BY <1>0, <1>1, <1>2, <1>4 DEF TypeOK, StepInv, InStep, Locked
<1>8. DiskInv'
  <2>1. Ancestors[tip] \subseteq Block
    BY <1>0, Tree DEF TypeOK
  <2>2. DiskChainComplete'
    BY <1>0, <1>1, <2>1 DEF DiskInv, DiskChainComplete, Active, Kept, index
  <2>. QED BY <1>0, <1>1, <2>2 DEF DiskInv, Active, index
<1>. QED BY <1>3, <1>5, <1>6, <1>7, <1>8 DEF IInv

\* FindMostWorkChain is called with cs_main held or free.
LEMMA FindingLock ==
  ASSUME IInv, NEW t \in Thread, Finding(t)
  PROVE  /\ cs_main \in {t, None} /\ pc[t] \in {"find", "activate"}
         /\ ret[t] = "idle"
         /\ \A x \in Thread \ {t} : pc[x] \notin Locked /\ ret[x] = "idle"
  BY Tree DEF IInv, LockInv, Finding, Locked

\* Inside a step, the tip that is not on the way has a parent, and the tip
\* that is has a next block.
LEMMA StepFacts ==
  ASSUME IInv, NEW t \in Thread, pc[t] = "step"
  PROVE  /\ cs_main = t /\ ret[t] = "idle" /\ mostWork[t] \in Block /\ tip \in Block
         /\ mostWork[t] # tip
         /\ ChainWork[mostWork[t]] >= ChainWork[tip]
         /\ \A x \in Thread \ {t} : pc[x] \notin Locked
         /\ tip \notin Ancestors[mostWork[t]] => tip # Genesis
         /\ tip \in Ancestors[mostWork[t]] =>
              /\ NextBlock(t) \in Ancestors[mostWork[t]]
              /\ NextBlock(t) \in Block \ {Genesis}
              /\ NextBlock(t) \in linked /\ HasData(NextBlock(t))
              /\ Parent[NextBlock(t)] = tip
<1>1. cs_main = t /\ ret[t] = "idle" /\ \A x \in Thread \ {t} : pc[x] \notin Locked
  BY DEF IInv, LockInv, Locked
<1>2. /\ mostWork[t] \in Block /\ tip \in Block /\ mostWork[t] # tip
      /\ ChainWork[mostWork[t]] >= ChainWork[tip] /\ mostWork[t] \in linked
  BY DEF IInv, TypeOK, StepInv, InStep, LinkInv
<1>3. tip \notin Ancestors[mostWork[t]] => tip # Genesis
  BY <1>2, TreeAssumption
<1>4. ASSUME tip \in Ancestors[mostWork[t]]
      PROVE  /\ NextBlock(t) \in Ancestors[mostWork[t]] \ {Genesis}
             /\ Parent[NextBlock(t)] = tip
  <2>1. \E c \in Ancestors[mostWork[t]] \ {Genesis} : Parent[c] = tip
    BY <1>2, <1>4, TreeAssumption
  <2>. QED BY <2>1 DEF NextBlock
<1>5. Ancestors[mostWork[t]] \subseteq linked /\ \A x \in linked : HasData(x)
  BY <1>2 DEF IInv, LinkInv
<1>6. linked \subseteq Block
  BY DEF IInv, TypeOK
<1>. QED BY <1>1, <1>2, <1>3, <1>4, <1>5, <1>6
-----------------------------------------------------------------------------
\* The chain of a failed candidate leaves the set.
LEMMA DropInv ==
  ASSUME IInv, NEW t \in Thread, DropFailedChain(t)
  PROVE  IInv'
<1>0. TypeOK /\ LockInv /\ LinkInv /\ StepInv /\ DiskInv
  BY DEF IInv
<1>1. /\ pc' = [pc EXCEPT ![t] = "find"] /\ cs_main' = t
      /\ UNCHANGED <<linked, nSequenceId, nBlockSequenceId, unlinked, tip, dirty,
                     mostWork, ret, locals, disk, used>>
      /\ Finding(t)
  BY DEF DropFailedChain
<1>2. PICK marked : nStatus' = [b \in Block |-> IF b \in marked
                                  THEN nStatus[b] \cup {"FAILED_CHILD"}
                                  ELSE nStatus[b]]
  BY Zenon DEF DropFailedChain
<1>3. candidates' \subseteq candidates
  BY DEF DropFailedChain, WithoutChain
<1>4. /\ nStatus' \in [Block -> SUBSET Flag]
      /\ \A x \in Block : Kept \cap nStatus[x] = Kept \cap nStatus'[x]
  BY <1>0, <1>2 DEF TypeOK, Flag, Kept
<1>5. TypeOK'
  <2>1. pc' \in [Thread -> PCs]
    BY <1>0, <1>1 DEF TypeOK, PCs
  <2>. QED BY <1>0, <1>1, <1>3, <1>4, <2>1 DEF TypeOK, locals, disk
<1>6. LockInv'
  BY <1>0, <1>1, FindingLock DEF LockInv, TypeOK
<1>7. LinkInv'
  <2>1. candidates' \subseteq linked
    BY <1>0, <1>3 DEF LinkInv
  <2>2. \A x \in Thread : /\ pc'[x] = "link" => pc[x] = "link"
                          /\ mostWork'[x] \in {mostWork[x], None}
    BY <1>0, <1>1 DEF TypeOK
  <2>3. \A x \in Block : Kept \cap nStatus[x] \subseteq nStatus'[x]
    BY <1>1, <1>4 DEF locals
  <2>4. UNCHANGED <<linked, queue, unlinked>>
    BY <1>1, <1>4 DEF locals
  <2>. QED BY <1>0, <2>1, <2>2, <2>3, <2>4, LinkFrame
<1>8. StepInv'
  BY <1>0, <1>1, <1>3, FindingLock DEF TypeOK, StepInv, InStep
<1>9. DiskInv'
  BY <1>0, <1>1, <1>4, DiskFrame DEF disk
<1>. QED BY <1>5, <1>6, <1>7, <1>8, <1>9 DEF IInv

\* A step begins towards a candidate, a linked block with no less work.
LEMMA BeginStepInv ==
  ASSUME IInv, NEW t \in Thread, BeginStep(t), BestCandidate \in candidates
  PROVE  IInv'
<1>0. TypeOK /\ LockInv /\ LinkInv /\ StepInv /\ DiskInv
  BY DEF IInv
<1>a. PICK m : m = BestCandidate
  OBVIOUS
<1>1. /\ Finding(t) /\ candidates # {} /\ m # tip
      /\ mostWork' = [mostWork EXCEPT ![t] = m] /\ oldTip' = tip
      /\ pc' = [pc EXCEPT ![t] = "step"] /\ cs_main' = t
      /\ UNCHANGED <<index, candidates, tip, dirty, ret, queue, target, disk,
                     used>>
  BY <1>a DEF BeginStep
<1>2. m \in candidates /\ m \in linked /\ m \in Block /\ m # None
  BY <1>0, <1>1, <1>a, Tree DEF LinkInv, TypeOK
<1>3. TypeOK'
  <2>1. pc' \in [Thread -> PCs]
    BY <1>0, <1>1 DEF TypeOK, PCs
  <2>2. mostWork' \in [Thread -> Block \cup {None}]
    BY <1>0, <1>1, <1>2 DEF TypeOK
  <2>. QED BY <1>0, <1>1, <2>1, <2>2, Zenon DEF TypeOK, index, disk
<1>4. LockInv'
  BY <1>0, <1>1, FindingLock DEF LockInv, TypeOK
<1>5. LinkInv'
  <2>1. candidates' \subseteq linked
    BY <1>0, <1>1 DEF LinkInv
  <2>2. \A x \in Thread : /\ pc'[x] = "link" => pc[x] = "link"
                          /\ mostWork'[x] \in {mostWork[x], None} \cup linked
    BY <1>0, <1>1, <1>2 DEF TypeOK
  <2>3. \A x \in Block : Kept \cap nStatus[x] \subseteq nStatus'[x]
    BY <1>1 DEF index
  <2>4. UNCHANGED <<linked, queue, unlinked>>
    BY <1>1 DEF index
  <2>. QED BY <1>0, <2>1, <2>2, <2>3, <2>4, LinkFrame
<1>6. StepInv'
  BY <1>0, <1>1, <1>2, FindingLock, Zenon DEF TypeOK, StepInv, InStep, Locked
<1>7. DiskInv'
  BY <1>0, <1>1 DEF DiskInv, DiskChainComplete, Active, index, disk
<1>. QED BY <1>3, <1>4, <1>5, <1>6, <1>7 DEF IInv

\* The tip is disconnected.
LEMMA DisconnectInv ==
  ASSUME IInv, NEW t \in Thread, DisconnectTip(t)
  PROVE  IInv'
<1>0. TypeOK /\ LockInv /\ LinkInv /\ StepInv /\ DiskInv
  BY DEF IInv
<1>1. /\ pc[t] = "step" /\ tip \notin Ancestors[mostWork[t]]
      /\ tip' = Parent[tip] /\ FlushStateToDisk(t, "step", TRUE)
      /\ UNCHANGED <<index, candidates, dirty, mostWork, locals, disk>>
  BY Zenon DEF DisconnectTip
<1>2. /\ cs_main = t /\ tip \in Block \ {Genesis} /\ mostWork[t] \in Block
      /\ ChainWork[mostWork[t]] >= ChainWork[tip]
      /\ \A x \in Thread \ {t} : pc[x] \notin Locked
  BY <1>1, StepFacts
<1>3. /\ pc' \in [Thread -> PCs]
      /\ ret' \in [Thread -> {"idle", "step", "loop", "invalidate"}]
      /\ cs_main' \in Thread \cup {None}
      /\ used' \in [{"invalidate", "reconsider", "flush", "crash"} -> Nat]
      /\ LockInv' /\ pc'[t] # "link"
      /\ \A x \in Thread \ {t} : pc'[x] = pc[x] /\ ret'[x] = ret[x]
  BY <1>0, <1>1, <1>2, FlushLock, Zenon
<1>4. tip' \in Block /\ ChainWork[tip'] < ChainWork[tip]
      /\ Ancestors[tip'] \subseteq Ancestors[tip]
  BY <1>1, <1>2, Tree
<1>5. TypeOK'
  BY <1>0, <1>1, <1>3, <1>4, Zenon DEF TypeOK, index, locals, disk
<1>6. LinkInv'
  <2>1. candidates' \subseteq linked
    BY <1>0, <1>1 DEF LinkInv
  <2>2. \A x \in Thread : /\ pc'[x] = "link" => pc[x] = "link"
                          /\ mostWork'[x] \in {mostWork[x], None}
    BY <1>1, <1>3
  <2>3. \A x \in Block : Kept \cap nStatus[x] \subseteq nStatus'[x]
    BY <1>1 DEF index
  <2>4. UNCHANGED <<linked, queue, unlinked>>
    BY <1>1 DEF index, locals
  <2>. QED BY <1>0, <2>1, <2>2, <2>3, <2>4, LinkFrame
<1>7. StepInv'
  <2>1. /\ ChainWork[tip'] \in Nat /\ ChainWork[tip] \in Nat
        /\ ChainWork[mostWork[t]] \in Nat /\ mostWork[t] # None
    BY <1>2, <1>4, Tree
  <2>2. \A c \in candidates' : ChainWork[c] >= ChainWork[tip']
    <3>1. TAKE c \in candidates'
    <3>2. ChainWork[c] \in Nat /\ ChainWork[c] >= ChainWork[tip]
      BY <1>0, <1>1, Tree DEF TypeOK, StepInv
    <3>. QED BY <1>4, <2>1, <3>2
  <2>3. mostWork[t] # tip' /\ ChainWork[mostWork[t]] >= ChainWork[tip']
    BY <1>2, <1>4, <2>1
  <2>4. \A x \in Thread \ {t} : ~InStep(x)'
    BY <1>2, <1>3 DEF InStep, Locked
  <2>. QED BY <1>1, <2>1, <2>2, <2>3, <2>4 DEF StepInv
<1>8. DiskInv'
  BY <1>0, <1>1, <1>4 DEF DiskInv, DiskChainComplete, Active, index, disk
<1>. QED BY <1>3, <1>5, <1>6, <1>7, <1>8 DEF IInv

\* A block is connected: it becomes part of the active chain with its undo
\* data written, and is dirty if that was not known before.
LEMMA ConnectInv ==
  ASSUME IInv, NEW t \in Thread, ConnectTip(t),
         \A x \in Block : \A a \in Ancestors[x] : ChainWork[a] <= ChainWork[x]
  PROVE  IInv'
<1>0. TypeOK /\ LockInv /\ LinkInv /\ StepInv /\ DiskInv
  BY DEF IInv
<1>1. pc[t] = "step" /\ tip \in Ancestors[mostWork[t]]
  BY DEF ConnectTip
<1>2. /\ cs_main = t /\ mostWork[t] \in Block
      /\ \A x \in Thread \ {t} : pc[x] \notin Locked
  BY <1>1, StepFacts
<1>. PICK b \in Block \ {Genesis} : b = NextBlock(t)
  BY <1>1, StepFacts
<1>3. /\ b \in Ancestors[mostWork[t]] /\ b \in linked /\ HasData(b)
      /\ Parent[b] = tip
  BY <1>1, StepFacts
<1>. PICK over \in BOOLEAN :
       over = (ChainWork[b] > ChainWork[oldTip] \/ b = mostWork[t])
  BY Zenon
<1>4. /\ nStatus' = [nStatus EXCEPT ![b] = @ \cup ConnectFlags]
      /\ dirty' = IF nStatus' = nStatus THEN dirty ELSE dirty \cup {b}
      /\ tip' = b
      /\ candidates' = PruneBlockIndexCandidates(candidates, b)
      /\ oldTip' = IF over THEN None ELSE oldTip
      /\ FlushStateToDisk(t, IF over THEN "loop" ELSE "step", ~over)
      /\ UNCHANGED <<linked, nSequenceId, nBlockSequenceId, unlinked, mostWork,
                     queue, target, disk>>
  BY Zenon DEF ConnectTip
<1>5. PICK next \in {"idle", "step", "loop", "invalidate"} :
        next = (IF over THEN "loop" ELSE "step")
  OBVIOUS
<1>6. PICK keep \in BOOLEAN : keep = ~over
  BY Zenon
<1>7. /\ pc' \in [Thread -> PCs]
      /\ ret' \in [Thread -> {"idle", "step", "loop", "invalidate"}]
      /\ cs_main' \in Thread \cup {None}
      /\ used' \in [{"invalidate", "reconsider", "flush", "crash"} -> Nat]
      /\ LockInv' /\ pc'[t] # "link" /\ (InStep(t)' => next = "step")
      /\ \A x \in Thread \ {t} : pc'[x] = pc[x] /\ ret'[x] = ret[x]
  <2>1. FlushStateToDisk(t, next, keep)
    BY <1>4, <1>5, <1>6
  <2>2. keep <=> next \in {"step", "invalidate"}
    BY <1>5, <1>6, Zenon
  <2>. QED BY <1>0, <1>1, <1>2, <2>1, <2>2, FlushLock
<1>8. candidates' \subseteq candidates
  BY <1>4 DEF PruneBlockIndexCandidates
<1>9. /\ nStatus' \in [Block -> SUBSET Flag]
      /\ \A x \in Block : nStatus[x] \subseteq nStatus'[x]
      /\ \A x \in Block \ {b} : nStatus'[x] = nStatus[x]
      /\ Kept \subseteq nStatus'[b]
  <2>1. ConnectFlags \subseteq Flag
    BY DEF ConnectFlags, Flag
  <2>2. nStatus'[b] = nStatus[b] \cup ConnectFlags
    BY <1>0, <1>4 DEF TypeOK
  <2>3. Kept \subseteq nStatus'[b]
    BY <1>3, <2>2 DEF HasData, Kept, ConnectFlags
  <2>. QED BY <1>0, <1>4, <2>1, <2>3 DEF TypeOK
<1>10. TypeOK'
  <2>1. oldTip' \in Block \cup {None}
    BY <1>0, <1>4 DEF TypeOK
  <2>2. dirty' \subseteq Block
    BY <1>0, <1>4 DEF TypeOK
  <2>. QED BY <1>0, <1>4, <1>7, <1>8, <1>9, <2>1, <2>2, Zenon DEF TypeOK, disk
<1>11. LinkInv'
  <2>1. candidates' \subseteq linked
    BY <1>0, <1>8 DEF LinkInv
  <2>2. \A x \in Thread : /\ pc'[x] = "link" => pc[x] = "link"
                          /\ mostWork'[x] \in {mostWork[x], None}
    BY <1>4, <1>7
  <2>3. \A x \in Block : Kept \cap nStatus[x] \subseteq nStatus'[x]
    BY <1>9
  <2>4. UNCHANGED <<linked, queue, unlinked>>
    BY <1>4
  <2>. QED BY <1>0, <2>1, <2>2, <2>3, <2>4, LinkFrame
<1>12. StepInv'
  <2>1. \A c \in candidates' : ChainWork[c] >= ChainWork[tip']
    <3>1. TAKE c \in candidates'
    <3>2. c \in Block /\ ~Less(nSequenceId, c, b)
      BY <1>0, <1>4 DEF PruneBlockIndexCandidates, TypeOK
    <3>. QED BY <1>4, <3>2, LessWork
  <2>2. \A x \in Thread \ {t} : ~InStep(x)'
    BY <1>2, <1>7 DEF InStep, Locked
  <2>3. ASSUME InStep(t)'
        PROVE  /\ mostWork'[t] # None /\ mostWork'[t] # tip'
               /\ ChainWork[mostWork'[t]] >= ChainWork[tip']
    <3>1. next = "step" /\ b # mostWork[t]
      BY <1>5, <1>7, <2>3, Zenon
    <3>2. ChainWork[b] <= ChainWork[mostWork[t]]
      BY <1>2, <1>3
    <3>3. ChainWork[b] \in Nat /\ ChainWork[mostWork[t]] \in Nat
      BY <1>2, Tree
    <3>4. ChainWork[mostWork[t]] >= ChainWork[b]
      BY <3>2, <3>3
    <3>. QED BY <1>2, <1>4, <3>1, <3>4, Tree
  <2>. QED BY <2>1, <2>2, <2>3 DEF StepInv
<1>13. DiskInv'
  <2>1. Ancestors[b] = Ancestors[tip] \cup {b} /\ Ancestors[b] \subseteq Block
    BY <1>3, Tree
  <2>2. \A x \in Active' \ {Genesis} : Kept \subseteq nStatus'[x]
    BY <1>0, <1>4, <1>9, <2>1 DEF DiskInv, Active
  <2>3. \A x \in Block \ dirty' : nStatus'[x] = nStatus[x] /\ x \notin dirty
    BY <1>4, <1>9
  <2>4. DiskChainComplete'
    BY <1>0, <1>4 DEF DiskInv, DiskChainComplete, disk
  <2>5. diskStatus' = diskStatus
    BY <1>4 DEF disk
  <2>6. \A x \in Block \ dirty' : Kept \cap nStatus'[x] \subseteq diskStatus'[x]
    BY <1>0, <2>3, <2>5 DEF DiskInv
  <2>7. \A x \in Block : Kept \cap diskStatus'[x] \subseteq nStatus'[x]
    BY <1>0, <1>9, <2>5 DEF DiskInv
  <2>. QED BY <2>2, <2>4, <2>6, <2>7 DEF DiskInv
<1>. QED BY <1>7, <1>10, <1>11, <1>12, <1>13 DEF IInv

\* A block cannot be connected: it is marked, and the step ends.
LEMMA ConnectFailsInv ==
  ASSUME IInv, NEW t \in Thread, ConnectTipFails(t)
  PROVE  IInv'
<1>0. TypeOK /\ LockInv /\ LinkInv /\ StepInv /\ DiskInv
  BY DEF IInv
<1>1. pc[t] = "step" /\ tip \in Ancestors[mostWork[t]]
  BY DEF ConnectTipFails
<1>2. cs_main = t /\ ret[t] = "idle" /\ \A x \in Thread \ {t} : pc[x] \notin Locked
  BY <1>1, StepFacts
<1>. PICK b \in Block \ {Genesis} : b = NextBlock(t)
  BY <1>1, StepFacts
<1>3. /\ nStatus' = [nStatus EXCEPT ![b] = @ \cup {"FAILED_VALID"}]
      /\ dirty' = dirty \cup {b}
      /\ candidates' = candidates \ {b}
      /\ oldTip' = None /\ cs_main' = None
      /\ pc' = [pc EXCEPT ![t] = "loop"]
      /\ UNCHANGED <<linked, nSequenceId, nBlockSequenceId, unlinked, tip,
                     mostWork, ret, queue, target, disk, used>>
  BY DEF ConnectTipFails
<1>4. /\ nStatus' \in [Block -> SUBSET Flag]
      /\ \A x \in Block : Kept \cap nStatus[x] = Kept \cap nStatus'[x]
  BY <1>0, <1>3 DEF TypeOK, Flag, Kept
<1>5. TypeOK'
  <2>1. pc' \in [Thread -> PCs]
    BY <1>0, <1>3 DEF TypeOK, PCs
  <2>. QED BY <1>0, <1>3, <1>4, <2>1 DEF TypeOK, disk
<1>6. LockInv'
  BY <1>0, <1>2, <1>3 DEF LockInv, TypeOK, Locked
<1>7. LinkInv'
  <2>1. candidates' \subseteq linked
    BY <1>0, <1>3 DEF LinkInv
  <2>2. \A x \in Thread : /\ pc'[x] = "link" => pc[x] = "link"
                          /\ mostWork'[x] \in {mostWork[x], None}
    BY <1>0, <1>3 DEF TypeOK
  <2>3. \A x \in Block : Kept \cap nStatus[x] \subseteq nStatus'[x]
    BY <1>3, <1>4
  <2>4. UNCHANGED <<linked, queue, unlinked>>
    BY <1>3, <1>4
  <2>. QED BY <1>0, <2>1, <2>2, <2>3, <2>4, LinkFrame
<1>8. StepInv'
  BY <1>0, <1>2, <1>3 DEF TypeOK, StepInv, InStep, Locked
<1>9. DiskInv'
  BY <1>0, <1>3, <1>4, DiskFrame DEF disk
<1>. QED BY <1>5, <1>6, <1>7, <1>8, <1>9 DEF IInv

\* ActivateBestChain ends.
LEMMA EndInv ==
  ASSUME IInv, NEW t \in Thread, EndActivate(t)
  PROVE  IInv'
<1>0. TypeOK /\ LockInv /\ LinkInv /\ StepInv /\ DiskInv
  BY DEF IInv
<1>1. /\ pc[t] = "end" /\ cs_main = None /\ FlushStateToDisk(t, "idle", FALSE)
      /\ UNCHANGED <<index, candidates, tip, dirty, mostWork, locals, disk>>
  BY Zenon DEF EndActivate
<1>2. /\ pc' \in [Thread -> PCs]
      /\ ret' \in [Thread -> {"idle", "step", "loop", "invalidate"}]
      /\ cs_main' \in Thread \cup {None}
      /\ used' \in [{"invalidate", "reconsider", "flush", "crash"} -> Nat]
      /\ LockInv' /\ pc'[t] # "link" /\ ~InStep(t)'
      /\ \A x \in Thread \ {t} : pc'[x] = pc[x] /\ ret'[x] = ret[x]
  BY <1>0, <1>1, FlushLock, Zenon
<1>3. TypeOK'
  BY <1>0, <1>1, <1>2 DEF TypeOK, index, locals, disk
<1>4. LinkInv'
  <2>1. candidates' \subseteq linked
    BY <1>0, <1>1, Zenon DEF LinkInv
  <2>2. \A x \in Thread : /\ pc'[x] = "link" => pc[x] = "link"
                          /\ mostWork'[x] \in {mostWork[x], None}
    BY <1>1, <1>2, Zenon
  <2>3. \A x \in Block : Kept \cap nStatus[x] \subseteq nStatus'[x]
    BY <1>1 DEF index
  <2>4. UNCHANGED <<linked, queue, unlinked>>
    BY <1>1 DEF index, locals
  <2>. QED BY <1>0, <2>1, <2>2, <2>3, <2>4, LinkFrame
<1>5. StepInv'
  BY <1>0, <1>1, <1>2 DEF StepInv, InStep
<1>6. DiskInv'
  BY <1>0, <1>1 DEF DiskInv, DiskChainComplete, Active, index, disk
<1>. QED BY <1>2, <1>3, <1>4, <1>5, <1>6 DEF IInv

\* invalidateblock marks its block.
LEMMA InvalidateInv ==
  ASSUME IInv, NEW t \in Thread, NEW b \in Block \ {Genesis},
         InvalidateBlock(t, b)
  PROVE  IInv'
<1>0. TypeOK /\ LockInv /\ LinkInv /\ StepInv /\ DiskInv
  BY DEF IInv
<1>1. /\ pc[t] = "idle" /\ cs_main = None
      /\ nStatus' = [nStatus EXCEPT ![b] = @ \cup {"FAILED_VALID"}]
      /\ dirty' = dirty \cup {b} /\ candidates' = candidates \ {b}
      /\ target' = b /\ cs_main' = t
      /\ pc' = [pc EXCEPT ![t] = "invalidate"]
      /\ used' = [used EXCEPT !["invalidate"] = @ + 1]
      /\ UNCHANGED <<linked, nSequenceId, nBlockSequenceId, unlinked, tip,
                     mostWork, ret, queue, oldTip, disk>>
  BY DEF InvalidateBlock
<1>2. \A x \in Thread : pc[x] \notin Locked /\ ret[x] = "idle"
  BY <1>0, <1>1, Tree DEF LockInv, Locked
<1>3. /\ nStatus' \in [Block -> SUBSET Flag]
      /\ \A x \in Block : Kept \cap nStatus[x] = Kept \cap nStatus'[x]
  BY <1>0, <1>1 DEF TypeOK, Flag, Kept
<1>4. TypeOK'
  <2>1. used' \in [{"invalidate", "reconsider", "flush", "crash"} -> Nat]
    <3>1. used \in [{"invalidate", "reconsider", "flush", "crash"} -> Nat]
      BY <1>0 DEF TypeOK
    <3>. QED BY <1>1, <3>1, CountUsed
  <2>2. pc' \in [Thread -> PCs]
    BY <1>0, <1>1 DEF TypeOK, PCs
  <2>. QED BY <1>0, <1>1, <1>3, <2>1, <2>2 DEF TypeOK, disk
<1>5. LockInv'
  BY <1>0, <1>1, <1>2 DEF TypeOK, LockInv
<1>6. LinkInv'
  <2>1. candidates' \subseteq linked
    BY <1>0, <1>1, Zenon DEF LinkInv
  <2>2. \A x \in Thread : /\ pc'[x] = "link" => pc[x] = "link"
                          /\ mostWork'[x] \in {mostWork[x], None}
    BY <1>0, <1>1 DEF TypeOK
  <2>3. \A x \in Block : Kept \cap nStatus[x] \subseteq nStatus'[x]
    BY <1>1, <1>3
  <2>4. UNCHANGED <<linked, queue, unlinked>>
    BY <1>1, <1>3
  <2>. QED BY <1>0, <2>1, <2>2, <2>3, <2>4, LinkFrame
<1>7. StepInv'
  BY <1>0, <1>1, <1>2 DEF TypeOK, StepInv, InStep, Locked
<1>8. DiskInv'
  BY <1>0, <1>1, <1>3, DiskFrame DEF disk
<1>. QED BY <1>4, <1>5, <1>6, <1>7, <1>8 DEF IInv

\* It disconnects the tip above it.
LEMMA InvalidateTipInv ==
  ASSUME IInv, NEW t \in Thread, InvalidateTip(t)
  PROVE  IInv'
<1>0. TypeOK /\ LockInv /\ LinkInv /\ StepInv /\ DiskInv
  BY DEF IInv
<1>1. /\ pc[t] = "invalidate" /\ target \in Active
      /\ nStatus' = [nStatus EXCEPT ![tip] = @ \cup {"FAILED_CHILD"}]
      /\ dirty' = dirty \cup {tip} /\ candidates' = candidates \ {tip}
      /\ tip' = Parent[tip] /\ FlushStateToDisk(t, "invalidate", TRUE)
      /\ UNCHANGED <<linked, nSequenceId, nBlockSequenceId, unlinked, mostWork,
                     locals, disk>>
  BY Zenon DEF InvalidateTip
<1>2. cs_main = t /\ \A x \in Thread \ {t} : pc[x] \notin Locked
  BY <1>0, <1>1 DEF LockInv, Locked
<1>3. /\ pc' \in [Thread -> PCs]
      /\ ret' \in [Thread -> {"idle", "step", "loop", "invalidate"}]
      /\ cs_main' \in Thread \cup {None}
      /\ used' \in [{"invalidate", "reconsider", "flush", "crash"} -> Nat]
      /\ LockInv' /\ pc'[t] # "link" /\ ~InStep(t)'
      /\ \A x \in Thread \ {t} : pc'[x] = pc[x] /\ ret'[x] = ret[x]
  BY <1>0, <1>1, <1>2, FlushLock, Zenon
<1>4. tip \in Block \ {Genesis}
  BY <1>0, <1>1, Tree, TreeAssumption DEF TypeOK, Active
<1>5. /\ tip' \in Block /\ ChainWork[tip'] < ChainWork[tip]
      /\ Ancestors[tip'] \subseteq Ancestors[tip] /\ Ancestors[tip] \subseteq Block
  BY <1>1, <1>4, Tree
<1>6. /\ nStatus' \in [Block -> SUBSET Flag]
      /\ \A x \in Block : Kept \cap nStatus[x] = Kept \cap nStatus'[x]
  BY <1>0, <1>1 DEF TypeOK, Flag, Kept
<1>7. TypeOK'
  BY <1>0, <1>1, <1>3, <1>5, <1>6, Zenon DEF TypeOK, locals, disk
<1>8. LinkInv'
  <2>1. candidates' \subseteq linked
    BY <1>0, <1>1, Zenon DEF LinkInv
  <2>2. \A x \in Thread : /\ pc'[x] = "link" => pc[x] = "link"
                          /\ mostWork'[x] \in {mostWork[x], None}
    BY <1>1, <1>3, Zenon
  <2>3. \A x \in Block : Kept \cap nStatus[x] \subseteq nStatus'[x]
    BY <1>1, <1>6, Zenon DEF locals
  <2>4. UNCHANGED <<linked, queue, unlinked>>
    BY <1>1, <1>6 DEF locals
  <2>. QED BY <1>0, <2>1, <2>2, <2>3, <2>4, LinkFrame
<1>9. StepInv'
  <2>1. \A c \in candidates' : ChainWork[c] >= ChainWork[tip']
    <3>1. TAKE c \in candidates'
    <3>2. /\ ChainWork[c] \in Nat /\ ChainWork[c] >= ChainWork[tip]
          /\ ChainWork[tip] \in Nat /\ ChainWork[tip'] \in Nat
      BY <1>0, <1>1, <1>5, Tree DEF TypeOK, StepInv
    <3>. QED BY <1>5, <3>2
  <2>2. \A x \in Thread : ~InStep(x)'
    BY <1>2, <1>3 DEF InStep, Locked
  <2>. QED BY <2>1, <2>2 DEF StepInv
<1>10. DiskInv'
  <2>1. \A x \in Active' \ {Genesis} : Kept \subseteq nStatus'[x]
    BY <1>0, <1>5, <1>6 DEF DiskInv, Active
  <2>2. DiskChainComplete'
    BY <1>0, <1>1 DEF DiskInv, DiskChainComplete, disk
  <2>3. diskStatus' = diskStatus
    BY <1>1 DEF disk
  <2>. QED BY <1>0, <1>1, <1>6, <2>1, <2>2, <2>3 DEF DiskInv
<1>. QED BY <1>3, <1>7, <1>8, <1>9, <1>10 DEF IInv

\* It refills the candidates.
LEMMA InvalidateDoneInv ==
  ASSUME IInv, NEW t \in Thread, InvalidateDone(t)
  PROVE  IInv'
<1>0. TypeOK /\ LockInv /\ LinkInv /\ StepInv /\ DiskInv
  BY DEF IInv
<1>1. /\ pc[t] = "invalidate" /\ candidates' = candidates \cup Refill
      /\ target' = None /\ cs_main' = None
      /\ pc' = [pc EXCEPT ![t] = "activate"]
      /\ UNCHANGED <<index, tip, dirty, mostWork, ret, queue, oldTip, disk, used>>
  BY DEF InvalidateDone
<1>2. cs_main = t /\ \A x \in Thread \ {t} : pc[x] \notin Locked
  BY <1>0, <1>1 DEF LockInv, Locked
<1>3. Refill \subseteq linked /\ linked \subseteq Block
  BY <1>0 DEF Refill, TypeOK
<1>4. TypeOK'
  <2>1. pc' \in [Thread -> PCs]
    BY <1>0, <1>1 DEF TypeOK, PCs
  <2>. QED BY <1>0, <1>1, <1>3, <2>1, Zenon DEF TypeOK, index, disk
<1>5. LockInv'
  BY <1>0, <1>1, <1>2 DEF LockInv, TypeOK, Locked
<1>6. LinkInv'
  <2>1. candidates' \subseteq linked
    BY <1>0, <1>1, <1>3 DEF LinkInv
  <2>2. \A x \in Thread : /\ pc'[x] = "link" => pc[x] = "link"
                          /\ mostWork'[x] \in {mostWork[x], None}
    BY <1>0, <1>1 DEF TypeOK, index
  <2>3. \A x \in Block : Kept \cap nStatus[x] \subseteq nStatus'[x]
    BY <1>1 DEF index
  <2>4. UNCHANGED <<linked, queue, unlinked>>
    BY <1>1 DEF index
  <2>. QED BY <1>0, <2>1, <2>2, <2>3, <2>4, LinkFrame
<1>7. StepInv'
  <2>1. \A c \in Refill : ChainWork[c] >= ChainWork[tip]
    <3>1. TAKE c \in Refill
    <3>2. c \in Block /\ tip \in Block /\ ~Less(nSequenceId, c, tip)
      BY <1>0, <1>3 DEF Refill, TypeOK
    <3>. QED BY <3>2, LessWork
  <2>2. \A x \in Thread : ~InStep(x)'
    BY <1>0, <1>1, <1>2 DEF TypeOK, LockInv, InStep, Locked
  <2>3. \A c \in candidates' : ChainWork[c] >= ChainWork[tip']
    BY <1>0, <1>1, <2>1, Zenon DEF StepInv
  <2>. QED BY <2>2, <2>3 DEF StepInv
<1>8. DiskInv'
  BY <1>0, <1>1 DEF DiskInv, DiskChainComplete, Active, index, disk
<1>. QED BY <1>4, <1>5, <1>6, <1>7, <1>8 DEF IInv

\* reconsiderblock clears failure flags only, and adds linked blocks.
LEMMA ReconsiderInv ==
  ASSUME IInv, NEW t \in Thread, NEW b \in Block, ReconsiderBlock(t, b)
  PROVE  IInv'
<1>0. TypeOK /\ LockInv /\ LinkInv /\ StepInv /\ DiskInv
  BY DEF IInv
<1>a. PICK below \in SUBSET Block :
       below = {x \in mapBlockIndex : /\ ~IsValid(nStatus, x, "TRANSACTIONS")
                                      /\ b \in Ancestors[x]}
  BY Zenon DEF mapBlockIndex
<1>b. PICK above \in SUBSET Block :
        above = {x \in Ancestors[b] : Failed(nStatus, x)}
  BY Tree, Zenon
<1>1. /\ pc[t] = "idle" /\ cs_main = None
      /\ nStatus' = [x \in Block |-> IF x \in below \cup above
                                     THEN nStatus[x] \ FAILED_MASK
                                     ELSE nStatus[x]]
      /\ dirty' = dirty \cup below \cup above
      /\ candidates' = candidates \cup {x \in below : WorthTrying(x)}
      /\ pc' = [pc EXCEPT ![t] = "activate"]
      /\ used' = [used EXCEPT !["reconsider"] = @ + 1]
      /\ UNCHANGED <<linked, nSequenceId, nBlockSequenceId, unlinked, tip,
                     cs_main, mostWork, ret, locals, disk>>
  BY <1>a, <1>b, Zenon DEF ReconsiderBlock
<1>2. \A x \in Thread : pc[x] \notin Locked /\ ret[x] = "idle"
  BY <1>0, <1>1, Tree DEF LockInv, Locked
<1>3. /\ nStatus' \in [Block -> SUBSET Flag]
      /\ \A x \in Block : Kept \cap nStatus[x] = Kept \cap nStatus'[x]
  BY <1>0, <1>1 DEF TypeOK, Flag, Kept, FAILED_MASK
<1>4. TypeOK'
  <2>1. used' \in [{"invalidate", "reconsider", "flush", "crash"} -> Nat]
    <3>1. used \in [{"invalidate", "reconsider", "flush", "crash"} -> Nat]
      BY <1>0 DEF TypeOK
    <3>. QED BY <1>1, <3>1, CountUsed, Zenon
  <2>2. pc' \in [Thread -> PCs]
    BY <1>0, <1>1 DEF TypeOK, PCs
  <2>. QED BY <1>0, <1>1, <1>3, <2>1, <2>2 DEF TypeOK, locals, disk
<1>5. LockInv'
  BY <1>0, <1>1, <1>2 DEF TypeOK, LockInv, Locked
<1>6. LinkInv'
  <2>1. candidates' \subseteq linked
    BY <1>0, <1>1, Zenon DEF LinkInv, WorthTrying
  <2>2. \A x \in Thread : /\ pc'[x] = "link" => pc[x] = "link"
                          /\ mostWork'[x] \in {mostWork[x], None}
    BY <1>0, <1>1 DEF TypeOK
  <2>3. \A x \in Block : Kept \cap nStatus[x] \subseteq nStatus'[x]
    BY <1>1, <1>3 DEF locals
  <2>4. UNCHANGED <<linked, queue, unlinked>>
    BY <1>1, <1>3 DEF locals
  <2>. QED BY <1>0, <2>1, <2>2, <2>3, <2>4, LinkFrame
<1>7. StepInv'
  <2>1. \A x \in Thread : ~InStep(x)'
    BY <1>0, <1>1, <1>2 DEF TypeOK, InStep, Locked
  <2>2. \A c \in below : WorthTrying(c) => ChainWork[c] >= ChainWork[tip]
    <3>1. TAKE c \in below
    <3>2. WorthTrying(c) => Less(nSequenceId, tip, c)
      BY DEF WorthTrying
    <3>3. c \in Block /\ tip \in Block
      BY <1>0 DEF TypeOK
    <3>. QED BY <3>2, <3>3, LessWork
  <2>3. \A c \in candidates' : ChainWork[c] >= ChainWork[tip']
    BY <1>0, <1>1, <2>2 DEF StepInv
  <2>. QED BY <2>1, <2>3 DEF StepInv
<1>8. DiskInv'
  BY <1>0, <1>1, <1>3, DiskFrame DEF disk
<1>. QED BY <1>4, <1>5, <1>6, <1>7, <1>8 DEF IInv

\* What LoadBlockIndexDB rebuilds from the disk is consistent, wherever the
\* crash fell.
LEMMA RestartInv ==
  ASSUME IInv, NEW t \in Thread, Restart(t)
  PROVE  IInv'
<1>0. TypeOK /\ DiskInv
  BY DEF IInv
<1>a. PICK data \in SUBSET Block :
        data = {b \in Block : "HAVE_DATA" \in diskStatus[b]}
  BY Zenon
<1>b. PICK whole \in SUBSET Block :
        whole = {b \in Block : Ancestors[b] \subseteq data}
  BY Zenon
<1>. DEFINE waiting(p) == {b \in data \ {Genesis} :
                             Parent[b] = p /\ AwaitsParent(b, whole)}
<1>1. /\ used' = [used EXCEPT !["crash"] = @ + 1]
      /\ nStatus' = diskStatus /\ linked' = whole
      /\ nSequenceId' = [b \in Block |-> 0] /\ nBlockSequenceId' = 1
      /\ unlinked' = [p \in Block |-> ByAddr[waiting(p)]]
      /\ tip' = diskBest
      /\ candidates' = {b \in whole :
                          /\ IsValid(diskStatus, b, "TRANSACTIONS")
                          /\ ~Less([x \in Block |-> 0], b, diskBest)}
      /\ dirty' = {} /\ cs_main' = None
      /\ pc' = [x \in Thread |-> IF x = t THEN "activate" ELSE "idle"]
      /\ mostWork' = [x \in Thread |-> None]
      /\ ret' = [x \in Thread |-> "idle"]
      /\ queue' = << >> /\ target' = None /\ oldTip' = None
      /\ UNCHANGED disk
  BY <1>a, <1>b, Zenon DEF Restart, WholeChains
<1>2. \A p \in Block : /\ ByAddr[waiting(p)] \in Seq(Block)
                       /\ waiting(p) = {ByAddr[waiting(p)][i] :
                                          i \in DOMAIN ByAddr[waiting(p)]}
  <2>1. \A p \in Block : waiting(p) \in SUBSET Block
    OBVIOUS
  <2>. HIDE DEF waiting
  <2>. QED BY <2>1, AddrAssumption
<1>3. /\ unlinked' \in [Block -> Seq(Block)]
      /\ \A p \in Block : \A i \in DOMAIN unlinked'[p] : unlinked'[p][i] \in waiting(p)
  <2>. HIDE DEF waiting
  <2>. QED BY <1>1, <1>2
<1>4. TypeOK'
  <2>1. used' \in [{"invalidate", "reconsider", "flush", "crash"} -> Nat]
    <3>1. used \in [{"invalidate", "reconsider", "flush", "crash"} -> Nat]
      BY <1>0 DEF TypeOK
    <3>. QED BY <1>1, <3>1, CountUsed
  <2>2. candidates' \subseteq Block /\ linked' \subseteq Block /\ dirty' \subseteq Block
    BY <1>1
  <2>3. pc' \in [Thread -> PCs]
    BY <1>1 DEF PCs
  <2>4. /\ nSequenceId' \in [Block -> Nat] /\ nBlockSequenceId' \in Nat
        /\ mostWork' \in [Thread -> Block \cup {None}]
        /\ ret' \in [Thread -> {"idle", "step", "loop", "invalidate"}]
        /\ cs_main' \in Thread \cup {None}
    BY <1>1
  <2>5. queue' \in Seq(Block)
    <3>1. queue' = << >>
      BY <1>1, Zenon
    <3>. QED BY <3>1
  <2>6. /\ nStatus' \in [Block -> SUBSET Flag] /\ diskStatus' \in [Block -> SUBSET Flag]
        /\ tip' \in Block /\ diskBest' \in Block
        /\ target' \in (Block \ {Genesis}) \cup {None} /\ oldTip' \in Block \cup {None}
    BY <1>0, <1>1, Zenon DEF TypeOK, disk
  <2>. QED BY <1>3, <2>1, <2>2, <2>3, <2>4, <2>5, <2>6 DEF TypeOK
<1>5. LockInv'
  BY <1>1, Zenon DEF LockInv, Locked
<1>6. LinkInv'
  <2>1. \A b \in linked' : Ancestors[b] \subseteq linked' /\ HasData(b)'
    <3>1. TAKE b \in linked'
    <3>2. b \in Block /\ Ancestors[b] \subseteq data /\ b \in Ancestors[b]
      BY <1>b, <1>1, Tree, Zenon
    <3>3. \A a \in Ancestors[b] : a \in Block /\ Ancestors[a] \subseteq Ancestors[b]
      BY <3>2, TreeAssumption
    <3>4. Ancestors[b] \subseteq linked'
      BY <1>b, <1>1, <3>2, <3>3
    <3>5. "HAVE_DATA" \in diskStatus[b]
      BY <1>a, <3>2
    <3>. QED BY <1>1, <3>4, <3>5 DEF HasData
  <2>2. candidates' \subseteq linked'
    BY <1>1
  <2>3. \A p \in Block : \A x \in waiting(p) : Awaits(x, p)'
    BY <1>a, <1>1 DEF Awaits, HasData
  <2>4. \A p \in Block : \A i \in DOMAIN unlinked'[p] : Awaits(unlinked[p][i], p)'
    <3>. HIDE DEF waiting
    <3>. QED BY <1>3, <2>3 DEF Awaits, HasData
  <2>5. \A i \in DOMAIN queue' : ReadyToLink(queue[i])'
    <3>1. queue' = << >>
      BY <1>1, Zenon
    <3>2. DOMAIN queue' = {}
      BY <3>1
    <3>. QED BY <3>2, Zenon
  <2>6. \A x \in Thread : pc'[x] # "link" /\ mostWork'[x] = None
    BY <1>1
  <2>. QED BY <2>1, <2>2, <2>4, <2>5, <2>6 DEF LinkInv
<1>7. StepInv'
  <2>1. \A x \in Thread : ~InStep(x)'
    BY <1>1 DEF InStep
  <2>2. \A c \in candidates' : ChainWork[c] >= ChainWork[tip']
    <3>1. TAKE c \in candidates'
    <3>2. c \in Block /\ diskBest \in Block
      BY <1>0, <1>1, Zenon DEF TypeOK
    <3>3. ~Less([x \in Block |-> 0], c, diskBest) /\ tip' = diskBest
      BY <1>1, Zenon
    <3>4. ChainWork[c] >= ChainWork[diskBest]
      BY <3>2, <3>3, LessWork
    <3>. QED BY <3>3, <3>4
  <2>. QED BY <2>1, <2>2 DEF StepInv
<1>8. DiskInv'
  BY <1>0, <1>1 DEF DiskInv, DiskChainComplete, Active, Kept, disk
<1>. QED BY <1>4, <1>5, <1>6, <1>7, <1>8 DEF IInv

\* InitBlockIndex establishes the invariant.
LEMMA InitInv == Init => IInv
<1>. SUFFICES ASSUME Init PROVE IInv
  OBVIOUS
<1>1. TypeOK
  <2>1. nStatus \in [Block -> SUBSET Flag] /\ diskStatus \in [Block -> SUBSET Flag]
    BY DEF Init, GenesisStatus, Flag
  <2>2. used \in [{"invalidate", "reconsider", "flush", "crash"} -> Nat]
    BY DEF Init
  <2>3. pc \in [Thread -> PCs]
    BY DEF Init, PCs
  <2>4. nSequenceId \in [Block -> Nat] /\ nBlockSequenceId \in Nat
    BY DEF Init
  <2>5. /\ linked \subseteq Block /\ candidates \subseteq Block /\ dirty \subseteq Block
        /\ tip \in Block /\ diskBest \in Block /\ cs_main \in Thread \cup {None}
        /\ target \in (Block \ {Genesis}) \cup {None} /\ oldTip \in Block \cup {None}
    BY Tree DEF Init
  <2>6. unlinked \in [Block -> Seq(Block)] /\ queue \in Seq(Block)
    BY DEF Init
  <2>7. /\ ret \in [Thread -> {"idle", "step", "loop", "invalidate"}]
        /\ mostWork \in [Thread -> Block \cup {None}]
    BY DEF Init
  <2>. QED BY <2>1, <2>2, <2>3, <2>4, <2>5, <2>6, <2>7 DEF TypeOK
<1>2. LockInv /\ StepInv
  <2>1. \A t \in Thread : pc[t] = "idle" /\ ret[t] = "idle"
    BY DEF Init
  <2>2. candidates = {tip} /\ ChainWork[tip] \in Nat
    BY Tree DEF Init
  <2>3. LockInv
    BY <2>1 DEF LockInv, Locked
  <2>4. StepInv
    BY <2>1, <2>2 DEF StepInv, InStep
  <2>. QED BY <2>3, <2>4
<1>3. LinkInv
  <2>1. "HAVE_DATA" \in nStatus[Genesis]
    BY Tree DEF Init, GenesisStatus
  <2>2. linked = {Genesis} /\ Ancestors[Genesis] = {Genesis}
    BY TreeAssumption DEF Init
  <2>3. \A b \in linked : Ancestors[b] \subseteq linked /\ HasData(b)
    BY <2>1, <2>2 DEF HasData
  <2>4. \A p \in Block : unlinked[p] = << >>
    BY DEF Init
  <2>5. queue = << >> /\ candidates \subseteq linked
    BY DEF Init
  <2>6. \A x \in Thread : pc[x] # "link" /\ mostWork[x] = None
    BY DEF Init
  <2>. QED BY <2>3, <2>4, <2>5, <2>6 DEF LinkInv
<1>4. DiskInv
  BY TreeAssumption DEF Init, DiskInv, DiskChainComplete, Active
<1>. QED BY <1>1, <1>2, <1>3, <1>4 DEF IInv
=============================================================================
