-------------------------- MODULE CheckQueueProofs --------------------------
(***************************************************************************)
(* Safety of the check queue for any number of workers, checks and any     *)
(* batch size.  Every shared step of a thread ends in Loop, so the proof   *)
(* is about the state in the middle of a critical section (Mid), which     *)
(* each action establishes and from which Loop restores the invariant.     *)
(***************************************************************************)
EXTENDS CheckQueue, FiniteSetTheorems, TLAPS

At(label) == {t \in Threads : pc[t] = label}

\* What is outstanding apart from the batch that t has just finished.
Others(t) == Range(queue) \cup UNION {vChecks[u] : u \in Threads \ {t}}

\* The parts that no step of a critical section changes.
Shape ==
  /\ \A i, j \in 1..Len(queue) : queue[i] = queue[j] => i = j
  /\ \A t \in Threads : vChecks[t] \cap Range(queue) = {}
  /\ \A t, u \in Threads : t # u => vChecks[t] \cap vChecks[u] = {}
  /\ \A t \in Threads : (pc[t] = "work") <=> (vChecks[t] # {})
  /\ waiting \subseteq At("wait")
  /\ pc[Master] \in {"free", "control", "unwind", "work", "wait"}
  /\ \A w \in Worker : pc[w] \in {"new", "work", "wait", "gone"}

\* The counters count the threads that are at work or blocked.
Counters ==
  /\ nTodo = Cardinality(Outstanding)
  /\ nTotal = nIdle + Cardinality(At("work"))
  /\ nIdle >= Cardinality(At("wait"))

\* The running result is that of the checks that are no longer outstanding.
Results ==
  /\ passed \cap bad = {}
  /\ ~fAllOk => bad # {}
  /\ \A t \in At("work") : ~fOk[t] => bad # {}
  /\ fAllOk /\ pc[Master] # "free" => (1..nAdded) \ Outstanding \subseteq passed
  /\ pc[Master] = "free" => nTodo = 0 /\ fAllOk

IInv == TypeOK /\ Shape /\ Counters /\ Results /\ WaitResult

\* The state of thread t's critical section where the loop starts: the
\* counters without t, which is neither blocked nor holding a batch.
Mid(t, idle, total, todo, ok, blocked, pass) ==
  /\ t \in Threads
  /\ pc[t] \in IF t = Master THEN {"control", "unwind", "work", "wait"}
                             ELSE {"new", "work", "wait"}
  /\ idle \in Nat /\ ok \in BOOLEAN
  /\ total = idle + Cardinality(At("work") \ {t}) + 1
  /\ idle >= Cardinality(At("wait") \ {t})
  /\ todo = Cardinality(Others(t))
  /\ blocked \subseteq At("wait") \ {t}
  /\ pass \subseteq 1..nAdded /\ pass \cap bad = {}
  /\ ~ok => bad # {}
  /\ ok /\ pc[Master] # "free" => (1..nAdded) \ Others(t) \subseteq pass
  /\ pc[Master] = "free" => todo = 0 /\ ok /\ pass = passed
-----------------------------------------------------------------------------
\* A batch is never empty and never larger than the queue (Loop, line 110).
LEMMA BatchLenRange ==
  ASSUME NEW len \in Nat \ {0}, NEW total \in Nat, NEW idle \in Nat
  PROVE  BatchLen(len, total, idle) \in 1..len
<1> DEFINE d == total + idle + 1
<1>1. d \in Nat \ {0}
  OBVIOUS
<1>2. len \div d \in Nat /\ len \div d <= len
  <2> HIDE DEF d
  <2>1. len = d * (len \div d) + (len % d) /\ len % d \in 0..(d - 1) /\ len \div d \in Int
    BY <1>1
  <2>2. len \div d >= 0
    BY <1>1
  <2> QED
    BY <1>1, <2>1, <2>2
<1> QED
  BY <1>2, BatchAssumption DEF BatchLen

\* There are finitely many threads.
LEMMA ThreadsFinite ==
  /\ IsFiniteSet(Threads)
  /\ \A S \in SUBSET Threads : IsFiniteSet(S) /\ Cardinality(S) \in Nat
  BY WorkerAssumption, FS_AddElement, FS_Subset, FS_CardinalityType DEF Threads

\* What the checks of one control can be.
LEMMA ChecksFinite ==
  ASSUME NEW n \in Nat
  PROVE  \A S \in SUBSET (1..n) : IsFiniteSet(S) /\ Cardinality(S) \in Nat
<1>1. IsFiniteSet(1..n)
  BY FS_Interval
<1> QED
  BY <1>1, FS_Subset, FS_CardinalityType

\* A sequence is a function on an initial segment of the naturals.
LEMMA SeqFun ==
  ASSUME NEW S, NEW s \in Seq(S)
  PROVE  s \in [1..Len(s) -> S]
  OBVIOUS

\* A prefix of a sequence.
LEMMA Prefix ==
  ASSUME NEW S, NEW s \in Seq(S), NEW r \in 0..Len(s)
  PROVE  /\ SubSeq(s, 1, r) \in Seq(S)
         /\ Len(SubSeq(s, 1, r)) = r
         /\ \A i \in 1..r : SubSeq(s, 1, r)[i] = s[i]
  OBVIOUS

\* One critical section, from the start of the loop, restores the invariant.
LEMMA LoopInv ==
  ASSUME TypeOK, Shape, Results, WaitResult,
         NEW t, NEW idle, NEW total, NEW todo, NEW ok, NEW blocked, NEW pass,
         Mid(t, idle, total, todo, ok, blocked, pass),
         Loop(t, idle, total, todo, ok, blocked),
         passed' = pass, UNCHANGED <<interrupted, nAdded, bad>>
  PROVE  IInv'
<1>m. /\ t \in Threads /\ idle \in Nat /\ ok \in BOOLEAN /\ nAdded \in Nat
      /\ nTodo' = todo /\ pc[t] # "free" /\ blocked \subseteq At("wait") \ {t}
  BY CheckAssumption DEF Mid, TypeOK, Loop
<1>w. /\ Cardinality(At("work") \ {t}) \in Nat
      /\ Cardinality(At("wait") \ {t}) \in Nat
      /\ total \in Nat /\ total = idle + Cardinality(At("work") \ {t}) + 1
  BY ThreadsFinite DEF At, Mid
<1>o. /\ Others(t) \subseteq 1..nAdded
      /\ IsFiniteSet(Others(t)) /\ todo \in Nat
  <2>1. Others(t) \subseteq 1..nAdded
    BY DEF Others, TypeOK, Range
  <2> QED
    BY <2>1, <1>m, ChecksFinite DEF Mid
<1>1. CASE /\ queue # << >>
           /\ TakeBatch(t, idle, total, ok)
           /\ nIdle' = idle /\ nTotal' = total /\ fAllOk' = ok
           /\ waiting' = blocked
           /\ UNCHANGED fRet
  <2> DEFINE rest == Len(queue) - BatchLen(Len(queue), total, idle)
             B == {queue[i] : i \in (rest + 1)..Len(queue)}
  <2>1. Len(queue) \in Nat \ {0} /\ rest \in 0..(Len(queue) - 1)
    <3>1. Len(queue) \in Nat \ {0}
      BY <1>1 DEF TypeOK
    <3>2. BatchLen(Len(queue), total, idle) \in 1..Len(queue)
      BY <3>1, <1>m, <1>w, BatchLenRange
    <3> QED
      BY <3>1, <3>2
  <2>2. /\ vChecks' = [vChecks EXCEPT ![t] = B]
        /\ queue' = SubSeq(queue, 1, rest)
        /\ fOk' = [fOk EXCEPT ![t] = ok]
        /\ pc' = [pc EXCEPT ![t] = "work"]
    BY <1>1 DEF TakeBatch
  <2>3. /\ queue' \in Seq(1..nAdded)
        /\ \A i, j \in 1..Len(queue') : queue'[i] = queue'[j] => i = j
        /\ B # {} /\ B \subseteq 1..nAdded /\ B \subseteq Range(queue)
        /\ Range(queue') \cup B = Range(queue) /\ Range(queue') \cap B = {}
    <3>1. queue \in Seq(1..nAdded) /\ rest \in 0..Len(queue)
      BY <2>1 DEF TypeOK
    <3> HIDE DEF rest
    <3>2. /\ queue' \in Seq(1..nAdded) /\ Len(queue') = rest
          /\ \A i \in 1..rest : queue'[i] = queue[i]
      BY <2>2, <3>1, Prefix
    <3>3. /\ queue \in [1..Len(queue) -> 1..nAdded]
          /\ queue' \in [1..rest -> 1..nAdded]
      BY <3>1, <3>2, SeqFun
    <3>4. \A i, j \in 1..Len(queue) : queue[i] = queue[j] => i = j
      BY DEF Shape
    <3>5. /\ Range(queue) = {queue[i] : i \in 1..Len(queue)}
          /\ Range(queue') = {queue[i] : i \in 1..rest}
      BY <3>2, <3>3 DEF Range
    <3>6. queue[Len(queue)] \in B /\ B \subseteq 1..nAdded /\ B \subseteq Range(queue)
      BY <2>1, <3>3, <3>5
    <3>7. Range(queue') \cup B = Range(queue) /\ Range(queue') \cap B = {}
      BY <2>1, <3>4, <3>5
    <3>8. \A i, j \in 1..Len(queue') : queue'[i] = queue'[j] => i = j
      BY <2>1, <3>2, <3>4
    <3> QED
      BY <3>2, <3>6, <3>7, <3>8
  <2> HIDE DEF rest, B
  <2>6. Outstanding' = Others(t)
    BY <1>m, <2>2, <2>3 DEF Outstanding, Others, TypeOK
  <2>7. At("work")' = (At("work") \ {t}) \cup {t} /\ At("wait")' = At("wait") \ {t}
    BY <1>m, <2>2 DEF At, TypeOK
  <2>8. TypeOK'
    <3>1. waiting' \subseteq Threads
      BY <1>1, <1>m DEF At
    <3>2. passed' \subseteq 1..nAdded' /\ nTodo' \in Nat
      BY <1>m, <1>o DEF Mid
    <3>3. pc' \in [Threads -> {"new", "free", "control", "unwind", "work", "wait", "gone"}]
      BY <2>2 DEF TypeOK
    <3>4. vChecks' \in [Threads -> SUBSET (1..nAdded)] /\ fOk' \in [Threads -> BOOLEAN]
      BY <1>m, <2>2, <2>3 DEF TypeOK
    <3> QED
      BY <1>1, <1>m, <1>w, <2>3, <3>1, <3>2, <3>3, <3>4 DEF TypeOK
  <2>9. Shape'
    <3>2. \A u \in Threads : vChecks'[u] \cap Range(queue') = {}
      BY <2>2, <2>3 DEF Shape, TypeOK
    <3>3. \A u, v \in Threads : u # v => vChecks'[u] \cap vChecks'[v] = {}
      BY <2>2, <2>3 DEF Shape, TypeOK
    <3>4. \A u \in Threads : (pc'[u] = "work") <=> (vChecks'[u] # {})
      BY <2>2, <2>3 DEF Shape, TypeOK
    <3>5. waiting' \subseteq At("wait")'
      BY <1>1, <1>m, <2>7
    <3> QED
      BY <2>2, <2>3, <3>2, <3>3, <3>4, <3>5 DEF Shape, TypeOK, Threads
  <2>10. Counters'
    <3>1. Cardinality(At("work")') = Cardinality(At("work") \ {t}) + 1
      BY <2>7, ThreadsFinite, FS_AddElement DEF At
    <3>2. nTodo' = Cardinality(Outstanding')
      BY <1>m, <2>6 DEF Mid
    <3>3. nTotal' = nIdle' + Cardinality(At("work")')
      BY <1>1, <1>m, <1>w, <3>1 DEF Mid
    <3>4. nIdle' >= Cardinality(At("wait")')
      BY <1>1, <2>7 DEF Mid
    <3> QED
      BY <3>2, <3>3, <3>4 DEF Counters
  <2>11. Results' /\ WaitResult'
    <3>1. pc'[Master] = "free" => pc[Master] = "free"
      BY <2>2 DEF TypeOK, Threads
    <3>2. \A u \in At("work")' : ~fOk'[u] => bad' # {}
      BY <2>2, <2>7 DEF Results, TypeOK, At, Mid
    <3>3. pc[Master] # "free"
      <4>1. Others(t) # {}
        BY <2>3 DEF Others
      <4>2. Cardinality(Others(t)) # 0
        BY <4>1, <1>o, FS_EmptySet
      <4> QED
        BY <4>2 DEF Mid
    <3> QED
      BY <1>1, <2>6, <3>1, <3>2, <3>3 DEF Results, WaitResult, Mid
  <2> QED
    BY <2>8, <2>9, <2>10, <2>11 DEF IInv
<1>2. CASE /\ queue = << >> /\ Done(t, todo)
           /\ nIdle' = idle /\ nTotal' = total - 1
           /\ fRet' = ok /\ fAllOk' = TRUE
           /\ pc' = [pc EXCEPT ![t] = "free"]
           /\ vChecks' = [vChecks EXCEPT ![t] = {}]
           /\ waiting' = blocked
           /\ UNCHANGED <<queue, fOk>>
  <2>1. Outstanding' = Others(t) /\ Range(queue') = {} /\ Range(queue) = {}
    BY <1>m, <1>2 DEF Outstanding, Others, TypeOK, Range
  <2>2. At("work")' = At("work") \ {t} /\ At("wait")' = At("wait") \ {t}
    BY <1>m, <1>2 DEF At, TypeOK
  <2>3. TypeOK'
    <3>1. waiting' \subseteq Threads
      BY <1>2, <1>m DEF At
    <3>2. passed' \subseteq 1..nAdded' /\ nTodo' \in Nat
      BY <1>m, <1>o DEF Mid
    <3>3. pc' \in [Threads -> {"new", "free", "control", "unwind", "work", "wait", "gone"}]
      BY <1>2 DEF TypeOK
    <3>4. vChecks' \in [Threads -> SUBSET (1..nAdded)]
      BY <1>2 DEF TypeOK
    <3>5. nTotal' \in Nat /\ nIdle' \in Nat
      BY <1>2, <1>m, <1>w DEF Mid
    <3> QED
      BY <1>2, <1>m, <3>1, <3>2, <3>3, <3>4, <3>5 DEF TypeOK
  <2>4. Shape'
    <3>1. waiting' \subseteq At("wait")'
      BY <1>2, <1>m, <2>2
    <3>2. \A u \in Threads : (pc'[u] = "work") <=> (vChecks'[u] # {})
      BY <1>2 DEF Shape, TypeOK
    <3>3. \A u, v \in Threads : u # v => vChecks'[u] \cap vChecks'[v] = {}
      BY <1>2 DEF Shape, TypeOK
    <3>4. /\ pc'[Master] \in {"free", "control", "unwind", "work", "wait"}
          /\ \A w \in Worker : pc'[w] \in {"new", "work", "wait", "gone"}
      BY <1>2, WorkerAssumption DEF Shape, TypeOK, Threads, Done
    <3> QED
      BY <1>2, <2>1, <3>1, <3>2, <3>3, <3>4 DEF Shape
  <2>5. Counters'
    <3>1. nTodo' = Cardinality(Outstanding')
      BY <1>m, <2>1 DEF Mid
    <3>2. nTotal' = nIdle' + Cardinality(At("work")')
      <4>1. Cardinality(At("work")') = Cardinality(At("work") \ {t})
        BY <2>2
      <4> QED
        BY <1>2, <1>m, <1>w, <4>1
    <3>3. nIdle' >= Cardinality(At("wait")')
      BY <1>2, <2>2 DEF Mid
    <3> QED
      BY <3>1, <3>2, <3>3 DEF Counters
  <2>6. Results' /\ WaitResult'
    <3>1. t = Master /\ todo = 0 /\ pc[Master] # "free" /\ pc'[Master] = "free"
      BY <1>2, <1>m DEF Done, TypeOK
    <3>2. Others(t) = {}
      BY <1>o, <3>1, FS_EmptySet DEF Mid
    <3>3. ok => passed' = 1..nAdded /\ bad = {}
      BY <3>1, <3>2 DEF Mid, TypeOK
    <3>4. \A u \in At("work")' : ~fOk'[u] => bad' # {}
      BY <1>2, <2>2 DEF Results
    <3>5. WaitResult'
      BY <1>2, <1>m, <3>1, <3>3 DEF WaitResult, Mid
    <3> QED
      BY <1>2, <1>m, <3>1, <3>4, <3>5 DEF Results, Mid
  <2> QED
    BY <2>3, <2>4, <2>5, <2>6 DEF IInv
<1>3. CASE /\ queue = << >> /\ ~Done(t, todo)
           /\ nIdle' = idle + 1 /\ nTotal' = total /\ fAllOk' = ok
           /\ pc' = [pc EXCEPT ![t] = "wait"]
           /\ vChecks' = [vChecks EXCEPT ![t] = {}]
           /\ waiting' = blocked \cup {t}
           /\ UNCHANGED <<queue, fOk, fRet>>
  <2>1. Outstanding' = Others(t) /\ Range(queue') = {} /\ Range(queue) = {}
    BY <1>m, <1>3 DEF Outstanding, Others, TypeOK, Range
  <2>2. At("work")' = At("work") \ {t} /\ At("wait")' = (At("wait") \ {t}) \cup {t}
    BY <1>m, <1>3 DEF At, TypeOK
  <2>3. TypeOK'
    <3>1. waiting' \subseteq Threads
      BY <1>3, <1>m DEF At
    <3>2. passed' \subseteq 1..nAdded' /\ nTodo' \in Nat
      BY <1>m, <1>o DEF Mid
    <3>3. pc' \in [Threads -> {"new", "free", "control", "unwind", "work", "wait", "gone"}]
      BY <1>3 DEF TypeOK
    <3>4. vChecks' \in [Threads -> SUBSET (1..nAdded)]
      BY <1>3 DEF TypeOK
    <3>5. nTotal' \in Nat /\ nIdle' \in Nat
      BY <1>3, <1>m, <1>w DEF Mid
    <3> QED
      BY <1>3, <1>m, <3>1, <3>2, <3>3, <3>4, <3>5 DEF TypeOK
  <2>4. Shape'
    <3>1. waiting' \subseteq At("wait")'
      BY <1>3, <1>m, <2>2
    <3>2. \A u \in Threads : (pc'[u] = "work") <=> (vChecks'[u] # {})
      BY <1>3 DEF Shape, TypeOK
    <3>3. \A u, v \in Threads : u # v => vChecks'[u] \cap vChecks'[v] = {}
      BY <1>3 DEF Shape, TypeOK
    <3>4. /\ pc'[Master] \in {"free", "control", "unwind", "work", "wait"}
          /\ \A w \in Worker : pc'[w] \in {"new", "work", "wait", "gone"}
      BY <1>3, WorkerAssumption DEF Shape, TypeOK, Threads, Done
    <3> QED
      BY <1>3, <2>1, <3>1, <3>2, <3>3, <3>4 DEF Shape
  <2>5. Counters'
    <3>1. nTodo' = Cardinality(Outstanding')
      BY <1>m, <2>1 DEF Mid
    <3>2. nTotal' = nIdle' + Cardinality(At("work")')
      <4>1. Cardinality(At("work")') = Cardinality(At("work") \ {t})
        BY <2>2
      <4> QED
        BY <1>3, <1>m, <1>w, <4>1
    <3>3. Cardinality(At("wait")') = Cardinality(At("wait") \ {t}) + 1
      BY <2>2, ThreadsFinite, FS_AddElement DEF At
    <3>4. nIdle' >= Cardinality(At("wait")')
      BY <1>3, <1>m, <1>w, <3>3 DEF Mid
    <3> QED
      BY <3>1, <3>2, <3>4 DEF Counters
  <2>6. Results' /\ WaitResult'
    <3>1. pc'[Master] = "free" <=> pc[Master] = "free"
      BY <1>3, <1>m DEF TypeOK, Threads
    <3>2. \A u \in At("work")' : ~fOk'[u] => bad' # {}
      BY <1>3, <2>2 DEF Results
    <3>3. WaitResult'
      BY <1>3, <3>1 DEF WaitResult, Mid
    <3> QED
      BY <1>3, <1>m, <2>1, <3>1, <3>2, <3>3 DEF Results, Mid
  <2> QED
    BY <2>3, <2>4, <2>5, <2>6 DEF IInv
<1> QED
  BY <1>1, <1>2, <1>3 DEF Loop

\* Others(t) is what is outstanding without t's own batch.
LEMMA OthersOf ==
  ASSUME TypeOK, Shape, NEW t \in Threads
  PROVE  /\ Outstanding = Others(t) \cup vChecks[t] /\ Others(t) \cap vChecks[t] = {}
         /\ Outstanding \subseteq 1..nAdded /\ nAdded \in Nat
         /\ IsFiniteSet(Outstanding) /\ IsFiniteSet(Others(t)) /\ IsFiniteSet(vChecks[t])
<1>1. Outstanding = Others(t) \cup vChecks[t] /\ Others(t) \cap vChecks[t] = {}
  BY DEF Outstanding, Others, Shape
<1>2. Outstanding \subseteq 1..nAdded /\ nAdded \in Nat
  BY CheckAssumption DEF Outstanding, TypeOK, Range
<1> QED
  BY <1>1, <1>2, ChecksFinite

\* A thread that holds no batch counts neither as working nor, once it has
\* left the wait, as idle.
LEMMA EnterInv ==
  ASSUME IInv, NEW t \in Threads, Enter(t)
  PROVE  IInv'
<1>1. pc[t] \in {"new", "control", "unwind"} /\ vChecks[t] = {}
  BY DEF Enter, IInv, Shape
<1>2. Outstanding = Others(t) /\ At("work") \ {t} = At("work") /\ At("wait") \ {t} = At("wait")
  BY <1>1, OthersOf DEF IInv, At
<1>3. Mid(t, nIdle, nTotal + 1, nTodo, fAllOk, waiting, passed)
  <2>1. Cardinality(At("work")) \in Nat
    BY ThreadsFinite DEF At
  <2>2. waiting \subseteq At("wait") \ {t}
    BY <1>2 DEF IInv, Shape
  <2>3. pc[t] \in IF t = Master THEN {"control", "unwind", "work", "wait"}
                              ELSE {"new", "work", "wait"}
    BY <1>1 DEF IInv, Shape, Threads
  <2> QED
    BY <1>2, <2>1, <2>2, <2>3 DEF Mid, IInv, TypeOK, Counters, Results
<1> QED
  BY <1>3, LoopInv DEF Enter, IInv

\* A thread that leaves cond.wait is no longer idle.
LEMMA WakeInv ==
  ASSUME IInv, NEW t \in Threads, Wake(t)
  PROVE  IInv'
<1>1. pc[t] = "wait" /\ vChecks[t] = {} /\ t \notin waiting
  BY DEF Wake, IInv, Shape
<1>2. Outstanding = Others(t) /\ At("work") \ {t} = At("work")
  BY <1>1, OthersOf DEF IInv, At
<1>3. /\ Cardinality(At("wait") \ {t}) = Cardinality(At("wait")) - 1
      /\ Cardinality(At("wait") \ {t}) \in Nat /\ Cardinality(At("wait")) \in Nat
      /\ Cardinality(At("work")) \in Nat
  BY <1>1, ThreadsFinite, FS_RemoveElement DEF At
<1>4. Mid(t, nIdle - 1, nTotal, nTodo, fAllOk, waiting, passed)
  <2>1. /\ nIdle - 1 \in Nat /\ nIdle - 1 >= Cardinality(At("wait") \ {t})
        /\ nTotal = (nIdle - 1) + Cardinality(At("work")) + 1
    BY <1>3 DEF IInv, TypeOK, Counters
  <2>2. waiting \subseteq At("wait") \ {t}
    BY <1>1 DEF IInv, Shape
  <2> QED
    BY <1>1, <1>2, <2>1, <2>2 DEF Mid, IInv, TypeOK, Counters, Results
<1> QED
  BY <1>4, LoopInv DEF Wake, IInv

\* A batch that has run is taken off nTodo, and its result goes to fAllOk.
LEMMA FinishInv ==
  ASSUME IInv, NEW t \in Threads, Finish(t)
  PROVE  IInv'
<1> DEFINE ok == fOk[t] /\ vChecks[t] \cap bad = {}
<1>1. pc[t] = "work" /\ vChecks[t] # {} /\ vChecks[t] \subseteq 1..nAdded
  BY DEF Finish, IInv, Shape, TypeOK
<1>2. TodoAfter(t) = Cardinality(Others(t)) /\ nTodo # 0
  <2>1. /\ Cardinality(Outstanding) = Cardinality(Others(t)) + Cardinality(vChecks[t])
                                        - Cardinality(Others(t) \cap vChecks[t])
    BY OthersOf, FS_Union DEF IInv
  <2>2. Cardinality(Others(t) \cap vChecks[t]) = 0
    BY OthersOf, FS_EmptySet DEF IInv
  <2>3. /\ Cardinality(Others(t)) \in Nat /\ Cardinality(vChecks[t]) \in Nat
        /\ Cardinality(vChecks[t]) # 0
    BY <1>1, OthersOf, FS_CardinalityType, FS_EmptySet DEF IInv
  <2> QED
    BY <2>1, <2>2, <2>3 DEF TodoAfter, IInv, Counters
<1>3. /\ Cardinality(At("work") \ {t}) = Cardinality(At("work")) - 1
      /\ Cardinality(At("work")) \in Nat
      /\ At("wait") \ {t} = At("wait")
  BY <1>1, ThreadsFinite, FS_RemoveElement DEF At
<1>4. pc[Master] # "free"
  BY <1>2 DEF IInv, Results
<1>5. passed' = (IF ok THEN passed \cup vChecks[t] ELSE passed)
  BY DEF Finish
<1>6. ok \in BOOLEAN /\ (~ok => bad # {})
  BY <1>1 DEF IInv, Results, At, TypeOK
<1>7. Mid(t, nIdle, nTotal, TodoAfter(t), fAllOk /\ ok, NotifyMaster(t, TodoAfter(t)), passed')
  <2>1. nTotal = nIdle + Cardinality(At("work") \ {t}) + 1
    BY <1>3 DEF IInv, TypeOK, Counters
  <2>2. nIdle >= Cardinality(At("wait") \ {t})
    BY <1>3 DEF IInv, Counters
  <2>3. NotifyMaster(t, TodoAfter(t)) \subseteq At("wait") \ {t}
    BY <1>3 DEF NotifyMaster, IInv, Shape
  <2>4. passed' \subseteq 1..nAdded /\ passed' \cap bad = {}
    BY <1>1, <1>5 DEF IInv, TypeOK, Results
  <2>5. fAllOk /\ ok => (1..nAdded) \ Others(t) \subseteq passed'
    BY <1>4, <1>5, OthersOf DEF IInv, Results
  <2>6. ~(fAllOk /\ ok) => bad # {}
    BY <1>6 DEF IInv, Results
  <2>7. (fAllOk /\ ok) \in BOOLEAN
    OBVIOUS
  <2> HIDE DEF ok
  <2> QED
    BY <1>1, <1>2, <1>4, <2>1, <2>2, <2>3, <2>4, <2>5, <2>6, <2>7 DEF Mid, IInv, TypeOK
<1>8. Loop(t, nIdle, nTotal, TodoAfter(t), fAllOk /\ ok, NotifyMaster(t, TodoAfter(t)))
      /\ UNCHANGED <<interrupted, nAdded, bad>>
  BY DEF Finish
<1> HIDE DEF ok
<1> QED
  BY <1>7, <1>8, LoopInv DEF IInv

\* A wake-up that nobody asked for.
LEMMA SpuriousInv ==
  ASSUME IInv, NEW t \in Threads, SpuriousWakeup(t)
  PROVE  IInv'
<1>1. /\ At("work")' = At("work") /\ At("wait")' = At("wait")
      /\ Outstanding' = Outstanding
  BY DEF SpuriousWakeup, At, Outstanding, qvars, hvars
<1>2. TypeOK'
  BY DEF SpuriousWakeup, IInv, TypeOK, qvars, hvars
<1>3. Shape'
  BY <1>1 DEF SpuriousWakeup, IInv, Shape, qvars, hvars
<1>4. Counters' /\ Results' /\ WaitResult'
  BY <1>1 DEF SpuriousWakeup, IInv, Counters, Results, WaitResult, qvars, hvars
<1> QED
  BY <1>2, <1>3, <1>4 DEF IInv

\* An interrupted thread stays counted as idle; it never works again
\* unless it is the master.
LEMMA InterruptInv ==
  ASSUME IInv, NEW t \in Threads, Interrupt(t)
  PROVE  IInv'
<1>1. /\ At("work")' = At("work") /\ At("wait")' = At("wait") \ {t}
      /\ Outstanding' = Outstanding
  BY DEF Interrupt, At, Outstanding, qvars, IInv, TypeOK
<1>2. TypeOK'
  BY DEF Interrupt, IInv, TypeOK, qvars, hvars
<1>3. Shape'
  <2>1. waiting' \subseteq At("wait")'
    BY <1>1 DEF Interrupt, IInv, Shape
  <2>2. \A u \in Threads : (pc'[u] = "work") <=> (vChecks'[u] # {})
    BY DEF Interrupt, IInv, Shape, TypeOK
  <2> QED
    BY <2>1, <2>2, WorkerAssumption DEF Interrupt, IInv, Shape, TypeOK, Threads, qvars
<1>4. Counters'
  <2>1. /\ Cardinality(At("wait")') <= Cardinality(At("wait"))
        /\ Cardinality(At("wait")') \in Nat /\ Cardinality(At("wait")) \in Nat
    BY <1>1, ThreadsFinite, FS_RemoveElement DEF At
  <2>2. nIdle' >= Cardinality(At("wait")')
    BY <2>1 DEF Interrupt, qvars, IInv, Counters, TypeOK
  <2> QED
    BY <1>1, <2>2 DEF Interrupt, IInv, Counters, qvars
<1>5. Results' /\ WaitResult'
  <2>1. pc'[Master] = "free" <=> pc[Master] = "free"
    BY DEF Interrupt, IInv, TypeOK, Threads
  <2> QED
    BY <1>1, <2>1 DEF Interrupt, IInv, Results, WaitResult, qvars, hvars
<1> QED
  BY <1>2, <1>3, <1>4, <1>5 DEF IInv

\* A new control begins with nothing outstanding.
LEMMA ControlInv ==
  ASSUME IInv, Control
  PROVE  IInv'
<1>1. /\ At("work")' = At("work") /\ At("wait")' = At("wait")
      /\ Outstanding' = Outstanding
  BY DEF Control, At, Outstanding, qvars, IInv, TypeOK
<1>2. Outstanding = {}
  <2>1. Cardinality(Outstanding) = 0
    BY DEF Control, IInv, Results, Counters
  <2> QED
    BY <2>1, OthersOf, FS_EmptySet DEF IInv, Threads
<1>3. queue = << >> /\ \A u \in Threads : vChecks[u] = {}
  <2>1. Range(queue) = {} /\ \A u \in Threads : vChecks[u] = {}
    BY <1>2 DEF Outstanding
  <2>2. queue \in Seq(1..nAdded)
    BY DEF IInv, TypeOK
  <2>3. Len(queue) = 0
    <3>1. queue \in [1..Len(queue) -> 1..nAdded]
      BY <2>2, SeqFun
    <3>0. Len(queue) \in Nat
      BY <2>2
    <3>2. Len(queue) # 0 => queue[1] \in Range(queue)
      BY <3>0, <3>1 DEF Range
    <3> QED
      BY <2>1, <3>0, <3>2
  <2> QED
    BY <2>1, <2>2, <2>3
<1>4. TypeOK'
  <2>1. vChecks' \in [Threads -> SUBSET (1..0)] /\ queue' \in Seq(1..0)
    BY <1>3 DEF Control, IInv, TypeOK, qvars
  <2>2. pc' \in [Threads -> {"new", "free", "control", "unwind", "work", "wait", "gone"}]
    BY DEF Control, IInv, TypeOK
  <2>3. nAdded' = 0 /\ bad' = {} /\ passed' = {} /\ nAdded' \in 0..MaxChecks
    BY CheckAssumption DEF Control
  <2> QED
    BY <2>1, <2>2, <2>3 DEF Control, IInv, TypeOK, qvars
<1>5. Shape'
  <2>1. waiting' \subseteq At("wait")'
    BY <1>1 DEF Control, IInv, Shape
  <2>2. \A u \in Threads : (pc'[u] = "work") <=> (vChecks'[u] # {})
    BY DEF Control, IInv, Shape, TypeOK
  <2> QED
    BY <2>1, <2>2, WorkerAssumption DEF Control, IInv, Shape, TypeOK, Threads, qvars
<1>6. Counters'
  BY <1>1 DEF Control, IInv, Counters, qvars
<1>7. Results' /\ WaitResult'
  <2>1. pc'[Master] = "control" /\ fAllOk /\ At("work") = {}
    BY <1>3 DEF Control, IInv, TypeOK, Threads, Results, At, Shape
  <2> QED
    BY <1>1, <2>1 DEF Control, IInv, Results, WaitResult, qvars
<1> QED
  BY <1>4, <1>5, <1>6, <1>7 DEF IInv

\* Added checks are in the queue and in nTodo.
LEMMA AddInv ==
  ASSUME IInv, NEW n \in 1..(MaxChecks - nAdded),
         NEW fail \in SUBSET ((nAdded + 1)..(nAdded + n)), Add(n, fail)
  PROVE  IInv'
<1> DEFINE new == (nAdded + 1)..(nAdded + n)
           s == [i \in 1..n |-> nAdded + i]
<1>1. /\ nAdded \in Nat /\ n \in Nat \ {0} /\ nAdded + n <= MaxChecks
      /\ pc[Master] = "control" /\ nAdded' = nAdded + n /\ bad' = bad \cup fail
      /\ queue' = queue \o s /\ nTodo' = nTodo + n
  BY CheckAssumption DEF IInv, TypeOK, Add
<1>2. /\ queue \in Seq(1..nAdded) /\ queue \in [1..Len(queue) -> 1..nAdded]
      /\ Len(queue) \in Nat
  BY SeqFun DEF IInv, TypeOK
<1>3. /\ queue' \in Seq(1..(nAdded + n)) /\ Len(queue') = Len(queue) + n
      /\ \A i \in 1..Len(queue) : queue'[i] = queue[i]
      /\ \A i \in (Len(queue) + 1)..(Len(queue) + n) : queue'[i] = nAdded + (i - Len(queue))
  <2>1. s \in Seq(1..(nAdded + n)) /\ Len(s) = n /\ queue \in Seq(1..(nAdded + n))
    BY <1>1, <1>2
  <2> QED
    BY <1>1, <1>2, <2>1
<1>4. Range(queue') = Range(queue) \cup new /\ Range(queue) \subseteq 1..nAdded
  <2>1. queue' \in [1..(Len(queue) + n) -> 1..(nAdded + n)]
    BY <1>3, SeqFun
  <2>2. Range(queue) = {queue[i] : i \in 1..Len(queue)}
    BY <1>2 DEF Range
  <2>3. Range(queue') = {queue'[i] : i \in 1..(Len(queue) + n)}
    BY <2>1 DEF Range
  <2>4. ASSUME NEW x \in new PROVE x \in Range(queue')
    <3>1. queue'[Len(queue) + (x - nAdded)] = x /\ Len(queue) + (x - nAdded) \in 1..(Len(queue) + n)
      BY <1>1, <1>2, <1>3
    <3> QED
      BY <2>3, <3>1
  <2>5. ASSUME NEW x \in Range(queue) PROVE x \in Range(queue') /\ x \in 1..nAdded
    <3>1. PICK i \in 1..Len(queue) : x = queue[i]
      BY <2>2
    <3>2. queue'[i] = x /\ i \in 1..(Len(queue) + n)
      BY <1>1, <1>2, <1>3, <3>1
    <3> QED
      BY <1>2, <2>3, <3>1, <3>2
  <2>6. ASSUME NEW x \in Range(queue') PROVE x \in Range(queue) \cup new
    <3>1. PICK i \in 1..(Len(queue) + n) : x = queue'[i]
      BY <2>3
    <3>2. CASE i \in 1..Len(queue)
      BY <1>3, <2>2, <3>1, <3>2
    <3>3. CASE i \in (Len(queue) + 1)..(Len(queue) + n)
      BY <1>1, <1>2, <1>3, <3>1, <3>3
    <3> QED
      BY <1>1, <1>2, <3>2, <3>3
  <2> HIDE DEF new
  <2> QED
    BY <2>4, <2>5, <2>6
<1>5. /\ Outstanding' = Outstanding \cup new /\ Outstanding \cap new = {}
      /\ Outstanding \subseteq 1..nAdded
  <2>1. Outstanding \subseteq 1..nAdded
    BY OthersOf DEF IInv, Threads
  <2>2. Outstanding' = Outstanding \cup new
    BY <1>4 DEF Outstanding, Add
  <2> QED
    BY <1>1, <2>1, <2>2
<1>6. At("work")' = At("work") /\ At("wait")' = At("wait") /\ waiting' \subseteq waiting
  BY DEF Add, At
<1>7. TypeOK'
  <2>1. waiting' \subseteq Threads
    BY <1>6 DEF IInv, TypeOK
  <2>2. vChecks' \in [Threads -> SUBSET (1..(nAdded + n))]
    BY <1>1 DEF Add, IInv, TypeOK
  <2>3. bad' \subseteq 1..(nAdded + n) /\ passed' \subseteq 1..(nAdded + n)
    BY <1>1 DEF Add, IInv, TypeOK
  <2>4. nAdded' \in 0..MaxChecks /\ nTodo' \in Nat
    BY <1>1, CheckAssumption DEF IInv, TypeOK
  <2> QED
    BY <1>1, <1>3, <2>1, <2>2, <2>3, <2>4 DEF Add, IInv, TypeOK
<1>8. Shape'
  <2>1. \A i, j \in 1..Len(queue') : queue'[i] = queue'[j] => i = j
    <3>1. \A i, j \in 1..Len(queue) : queue[i] = queue[j] => i = j
      BY DEF IInv, Shape
    <3>. TAKE i, j \in 1..Len(queue')
    <3>2. /\ i \in 1..Len(queue) \/ i \in (Len(queue) + 1)..(Len(queue) + n)
          /\ j \in 1..Len(queue) \/ j \in (Len(queue) + 1)..(Len(queue) + n)
      BY <1>1, <1>2, <1>3
    <3>3. CASE i \in 1..Len(queue) /\ j \in 1..Len(queue)
      BY <1>3, <3>1, <3>3
    <3>4. CASE i \in 1..Len(queue) /\ j \in (Len(queue) + 1)..(Len(queue) + n)
      <4>1. queue'[i] \in 1..nAdded /\ queue'[j] > nAdded
        BY <1>1, <1>2, <1>3, <3>4
      <4>. QED BY <1>1, <4>1
    <3>5. CASE i \in (Len(queue) + 1)..(Len(queue) + n) /\ j \in 1..Len(queue)
      <4>1. queue'[j] \in 1..nAdded /\ queue'[i] > nAdded
        BY <1>1, <1>2, <1>3, <3>5
      <4>. QED BY <1>1, <4>1
    <3>6. CASE /\ i \in (Len(queue) + 1)..(Len(queue) + n)
               /\ j \in (Len(queue) + 1)..(Len(queue) + n)
      BY <1>1, <1>2, <1>3, <3>6
    <3>. QED BY <3>2, <3>3, <3>4, <3>5, <3>6
  <2>2. \A u \in Threads : vChecks[u] \cap Range(queue') = {}
    BY <1>1, <1>4 DEF IInv, Shape, TypeOK
  <2>3. vChecks' = vChecks /\ pc' = pc
    BY DEF Add
  <2>4. waiting' \subseteq At("wait")'
    <3>1. waiting \subseteq At("wait")
      BY DEF IInv, Shape
    <3> QED BY <1>6, <3>1
  <2> QED
    BY <2>1, <2>2, <2>3, <2>4 DEF IInv, Shape
<1>9. Counters'
  <2>1. IsFiniteSet(new) /\ Cardinality(new) = n
    BY <1>1, FS_Interval
  <2>2. IsFiniteSet(Outstanding) /\ Cardinality(Outstanding) \in Nat
    BY OthersOf, FS_CardinalityType DEF IInv, Threads
  <2>3. Cardinality(Outstanding') = Cardinality(Outstanding) + n
    <3> HIDE DEF new
    <3>1. Cardinality(Outstanding \cap new) = 0
      BY <1>5, FS_EmptySet
    <3>2. Cardinality(Outstanding \cup new)
            = Cardinality(Outstanding) + Cardinality(new) - Cardinality(Outstanding \cap new)
      BY <2>1, <2>2, FS_Union
    <3>3. Cardinality(Outstanding') = Cardinality(Outstanding \cup new)
      BY <1>5
    <3> QED
      BY <1>1, <2>1, <2>2, <3>1, <3>2, <3>3
  <2> QED
    BY <1>1, <1>6, <2>3 DEF Add, IInv, Counters
<1>10. Results' /\ WaitResult'
  <2>1. (1..nAdded') \ Outstanding' = (1..nAdded) \ Outstanding
    BY <1>1, <1>5
  <2>2. passed' \cap bad' = {}
    BY <1>1 DEF Add, IInv, Results, TypeOK
  <2> QED
    BY <1>1, <1>6, <2>1, <2>2 DEF Add, IInv, Results, WaitResult
<1> QED
  BY <1>7, <1>8, <1>9, <1>10 DEF IInv

\* A new CCheckQueue satisfies the invariant.
LEMMA InitInv == Init => IInv
<1> SUFFICES ASSUME Init PROVE IInv
  OBVIOUS
<1>1. /\ Outstanding = {} /\ At("work") = {} /\ At("wait") = {}
      /\ Range(queue) = {}
  BY DEF Init, Outstanding, At, Range
<1>2. TypeOK
  BY CheckAssumption DEF Init, TypeOK
<1>3. Shape
  BY <1>1, WorkerAssumption DEF Init, Shape, Threads
<1>4. Counters
  <2>1. /\ Cardinality(Outstanding) = 0 /\ Cardinality(At("work")) = 0
        /\ Cardinality(At("wait")) = 0
    BY <1>1, FS_EmptySet
  <2> QED
    BY <2>1 DEF Init, Counters
<1>5. Results /\ WaitResult
  <2>1. pc[Master] = "free" /\ 1..nAdded = {}
    BY DEF Init, Threads
  <2> QED
    BY <1>1, <2>1 DEF Init, Results, WaitResult
<1> QED
  BY <1>2, <1>3, <1>4, <1>5 DEF IInv

\* Every action of every thread keeps the invariant.
LEMMA StepInv == IInv /\ [Next]_vars => IInv'
<1> SUFFICES ASSUME IInv, [Next]_vars PROVE IInv'
  OBVIOUS
<1>1. CASE Control
  BY <1>1, ControlInv
<1>2. ASSUME NEW n \in 1..(MaxChecks - nAdded),
             NEW fail \in SUBSET ((nAdded + 1)..(nAdded + n)), Add(n, fail)
      PROVE  IInv'
  BY <1>2, AddInv
<1>3. ASSUME NEW t \in Threads,
             Enter(t) \/ Finish(t) \/ Wake(t) \/ SpuriousWakeup(t) \/ Interrupt(t)
      PROVE  IInv'
  BY <1>3, EnterInv, FinishInv, WakeInv, SpuriousInv, InterruptInv
<1>4. CASE UNCHANGED vars
  <2>1. UNCHANGED <<queue, nIdle, nTotal, nTodo, fAllOk, waiting, pc, vChecks, fOk,
                    interrupted, nAdded, bad, passed, fRet>>
    BY <1>4 DEF vars, qvars, tvars, hvars
  <2>2. \A l : At(l)' = At(l)
    BY <2>1 DEF At
  <2>3. Outstanding' = Outstanding
    BY <2>1, Zenon DEF Outstanding
  <2>4. TypeOK'
    BY <2>1 DEF IInv, TypeOK
  <2>5. Shape'
    BY <2>1, <2>2, Zenon DEF IInv, Shape
  <2>6. Counters' /\ Results' /\ WaitResult'
    BY <2>1, <2>2, <2>3, Zenon DEF IInv, Counters, Results, WaitResult
  <2> QED BY <2>4, <2>5, <2>6 DEF IInv
<1> QED
  BY <1>1, <1>2, <1>3, <1>4 DEF Next

\* The invariant holds in every state.
THEOREM Invariant == Spec => []IInv
  BY InitInv, StepInv, PTL DEF Spec

\* Type correctness: in particular nTodo, an unsigned int, never wraps.
THEOREM TypeCorrect == Spec => []TypeOK
<1>1. IInv => TypeOK
  BY DEF IInv
<1> QED
  BY <1>1, Invariant, PTL

\* nTodo counts exactly the checks in the queue and in the threads'
\* batches, and no check is in two places (CCheckQueue::Loop, Add).
THEOREM TodoCounted == Spec => []TodoAccounting
<1>1. IInv => TodoAccounting
  BY DEF IInv, TodoAccounting, Shape, Counters
<1> QED
  BY <1>1, Invariant, PTL

\* The assertion of the CCheckQueueControl constructor never fails.
THEOREM ControlFindsIdle == Spec => []IdleAtControl
<1>1. IInv => IdleAtControl
  <2> SUFFICES ASSUME IInv, pc[Master] = "free" PROVE IsIdle
    BY DEF IdleAtControl
  <2>1. nTodo = 0 /\ fAllOk
    BY DEF IInv, Results
  <2>2. Outstanding = {}
    BY <2>1, OthersOf, FS_EmptySet DEF IInv, Counters, Threads
  <2>3. At("work") = {}
    BY <2>2 DEF IInv, Shape, At, Outstanding
  <2>4. nTotal = nIdle
    <3>1. Cardinality(At("work")) = 0
      BY <2>3, FS_EmptySet
    <3> QED
      BY <3>1 DEF IInv, Counters, TypeOK
  <2> QED
    BY <2>1, <2>4 DEF IsIdle
<1> QED
  BY <1>1, Invariant, PTL

\* Wait() returns true exactly if no check of the control fails, and then
\* all of them have run.
THEOREM WaitIsConjunction == Spec => []WaitResult
<1>1. IInv => WaitResult
  BY DEF IInv
<1> QED
  BY <1>1, Invariant, PTL
=============================================================================
