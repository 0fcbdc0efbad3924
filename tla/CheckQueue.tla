----------------------------- MODULE CheckQueue -----------------------------
(***************************************************************************)
(* CCheckQueue and CCheckQueueControl (checkqueue.h): the pool of script   *)
(* verification threads.  The thread that connects a block (the master,    *)
(* it holds cs_main, so there is one) opens a control, adds batches of     *)
(* checks, and waits; the workers and then the master take batches off a   *)
(* common stack.  Every critical section of the mutex is one action; the   *)
(* checks run outside of it.  The checks of a control are numbered in the  *)
(* order in which they are added.                                          *)
(***************************************************************************)
EXTENDS Integers, Sequences, FiniteSets, Functions

CONSTANTS Worker,     \* the threads that run Thread()
          Master,     \* the thread that runs Wait()
          MaxChecks,  \* bound on the checks of one control
          nBatchSize  \* the constructor's argument

ASSUME WorkerAssumption == IsFiniteSet(Worker) /\ Master \notin Worker
ASSUME CheckAssumption == MaxChecks \in Nat
ASSUME BatchAssumption == nBatchSize \in Nat \ {0}

Threads == Worker \cup {Master}

VARIABLES
  queue,        \* the stack of checks nobody has taken yet
  nIdle, nTotal, nTodo, fAllOk,   \* the members of the same names
  waiting,      \* threads blocked on condWorker (workers) or condMaster
  pc,           \* where each thread is
  vChecks, fOk, \* each thread's batch, and its running result
  interrupted,  \* threads that boost's interrupt_all() has reached
  nAdded, bad,  \* the checks 1..nAdded of the control; those that fail
  passed,       \* checks whose operator() ran and returned true
  fRet          \* what the last Wait() returned

qvars == <<queue, nIdle, nTotal, nTodo, fAllOk>>
tvars == <<waiting, pc, vChecks, fOk, interrupted>>
hvars == <<nAdded, bad, passed, fRet>>
vars == <<qvars, tvars, hvars>>

Init ==
  /\ queue = << >> /\ nIdle = 0 /\ nTotal = 0 /\ nTodo = 0 /\ fAllOk = TRUE
  /\ waiting = {} /\ interrupted = {}
  /\ pc = [t \in Threads |-> IF t = Master THEN "free" ELSE "new"]
  /\ vChecks = [t \in Threads |-> {}] /\ fOk = [t \in Threads |-> TRUE]
  /\ nAdded = 0 /\ bad = {} /\ passed = {} /\ fRet = TRUE

\* std::max(1U, std::min(nBatchSize, queue.size() / (nTotal + nIdle + 1)))
BatchLen(len, total, idle) ==
  LET share == len \div (total + idle + 1)
      capped == IF share < nBatchSize THEN share ELSE nBatchSize
  IN  IF capped < 1 THEN 1 ELSE capped

\* The batch is the top of the stack.
TakeBatch(t, idle, total, ok) ==
  LET len == Len(queue)
      rest == len - BatchLen(len, total, idle)
  IN  /\ vChecks' = [vChecks EXCEPT ![t] = {queue[i] : i \in (rest + 1)..len}]
      /\ queue' = SubSeq(queue, 1, rest)
      /\ fOk' = [fOk EXCEPT ![t] = ok]
      /\ pc' = [pc EXCEPT ![t] = "work"]

DoneEarly(t, todo) == t = Master

\* (fMaster || fQuit) && nTodo == 0; nothing ever sets fQuit.
Done(t, todo) == t = Master /\ todo = 0

\* From "logically, the do loop starts here" to the end of the critical
\* section, with the values the counters have at that point.
Loop(t, idle, total, todo, ok, blocked) ==
  /\ nTodo' = todo
  /\ \/ /\ queue # << >>
        /\ TakeBatch(t, idle, total, ok)
        /\ nIdle' = idle /\ nTotal' = total /\ fAllOk' = ok
        /\ waiting' = blocked
        /\ UNCHANGED fRet
     \/ /\ queue = << >> /\ Done(t, todo)       \* return fRet
        /\ nIdle' = idle /\ nTotal' = total - 1
        /\ fRet' = ok /\ fAllOk' = TRUE
        /\ pc' = [pc EXCEPT ![t] = "free"]
        /\ vChecks' = [vChecks EXCEPT ![t] = {}]
        /\ waiting' = blocked
        /\ UNCHANGED <<queue, fOk>>
     \/ /\ queue = << >> /\ ~Done(t, todo)      \* cond.wait(lock)
        /\ nIdle' = idle + 1 /\ nTotal' = total /\ fAllOk' = ok
        /\ pc' = [pc EXCEPT ![t] = "wait"]
        /\ vChecks' = [vChecks EXCEPT ![t] = {}]
        /\ waiting' = blocked \cup {t}
        /\ UNCHANGED <<queue, fOk, fRet>>

\* First iteration: a worker thread that starts, or the master in Wait(),
\* called by ConnectBlock or by ~CCheckQueueControl.
Enter(t) ==
  /\ pc[t] \in {"new", "control", "unwind"}
  /\ Loop(t, nIdle, nTotal + 1, nTodo, fAllOk, waiting)
  /\ UNCHANGED <<interrupted, nAdded, bad, passed>>

OneLess(t) == nTodo - 1

\* nTodo -= nNow
TodoAfter(t) == nTodo - Cardinality(vChecks[t])

NoNotify(t, todo) == waiting

\* condMaster.notify_one() by the worker that finishes the last check.
NotifyMaster(t, todo) ==
  IF todo = 0 /\ t # Master THEN waiting \ {Master} ELSE waiting

\* The checks of the batch run in turn while they succeed; the critical
\* section that follows cleans up and goes on with the loop.
Finish(t) ==
  LET ok == fOk[t] /\ vChecks[t] \cap bad = {}
  IN  /\ pc[t] = "work"
      /\ passed' = IF ok THEN passed \cup vChecks[t] ELSE passed
      /\ Loop(t, nIdle, nTotal, TodoAfter(t), fAllOk /\ ok,
              NotifyMaster(t, TodoAfter(t)))
      /\ UNCHANGED <<interrupted, nAdded, bad>>

\* cond.wait returns: a notification, or a spurious wake-up.
Wake(t) ==
  /\ pc[t] = "wait" /\ t \notin waiting
  /\ Loop(t, nIdle - 1, nTotal, nTodo, fAllOk, waiting)
  /\ UNCHANGED <<interrupted, nAdded, bad, passed>>

SpuriousWakeup(t) ==
  /\ pc[t] = "wait" /\ t \in waiting
  /\ waiting' = waiting \ {t}
  /\ UNCHANGED <<qvars, pc, vChecks, fOk, interrupted, hvars>>

\* cond.wait is an interruption point: the exception leaves Loop with the
\* counters as they are.  A worker ends; in the master it unwinds through
\* ~CCheckQueueControl, which calls Wait() again.
Interrupt(t) ==
  /\ pc[t] = "wait" /\ t \notin interrupted
  /\ interrupted' = interrupted \cup {t}
  /\ waiting' = waiting \ {t}
  /\ pc' = [pc EXCEPT ![t] = IF t = Master THEN "unwind" ELSE "gone"]
  /\ UNCHANGED <<qvars, vChecks, fOk, hvars>>

IsIdle == nTotal = nIdle /\ nTodo = 0 /\ fAllOk

\* CCheckQueueControl(pqueue); it asserts IsIdle (IdleAtControl below).
Control ==
  /\ pc[Master] = "free"
  /\ pc' = [pc EXCEPT ![Master] = "control"]
  /\ nAdded' = 0 /\ bad' = {} /\ passed' = {}
  /\ UNCHANGED <<qvars, waiting, vChecks, fOk, interrupted, fRet>>

\* Add(vChecks) with n checks, of which those of fail will return false.
\* One element wakes one worker, more wake all of them.  The master is not
\* in Wait(), so every blocked thread is a worker.
Add(n, fail) ==
  /\ pc[Master] = "control"
  /\ queue' = queue \o [i \in 1..n |-> nAdded + i]
  /\ nTodo' = nTodo + n
  /\ IF n = 1 /\ waiting # {}
     THEN \E w \in waiting : waiting' = waiting \ {w}
     ELSE waiting' = {}
  /\ nAdded' = nAdded + n /\ bad' = bad \cup fail
  /\ UNCHANGED <<nIdle, nTotal, fAllOk, pc, vChecks, fOk, interrupted,
                 passed, fRet>>

Next ==
  \/ Control
  \/ \E n \in 1..(MaxChecks - nAdded) :
       \E fail \in SUBSET ((nAdded + 1)..(nAdded + n)) : Add(n, fail)
  \/ \E t \in Threads : \/ Enter(t) \/ Finish(t) \/ Wake(t)
                        \/ SpuriousWakeup(t) \/ Interrupt(t)

\* The operating system schedules every runnable thread.  New checks,
\* spurious wake-ups and interruptions need not happen.
Fairness ==
  \A t \in Threads :
    WF_vars(Enter(t)) /\ WF_vars(Finish(t)) /\ WF_vars(Wake(t))

Spec == Init /\ [][Next]_vars /\ Fairness
-----------------------------------------------------------------------------
\* The checks that have been added and not yet been cleaned up.
Outstanding == Range(queue) \cup UNION {vChecks[t] : t \in Threads}

\* The members of CCheckQueue and the locals of Loop keep their types; in
\* particular the unsigned nTodo never wraps below zero.
TypeOK ==
  /\ queue \in Seq(1..nAdded)
  /\ nIdle \in Nat /\ nTotal \in Nat /\ nTodo \in Nat
  /\ fAllOk \in BOOLEAN /\ fRet \in BOOLEAN
  /\ waiting \subseteq Threads /\ interrupted \subseteq Threads
  /\ pc \in [Threads -> {"new", "free", "control", "unwind", "work", "wait",
                         "gone"}]
  /\ vChecks \in [Threads -> SUBSET (1..nAdded)]
  /\ fOk \in [Threads -> BOOLEAN]
  /\ nAdded \in 0..MaxChecks
  /\ bad \subseteq 1..nAdded /\ passed \subseteq 1..nAdded

\* nTodo "includes elements that are not anymore in queue, but still in
\* worker's own batches" (checkqueue.h:57), and no check is in two places.
TodoAccounting ==
  /\ nTodo = Cardinality(Outstanding)
  /\ \A t \in Threads : vChecks[t] \cap Range(queue) = {}
  /\ \A t, u \in Threads : t # u => vChecks[t] \cap vChecks[u] = {}

\* The assertion of the CCheckQueueControl constructor: the queue is idle
\* whenever a block may open a new control, whatever the workers are doing.
IdleAtControl == pc[Master] = "free" => IsIdle

\* Wait() returns the conjunction of all the checks of the control, and
\* true only if every one of them has run.
WaitResult ==
  pc[Master] = "free" =>
    /\ fRet = (bad = {})
    /\ fRet => passed = 1..nAdded

\* Every control ends: Wait() returns even if workers are interrupted.
WaitReturns == pc[Master] = "control" ~> pc[Master] = "free"
=============================================================================
