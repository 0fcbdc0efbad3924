------------------------------ MODULE Mempool ------------------------------
(***************************************************************************)
(* The memory pool of unconfirmed transactions (txmempool.cpp), the orphan *)
(* transactions of main.cpp, and their users: the "tx" message, the tip    *)
(* moving up and down, and CreateNewBlock of miner.cpp.                    *)
(*                                                                         *)
(* The coins are the unspent outputs of the block that pcoinsTip stands    *)
(* at, which is what CoinsAreUtxo of BlockConnect says.  A handler that    *)
(* works through a list is one step per element; `task' is what the thread *)
(* that holds cs_main is doing, and no other handler starts meanwhile.     *)
(***************************************************************************)
EXTENDS Integers, Sequences, FiniteSets, SequencesExt, FiniteSetsExt, Functions

CONSTANTS
    Tx,                 \* transactions, by hash
    TxIn,               \* TxIn[t]: the outpoints <<hash, n>> that t spends
    TxOut,              \* TxOut[t]: how many outputs t has
    Coinbase,           \* the transactions that are coinbases
    Malformed,          \* those that CheckTransaction refuses
    BadScript,          \* those whose scripts CheckInputs refuses
    nLockTime,          \* nLockTime[t], a height; 0 when there is none
    Block,              \* block hashes, Genesis among them
    Genesis,
    Prev,               \* Prev[b]: the block before b
    BlockTx,            \* BlockTx[b]: the transactions of b, in order
    COINBASE_MATURITY,
    RequireStandard,    \* Params().RequireStandard()
    nMaxOrphanTx,       \* -maxorphantx
    Peer

ASSUME MempoolAssumption ==
    /\ TxIn \in [Tx -> SUBSET (Tx \X Nat)]
    /\ TxOut \in [Tx -> Nat]
    /\ Coinbase \subseteq Tx /\ Malformed \subseteq Tx /\ BadScript \subseteq Tx
    /\ \A t \in Tx : TxIn[t] = {} <=> t \in Coinbase
    /\ nLockTime \in [Tx -> Nat]
    /\ Genesis \in Block
    /\ Prev \in [Block \ {Genesis} -> Block]
    /\ BlockTx \in [Block \ {Genesis} -> Seq(Tx)]
    /\ COINBASE_MATURITY \in Nat
    /\ RequireStandard \in BOOLEAN
    /\ nMaxOrphanTx \in Nat

VARIABLES
    chainActive,    \* the block at the tip of the active chain
    coinsTip,       \* the block whose coins pcoinsTip holds
    pool,           \* CTxMemPool: mapTx (a set) and mapNextTx (outpoint -> spender)
    orphan,         \* mapOrphanTransactions: hash -> fromPeer
    byPrev,         \* mapOrphanTransactionsByPrev: hash -> the orphans that spend it
    nodes,          \* the peers that have a CNodeState
    task            \* what the holder of cs_main is in the middle of

poolVars == <<chainActive, coinsTip, pool, orphan, byPrev, nodes, task>>

-----------------------------------------------------------------------------
(* The chain and its coins.                                                *)

HeightOf[b \in Block] == IF b = Genesis THEN 0 ELSE HeightOf[Prev[b]] + 1

Outpoints(t) == {<<t, n>> : n \in 0 .. TxOut[t] - 1}

\* UpdateCoins over a block: what its transactions create, less what they spend.
Unspent[b \in Block] ==
    IF b = Genesis THEN {}
    ELSE (Unspent[Prev[b]] \cup UNION {Outpoints(t) : t \in Range(BlockTx[b])})
         \ UNION {TxIn[t] : t \in Range(BlockTx[b])}

\* The transactions of the chain that ends in b.
Confirmed[b \in Block] ==
    IF b = Genesis THEN {} ELSE Confirmed[Prev[b]] \cup Range(BlockTx[b])

\* CCoins::HeightOf of a transaction on the chain that ends in b.
CoinHeight[b \in Block] ==
    IF b = Genesis THEN <<>>
    ELSE [t \in Confirmed[b] |-> IF t \in Range(BlockTx[b]) THEN HeightOf[b]
                                 ELSE CoinHeight[Prev[b]][t]]

\* CCoinsViewMemPool::GetCoins: the pool's transaction, else the chain's coins.
HaveCoins(p, b, h) == h \in p.mapTx \/ \E o \in Unspent[b] : o[1] = h

HaveInputs(p, b, t) ==
    \A o \in TxIn[t] : o \in IF o[1] \in p.mapTx THEN Outpoints(o[1]) ELSE Unspent[b]

\* CheckInputs, nSpendHeight one above the view's best block: no immature coinbase.
MatureInputs(b, t) ==
    \A o \in TxIn[t] : o[1] \in Coinbase \cap Confirmed[b]
                       => HeightOf[b] + 1 - CoinHeight[b][o[1]] >= COINBASE_MATURITY

IsFinalTx(t, height) == nLockTime[t] = 0 \/ nLockTime[t] < height

-----------------------------------------------------------------------------
(* CTxMemPool.                                                             *)

addUnchecked(p, t) ==
    [mapTx |-> p.mapTx \cup {t},
     mapNextTx |-> [o \in DOMAIN p.mapNextTx \cup TxIn[t] |->
                        IF o \in TxIn[t] THEN t ELSE p.mapNextTx[o]]]

\* The pool's spenders of the outputs of h.
Spenders(p, h) == {p.mapNextTx[o] : o \in DOMAIN p.mapNextTx \cap Outpoints(h)}

\* The loop of CTxMemPool::remove over txToRemove.
RECURSIVE RemoveQueue(_, _, _)
RemoveQueue(p, txToRemove, fRecursive) ==
    IF txToRemove = <<>> THEN p
    ELSE LET hash == Head(txToRemove)
             more == IF fRecursive THEN SetToSeq(Spenders(p, hash)) ELSE <<>>
         IN  IF hash \notin p.mapTx THEN RemoveQueue(p, Tail(txToRemove), fRecursive)
             ELSE RemoveQueue([mapTx |-> p.mapTx \ {hash},
                               mapNextTx |-> Restrict(p.mapNextTx,
                                                 DOMAIN p.mapNextTx \ TxIn[hash])],
                              Tail(txToRemove) \o more, fRecursive)

\* A remove that forgets the spenders of a transaction that is not in the pool.
RemovePooledOnly(p, t, fRecursive) == RemoveQueue(p, <<t>>, fRecursive)

\* CTxMemPool::remove.  A transaction that is not in the pool still takes its
\* spenders along.
remove(p, t, fRecursive) ==
    RemoveQueue(p, <<t>> \o (IF fRecursive /\ t \notin p.mapTx
                             THEN SetToSeq(Spenders(p, t)) ELSE <<>>), fRecursive)

RemoveAll(p, ts) == FoldSet(LAMBDA t, q : remove(q, t, TRUE), p, ts)

removeConflicts(p, t) ==
    RemoveAll(p, {p.mapNextTx[o] : o \in DOMAIN p.mapNextTx \cap TxIn[t]} \ {t})

\* A removeForBlock that takes the spenders of a confirmed transaction along.
RemoveForBlockRecursive(p, vtx) ==
    FoldLeft(LAMBDA q, t : removeConflicts(remove(q, t, TRUE), t), p, vtx)

removeForBlock(p, vtx) ==
    FoldLeft(LAMBDA q, t : removeConflicts(remove(q, t, FALSE), t), p, vtx)

\* removeCoinbaseSpends(pcoinsTip, nMemPoolHeight), b the block of pcoinsTip.
\* AccessCoins gives no coins for a transaction that b's chain does not have, or
\* else the pruned entry that the cache still holds (fCached) after its block left.
removeCoinbaseSpends(p, b, nMemPoolHeight, fCached) ==
    RemoveAll(p, {t \in p.mapTx : \E o \in TxIn[t] :
                     /\ o[1] \notin p.mapTx
                     /\ \/ o[1] \notin Confirmed[b] /\ ~fCached
                        \/ /\ o[1] \in Coinbase \cap Confirmed[b]
                           /\ nMemPoolHeight - CoinHeight[b][o[1]] < COINBASE_MATURITY})

-----------------------------------------------------------------------------
(* AcceptToMemoryPool.  `policy' stands for what depends on size, fees,    *)
(* priority, rate limits and standardness: any answer is possible at any   *)
(* time.                                                                   *)

AcceptResult(t, policy) ==
    IF t \in Malformed \cup Coinbase THEN "invalid"
    ELSE IF \/ policy = "nonstandard"
            \/ RequireStandard /\ ~IsFinalTx(t, HeightOf[chainActive] + 1)
            \/ t \in pool.mapTx
            \/ TxIn[t] \cap DOMAIN pool.mapNextTx # {}
            \/ HaveCoins(pool, coinsTip, t) THEN "refused"
    ELSE IF \E o \in TxIn[t] : ~HaveCoins(pool, coinsTip, o[1]) THEN "missing"
    ELSE IF \/ ~HaveInputs(pool, coinsTip, t)
            \/ policy = "fees"
            \/ ~MatureInputs(coinsTip, t) THEN "refused"
    ELSE IF t \in BadScript THEN "invalid"
    ELSE "accepted"

Policies == {"ok", "nonstandard", "fees"}

-----------------------------------------------------------------------------
(* Orphan transactions: o is the pair of the two maps.                     *)

Parents(t) == {o[1] : o \in TxIn[t]}

AddOrphanTx(o, t, peer) ==
    IF t \in DOMAIN o.map THEN o
    ELSE [map |-> [x \in DOMAIN o.map \cup {t} |-> IF x = t THEN peer ELSE o.map[x]],
          prev |-> [h \in DOMAIN o.prev \cup Parents(t) |->
                       (IF h \in DOMAIN o.prev THEN o.prev[h] ELSE {})
                       \cup (IF h \in Parents(t) THEN {t} ELSE {})]]

\* An erasure that stops after the first parent, as if `break' stood for the loop.
EraseUnderOneParent(o, t) ==
    IF t \notin DOMAIN o.map THEN o
    ELSE [map |-> Restrict(o.map, DOMAIN o.map \ {t}),
          prev |-> LET first == CHOOSE h \in Parents(t) : TRUE
                       less == [o.prev EXCEPT ![first] = @ \ {t}]
                   IN  Restrict(less, {h \in DOMAIN less : less[h] # {}})]

EraseOrphanTx(o, t) ==
    IF t \notin DOMAIN o.map THEN o
    ELSE [map |-> Restrict(o.map, DOMAIN o.map \ {t}),
          prev |-> LET less == [h \in DOMAIN o.prev |->
                                   IF h \in Parents(t) THEN o.prev[h] \ {t} ELSE o.prev[h]]
                   IN  Restrict(less, {h \in DOMAIN less : less[h] # {}})]

EraseOrphans(o, ts) == FoldSet(LAMBDA t, q : EraseOrphanTx(q, t), o, ts)

EraseOrphansFor(o, peer) == EraseOrphans(o, {t \in DOMAIN o.map : o.map[t] = peer})

\* LimitOrphanTxSize: the random orphans that go are any that are one too many.
LimitOrphanTxSize(o, nMax) ==
    {EraseOrphans(o, gone) :
        gone \in kSubset(Max({0, Cardinality(DOMAIN o.map) - nMax}), DOMAIN o.map)}

Orphans == [map |-> orphan, prev |-> byPrev]

SetOrphans(o) == orphan' = o.map /\ byPrev' = o.prev

-----------------------------------------------------------------------------
(* The "tx" message.                                                       *)

NoTask == [op |-> "idle"]

\* `look' is what is left of the inner loop over the orphans of work[1]; `erase'
\* is vEraseQueue; `bad' is setMisbehaving.
OrphanWork(work, look, erase, bad) ==
    [op |-> "orphans", work |-> work, look |-> look, erase |-> erase, bad |-> bad]

\* mapOrphanTransactionsByPrev.find: the orphans that wait for h.
OrphansOf(h) == IF h \in DOMAIN byPrev THEN byPrev[h] ELSE {}

ReceiveTx(peer, t) ==
    /\ task = NoTask
    /\ peer \in nodes
    /\ \E policy \in Policies : LET result == AcceptResult(t, policy) IN
        \/ /\ result = "accepted"
           /\ pool' = addUnchecked(pool, t)
           /\ task' = OrphanWork(<<t>>, OrphansOf(t), {t}, {})
           /\ UNCHANGED <<orphan, byPrev>>
        \/ /\ result = "missing"
           /\ \E big \in BOOLEAN : \E o \in LimitOrphanTxSize(
                    IF big THEN Orphans ELSE AddOrphanTx(Orphans, t, peer), nMaxOrphanTx) :
                SetOrphans(o)
           /\ UNCHANGED <<pool, task>>
        \/ /\ result \in {"refused", "invalid"}
           /\ UNCHANGED <<pool, orphan, byPrev, task>>
    /\ UNCHANGED <<chainActive, coinsTip, nodes>>

\* One round of the inner loop: an orphan that waited for the head of the queue.
TryOrphan(t) ==
    /\ task.op = "orphans"
    /\ t \in task.look
    /\ LET erase == task.erase \cup {t}
           look  == task.look \ {t}
       IN  \/ /\ orphan[t] \in task.bad
              /\ task' = [task EXCEPT !.look = look, !.erase = erase]
              /\ UNCHANGED pool
           \/ /\ orphan[t] \notin task.bad
              /\ \E policy \in Policies : LET result == AcceptResult(t, policy) IN
                  \/ /\ result = "accepted"
                     /\ pool' = addUnchecked(pool, t)
                     /\ task' = OrphanWork(Append(task.work, t), look, erase, task.bad)
                  \/ /\ result \in {"refused", "missing"}
                     /\ task' = [task EXCEPT !.look = look, !.erase = erase]
                     /\ UNCHANGED pool
                  \/ /\ result = "invalid"
                     /\ task' = OrphanWork(task.work, look, erase, task.bad \cup {orphan[t]})
                     /\ UNCHANGED pool
    /\ UNCHANGED <<chainActive, coinsTip, orphan, byPrev, nodes>>

\* The next element of vWorkQueue, or at its end the loop over vEraseQueue.
NextWork ==
    /\ task.op = "orphans"
    /\ task.look = {}
    /\ IF Len(task.work) > 1
       THEN /\ task' = OrphanWork(Tail(task.work), OrphansOf(task.work[2]), task.erase, task.bad)
            /\ UNCHANGED <<orphan, byPrev>>
       ELSE /\ SetOrphans(EraseOrphans(Orphans, task.erase))
            /\ task' = NoTask
    /\ UNCHANGED <<chainActive, coinsTip, pool, nodes>>

\* AcceptToMemoryPool from sendrawtransaction and from the wallet: no orphans.
SubmitTx(t) ==
    /\ task = NoTask
    /\ \E policy \in Policies : AcceptResult(t, policy) = "accepted"
    /\ pool' = addUnchecked(pool, t)
    /\ UNCHANGED <<chainActive, coinsTip, orphan, byPrev, nodes, task>>

\* FinalizeNode, and InitializeNode for a peer that connects.
FinalizeNode(peer) ==
    /\ task = NoTask
    /\ peer \in nodes
    /\ nodes' = nodes \ {peer}
    /\ SetOrphans(EraseOrphansFor(Orphans, peer))
    /\ UNCHANGED <<chainActive, coinsTip, pool, task>>

InitializeNode(peer) ==
    /\ task = NoTask
    /\ peer \notin nodes
    /\ nodes' = nodes \cup {peer}
    /\ UNCHANGED <<chainActive, coinsTip, pool, orphan, byPrev, task>>

-----------------------------------------------------------------------------
(* The tip of the active chain.                                            *)

\* ConnectTip: the coins move, the pool loses the block's transactions and what
\* conflicts with them, UpdateTip.
ConnectTip(b) ==
    /\ task = NoTask
    /\ b # Genesis /\ Prev[b] = chainActive
    /\ coinsTip' = b
    /\ pool' = removeForBlock(pool, BlockTx[b])
    /\ chainActive' = b
    /\ UNCHANGED <<orphan, byPrev, nodes, task>>

\* DisconnectTip: DisconnectBlock and the flush of the view ...
DisconnectTip ==
    /\ task = NoTask
    /\ chainActive # Genesis
    /\ coinsTip' = Prev[chainActive]
    /\ task' = [op |-> "disconnect", vtx |-> BlockTx[chainActive]]
    /\ UNCHANGED <<chainActive, pool, orphan, byPrev, nodes>>

\* ... each transaction of the block goes back into the pool or leaves it with
\* everything that spends it ...
ResurrectTx ==
    /\ task.op = "disconnect"
    /\ task.vtx # <<>>
    /\ LET t == Head(task.vtx) IN
         \E policy \in Policies :
           pool' = IF t \notin Coinbase /\ AcceptResult(t, policy) = "accepted"
                   THEN addUnchecked(pool, t) ELSE remove(pool, t, TRUE)
    /\ task' = [task EXCEPT !.vtx = Tail(@)]
    /\ UNCHANGED <<chainActive, coinsTip, orphan, byPrev, nodes>>

\* ... and what spends a coinbase that is immature again goes; UpdateTip.
FinishDisconnect ==
    /\ task.op = "disconnect"
    /\ task.vtx = <<>>
    /\ \E fCached \in BOOLEAN :
         pool' = removeCoinbaseSpends(pool, coinsTip, HeightOf[chainActive], fCached)
    /\ chainActive' = coinsTip
    /\ task' = NoTask
    /\ UNCHANGED <<coinsTip, orphan, byPrev, nodes>>

-----------------------------------------------------------------------------
(* CreateNewBlock.                                                         *)

\* The coins of the view after the transactions of vtx were added to it.
ViewAfter(b, vtx) ==
    (Unspent[b] \cup UNION {Outpoints(t) : t \in Range(vtx)})
    \ UNION {TxIn[t] : t \in Range(vtx)}

ViewHasCoins(b, h) == \E o \in Unspent[b] : o[1] = h

\* setDependsOn: the inputs that are not in the chain.
DependsOn(t) == {h \in Parents(t) : ~ViewHasCoins(coinsTip, h)}

CreateNewBlock ==
    /\ task = NoTask
    /\ LET eligible == {t \in pool.mapTx : /\ IsFinalTx(t, HeightOf[chainActive] + 1)
                                           /\ DependsOn(t) \subseteq pool.mapTx}
       IN  task' = [op |-> "template", vtx |-> <<>>, fLimit |-> FALSE,
                   vecPriority |-> {t \in eligible : DependsOn(t) = {}},
                   setDependsOn |-> [t \in {x \in eligible : DependsOn(x) # {}}
                                        |-> DependsOn(t)]]
    /\ UNCHANGED <<chainActive, coinsTip, pool, orphan, byPrev, nodes>>

\* The heap gives any transaction next, as priorities and fees may be anything.
\* It is left out for size, sigops or fee (fLimit), or because its inputs fail.
LeaveOutTx(t) ==
    /\ task.op = "template"
    /\ t \in task.vecPriority
    /\ \E fLimit \in BOOLEAN :
         /\ \/ fLimit
            \/ ~(TxIn[t] \subseteq ViewAfter(coinsTip, task.vtx))
            \/ ~MatureInputs(coinsTip, t)
            \/ t \in BadScript
         /\ task' = [task EXCEPT !.vecPriority = @ \ {t}, !.fLimit = @ \/ fLimit]
    /\ UNCHANGED <<chainActive, coinsTip, pool, orphan, byPrev, nodes>>

\* A block builder that frees a transaction as soon as one of its parents is in.
AddTxFreeEarly(t) ==
    /\ task.op = "template"
    /\ t \in task.vecPriority
    /\ TxIn[t] \subseteq ViewAfter(coinsTip, task.vtx)
    /\ MatureInputs(coinsTip, t)
    /\ t \notin BadScript
    /\ LET freed == {x \in DOMAIN task.setDependsOn : t \in task.setDependsOn[x]}
       IN  task' = [task EXCEPT !.vtx = Append(@, t),
                              !.vecPriority = (@ \ {t}) \cup freed,
                              !.setDependsOn = [x \in DOMAIN @ \ freed |-> @[x]]]
    /\ UNCHANGED <<chainActive, coinsTip, pool, orphan, byPrev, nodes>>

AddTxToBlock(t) ==
    /\ task.op = "template"
    /\ t \in task.vecPriority
    /\ TxIn[t] \subseteq ViewAfter(coinsTip, task.vtx)
    /\ MatureInputs(coinsTip, t)
    /\ t \notin BadScript
    /\ LET left  == [x \in DOMAIN task.setDependsOn |-> task.setDependsOn[x] \ {t}]
           freed == {x \in DOMAIN left : left[x] = {} /\ task.setDependsOn[x] # {}}
       IN  task' = [task EXCEPT !.vtx = Append(@, t),
                              !.vecPriority = (@ \ {t}) \cup freed,
                              !.setDependsOn = left]
    /\ UNCHANGED <<chainActive, coinsTip, pool, orphan, byPrev, nodes>>

ReturnTemplate ==
    /\ task.op = "template"
    /\ task.vecPriority = {}
    /\ task' = NoTask
    /\ UNCHANGED <<chainActive, coinsTip, pool, orphan, byPrev, nodes>>

-----------------------------------------------------------------------------
PoolInit ==
    /\ chainActive = Genesis
    /\ coinsTip = Genesis
    /\ pool = [mapTx |-> {}, mapNextTx |-> <<>>]
    /\ orphan = <<>>
    /\ byPrev = <<>>
    /\ nodes = {}
    /\ task = NoTask

PoolNext ==
    \/ \E peer \in Peer, t \in Tx : ReceiveTx(peer, t)
    \/ \E t \in Tx : TryOrphan(t)
    \/ NextWork
    \/ \E t \in Tx : SubmitTx(t)
    \/ \E peer \in Peer : FinalizeNode(peer)
    \/ \E peer \in Peer : InitializeNode(peer)
    \/ \E b \in Block : ConnectTip(b)
    \/ DisconnectTip
    \/ ResurrectTx
    \/ FinishDisconnect
    \/ CreateNewBlock
    \/ \E t \in Tx : LeaveOutTx(t)
    \/ \E t \in Tx : AddTxToBlock(t)
    \/ ReturnTemplate

PoolSpec == PoolInit /\ [][PoolNext]_poolVars

-----------------------------------------------------------------------------
(* Properties.                                                             *)

\* What CTxMemPool::check asserts, at every place that calls it: mapNextTx is the
\* inverse of the inputs of mapTx, every input is an output of the pool or an
\* unspent output of the chain, and the whole pool could follow the tip: the
\* transactions can be put in an order in which each one passes CheckInputs, the
\* maturity of coinbases included.  It has to survive every reorganisation.
PoolCheck ==
    task.op # "disconnect" =>
        /\ chainActive = coinsTip
        /\ DOMAIN pool.mapNextTx = UNION {TxIn[t] : t \in pool.mapTx}
        /\ \A t \in pool.mapTx : \A o \in TxIn[t] : pool.mapNextTx[o] = t
        /\ \A t \in pool.mapTx : /\ HaveInputs(pool, coinsTip, t)
                                 /\ MatureInputs(coinsTip, t)
                                 /\ t \notin Confirmed[coinsTip]

\* CTxMemPool::remove and its callers evict only what cannot stay: a transaction
\* leaves the pool because the chain now has it, because one of its inputs is
\* neither in the chain nor in the pool any more, or because it spends a coinbase
\* that is immature again.
EvictedOnlyIfDead ==
    [][\A t \in pool.mapTx \ pool'.mapTx :
          \/ t \in Confirmed[coinsTip']
          \/ ~HaveInputs(pool', coinsTip', t)
          \/ ~MatureInputs(coinsTip', t)]_poolVars

\* The two orphan maps agree in every state: mapOrphanTransactionsByPrev holds
\* exactly the orphans under exactly their parents and no empty set, so that the
\* "tx" handler never looks up an orphan that is gone; there are at most
\* -maxorphantx of them and each belongs to a peer that still has its CNodeState.
OrphansExact ==
    /\ byPrev = [h \in UNION {Parents(t) : t \in DOMAIN orphan} |->
                    {t \in DOMAIN orphan : h \in Parents(t)}]
    /\ Cardinality(DOMAIN orphan) <= nMaxOrphanTx
    /\ Range(orphan) \subseteq nodes
    /\ task.op = "orphans" => task.look \subseteq DOMAIN orphan

\* TestBlockValidity accepts the block CreateNewBlock has put together, which
\* throws otherwise: in the block's own order every input is there, unspent and
\* mature, and every transaction final.  And when no limit kept one out, the block
\* has every transaction of the pool that is final together with its ancestors:
\* the bookkeeping of setDependsOn loses none.
TemplateExact ==
    task.op = "template" =>
        /\ \A i \in DOMAIN task.vtx :
             /\ TxIn[task.vtx[i]] \subseteq ViewAfter(coinsTip, SubSeq(task.vtx, 1, i - 1))
             /\ MatureInputs(coinsTip, task.vtx[i])
             /\ IsFinalTx(task.vtx[i], HeightOf[coinsTip] + 1)
             /\ task.vtx[i] \notin Malformed \cup BadScript \cup Coinbase
        /\ (task.vecPriority = {} /\ ~task.fLimit) =>
             \A t \in pool.mapTx :
               t \in Range(task.vtx) <=> /\ IsFinalTx(t, HeightOf[coinsTip] + 1)
                                        /\ Parents(t) \cap pool.mapTx \subseteq Range(task.vtx)
=============================================================================
