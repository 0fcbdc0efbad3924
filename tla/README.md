# A TLA+ verification of the MonetaryUnit node

MonetaryUnit is a full node derived from Bitcoin Core 0.10. This directory
models its stateful core in TLA+, checks the models with TLC on small instances,
and proves the most important invariants with TLAPS for all instances. Paths
below are relative to the node's source directory, `src/src/`.

## The system

| Part | Source | What it holds | Threads that reach it |
|---|---|---|---|
| Block index, active chain | `main.cpp`, `chain.h` | `mapBlockIndex`, `setBlockIndexCandidates`, `mapBlocksUnlinked`, `chainActive` | message handler, import, miner, RPC; `cs_main` |
| Coin views | `coins.*`, `txdb.*`, `undo.h` | `pcoinsTip` over LevelDB, scratch views | the holder of `cs_main` |
| Script check queue | `checkqueue.h` | a pool of worker threads under one mutex | the master (holds `cs_main`) and `-par` workers |
| Block download | `main.cpp` | `mapNodeState`, `mapBlocksInFlight` | message handler, socket thread; `cs_main` |
| Memory pool, orphans | `txmempool.*`, `main.cpp` | `mapTx`, `mapNextTx`, `mapOrphanTransactions` | as the block index; `cs` |
| Connections, addresses | `net.*`, `addrman.*`, `timedata.*` | sockets, `vNodes`, the new and tried tables, clock offset | socket, connect and message threads |
| Wallet | `wallet*`, `keystore.*`, `crypter.*`, `db.*` | keys, key pool, wallet transactions, Berkeley DB | RPC, GUI, validation callbacks; `cs_wallet` |
| Miner | `miner.cpp` | a block template | miner threads, RPC |
| Pure algorithms | `pow.cpp`, `chain.cpp`, `merkleblock.*`, `compressor.*`, `script/` | nothing | any |
| Front ends | `rpc*.cpp`, `rest.cpp`, `qt/`, `init.cpp` | options, formatting | their own |

A block travels through them in this order. A peer announces it; **block
download** asks one peer for it; the **block index** stores it, links it to its
ancestors, and makes the candidate with the most work active, one step at a time
with `cs_main` released in between; each step runs **ConnectBlock** on a scratch
view over the **coin caches** while the **check queue** verifies its scripts; a
flush writes the index first and the coins after it. The **memory pool** follows
the tip up and down, and the **miner** builds its templates from it. All of it
comes in over **connections**, to peers that the **address manager** suggests.
`PROJECT.json` lists every
part, modelled or not, and the hazards of each at the line where they bite.

## Modules

| Module | Models | TLC instance | Proofs |
|---|---|---|---|
| `CheckQueue` | `CCheckQueue`, `CCheckQueueControl` | `MCCheckQueue` | `CheckQueueProofs` |
| `ChainState` | the block index and the active chain | `MCChainState` | `ChainStateSteps`, `ChainStateExact`, `ChainStateExactSteps`, `ChainStateProofs` |
| `Coins` | `CCoins`, `CTxInUndo` | (extended by the next three) | |
| `CoinsCache` | `CCoinsViewCache`, `CCoinsViewDB` | `MCCoinsCache` | `CoinsCacheProofs` |
| `FlatCoins` | what the coin views promise (abstract) | refined by `CoinsCache` | |
| `BlockConnect` | `ConnectBlock`, `DisconnectBlock`, undo data; extends `CoinsCache` | `MCBlockConnect` | |
| `BlockDownload` | fetching blocks from several peers | `MCBlockDownload` | |
| `Mempool` | `CTxMemPool`, orphan transactions, `CreateNewBlock` | `MCMempool` in `MCNodeTraffic` | |
| `PeerLink` | two nodes and the TCP connection between them | `MCPeerLink` in `MCNodeTraffic` | |
| `Connections` | the life of a `CNode`, outbound slots | `MCNodeTraffic` | `ConnectionsProofs` |
| `AddrMan` | `CAddrMan` and peers.dat | `MCAddrMan` in `MCNodeData` | |
| `WalletKeys` | key pool, key store, encryption, wallet.dat | `MCWalletKeys` in `MCNodeData` | `WalletKeysProofs` |
| `BlockIndex` | skip pointers, `CChain`, locators | `MCNodeData` | |
| `Merkle` | Merkle roots, branches and partial trees | `MCNodeData` | |

`MCNodeData` and `MCNodeTraffic` put components that share no state in one run: a
variable `focus`, chosen in the initial state, says which of them moves.

### CheckQueue

The variables `queue`, `nIdle`, `nTotal`, `nTodo`, `fAllOk` are the members of the
class. `pc` and `vChecks` say where each thread of `Loop` is and which batch it
holds outside the mutex. One critical section is one action, so threads
interleave wherever the code lets go of the lock. Threads can wake up for no
reason, and can be interrupted (boost's `interrupt_all`) while they wait.
A check is a number and either passes or fails. The ghost `passed` records
which checks really ran, so that `Wait()`'s answer can be compared with it.

### ChainState

`nStatus` is a set of flags per block; `linked` is `nChainTx # 0`; `candidates`,
`unlinked`, `dirty`, `tip` are the globals; `diskStatus` and `diskBest` are the block
index database and the coin database's best block. A thread's `pc` says where
it is. Functions that loop under `cs_main` take one action per iteration, so that a
crash can find them halfway. The actions, with the functions they stand for:

| Actions | Code |
|---|---|
| `ProcessHeader`, `RefuseHeader` | `AcceptBlockHeader`, from a headers message |
| `AcceptDuplicate`, `RejectBlock`, `ReceiveBlock`, `LinkBlock` | `ProcessNewBlock`, `AcceptBlock`, `ReceivedBlockTransactions` |
| `DropFailedChain`, `NothingToDo`, `BeginStep` | `FindMostWorkChain` |
| `DisconnectTip`, `ConnectTip`, `ConnectTipFails`, `LoopCondition`, `EndActivate` | `ActivateBestChainStep`, `ActivateBestChain` |
| `InvalidateBlock`, `InvalidateTip`, `InvalidateDone` | `InvalidateBlock` |
| `ReconsiderBlock` | `ReconsiderBlock` |
| `FlushAlways`, `WriteBlockIndex`, `FlushCoins` | `FlushStateToDisk` |
| `Restart` | a crash, then `LoadBlockIndexDB` |

Which blocks are refused by `ContextualCheckBlock` (`Malformed`) or by `ConnectBlock`
(`Unconnectable`) is a constant. `WriteBlockIndex` writes one entry at a time in the
order of `setDirtyBlockIndex`, a set of pointers: the order is that of the
addresses, the constant `Addr`.

### Coins, CoinsCache, FlatCoins

A `CCoins` is a record of the outputs that are left, the height and the coinbase
flag. `CoinsCache` has the three layers the node really stacks: `db`, `tip`
(`pcoinsTip`) and `view` (the scratch view of one block), with the `DIRTY` and `FRESH`
flags of every cached entry. Its actions are opening a view (`OpenView`), reading
through either cache (`AccessView`, `AccessTip`), one `ModifyCoins` with the destructor
of its `CCoinsModifier` (`ModifyView`), `Flush` of either cache, which is `BatchWrite` of
the layer below (`CommitView`, `FlushTip`), dropping a view and a crash. `FlatCoins` is the promise in the
comments of `CCoinsView`: a map, a scratch copy that is committed as a whole or
forgotten, and a disk that holds an earlier committed map with its block.

### BlockConnect

`job` is the running `ConnectBlock` or `DisconnectBlock`: a step is one check of
one transaction or one `ModifyCoins` on the caches of `CoinsCache`, in the code's
order, with its early returns. `undo` is the undo file as the block index points
to it, `undoDisk` the part the index on disk points to. A flush (also the one at
shutdown), a flush that fails and a restart are actions. Which block comes next is open (any child of
the tip, or the tip itself), so that the result holds for every choice
`ChainState` makes.

### BlockDownload

`node[p]` is `CNodeState`; `mapBlocksInFlight`, `nQueuedValidatedHeaders`,
`nPreferredDownload`, `nSyncStarted` are the globals; `index`, `data`, `failed`, `tip` are
the part of `ChainState` that downloading depends on. A handler (`Version`, `Inv`,
`Headers`, `BlockMessage`) and `SendMessages` are one action each: one thread runs
them under `cs_main`. `Drop` and `FinalizeNode` are the socket thread's.
`FindNextBlocksToDownload`'s loop is written as what it selects: the first blocks
on the path to the peer's best block, inside the window, that are neither stored
nor in flight.

### Mempool

`pool` is `mapTx` with `mapNextTx`; `orphan` and `byPrev` are the two orphan maps;
`chainActive` and `coinsTip` are the tip and the block whose coins `pcoinsTip` holds,
which differ while `DisconnectTip` gives transactions back to the pool. The coins
are the unspent outputs of that block, which is what `CoinsAreUtxo` of
`BlockConnect` says. A handler that works through a list is one step per element and
`task` is its place in the list: the orphans that a new transaction frees, the
transactions of a disconnected block, and the priority queue of `CreateNewBlock`
with its dependencies (`LeaveOutTx`, `AddTxToBlock`). Fees, priorities, sizes and
standardness are a free choice.

### PeerLink

`link[n]` is the `CNode` that each of two nodes has for the other, with the bytes that
TCP has taken and not delivered. The socket thread selects (`Select`) and then
serves its choice (`Receive`, `Send`, or `ServeNothing` when the lock is taken or
nothing is ready), so that what it saw may be old; the message thread takes
`cs_vRecvMsg` or `cs_vSend` for one piece of work at a time (`ProcessMessages`,
`SendMessages`). TCP takes and gives any number of bytes that fits. Messages are
queued by `EndMessage`, cut by `SocketSendData` and put together by `ReceiveMsgBytes`.

### Connections

`cnode` are all nodes ever made, `vNodes` and `pooled` the two lists, `semOutbound` the
semaphore. The threads are the socket thread (`DisconnectNodes`, `DeleteNode`,
`AcceptConnection`, `CopyForSockets` to `ReleaseSockets`), the message thread and two that
open connections (`AcquireSlot` to `MarkNetworkNode`). `AddRef` in `ConnectNode` and
`CSemaphoreGrant::MoveTo` are outside every lock and take two steps.

### AddrMan, WalletKeys, BlockIndex, Merkle

`AddrMan` has the whole of `CAddrMan` in one record, with one action per public
operation that changes it (`Add`, `Good`, `GetAddr`, and `Restart`, which writes and reads
peers.dat). `Attempt_` and `Connected_` change times only. Hashes are constant tables.

`WalletKeys` takes one step per write to wallet.dat, so that a crash can come between
any two: topping up, reserving, keeping and returning keys of the pool, encrypting
the wallet, locking and unlocking it. `job` is what the holder of `cs_wallet` is doing.

`BlockIndex` grows a trunk and a branch block by block, builds the skip pointers
with the bit arithmetic of `GetSkipHeight`, and moves the tip with `SetTip`; its
walks are compared with the tree's own shape. `Merkle` has the three algorithms
over a free hash, bytes on the wire included: `CheckBlock` of a list of transactions,
and a merkleblock message that is written and read.

## Runs

Every run uses the definitions above as they stand. Times are with two workers.

| Run | Instance | What it shows |
|---|---|---|
| `check_queue` | 2 workers, 4 checks, batches of at most 2 | No check is lost or in two places (`TodoAccounting`), `Wait()` is the conjunction of the results (`WaitResult`) and returns (`WaitReturns`). |
| `chain_reorg` | 2 threads, branches a1 a2 and b1 b2 b3 on the genesis block, b2 cannot be connected | Whatever the order of arrival and the interleaving: `CheckBlockIndex` passes, the best valid chain ends up active (`BestChainActive`, `ValidChainActivated`), the order keys of the candidate set never change under it (`CandidateKeysStable`), activation ends. |
| `chain_operator` | 2 threads, two invalidations, one reconsideration, the same branches, a2 malformed | `PruneBlockIndexCandidates`' assertion (`CandidatesLeft`), no failed block in the chain (`ActiveChainValid`), and, before the first `reconsiderblock`, a candidate that is left and an exact index (`InvalidateIsExact`). |
| `chain_crash` | 1 thread, two flushes, two crashes | The disk always holds the index entries of the chain that the coin database describes (`DiskChainComplete`); the reload restores an exact index and the best chain (`RecoveryIsExact`). |
| `coins_cache` | 2 transactions, 1 output, 2 block hashes, symmetric in the transactions | The flags mean what `coins.h` says (`FlagsMean`), and the stack of caches implements `FlatCoins` (`FlatSpec`). |
| `block_connect` | 13 blocks, 9 transactions: in-block spends, a fork, a re-created coinbase, an unspendable output, and one block per rule that breaks it | Coins in memory and on disk are the unspent outputs of their own block's chain (`CoinsAreUtxo`); disconnecting is clean; `UpdateCoins`' assertion holds; no money is made. |
| `block_download` | 2 peers, one preferred, a fork with an invalid branch, window 1, two blocks in transit | The map and the lists of blocks in flight agree, counters count, the number in transit is respected and a stalling peer owes a block (`BookkeepingExact`); no walk starts above a missing block (`CommonIsLinked`); nobody is asked for what another peer owes. |
| `block_download_live` | 2 peers, one of which answers | The best chain is downloaded although the other peer may hold blocks back, send rubbish or leave. |
| `node_traffic`, mempool | 10 transactions that spend, double-spend, wait for each other or have a bad script, two branches of blocks, 2 peers, 3 orphans | `CTxMemPool::check` passes wherever it is called (`PoolCheck`), the orphan maps agree (`OrphansExact`), a template is valid and misses nothing it could have (`TemplateExact`), and a transaction leaves the pool only when it is confirmed or can no longer be (`EvictedOnlyIfDead`). |
| `node_traffic`, link | 2 symmetric nodes, each with one request of its own and two blocks to answer; every buffer holds about one message | Nothing of the byte stream is lost, repeated or reordered, wherever it is cut and whenever the connection breaks (`StreamExact`); the receive buffer stays within its limit and one read (`ReceiveBufferBounded`). |
| `node_traffic`, connections | one address, 2 symmetric threads that open connections, 2 nodes, 1 of them inbound | Reference counts and slots are exact (`RefsExact`, `SlotsExact`), with the exceptions below. |
| `node_data`, addrman | 4 services on 3 addresses, 3 sources, colliding places | What `Check_` verifies (`Check`), and that peers.dat brings back the same tables (`ReloadExact`). |
| `node_data`, wallet | 2 reserved keys, `-keypool=1`, 6 keys | No key that was given out is lost in a crash (`KeysRecoverable`); without encryption none is given out twice (`PlainPoolSound`). |
| `node_data`, index | heights to 24, forks at 0, 5 and 14 | Skip pointers and `SetTip`'s shortcut change no answer (`WalksExact`); locators find a recent common block (`LocatorNearFork`). |
| `node_data`, merkle | lists of up to 9 transactions, also with repeated ids | The three algorithms agree (`MerkleProofsExact`), and no two accepted lists have the same root (`RootIdentifiesBlock`). |
| `block_connect_write_fails`, `link_stall` | a small instance | Disagreements between code and comments: see below. |

### Why these bounds

* Two threads are the fewest that interleave. In `ChainState` `cs_main` makes more
  threads indistinguishable from two that take turns: what a thread carries
  across a release of the lock is `mostWork` and its `pc`.
* A reorganisation needs a branch that overtakes another by two blocks, to have
  an intermediate block that fails; that is the tree of `MCChainState`. With three
  blocks in a row, a block can arrive below one that was invalidated before it was
  linked.
* Two crashes let a reload start from a disk that an interrupted flush after an
  earlier reload has left.
* Two transactions are enough for the caches, whose entries are independent;
  the theorems below remove that bound.
* Window 1 and two blocks in transit make both limits bite on a chain of two.
* In the mempool instance a coinbase matures while a child that spends it waits, one
  transaction needs two unconfirmed parents, and two branches confirm
  transactions that exclude each other.
* A link needs a request that is answered with more than the buffers hold, in both
  directions at once; a header and a payload of one or two bytes have every cut.
* Two nodes and two opening threads are enough for one node to be found by one
  thread while the other is still at work on it.
* Skip pointers differ in pattern up to the height of a few powers of two; 24 is above
  16. Nine transactions make a Merkle tree with three odd levels in a row.
* `MaxKey` lets the key pool be emptied and refilled once; `MaxId` lets `vRandom` be
  renumbered with every place taken.
* `MaxRequests`, `MaxNodes`, `MaxKey`, `MaxId`, `MaxChecks`, `MaxHeight`, `MaxInvalidate`, `MaxReconsider`, `MaxFlushes`, `MaxCrashes` are
  the bounds that stand for something unbounded in the code.

### Deadlock

TLC checks for deadlock wherever the configuration does not say otherwise. The
`BlockDownload` configurations switch it off: every node id is used once, as
in the code, so a run ends when the last peer has left.

### Fairness

* `CheckQueue`: the operating system schedules every runnable thread. New checks,
  spurious wake-ups and interruptions need not happen.
* `ChainState`: a thread that is inside one of the functions keeps running. Nothing
  says that blocks arrive or that commands are given. The lock needs no strong
  fairness here: the functions between two releases are finite.
* `BlockDownload`: `ThreadMessageHandler` serves every peer in turn, and time passes,
  so that a timeout that is pending is eventually seen. A peer in `Answering`
  sends what it is asked for. Nothing is assumed of the others.

## Disagreements found

Two are runs whose one property TLC refutes; `PROJECT.json` quotes the lines.

* `block_connect_write_fails`: `CCoinsViewDB::BatchWrite` empties the cache while it
  fills the batch. If the write fails, the flush at shutdown can record the new
  best block without its coins.
* `link_stall`: a node with unsent data selects for sending only. Two nodes that each
  have more to send than TCP takes do not read from each other. "at least one of
  the following is always possible, so we don't deadlock" (`net.cpp:811`) is true of
  neither, until a timeout closes the connection or a `TRY_LOCK(cs_vSend)` happens
  to fail and the node reads for once.

Six more have a configuration of their own, with the command that shows each:

* `tlc -config ChainTornIndex.cfg MCChainState`: the index entries are written one by
  one, in the order of pointers. A crash can leave a child on disk without its
  parent; the reload then makes an empty parent, against `CheckBlockIndex`'s "must at
  least be TREE valid". `ChainState` stops there (`IndexIntact`): what the program does
  with such an index is not modelled.
* `tlc -config ChainInvalidateCrash.cfg MCChainState`: a flush inside `InvalidateBlock`
  followed by a crash leaves a tip marked failed and no candidate, and the
  assertion at the end of `PruneBlockIndexCandidates` fails at the next start.
* `tlc -config ChainInvalidateUnlinked.cfg MCChainState`: `invalidateblock` on a block
  that has its data and waits for its parent's. A child whose data comes afterwards is
  not put into `mapBlocksUnlinked`, because its parent is not valid, and so its
  `nChainTx` stays 0 when all data is there: against `CheckBlockIndex`'s
  `assert((pindexFirstMissing != NULL) == (pindex->nChainTx == 0))`. `LinkedExactly`
  excuses such blocks (`Excused`).
* `tlc -config BlockDownloadCount.cfg MCBlockDownload`: `FinalizeNode` does not take a
  leaving peer's blocks off `nQueuedValidatedHeaders`.
* `tlc -config WalletKeyReuse.cfg MCWalletKeys`: `TopUpKeyPool` counts on from the largest
  index in `setKeyPool`, which a reserved key is not in. When a locked wallet hands
  out its whole pool meanwhile, the index is written again, and `ReturnKey` makes a
  key available that was given out: against "so it won't be used again"
  (`wallet.cpp:1565`).
* `tlc -config ConnectionSlot.cfg Connections`: a node that is disconnected after
  `ConnectNode` has listed it and before `OpenNetworkConnection` has moved the grant
  and set `fNetworkNode` keeps both its slot and its last reference for ever, although
  the code says "release outbound grant (if any)" (`net.cpp:721`).

Smaller observations, by part:

* `Connections`: when two threads connect to one address, the second may find the
  first one's node in `ConnectNode`. It then counts the node up without a lock and
  moves its grant over the other's. A count or a slot can be lost, and the node can be
  deleted in between; the model has the failing assertion of `GetRefCount` and the
  dangling thread as actions. `RefsExact` leaves such nodes out, and `SlotsExact` speaks
  of the time before there is one.
* `Mempool`: an orphan with two missing parents is erased when the first arrives
  (`main.cpp:4040`). `DisconnectTip` judges `IsFinalTx` by the old tip's height, so that a
  transaction that is no longer final may return to the pool; `CreateNewBlock` skips it.
* `WalletKeys`: `KeepKey` of an index that was written again erases the new key's record,
  and a later read throws (`wallet.cpp:1812`). A key that is held across `EncryptWallet`
  can survive `NewKeyPool`, "Mark old keypool keys as used", and be in the pool after a
  restart. `PlainPoolSound` needs a pool of at least two keys.
* `AddrMan`: `Clear` leaves `mapInfo` and `mapAddr` as they are, which does no harm because
  the manager is still empty when it is called.
* `BlockDownload`: initial headers are asked of one peer, and nothing times that out:
  while it is silent, headers come only from a peer that announces a block.

Six more of `ChainState` can be seen by adding a property to a configuration. `ReconsiderBlock`
breaks each part of `CheckBlockIndex`, which is why `InvalidateIsExact` speaks of the
time before it: it does not make a cleared ancestor a candidate
(`CandidatesWhenQuiet`), it leaves a sibling marked as the child of a failed block
(`FailedHasCause`), and a block that arrived below a failed parent is never linked
(`LinkedExactly`). With b2 unconnectable and without b3, `ReconsiderBlock` can leave no
candidate at all, which is why `CandidatesLeft` speaks of the time before it. If a2's
entry lies below a1's and a1 is unconnectable, a crash between the two writes can leave
a2 marked as the child of a failed block that is not (`RecoveryIsExact`, with `-deadlock`). And with b1 unconnectable in `ChainReorg.cfg`,
`CandidatesWhenChecked` fails: `CheckBlockIndex`, called by one thread between two steps of
another's activation, meets a tip that is worse than blocks pruned before. Only
`-checkblockindex` makes that visible; the activation then goes on and repairs it
(`CandidatesWhenQuiet`).

## Proofs

All theorems are for every value of the constants that satisfies the named
assumptions, checked with Z3, Zenon and LS4. None of them uses fairness.

**CheckQueue** (`WorkerAssumption`, `CheckAssumption`, `BatchAssumption`: finitely many workers, any
number of checks, any positive batch size). `TypeCorrect`, `TodoCounted`,
`ControlFindsIdle`, `WaitIsConjunction`. The inductive invariant adds to the properties that
queued checks and batches are disjoint (`Shape`), that `nTotal` and `nIdle` count the
threads at work and blocked (`Counters`), and that the running results are those of
the checks no longer outstanding (`Results`). Every action ends in the shared
`Loop`, so the proof is about the middle of a critical section (`Mid`), which every
action reaches and from which `Loop` restores the invariant.

**ChainState** (any tree, work that grows along it, any addresses, any number of
threads, commands, flushes and crashes). Every safety property that a run checks is a
theorem; some of them hold only for a time, which the theorem names:

| Theorem | Says | As long as |
|---|---|---|
| `TypeCorrect`, `CandidatesAreUsable`, `DiskIsComplete`, `GoalStays`, `KeysAreStable` | types; the assertions of `FindMostWorkChain`; the order of the writes in `FlushStateToDisk`; the assertion of `PruneBlockIndexCandidates`; the keys of `setBlockIndexCandidates` | always |
| `ActiveIsValid` | `ActiveChainValid` | there was no crash or no `invalidateblock` (`Untorn`) |
| `CandidatesAreLeft` | `CandidatesLeft` | there was no crash, or no `invalidateblock` and entries lie above their parents' (`ParentsLower`) |
| `IndexIsChecked`, `BestIsActive` | `CheckBlockIndex`, `BestChainActive` | the same, and no `reconsiderblock` (`Orderly`) |
| `InvalidationIsExact` | `InvalidateIsExact` | there was no crash |
| `ReloadIsExact` | `RecoveryIsExact` | there was neither command, and `ParentsLower` (`Untouched`) |

"Disagreements found" shows what happens otherwise: a crash after `invalidateblock`
leaves a failed tip (`ChainInvalidateCrash.cfg`), `reconsiderblock` breaks the index, and
a child written before its parent can be reloaded without it (`ChainTornIndex.cfg`).
`ParentsLower` is how an allocator that only grows places the entries, and what
`ChainCrash.cfg` assumes.

The invariant `IInv` of `ChainStateSteps` rests on three facts: `cs_main` protects the
locals of its holder (`LockInv`); a block is linked only with its data and after its
parent, whichever of the two ways it comes in, and candidates are linked (`LinkInv`,
`StepInv`); `HAVE_DATA` and `HAVE_UNDO` are never cleared, and a block whose flags are
ahead of the disk's is dirty (`DiskInv`). `ChainStateSteps` goes through the actions;
`ChainStateExact` begins with the lemmas on trees and best elements that it takes to
say that `IInv` is inductive (`Inductive`).

`IInv` says what may be in the sets, not what must be. `ExactInv` of `ChainStateExact`
adds that. The lists have no duplicates, and no candidate sorts below the tip
(`ListInv`, `OrderInv`). Only `InvalidateBlock` on its way down has a failed block in the
active chain (`FlagInv`, `ValidInv`), and failure flags have a cause (`CauseInv`). Every
block with data is linked, or waits in the queue or in `mapBlocksUnlinked`, or is shut out
by a failed parent (`DataInv`). `CoverInv` makes the candidates suffice: one of them can
be connected to its end, and every valid block that sorts no worse is a candidate too.
The tip itself will not do for that one while a step goes down the old branch, since the
candidates were pruned for the old tip. `BestInv`: unless the tip is the best candidate,
some thread will still look for a better one or is making it active. `ChainStateExact`
has arrivals, `ChainStateExactSteps` linking, activation and commands.

A reload starts from what the disk says, so `ChainStateProofs` adds two invariants of
the disk. Without `invalidateblock` a failure flag, in memory or on disk, is on a
block that cannot be connected or descends from one, and undo data is only on sound
blocks (`SoundInv`). If parents are written first, the disk has with each failure flag
its cause, and the data of all ancestors if it has the block's (`TornInv`); for that
`TornInv` also says how far the disk may lag behind memory, where `FindMostWorkChain`
sets `FAILED_CHILD` without marking the block dirty. `FullInv`, all of this together, is
inductive (`FullInductive`).

**CoinsCache** (any number of transactions, outputs, amounts, heights).
`TypeCorrect`, `FlagsCorrect`, `AssertionHolds`, and `CachesAreInvisible`: `CacheSpec` implies
`FlatCoins`' specification under the mapping that reads every coin through the
layers. `FlagsMean` is not inductive: `BatchWrite` forgets a pruned entry that
`pcoinsTip` does not have, which is right only if the database does not have it
either. `Backed` supplies that: an entry of the view that is not FRESH has an entry
in `pcoinsTip` below it.

**Connections** (`ConnectionsAssumption`: finitely many threads that open connections, any
addresses, slots and number of nodes). `RefsExactSafety` and `SlotsExactSafety`.
`RefsExact` is not inductive: a thread between `ConnectNode` and
`OpenNetworkConnection` uses its node without a count of its own. `Pointers` says why that
is safe unless the node is found a second time: no other thread has the node, and as
long as it is not marked, "Disconnect nodes" does not release its count. `Lists` adds that
`vNodes` and `vNodesDisconnected` are disjoint. For `SlotsExact`, `SlotInv` adds that a waiting
thread has no slot and that a grant is moved only to a node without one, which
again rests on `Pointers`. `ConnTypes` has the types, which give every pointer a node.

**WalletKeys** (any number of reservations, any size of the pool, any number of keys,
crashes and passphrases). `KeysAreRecoverable` holds with no further assumption,
`PlainPoolIsSound` if `nTargetSize` is not 0. `KeysRecoverable` is about wallet.dat, and the keys
come from memory: `SafeInv` adds that memory has the keys that wallet.dat can give back,
encrypted or not as wallet.dat has them, except between the encryption in memory and the
commit, where wallet.dat still has them all in the clear. For `PlainPoolSound`, `PoolInv` says why
no index is written twice: the largest index that has a record is in `setKeyPool`, from
where `TopUpKeyPool` counts. It is never the one taken, because a wallet that is not locked
fills the pool to two keys first, and a crash puts all indices back. `PoolInv` has to hold
until the encryption is committed and not just until it begins, since a crash in between
returns to the plain wallet, and `KeepKey`, which takes no lock, may come in between.

Only model-checked: liveness (`WaitReturns`, `ActivationEnds`, `ValidChainActivated`,
`Downloaded`), which is out of the prover's reach; everything about `BlockConnect`, whose sums and
reference definition are recursive; everything about `BlockDownload` and `AddrMan`,
which fold over the blocks to request and the records of peers.dat, so that their
invariants need an induction over sequences; `Mempool`, `PeerLink`, `BlockIndex` and `Merkle`,
which have recursive operators.

## What is left out, and why

Of the modelled parts:

* `ChainState`: the genesis block is not invalidated; `pindexBestInvalid`,
  `pindexBestHeader` and `mapBlockSource` only feed warnings, header requests and peer
  scores; I/O errors stop the node. `nTx` and `nChainTx` are only compared with 0.
* `Coins`: `nVersion` travels with `nHeight`; serialization and statistics.
* `BlockConnect`: scripts (valid here, and `CheckQueue`'s subject), signature operation
  limits, `MoneyRange`, the transaction index, timing. `CheckBlock` does not require
  a block's transactions to be distinct, and neither does the model.
* `BlockDownload`: `fClient` and `fOneShot` peers; time is a choice; a penalty below the
  ban score may or may not be the one that reaches it; work is height; a block
  that fails only when it is connected is `ChainState`'s subject.
* `Mempool`: fees, priorities, sizes, the rate limit, `mapDeltas` and the fee estimator;
  `nLockTime` is a height, and 0 also stands for final inputs.
* `PeerLink`: checksums, malformed and oversized messages, errors of `select`, the
  `-dropmessagestest` and `-fuzzmessagestest` options; time, so that a connection may always
  be found inactive.
* `Connections`: how `ThreadOpenConnections` chooses an address, bans, one-shot
  connections, connections by name, `StopNode`.
* `AddrMan`: times and attempt counts, on which `IsTerrible` and `Select_` depend.
* `WalletKeys`: `ChangeWalletPassphrase`, imported keys, the size argument of
  `keypoolrefill`, a failing `TxnBegin`, `CDB::Rewrite`.
* `Merkle`: the bits of the bloom filter, which may match anything here.

### Not modelled

With the reason each time in `PROJECT.json`: the
script interpreter, serialization and hash functions are data-heavy
computations a model would have to copy; RPC, REST, GUI and command line are
formatting around operations of other parts; LevelDB, Berkeley DB and secp256k1 are
libraries (LevelDB appears as an atomic, durable batch); fee estimation and fork
warnings have no invariant of their own.

Alerts, the median of `timedata.cpp`, `limitedmap`, `mruset`, `GetNextWorkRequired` and
`GetBlockValue` are short sequential functions that the unit tests of the repository
reach as well as a model would. Block files and `VerifyDB` read and write bytes whose
contents are in `BlockConnect` already. Wallet transactions depend on amounts and
signatures, and Berkeley DB's environment on the library.

## Plan

In this order:

1. Proofs: `BookkeepingExact` of `BlockDownload` (the invariant
   adds `TypeOK` and that a peer outside `mapNodeState` owes nothing).
2. Composition of `Mempool` with the steps of `BlockConnect` in place of its coins.
3. `CompressAmount`, `GetNextWorkRequired`, block files and `VerifyDB`.
