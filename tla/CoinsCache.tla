----------------------------- MODULE CoinsCache -----------------------------
(***************************************************************************)
(* The stack of coin views (coins.cpp, txdb.cpp): a scratch                *)
(* CCoinsViewCache `view', open while a block is connected, disconnected or*)
(* tested, on top of the CCoinsViewCache pcoinsTip, on top of the LevelDB  *)
(* chainstate.  A cache reads through to its base and keeps what it read;  *)
(* Flush hands the DIRTY entries to the base.  The flags decide what is    *)
(* handed over and what may be forgotten, so a wrong flag loses coins or   *)
(* brings spent ones back.                                                 *)
(*                                                                         *)
(* All of it runs under cs_main.  A CCoinsModifier lives for one statement,*)
(* so ModifyCoins, the change and the modifier's destructor are one action.*)
(***************************************************************************)
EXTENDS Coins

CONSTANTS TxId,        \* transaction hashes
          BlockHash,   \* block hashes
          NoBlock,     \* uint256(0): "not read yet"
          FirstBlock   \* the block an initialised database is at

ASSUME CacheAssumption ==
    /\ NoBlock \notin BlockHash
    /\ FirstBlock \in BlockHash

VARIABLES db,        \* the coins on disk; a missing record is Empty
          dbBlock,   \* the best block on disk (key 'B')
          tip,       \* cacheCoins of pcoinsTip
          tipBlock,  \* hashBlock of pcoinsTip
          view,      \* cacheCoins of the scratch view
          viewOpen   \* whether there is a scratch view

cacheVars == <<db, dbBlock, tip, tipBlock, view, viewOpen>>

Flags == {"DIRTY", "FRESH"}
CacheEntry == [cached : BOOLEAN, coins : CCoins, flags : SUBSET Flags]
NotCached == [cached |-> FALSE, coins |-> Empty, flags |-> {}]
NoneCached == [t \in TxId |-> NotCached]
Entry(c, f) == [cached |-> TRUE, coins |-> c, flags |-> f]

CacheTypeOK ==
    /\ db \in [TxId -> CCoins]
    /\ dbBlock \in BlockHash
    /\ tip \in [TxId -> CacheEntry]
    /\ tipBlock \in BlockHash \cup {NoBlock}
    /\ view \in [TxId -> CacheEntry]
    /\ viewOpen \in BOOLEAN

-----------------------------------------------------------------------------
(* What a view answers *)

\* CCoinsViewCache::GetBestBlock
TipBest == IF tipBlock = NoBlock THEN dbBlock ELSE tipBlock

\* CCoinsViewCache::GetCoins of pcoinsTip and of the scratch view
TipCoins(t) == IF tip[t].cached THEN tip[t].coins ELSE db[t]
ViewCoins(t) == IF view[t].cached THEN view[t].coins ELSE TipCoins(t)

-----------------------------------------------------------------------------
(* Reading through *)

\* Mutant: every new entry is taken for FRESH.
AlwaysFresh(c) == Entry(c, {"FRESH"})

\* A new entry for what the base returned: FRESH if that is pruned.
Pulled(c) == Entry(c, IF IsPruned(c) THEN {"FRESH"} ELSE {})

\* FetchCoins on the entry e when the base does or does not have the coins c
Fetch(e, found, c) == IF e.cached \/ ~found THEN e ELSE Pulled(c)

\* CCoinsViewDB::GetCoins finds a record only for coins that are not pruned.
TipFetch(t) == Fetch(tip[t], ~IsPruned(db[t]), db[t])
ViewFetch(t) == Fetch(view[t], TipFetch(t).cached, TipFetch(t).coins)

FetchedTip(T) == [t \in TxId |-> IF t \in T THEN TipFetch(t) ELSE tip[t]]
FetchedView(T) == [t \in TxId |-> IF t \in T THEN ViewFetch(t) ELSE view[t]]

\* ModifyCoins on the entry e, then the change to c, then ~CCoinsModifier
ModifyEntry(e, found, base, c) ==
    LET start == IF e.cached THEN e
                 ELSE IF found THEN Pulled(base) ELSE Entry(Empty, {"FRESH"})
    IN  IF "FRESH" \in start.flags /\ IsPruned(c)
        THEN NotCached
        ELSE Entry(c, start.flags \cup {"DIRTY"})

\* Mutant: a pruned entry is forgotten although the database has the coins.
ForgetsPruned(us, e) ==
    IF "DIRTY" \notin e.flags THEN us
    ELSE IF IsPruned(e.coins) THEN NotCached
    ELSE Entry(e.coins, us.flags \cup {"DIRTY"})

\* CCoinsViewCache::BatchWrite for one entry: us is the base's, e the child's
BatchWriteEntry(us, e) ==
    IF "DIRTY" \notin e.flags THEN us
    ELSE IF ~us.cached
         THEN IF IsPruned(e.coins) THEN us ELSE Entry(e.coins, {"DIRTY", "FRESH"})
    ELSE IF "FRESH" \in us.flags /\ IsPruned(e.coins)
         THEN NotCached
         ELSE Entry(e.coins, us.flags \cup {"DIRTY"})

\* CCoinsViewDB::BatchWrite for one entry: pruned coins are erased
DbWriteEntry(c, e) == IF "DIRTY" \in e.flags THEN Meaning(e.coins) ELSE c

\* CCoinsViewDB::BatchWrite writes the best block only if the cache has one.
BlockWritten == IF tipBlock # NoBlock THEN tipBlock ELSE dbBlock

-----------------------------------------------------------------------------
(* Actions *)

CacheInit ==
    /\ db = [t \in TxId |-> Empty]
    /\ dbBlock = FirstBlock
    /\ tip = NoneCached
    /\ tipBlock = NoBlock
    /\ view = NoneCached
    /\ viewOpen = FALSE

\* CCoinsViewCache view(pcoinsTip), and the GetBestBlock every user starts with
OpenView ==
    /\ ~viewOpen
    /\ viewOpen' = TRUE
    /\ tipBlock' = TipBest
    /\ UNCHANGED <<db, dbBlock, tip, view>>

\* AccessCoins, HaveCoins and GetCoins through the scratch view
AccessView(T) ==
    /\ viewOpen
    /\ tip' = FetchedTip(T)
    /\ view' = FetchedView(T)
    /\ UNCHANGED <<db, dbBlock, tipBlock, viewOpen>>

\* AccessCoins on pcoinsTip itself (GetTransaction, the RPCs, the mempool)
AccessTip(T) ==
    /\ tip' = FetchedTip(T)
    /\ UNCHANGED <<db, dbBlock, tipBlock, view, viewOpen>>

\* ModifyCoins(t) through the scratch view, leaving the coins c
ModifyView(t, c) ==
    /\ viewOpen
    /\ tip' = IF view[t].cached THEN tip ELSE FetchedTip({t})
    /\ view' = [view EXCEPT ![t] = ModifyEntry(view[t], TipFetch(t).cached,
                                               TipFetch(t).coins, c)]
    /\ UNCHANGED <<db, dbBlock, tipBlock, viewOpen>>

\* view.SetBestBlock(b), view.Flush() and the end of the view's scope
CommitView(b) ==
    /\ viewOpen
    /\ tip' = [t \in TxId |-> BatchWriteEntry(tip[t], view[t])]
    /\ tipBlock' = b
    /\ view' = NoneCached
    /\ viewOpen' = FALSE
    /\ UNCHANGED <<db, dbBlock>>

\* The view goes out of scope without a Flush: the block was only tested, or
\* was refused.
DropView ==
    /\ viewOpen
    /\ view' = NoneCached
    /\ viewOpen' = FALSE
    /\ UNCHANGED <<db, dbBlock, tip, tipBlock>>

\* pcoinsTip->Flush() in FlushStateToDisk: one LevelDB batch
FlushTip ==
    /\ ~viewOpen
    /\ db' = [t \in TxId |-> DbWriteEntry(db[t], tip[t])]
    /\ dbBlock' = BlockWritten
    /\ tip' = NoneCached
    /\ UNCHANGED <<tipBlock, view, viewOpen>>

\* The same when LevelDB refuses the batch: BatchWrite has already emptied the
\* cache while it filled the batch, hashBlock stays, and state.Abort asks for a
\* shutdown.
FlushTipFails ==
    /\ ~viewOpen
    /\ tip' = NoneCached
    /\ UNCHANGED <<db, dbBlock, tipBlock, view, viewOpen>>

\* The process ends without a flush and starts again.
Crash ==
    /\ tip' = NoneCached
    /\ tipBlock' = NoBlock
    /\ view' = NoneCached
    /\ viewOpen' = FALSE
    /\ UNCHANGED <<db, dbBlock>>

CacheNext ==
    \/ OpenView
    \/ \E T \in SUBSET TxId : AccessView(T)
    \/ \E T \in SUBSET TxId : AccessTip(T)
    \/ \E t \in TxId, c \in CCoins : ModifyView(t, c)
    \/ \E b \in BlockHash : CommitView(b)
    \/ DropView
    \/ FlushTip
    \/ Crash

CacheSpec == CacheInit /\ [][CacheNext]_cacheVars
-----------------------------------------------------------------------------
(* Properties *)

\* The flags of a cache mean what coins.h says they mean.  "FRESH: The parent
\* view does not have this entry (or it is pruned)", and an entry without DIRTY
\* is not "potentially different from the version in the parent view".
FlagsMean ==
    \A t \in TxId :
        /\ "FRESH" \in tip[t].flags => IsPruned(db[t])
        /\ tip[t].cached /\ "DIRTY" \notin tip[t].flags => tip[t].coins = db[t]
        /\ "FRESH" \in view[t].flags => IsPruned(TipCoins(t))
        /\ view[t].cached /\ "DIRTY" \notin view[t].flags
               => view[t].coins = TipCoins(t)

\* The assertion in CCoinsViewCache::BatchWrite cannot fail, whenever the view
\* is flushed: a changed entry that pcoinsTip does not have is FRESH.
BatchWriteAssertion ==
    \A t \in TxId :
        ("DIRTY" \in view[t].flags /\ ~tip[t].cached /\ ~IsPruned(view[t].coins))
            => "FRESH" \in view[t].flags

\* The stack of caches is a flat map of coins with a scratch copy: caching,
\* pruning and flushing are invisible to its users (module FlatCoins).
Flat == INSTANCE FlatCoins WITH
            disk <- [t \in TxId |-> Meaning(db[t])],
            diskBlock <- dbBlock,
            coins <- [t \in TxId |-> Meaning(TipCoins(t))],
            block <- TipBest,
            scratch <- [t \in TxId |-> Meaning(ViewCoins(t))],
            open <- viewOpen

FlatSpec == Flat!Spec
=============================================================================
