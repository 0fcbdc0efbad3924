-------------------------- MODULE CoinsCacheProofs --------------------------
(***************************************************************************)
(* The flags of the coin caches mean what they say, and the caches are     *)
(* invisible: module CoinsCache implements module FlatCoins.               *)
(*                                                                         *)
(* FlagsMean alone is not inductive.  BatchWrite forgets a pruned entry    *)
(* that pcoinsTip does not have, which is right only if the database does  *)
(* not have it either; that follows from Backed: a view entry that is not  *)
(* FRESH has an entry in pcoinsTip below it.                               *)
(***************************************************************************)
EXTENDS CoinsCache, TLAPS

\* An entry that is not in the map has no coins and no flags.
Absent(e) == ~e.cached => e = NotCached

\* The strengthening, for one transaction
Backed(t) ==
    /\ Absent(tip[t])
    /\ Absent(view[t])
    /\ view[t].cached /\ "FRESH" \notin view[t].flags => tip[t].cached

\* The meaning of the flags, for one transaction
FlagsMeanAt(t) ==
    /\ "FRESH" \in tip[t].flags => IsPruned(db[t])
    /\ tip[t].cached /\ "DIRTY" \notin tip[t].flags => tip[t].coins = db[t]
    /\ "FRESH" \in view[t].flags => IsPruned(TipCoins(t))
    /\ view[t].cached /\ "DIRTY" \notin view[t].flags
           => view[t].coins = TipCoins(t)

Good(t) == Backed(t) /\ FlagsMeanAt(t)

CacheInv ==
    /\ CacheTypeOK
    /\ \A t \in TxId : Good(t)
    /\ ~viewOpen => view = NoneCached

-----------------------------------------------------------------------------
(* Types *)

\* Clear() makes a CCoins, and a pruned one.
LEMMA EmptyType == Empty \in CCoins /\ IsPruned(Empty)
  BY CoinsAssumption DEF Empty, CCoins, IsPruned, Pos

\* The constructors of cache entries make cache entries.
LEMMA EntryType ==
  /\ NotCached \in CacheEntry
  /\ \A c \in CCoins, f \in SUBSET Flags : Entry(c, f) \in CacheEntry
  /\ \A c \in CCoins : Meaning(c) \in CCoins /\ Pulled(c) \in CacheEntry
  BY EmptyType DEF NotCached, CacheEntry, Entry, Pulled, Flags, Meaning

\* FetchCoins on pcoinsTip and on the view returns entries.
LEMMA FetchType ==
  ASSUME CacheTypeOK, NEW t \in TxId
  PROVE  TipFetch(t) \in CacheEntry /\ ViewFetch(t) \in CacheEntry
  <1>1. /\ tip[t] \in CacheEntry /\ view[t] \in CacheEntry /\ db[t] \in CCoins
    BY DEF CacheTypeOK
  <1>2. TipFetch(t) \in CacheEntry
    BY <1>1, EntryType DEF TipFetch, Fetch
  <1>3. TipFetch(t).coins \in CCoins
    BY <1>2 DEF CacheEntry
  <1> QED
    BY <1>1, <1>2, <1>3, EntryType DEF ViewFetch, Fetch

-----------------------------------------------------------------------------
(* One transaction at a time *)

\* Reading through pcoinsTip changes no coins, keeps the flags' meaning and
\* leaves no gap below the view (FetchCoins).
LEMMA TipFetchGood ==
  ASSUME CacheTypeOK, NEW t \in TxId, Good(t)
  PROVE  LET e == TipFetch(t) IN
         /\ Absent(e)
         /\ tip[t].cached => e = tip[t]
         /\ "FRESH" \in e.flags => IsPruned(db[t])
         /\ e.cached /\ "DIRTY" \notin e.flags => e.coins = db[t]
         /\ (IF e.cached THEN e.coins ELSE db[t]) = TipCoins(t)
         /\ ~e.cached => IsPruned(db[t])
  BY DEF Good, Backed, FlagsMeanAt, Absent, TipFetch, Fetch, Pulled, Entry,
         TipCoins, NotCached

\* Reading through the view does the same for the view (FetchCoins).
LEMMA ViewFetchGood ==
  ASSUME CacheTypeOK, NEW t \in TxId, Good(t)
  PROVE  LET e == ViewFetch(t) IN
         /\ Absent(e)
         /\ view[t].cached => e = view[t]
         /\ "FRESH" \in e.flags => IsPruned(TipCoins(t))
         /\ e.cached /\ "DIRTY" \notin e.flags => e.coins = TipCoins(t)
         /\ e.cached /\ "FRESH" \notin e.flags => TipFetch(t).cached
         /\ (IF e.cached THEN e.coins ELSE TipCoins(t)) = ViewCoins(t)
  <1>1. /\ TipFetch(t).cached => TipFetch(t).coins = TipCoins(t)
        /\ tip[t].cached => TipFetch(t).cached
    BY TipFetchGood
  <1> QED
    BY <1>1 DEF Good, Backed, FlagsMeanAt, Absent, ViewFetch, Fetch, Pulled, Entry,
                ViewCoins, NotCached

\* AccessCoins and HaveCoins, on the view or on pcoinsTip, are invisible.
LEMMA AccessGood ==
  ASSUME CacheInv, NEW T \in SUBSET TxId, AccessView(T) \/ AccessTip(T)
  PROVE  /\ CacheInv'
         /\ \A t \in TxId : TipCoins(t)' = TipCoins(t) /\ ViewCoins(t)' = ViewCoins(t)
  <1>1. CacheTypeOK
    BY DEF CacheInv
  <1>2. tip' = FetchedTip(T) /\ UNCHANGED <<db, dbBlock, tipBlock, viewOpen>>
    BY DEF AccessView, AccessTip
  <1>3. view' = FetchedView(T) \/ view' = view
    BY DEF AccessView, AccessTip
  <1>4. FetchedTip(T) \in [TxId -> CacheEntry] /\ FetchedView(T) \in [TxId -> CacheEntry]
    BY <1>1, FetchType DEF FetchedTip, FetchedView, CacheTypeOK
  <1>5. CacheTypeOK'
    BY <1>1, <1>2, <1>3, <1>4 DEF CacheTypeOK
  <1>6. ASSUME NEW t \in TxId
        PROVE  Good(t)' /\ TipCoins(t)' = TipCoins(t) /\ ViewCoins(t)' = ViewCoins(t)
    <2>1. Good(t)
      BY DEF CacheInv
    <2>2. tip'[t] = tip[t] \/ tip'[t] = TipFetch(t)
      BY <1>2 DEF FetchedTip
    <2>3. view'[t] = view[t] \/ (view'[t] = ViewFetch(t) /\ tip'[t] = TipFetch(t))
      BY <1>2, <1>3 DEF FetchedTip, FetchedView, AccessView, AccessTip
    <2>4. TipCoins(t)' = TipCoins(t)
      BY <1>1, <1>2, <2>1, <2>2, TipFetchGood DEF TipCoins
    <2>5. ViewCoins(t)' = ViewCoins(t)
      BY <1>1, <2>1, <2>3, <2>4, ViewFetchGood DEF ViewCoins
    <2>6. tip[t].cached => tip'[t] = tip[t]
      BY <1>1, <2>1, <2>2, TipFetchGood
    <2>7. Backed(t)'
      BY <1>1, <2>1, <2>2, <2>3, <2>6, TipFetchGood, ViewFetchGood DEF Backed, Good
    <2>8. FlagsMeanAt(t)'
      BY <1>1, <1>2, <2>1, <2>2, <2>3, <2>4, TipFetchGood, ViewFetchGood
         DEF FlagsMeanAt, Good
    <2> QED
      BY <2>4, <2>5, <2>7, <2>8 DEF Good
  <1>7. (~viewOpen => view = NoneCached)'
    BY <1>2 DEF CacheInv, AccessView, AccessTip
  <1> QED
    BY <1>5, <1>6, <1>7 DEF CacheInv

\* ModifyCoins and the modifier's destructor change the coins of one
\* transaction, in the view only.
LEMMA ModifyGood ==
  ASSUME CacheInv, NEW t0 \in TxId, NEW c \in CCoins, ModifyView(t0, c)
  PROVE  /\ CacheInv'
         /\ \A t \in TxId : /\ TipCoins(t)' = TipCoins(t)
                            /\ t # t0 => ViewCoins(t)' = ViewCoins(t)
         /\ Meaning(ViewCoins(t0)') = Meaning(c)
  <1>1. CacheTypeOK /\ viewOpen
    BY DEF CacheInv, ModifyView
  <1>2. UNCHANGED <<db, dbBlock, tipBlock, viewOpen>>
    BY DEF ModifyView
  <1>a. PICK new : new = ModifyEntry(view[t0], TipFetch(t0).cached,
                                     TipFetch(t0).coins, c)
    OBVIOUS
  <1>3. view' = [view EXCEPT ![t0] = new]
    BY <1>a DEF ModifyView
  <1>4. tip' = (IF view[t0].cached THEN tip ELSE FetchedTip({t0}))
    BY DEF ModifyView
  <1>5. TipFetch(t0).coins \in CCoins /\ view[t0] \in CacheEntry
    BY <1>1, FetchType DEF CacheEntry, CacheTypeOK
  <1>6. new \in CacheEntry
    <2>a. PICK start : start = (IF view[t0].cached THEN view[t0]
                                ELSE IF TipFetch(t0).cached THEN Pulled(TipFetch(t0).coins)
                                ELSE Entry(Empty, {"FRESH"}))
      OBVIOUS
    <2>1. start \in CacheEntry
      BY <2>a, <1>5, EntryType, EmptyType DEF Flags
    <2>2. start.flags \cup {"DIRTY"} \in SUBSET Flags
      BY <2>1 DEF CacheEntry, Flags
    <2>3. new = NotCached \/ new = Entry(c, start.flags \cup {"DIRTY"})
      BY <1>a, <2>a DEF ModifyEntry
    <2> QED
      BY <2>2, <2>3, EntryType
  <1>7. CacheTypeOK'
    <2>1. tip' \in [TxId -> CacheEntry]
      BY <1>1, <1>4, FetchType DEF FetchedTip, CacheTypeOK
    <2>2. view' \in [TxId -> CacheEntry]
      BY <1>1, <1>3, <1>6 DEF CacheTypeOK
    <2> QED
      BY <1>1, <1>2, <2>1, <2>2 DEF CacheTypeOK
  <1>8. ASSUME NEW t \in TxId
        PROVE  /\ Backed(t)' /\ FlagsMeanAt(t)'
               /\ TipCoins(t)' = TipCoins(t)
               /\ t # t0 => ViewCoins(t)' = ViewCoins(t)
               /\ t = t0 => Meaning(ViewCoins(t)') = Meaning(c)
    <2>1. Good(t)
      BY DEF CacheInv
    <2>2. tip'[t] = tip[t] \/ tip'[t] = TipFetch(t)
      BY <1>4 DEF FetchedTip
    <2>3. TipCoins(t)' = TipCoins(t)
      BY <1>1, <1>2, <2>1, <2>2, TipFetchGood DEF TipCoins
    <2>4. tip[t].cached => tip'[t] = tip[t]
      BY <1>1, <2>1, <2>2, TipFetchGood
    <2>5. /\ Absent(tip'[t])
          /\ "FRESH" \in tip'[t].flags => IsPruned(db[t])
          /\ tip'[t].cached /\ "DIRTY" \notin tip'[t].flags => tip'[t].coins = db[t]
      BY <1>1, <2>1, <2>2, TipFetchGood DEF Good, Backed, FlagsMeanAt
    <2>6. CASE t # t0
      <3>1. view'[t] = view[t]
        BY <1>1, <1>3, <2>6 DEF CacheTypeOK
      <3> QED
        BY <1>2, <2>1, <2>3, <2>4, <2>5, <2>6, <3>1
           DEF Good, Backed, FlagsMeanAt, ViewCoins
    <2>7. CASE t = t0
      <3>1. view'[t] = new
        BY <1>1, <1>3, <2>7 DEF CacheTypeOK
      <3>2. ~view[t].cached => tip'[t] = TipFetch(t)
        BY <1>4, <2>7 DEF FetchedTip
      <3>3. /\ TipFetch(t).cached => TipFetch(t).coins = TipCoins(t)
            /\ ~TipFetch(t).cached => IsPruned(TipCoins(t))
        <4>1. /\ (IF TipFetch(t).cached THEN TipFetch(t).coins ELSE db[t]) = TipCoins(t)
              /\ ~TipFetch(t).cached => IsPruned(db[t])
          BY <1>1, <2>1, TipFetchGood
        <4> QED
          BY <4>1
      <3>4. \/ new = NotCached
            \/ new.coins = c /\ new.cached /\ "DIRTY" \in new.flags
        BY <1>a DEF ModifyEntry, Entry
      <3>5. "FRESH" \in new.flags => IsPruned(TipCoins(t))
        BY <1>a, <2>1, <2>7, <3>3
           DEF ModifyEntry, Entry, Pulled, NotCached, Good, FlagsMeanAt
      <3>6. new = NotCached => IsPruned(c) /\ IsPruned(TipCoins(t))
        BY <1>a, <2>1, <2>7, <3>3
           DEF ModifyEntry, Entry, Pulled, NotCached, Good, FlagsMeanAt
      <3>7. new.cached /\ "FRESH" \notin new.flags => tip'[t].cached
        BY <1>a, <2>1, <2>4, <2>7, <3>2, <3>3
           DEF ModifyEntry, Entry, Pulled, NotCached, Good, Backed
      <3>8. Backed(t)'
        BY <2>5, <3>1, <3>4, <3>7 DEF Backed, Absent
      <3>9. FlagsMeanAt(t)'
        BY <1>2, <2>3, <2>5, <3>1, <3>4, <3>5 DEF FlagsMeanAt, NotCached
      <3>10. Meaning(ViewCoins(t)') = Meaning(c)
        BY <2>3, <3>1, <3>4, <3>6 DEF ViewCoins, Meaning, NotCached
      <3> QED
        BY <2>3, <2>7, <3>8, <3>9, <3>10
    <2> QED
      BY <2>6, <2>7
  <1> QED
    BY <1>1, <1>2, <1>7, <1>8 DEF CacheInv, Good

\* view.Flush(): the view's coins become pcoinsTip's (BatchWrite).
LEMMA CommitGood ==
  ASSUME CacheInv, NEW b \in BlockHash, CommitView(b)
  PROVE  /\ CacheInv'
         /\ \A t \in TxId : /\ Meaning(TipCoins(t)') = Meaning(ViewCoins(t))
                            /\ Meaning(ViewCoins(t)') = Meaning(ViewCoins(t))
  <1>1. CacheTypeOK /\ viewOpen' = FALSE /\ view' = NoneCached
    BY DEF CacheInv, CommitView
  <1>2. UNCHANGED <<db, dbBlock>> /\ tipBlock' = b
    BY DEF CommitView
  <1>3. tip' = [t \in TxId |-> BatchWriteEntry(tip[t], view[t])]
    BY DEF CommitView
  <1>4. ASSUME NEW t \in TxId
        PROVE  BatchWriteEntry(tip[t], view[t]) \in CacheEntry
    <2>1. tip[t] \in CacheEntry /\ view[t] \in CacheEntry
      BY <1>1 DEF CacheTypeOK
    <2>2. /\ view[t].coins \in CCoins
          /\ tip[t].flags \cup {"DIRTY"} \in SUBSET Flags
          /\ {"DIRTY", "FRESH"} \in SUBSET Flags
      BY <2>1 DEF CacheEntry, Flags
    <2> QED
      BY <2>1, <2>2, EntryType DEF BatchWriteEntry
  <1>5. NoneCached \in [TxId -> CacheEntry]
    BY EntryType DEF NoneCached
  <1>6. CacheTypeOK'
    BY <1>1, <1>2, <1>3, <1>4, <1>5 DEF CacheTypeOK
  <1>7. ASSUME NEW t \in TxId
        PROVE  /\ Good(t)'
               /\ Meaning(TipCoins(t)') = Meaning(ViewCoins(t))
               /\ ViewCoins(t)' = TipCoins(t)'
    <2>1. Good(t) /\ view'[t] = NotCached
      BY <1>1 DEF CacheInv, NoneCached
    <2>2. tip'[t] = BatchWriteEntry(tip[t], view[t])
      BY <1>3
    <2>3. /\ Absent(tip'[t])
          /\ "FRESH" \in tip'[t].flags => IsPruned(db[t])
          /\ tip'[t].cached /\ "DIRTY" \notin tip'[t].flags => tip'[t].coins = db[t]
          /\ Meaning(TipCoins(t)') = Meaning(ViewCoins(t))
      <3>1. CASE "DIRTY" \notin view[t].flags
        <4>1. tip'[t] = tip[t]
          BY <2>2, <3>1 DEF BatchWriteEntry
        <4>2. ViewCoins(t) = TipCoins(t)
          BY <2>1, <3>1 DEF Good, FlagsMeanAt, ViewCoins
        <4> QED
          BY <1>2, <2>1, <4>1, <4>2 DEF Good, Backed, FlagsMeanAt, TipCoins
      <3>2. CASE "DIRTY" \in view[t].flags
        <4>1. view[t].cached
          BY <2>1, <3>2 DEF Good, Backed, Absent, NotCached
        <4>2. ViewCoins(t) = view[t].coins
          BY <4>1 DEF ViewCoins
        <4>3. CASE ~tip[t].cached
          <5>1. IsPruned(db[t]) /\ tip[t] = NotCached
            BY <2>1, <4>1, <4>3 DEF Good, Backed, FlagsMeanAt, TipCoins, Absent
          <5>2. CASE IsPruned(view[t].coins)
            <6>1. tip'[t] = NotCached
              BY <2>2, <3>2, <4>3, <5>1, <5>2 DEF BatchWriteEntry
            <6> QED
              BY <1>2, <4>2, <5>1, <5>2, <6>1 DEF Absent, NotCached, TipCoins, Meaning
          <5>3. CASE ~IsPruned(view[t].coins)
            <6>1. tip'[t] = Entry(view[t].coins, {"DIRTY", "FRESH"})
              BY <2>2, <3>2, <4>3, <5>3 DEF BatchWriteEntry
            <6> QED
              BY <1>2, <4>2, <5>1, <6>1 DEF Absent, Entry, TipCoins
          <5> QED
            BY <5>2, <5>3
        <4>4. CASE tip[t].cached
          <5>1. CASE "FRESH" \in tip[t].flags /\ IsPruned(view[t].coins)
            <6>1. tip'[t] = NotCached /\ IsPruned(db[t])
              BY <2>1, <2>2, <3>2, <4>4, <5>1 DEF BatchWriteEntry, Good, FlagsMeanAt
            <6> QED
              BY <1>2, <4>2, <5>1, <6>1 DEF Absent, NotCached, TipCoins, Meaning
          <5>2. CASE ~("FRESH" \in tip[t].flags /\ IsPruned(view[t].coins))
            <6>1. tip'[t] = Entry(view[t].coins, tip[t].flags \cup {"DIRTY"})
              BY <2>2, <3>2, <4>4, <5>2 DEF BatchWriteEntry
            <6>2. /\ tip'[t].cached
                  /\ tip'[t].coins = view[t].coins
                  /\ tip'[t].flags = tip[t].flags \cup {"DIRTY"}
              BY <6>1 DEF Entry
            <6>3. "FRESH" \in tip'[t].flags => IsPruned(db[t])
              BY <2>1, <6>2 DEF Good, FlagsMeanAt
            <6> QED
              BY <1>2, <4>2, <6>2, <6>3 DEF Absent, TipCoins
          <5> QED
            BY <5>1, <5>2
        <4> QED
          BY <4>3, <4>4
      <3> QED
        BY <3>1, <3>2
    <2>4. ViewCoins(t)' = TipCoins(t)'
      BY <2>1 DEF ViewCoins, NotCached
    <2>5. Good(t)'
      BY <1>2, <2>1, <2>3 DEF Good, Backed, FlagsMeanAt, Absent, NotCached
    <2> QED
      BY <2>3, <2>4, <2>5
  <1> QED
    BY <1>1, <1>6, <1>7 DEF CacheInv

\* Dropping the view, flushing pcoinsTip and a restart leave consistent caches.
LEMMA ResetGood ==
  ASSUME CacheInv, DropView \/ FlushTip \/ Crash
  PROVE  /\ CacheInv'
         /\ DropView => \A t \in TxId : /\ TipCoins(t)' = TipCoins(t)
                                        /\ ViewCoins(t)' = TipCoins(t)
         /\ FlushTip => \A t \in TxId : /\ Meaning(db'[t]) = Meaning(TipCoins(t))
                                        /\ TipCoins(t)' = db'[t]
                                        /\ ViewCoins(t)' = db'[t]
                                        /\ ViewCoins(t) = TipCoins(t)
         /\ Crash => \A t \in TxId : /\ TipCoins(t)' = db[t]
                                     /\ ViewCoins(t)' = db[t]
  <1>1. CacheTypeOK /\ NoneCached \in [TxId -> CacheEntry]
    BY EntryType DEF NoneCached, CacheInv
  <1>2. \A t \in TxId : NoneCached[t] = NotCached
    BY DEF NoneCached
  <1>3. CASE DropView
    <2>1. /\ view' = NoneCached /\ viewOpen' = FALSE
          /\ UNCHANGED <<db, dbBlock, tip, tipBlock>>
      BY <1>3 DEF DropView
    <2>2. CacheTypeOK'
      BY <1>1, <2>1 DEF CacheTypeOK
    <2>3. ASSUME NEW t \in TxId
          PROVE  /\ Good(t)' /\ TipCoins(t)' = TipCoins(t)
                 /\ ViewCoins(t)' = TipCoins(t)
      <3>1. view'[t] = NotCached /\ tip'[t] = tip[t] /\ db'[t] = db[t] /\ Good(t)
        BY <1>2, <2>1 DEF CacheInv
      <3>2. TipCoins(t)' = TipCoins(t) /\ ViewCoins(t)' = TipCoins(t)
        BY <2>1, <3>1 DEF TipCoins, ViewCoins, NotCached
      <3> QED
        BY <3>1, <3>2 DEF Good, Backed, FlagsMeanAt, Absent, NotCached
    <2>4. ~FlushTip /\ (Crash => tip' = NoneCached)
      BY <1>3 DEF DropView, FlushTip, Crash
    <2>5. Crash => \A t \in TxId : TipCoins(t)' = db[t] /\ ViewCoins(t)' = db[t]
      BY <1>2, <2>1, <2>4 DEF TipCoins, ViewCoins, NotCached
    <2> QED
      BY <2>1, <2>2, <2>3, <2>4, <2>5 DEF CacheInv
  <1>4. CASE FlushTip
    <2>1. /\ tip' = NoneCached /\ dbBlock' = BlockWritten
          /\ UNCHANGED <<tipBlock, view, viewOpen>> /\ ~viewOpen
          /\ db' = [t \in TxId |-> DbWriteEntry(db[t], tip[t])]
          /\ view = NoneCached
      BY <1>4 DEF FlushTip, CacheInv
    <2>2. ASSUME NEW t \in TxId
          PROVE  db'[t] \in CCoins /\ Meaning(db'[t]) = Meaning(TipCoins(t))
      <3>1. db[t] \in CCoins /\ tip[t] \in CacheEntry /\ tip[t].coins \in CCoins
        BY <1>1 DEF CacheTypeOK, CacheEntry
      <3>2. db'[t] = DbWriteEntry(db[t], tip[t])
        BY <2>1
      <3>3. CASE "DIRTY" \in tip[t].flags
        <4>1. tip[t].cached
          BY <3>3 DEF CacheInv, Good, Backed, Absent, NotCached
        <4> QED
          BY <3>1, <3>2, <3>3, <4>1, EntryType, EmptyType
             DEF DbWriteEntry, Meaning, TipCoins
      <3>4. CASE "DIRTY" \notin tip[t].flags
        BY <3>1, <3>2, <3>4 DEF DbWriteEntry, CacheInv, Good, FlagsMeanAt, TipCoins
      <3> QED
        BY <3>3, <3>4
    <2>3. BlockWritten \in BlockHash
      BY <1>1, CacheAssumption DEF BlockWritten, CacheTypeOK
    <2>4. db' \in [TxId -> CCoins]
      BY <2>1, <2>2
    <2>5. CacheTypeOK'
      BY <1>1, <2>1, <2>3, <2>4 DEF CacheTypeOK
    <2>6. ASSUME NEW t \in TxId
          PROVE  /\ Good(t)' /\ TipCoins(t)' = db'[t]
                 /\ ViewCoins(t)' = db'[t] /\ ViewCoins(t) = TipCoins(t)
      <3>1. tip'[t] = NotCached /\ view'[t] = NotCached /\ view[t] = NotCached
        BY <1>2, <2>1
      <3> QED
        BY <3>1 DEF Good, Backed, FlagsMeanAt, Absent, NotCached, TipCoins, ViewCoins
    <2>7. ~DropView /\ (Crash => db' = db)
      BY <2>1 DEF DropView, Crash
    <2> QED
      BY <2>1, <2>2, <2>5, <2>6, <2>7 DEF CacheInv
  <1>5. CASE Crash
    <2>1. /\ tip' = NoneCached /\ tipBlock' = NoBlock
          /\ view' = NoneCached /\ viewOpen' = FALSE
          /\ UNCHANGED <<db, dbBlock>>
      BY <1>5 DEF Crash
    <2>2. CacheTypeOK'
      BY <1>1, <2>1 DEF CacheTypeOK
    <2>3. ASSUME NEW t \in TxId
          PROVE  Good(t)' /\ TipCoins(t)' = db[t] /\ ViewCoins(t)' = db[t]
      <3>1. tip'[t] = NotCached /\ view'[t] = NotCached
        BY <1>2, <2>1
      <3> QED
        BY <2>1, <3>1 DEF Good, Backed, FlagsMeanAt, Absent, NotCached, TipCoins, ViewCoins
    <2>4. CacheInv'
      BY <2>1, <2>2, <2>3 DEF CacheInv
    <2> QED
      BY <1>3, <1>4, <2>3, <2>4
  <1> QED
    BY <1>3, <1>4, <1>5

-----------------------------------------------------------------------------
(* The theorems *)

\* A new chainstate starts with empty, consistent caches.
LEMMA InitGood == CacheInit => CacheInv
  <1> SUFFICES ASSUME CacheInit PROVE CacheInv
    OBVIOUS
  <1>1. CacheTypeOK
    BY EntryType, EmptyType, CacheAssumption DEF CacheInit, CacheTypeOK, NoneCached
  <1>2. ASSUME NEW t \in TxId PROVE Good(t)
    <2>1. tip[t] = NotCached /\ view[t] = NotCached
      BY DEF CacheInit, NoneCached
    <2> QED
      BY <2>1 DEF Good, Backed, FlagsMeanAt, Absent, NotCached
  <1> QED
    BY <1>1, <1>2 DEF CacheInv, CacheInit

\* Opening a view changes nothing but remembers pcoinsTip's block.
LEMMA OpenGood ==
  ASSUME CacheInv, OpenView
  PROVE  /\ CacheInv'
         /\ TipBest' = TipBest
         /\ \A t \in TxId : TipCoins(t)' = TipCoins(t) /\ ViewCoins(t)' = ViewCoins(t)
  <1>1. UNCHANGED <<db, dbBlock, tip, view>> /\ tipBlock' = TipBest /\ viewOpen' = TRUE
    BY DEF OpenView
  <1>2. TipBest \in BlockHash /\ TipBest # NoBlock
    BY CacheAssumption DEF CacheInv, CacheTypeOK, TipBest
  <1>3. CacheTypeOK'
    BY <1>1, <1>2 DEF CacheInv, CacheTypeOK
  <1>4. \A t \in TxId : Good(t)'
    BY <1>1 DEF CacheInv, Good, Backed, FlagsMeanAt, TipCoins
  <1> QED
    BY <1>1, <1>2, <1>3, <1>4 DEF CacheInv, TipBest, TipCoins, ViewCoins

\* Every step keeps the caches consistent.
LEMMA NextGood == CacheInv /\ [CacheNext]_cacheVars => CacheInv'
  <1> SUFFICES ASSUME CacheInv, [CacheNext]_cacheVars PROVE CacheInv'
    OBVIOUS
  <1>1. CASE UNCHANGED cacheVars
    BY <1>1 DEF cacheVars, CacheInv, CacheTypeOK, Good, Backed, FlagsMeanAt, TipCoins
  <1>2. CASE OpenView
    BY <1>2, OpenGood
  <1>3. CASE \E T \in SUBSET TxId : AccessView(T) \/ AccessTip(T)
    BY <1>3, AccessGood
  <1>4. CASE \E t \in TxId, c \in CCoins : ModifyView(t, c)
    BY <1>4, ModifyGood
  <1>5. CASE \E b \in BlockHash : CommitView(b)
    BY <1>5, CommitGood
  <1>6. CASE DropView \/ FlushTip \/ Crash
    BY <1>6, ResetGood
  <1> QED
    BY <1>1, <1>2, <1>3, <1>4, <1>5, <1>6 DEF CacheNext

\* The caches stay consistent for ever.
THEOREM Consistent == CacheSpec => []CacheInv
  BY InitGood, NextGood, PTL DEF CacheSpec

\* The members of the coin views keep their types.
THEOREM TypeCorrect == CacheSpec => []CacheTypeOK
  <1>1. CacheInv => CacheTypeOK
    BY DEF CacheInv
  <1> QED
    BY <1>1, Consistent, PTL

\* DIRTY and FRESH mean what coins.h says, for any number of transactions and
\* any coins.
THEOREM FlagsCorrect == CacheSpec => []FlagsMean
  <1>1. CacheInv => FlagsMean
    BY DEF CacheInv, Good, FlagsMeanAt, FlagsMean
  <1> QED
    BY <1>1, Consistent, PTL

\* The assertion in CCoinsViewCache::BatchWrite never fails.
THEOREM AssertionHolds == CacheSpec => []BatchWriteAssertion
  <1>1. CacheInv => BatchWriteAssertion
    BY DEF CacheInv, Good, Backed, BatchWriteAssertion, Absent, NotCached
  <1> QED
    BY <1>1, Consistent, PTL

\* The caches implement the flat map of coins: for every sequence of reads,
\* changes, commits, flushes and restarts, readers see what they would see
\* without any cache, and the disk has coins and block of one moment.
THEOREM CachesAreInvisible == CacheSpec => FlatSpec
  <1> DEFINE D == [t \in TxId |-> Meaning(db[t])]
             C == [t \in TxId |-> Meaning(TipCoins(t))]
             S == [t \in TxId |-> Meaning(ViewCoins(t))]
  <1>1. CacheInit => Flat!Init
    <2> SUFFICES ASSUME CacheInit PROVE Flat!Init
      OBVIOUS
    <2>1. ASSUME NEW t \in TxId
          PROVE  db[t] = Empty /\ TipCoins(t) = Empty /\ ViewCoins(t) = Empty
      BY DEF CacheInit, NoneCached, NotCached, TipCoins, ViewCoins
    <2>2. Meaning(Empty) = Empty
      BY DEF Meaning
    <2>3. D = [t \in TxId |-> Empty] /\ C = D /\ S = D
      BY <2>1, <2>2
    <2>4. dbBlock = FirstBlock /\ TipBest = FirstBlock /\ viewOpen = FALSE
      BY DEF CacheInit, TipBest
    <2> QED
      BY <2>3, <2>4 DEF Flat!Init, Flat!Empty, Flat!Pos, Flat!Spent, Empty, Pos, Spent
  <1>2. CacheInv /\ [CacheNext]_cacheVars => [Flat!Next]_(Flat!flatVars)
    <2> SUFFICES ASSUME CacheInv, [CacheNext]_cacheVars
                 PROVE  [Flat!Next]_(Flat!flatVars)
      OBVIOUS
    <2>a. /\ Flat!Empty = Empty /\ Flat!CCoins = CCoins
          /\ \A c : Flat!Meaning(c) = Meaning(c)
      BY DEF Flat!Empty, Flat!Pos, Flat!Spent, Empty, Pos, Spent, Flat!CCoins, CCoins,
             Flat!Meaning, Meaning, Flat!IsPruned, IsPruned
    <2>1. CASE UNCHANGED cacheVars
      BY <2>1 DEF cacheVars, Flat!flatVars, TipCoins, ViewCoins, TipBest
    <2>2. CASE OpenView
      <3>1. C' = C /\ S' = S /\ TipBest' = TipBest
        BY <2>2, OpenGood
      <3>2. D' = D /\ dbBlock' = dbBlock /\ ~viewOpen /\ viewOpen' = TRUE
        BY <2>2 DEF OpenView
      <3> QED
        BY <3>1, <3>2 DEF Flat!Next, Flat!Open
    <2>3. CASE \E T \in SUBSET TxId : AccessView(T) \/ AccessTip(T)
      <3>1. C' = C /\ S' = S
        BY <2>3, AccessGood
      <3>2. D' = D /\ dbBlock' = dbBlock /\ TipBest' = TipBest /\ viewOpen' = viewOpen
        BY <2>3 DEF AccessView, AccessTip, TipBest
      <3> QED
        BY <3>1, <3>2 DEF Flat!flatVars
    <2>4. ASSUME NEW t0 \in TxId, NEW c \in CCoins, ModifyView(t0, c)
          PROVE  Flat!Next
      <3>1. D' = D /\ dbBlock' = dbBlock /\ TipBest' = TipBest /\ viewOpen' = viewOpen
            /\ viewOpen
        BY <2>4 DEF ModifyView, TipBest
      <3>2. /\ \A t \in TxId : /\ TipCoins(t)' = TipCoins(t)
                               /\ t # t0 => ViewCoins(t)' = ViewCoins(t)
            /\ Meaning(ViewCoins(t0)') = Meaning(c)
        BY <2>4, ModifyGood
      <3>3. C' = C
        BY <3>2
      <3>4. S' = [S EXCEPT ![t0] = Meaning(c)]
        BY <3>2
      <3>5. Flat!Modify(t0, c)
        BY <2>a, <3>1, <3>3, <3>4 DEF Flat!Modify
      <3> QED
        BY <2>a, <3>5 DEF Flat!Next
    <2>5. ASSUME NEW b \in BlockHash, CommitView(b)
          PROVE  Flat!Next
      <3>1. D' = D /\ dbBlock' = dbBlock /\ viewOpen /\ viewOpen' = FALSE
        BY <2>5 DEF CommitView
      <3>2. TipBest' = b
        BY <2>5, CacheAssumption DEF CommitView, TipBest
      <3>3. C' = S /\ S' = S
        BY <2>5, CommitGood
      <3> QED
        BY <3>1, <3>2, <3>3 DEF Flat!Next, Flat!Commit
    <2>6. CASE DropView
      <3>1. D' = D /\ dbBlock' = dbBlock /\ TipBest' = TipBest /\ viewOpen
            /\ viewOpen' = FALSE
        BY <2>6 DEF DropView, TipBest
      <3>2. C' = C /\ S' = C
        BY <2>6, ResetGood
      <3> QED
        BY <3>1, <3>2 DEF Flat!Next, Flat!Drop
    <2>7. CASE FlushTip
      <3>1. dbBlock' = TipBest /\ TipBest' = TipBest /\ viewOpen' = viewOpen
        BY <2>7 DEF FlushTip, TipBest, BlockWritten
      <3>2. ASSUME NEW t \in TxId
            PROVE  /\ Meaning(db'[t]) = Meaning(TipCoins(t))
                   /\ Meaning(TipCoins(t)') = Meaning(TipCoins(t))
                   /\ Meaning(ViewCoins(t)') = Meaning(ViewCoins(t))
        BY <2>7, ResetGood
      <3>3. D' = C /\ C' = C /\ S' = S
        BY <3>2
      <3> QED
        BY <3>1, <3>3 DEF Flat!Next, Flat!Save
    <2>8. CASE Crash
      <3>1. D' = D /\ dbBlock' = dbBlock /\ TipBest' = dbBlock /\ viewOpen' = FALSE
        BY <2>8 DEF Crash, TipBest
      <3>2. C' = D /\ S' = D
        BY <2>8, ResetGood
      <3> QED
        BY <3>1, <3>2 DEF Flat!Next, Flat!Lose
    <2> QED
      BY <2>1, <2>2, <2>3, <2>4, <2>5, <2>6, <2>7, <2>8 DEF CacheNext
  <1> QED
    BY <1>1, <1>2, Consistent, PTL DEF CacheSpec, FlatSpec, Flat!Spec
=============================================================================
