------------------------------ MODULE AddrMan ------------------------------
(***************************************************************************)
(* The address manager (addrman.h, addrman.cpp): a table of "new"          *)
(* addresses in which one address may stand at several places, a table of  *)
(* "tried" ones, and the indexes over both; and peers.dat, from which they *)
(* are rebuilt.                                                            *)
(*                                                                         *)
(* The hashes that place an address are constants.  What depends on times, *)
(* attempt counts or random numbers (IsTerrible, the refusals of Add_) is  *)
(* a free choice; Attempt_ and Connected_ change nothing else.             *)
(***************************************************************************)
EXTENDS Integers, Sequences, FiniteSets, SequencesExt, FiniteSetsExt, Functions

CONSTANTS
    Service,            \* CService: an address with its port
    NetAddr,            \* NetAddr[s]: the address without the port
    Source,             \* where knowledge of an address may come from
    Bucket, Position,   \* of the new table
    GetNewBucket,       \* GetNewBucket[s, src]
    GetBucketPosition,  \* GetBucketPosition[s, bucket], in the new table
    TriedSlot,          \* the places of the tried table
    GetTriedSlot,       \* GetTriedSlot[s]
    NEW_BUCKETS_PER_ADDRESS,
    MaxId               \* bound on nIdCount

ASSUME AddrManAssumption ==
    /\ DOMAIN NetAddr = Service
    /\ GetNewBucket \in [Service \X Source -> Bucket]
    /\ GetBucketPosition \in [Service \X Bucket -> Position]
    /\ GetTriedSlot \in [Service -> TriedSlot]
    /\ NEW_BUCKETS_PER_ADDRESS \in Nat \ {0}
    /\ MaxId \in Nat

VARIABLE am     \* the CAddrMan

addrVars == am

None == -1

\* Clear, and the constructor.
Empty ==
    [nIdCount |-> 0, mapInfo |-> <<>>, mapAddr |-> <<>>, vRandom |-> <<>>,
     nTried |-> 0, nNew |-> 0,
     vvTried |-> [k \in TriedSlot |-> None],
     vvNew |-> [u \in Bucket \X Position |-> None]]

\* m with the value v at key k.
Put(m, k, v) == [x \in DOMAIN m \cup {k} |-> IF x = k THEN v ELSE m[x]]

Without(m, k) == Restrict(m, DOMAIN m \ {k})

\* CAddrInfo::CAddrInfo; nLastSuccess is only compared with zero.
CAddrInfo(s, src) ==
    [addr |-> s, source |-> src, nLastSuccess |-> FALSE, nRefCount |-> 0,
     fInTried |-> FALSE, nRandomPos |-> None]

\* The place of an address in the new table when src told of it.
NewSlot(s, src) ==
    LET b == GetNewBucket[s, src] IN <<b, GetBucketPosition[s, b]>>

-----------------------------------------------------------------------------
\* An entry with the next id, at the end of vRandom (vRandom counts from 0).
Create(a, info) ==
    [a EXCEPT !.nIdCount = @ + 1,
              !.mapInfo = Put(@, a.nIdCount, [info EXCEPT !.nRandomPos = Len(a.vRandom)]),
              !.mapAddr = Put(@, NetAddr[info.addr], a.nIdCount),
              !.vRandom = Append(@, a.nIdCount)]

SwapRandom(a, pos1, pos2) ==
    LET id1 == a.vRandom[pos1 + 1]
        id2 == a.vRandom[pos2 + 1]
    IN  IF pos1 = pos2 THEN a
        ELSE [a EXCEPT !.mapInfo[id1].nRandomPos = pos2,
                       !.mapInfo[id2].nRandomPos = pos1,
                       !.vRandom[pos1 + 1] = id2,
                       !.vRandom[pos2 + 1] = id1]

Delete(a, nId) ==
    LET info    == a.mapInfo[nId]
        swapped == SwapRandom(a, info.nRandomPos, Len(a.vRandom) - 1)
    IN  [swapped EXCEPT !.vRandom = Front(@),
                        !.mapAddr = Without(@, NetAddr[info.addr]),
                        !.mapInfo = Without(@, nId),
                        !.nNew = @ - 1]

ClearNew(a, slot) ==
    LET nId == a.vvNew[slot]
    IN  IF nId = None THEN a
        ELSE LET cleared == [a EXCEPT !.mapInfo[nId].nRefCount = @ - 1,
                                      !.vvNew[slot] = None]
             IN  IF cleared.mapInfo[nId].nRefCount = 0 THEN Delete(cleared, nId)
                 ELSE cleared

\* One more place for nId in the new table.
Refer(a, nId, slot) ==
    [a EXCEPT !.mapInfo[nId].nRefCount = @ + 1, !.vvNew[slot] = nId]

\* The places of nId in the new table: one position per bucket is looked at.
NewSlotsOf(a, nId) ==
    {u \in DOMAIN a.vvNew : /\ u[2] = GetBucketPosition[a.mapInfo[nId].addr, u[1]]
                            /\ a.vvNew[u] = nId}

\* The first half of MakeTried for the entry in the way: back to the new table.
EvictTried(a, k) ==
    IF a.vvTried[k] = None THEN a
    ELSE LET old  == a.vvTried[k]
             info == a.mapInfo[old]
             slot == NewSlot(info.addr, info.source)
             out  == [a EXCEPT !.mapInfo[old].fInTried = FALSE,
                               !.vvTried[k] = None,
                               !.nTried = @ - 1]
         IN  [ClearNew(out, slot) EXCEPT !.mapInfo[old].nRefCount = 1,
                                         !.vvNew[slot] = old,
                                         !.nNew = @ + 1]

\* A MakeTried that forgets that one entry left the new table.
MakeTriedMiscounts(a, nId) ==
    LET slots == NewSlotsOf(a, nId)
        k     == GetTriedSlot[a.mapInfo[nId].addr]
        out   == [a EXCEPT !.vvNew = [u \in DOMAIN @ |-> IF u \in slots THEN None ELSE @[u]],
                           !.mapInfo[nId].nRefCount = @ - Cardinality(slots)]
    IN  [EvictTried(out, k) EXCEPT !.vvTried[k] = nId,
                                   !.nTried = @ + 1,
                                   !.mapInfo[nId].fInTried = TRUE]

MakeTried(a, nId) ==
    LET slots == NewSlotsOf(a, nId)
        k     == GetTriedSlot[a.mapInfo[nId].addr]
        out   == [a EXCEPT !.vvNew = [u \in DOMAIN @ |-> IF u \in slots THEN None ELSE @[u]],
                           !.mapInfo[nId].nRefCount = @ - Cardinality(slots),
                           !.nNew = @ - 1]
    IN  [EvictTried(out, k) EXCEPT !.vvTried[k] = nId,
                                   !.nTried = @ + 1,
                                   !.mapInfo[nId].fInTried = TRUE]

\* Add_ for an entry that has id nId: give it a place under `src'.  fTerrible is
\* what IsTerrible says of the entry in the way.
PlaceNew(a, nId, src, fTerrible) ==
    LET slot == NewSlot(a.mapInfo[nId].addr, src)
        old  == a.vvNew[slot]
        refs == a.mapInfo[nId].nRefCount
    IN  IF old = nId THEN a
        ELSE IF old = None \/ fTerrible \/ (a.mapInfo[old].nRefCount > 1 /\ refs = 0)
        THEN Refer(ClearNew(a, slot), nId, slot)
        ELSE IF refs = 0 THEN Delete(a, nId)
        ELSE a

\* Add_(addr, source).  An address that is known gets one more place, unless it is
\* tried, has its share, brings no news or loses the draw (then nothing changes).
Add(s, src) ==
    \E fTerrible \in BOOLEAN :
        \/ /\ NetAddr[s] \in DOMAIN am.mapAddr
           /\ LET nId == am.mapAddr[NetAddr[s]] IN
                /\ ~am.mapInfo[nId].fInTried
                /\ am.mapInfo[nId].nRefCount # NEW_BUCKETS_PER_ADDRESS
                /\ am' = PlaceNew(am, nId, src, fTerrible)
        \/ /\ NetAddr[s] \notin DOMAIN am.mapAddr
           /\ am.nIdCount < MaxId
           /\ am' = LET new == [Create(am, CAddrInfo(s, src)) EXCEPT !.nNew = @ + 1]
                    IN  PlaceNew(new, am.nIdCount, src, fTerrible)

\* Good_(addr): only for the very service that is known.
Good(s) ==
    /\ NetAddr[s] \in DOMAIN am.mapAddr
    /\ LET nId  == am.mapAddr[NetAddr[s]]
           good == [am EXCEPT !.mapInfo[nId].nLastSuccess = TRUE]
       IN  /\ am.mapInfo[nId].addr = s
           /\ am' = IF am.mapInfo[nId].fInTried \/ NewSlotsOf(am, nId) = {} THEN good
                    ELSE MakeTried(good, nId)

\* A round of the loop of GetAddr_: only vRandom is shuffled.
GetAddr(n, nRndPos) ==
    /\ n <= nRndPos /\ nRndPos < Len(am.vRandom)
    /\ am' = SwapRandom(am, n, nRndPos)

-----------------------------------------------------------------------------
(* peers.dat.                                                              *)

\* The entries of the ids in S, in the order of mapInfo, as they are written.
Written(a, S) ==
    LET ids == SetToSortSeq(S, <)
    IN  [i \in DOMAIN ids |->
            [CAddrInfo(a.mapInfo[ids[i]].addr, a.mapInfo[ids[i]].source)
                EXCEPT !.nLastSuccess = a.mapInfo[ids[i]].nLastSuccess]]

\* A Serialize whose mapUnkIds numbers the tried entries too.
SerializeMisnumbers(a) ==
    LET new == {n \in DOMAIN a.mapInfo : a.mapInfo[n].nRefCount # 0}
    IN  [new |-> Written(a, new),
         tried |-> Written(a, {n \in DOMAIN a.mapInfo : a.mapInfo[n].fInTried}),
         buckets |-> [b \in Bucket |->
            {Cardinality({m \in DOMAIN a.mapInfo : m < a.vvNew[u]}) :
                u \in {v \in DOMAIN a.vvNew : v[1] = b /\ a.vvNew[v] # None}}]]

\* CAddrMan::Serialize: the new entries, the tried entries, and per bucket the
\* numbers of the new entries in it (mapUnkIds).
Serialize(a) ==
    LET new == {n \in DOMAIN a.mapInfo : a.mapInfo[n].nRefCount # 0}
    IN  [new |-> Written(a, new),
         tried |-> Written(a, {n \in DOMAIN a.mapInfo : a.mapInfo[n].fInTried}),
         buckets |-> [b \in Bucket |->
            {Cardinality({m \in new : m < a.vvNew[u]}) :
                u \in {v \in DOMAIN a.vvNew : v[1] = b /\ a.vvNew[v] # None}}]]

ReadNew(a, info, fUsable) ==
    LET read == Create(a, info)
        slot == NewSlot(info.addr, info.source)
    IN  IF ~fUsable /\ read.vvNew[slot] = None THEN Refer(read, a.nIdCount, slot) ELSE read

ReadTried(a, info) ==
    LET k == GetTriedSlot[info.addr]
    IN  IF a.vvTried[k] # None THEN a
        ELSE [Create(a, [info EXCEPT !.fInTried = TRUE]) EXCEPT !.vvTried[k] = a.nIdCount,
                                                               !.nTried = @ + 1]

ReadPosition(a, b, nIndex) ==
    LET slot == <<b, GetBucketPosition[a.mapInfo[nIndex].addr, b]>>
    IN  IF ~(nIndex < a.nNew) THEN a
        ELSE IF a.vvNew[slot] = None /\ a.mapInfo[nIndex].nRefCount < NEW_BUCKETS_PER_ADDRESS
        THEN Refer(a, nIndex, slot) ELSE a

\* CAddrMan::Unserialize.  fUsable: the file was written with the same number of
\* buckets, so that its positions mean something here.
Unserialize(f, fUsable) ==
    LET new   == [FoldLeft(LAMBDA a, info : ReadNew(a, info, fUsable), Empty, f.new)
                     EXCEPT !.nNew = Len(f.new)]
        tried == FoldLeft(ReadTried, new, f.tried)
        places == UNION {{b} \X f.buckets[b] : b \in Bucket}
        full  == IF fUsable THEN FoldSet(LAMBDA x, a : ReadPosition(a, x[1], x[2]), tried, places)
                 ELSE tried
        lost  == {n \in DOMAIN full.mapInfo : ~full.mapInfo[n].fInTried
                                              /\ full.mapInfo[n].nRefCount = 0}
    IN  FoldLeft(Delete, full, SetToSortSeq(lost, <))

\* The node starts again, from what DumpAddresses wrote last.  The file replaces
\* the one before it at once (RenameOver), so it is the dump of one state of the
\* node; the states that followed it are lost.  Each state stands for itself here:
\* a restart from an older dump is a restart from that older state.
Restart ==
    \E fUsable \in BOOLEAN : am' = Unserialize(Serialize(am), fUsable)

-----------------------------------------------------------------------------
AddrInit == am = Empty

AddrNext ==
    \/ \E s \in Service, src \in Source : Add(s, src)
    \/ \E s \in Service : Good(s)
    \/ \E n, nRndPos \in 0 .. Len(am.vRandom) - 1 : GetAddr(n, nRndPos)
    \/ Restart

AddrSpec == AddrInit /\ [][AddrNext]_addrVars

-----------------------------------------------------------------------------
(* Properties.                                                             *)

\* What Check_ verifies after every operation (it is compiled in only with
\* DEBUG_ADDRMAN): the counters, both tables, mapAddr and vRandom all describe the
\* same entries; an entry is either tried, at its one place, with a success on
\* record, or new, with nRefCount the number of its places.  It rules out every
\* assert of addrman.cpp, and the endless loops of Select_ over an empty table.
Check ==
    LET Ids   == DOMAIN am.mapInfo
        Tried == {n \in Ids : am.mapInfo[n].fInTried}
    IN  /\ Len(am.vRandom) = am.nTried + am.nNew
        /\ Cardinality(Tried) = am.nTried
        /\ Cardinality(Ids \ Tried) = am.nNew
        /\ \A n \in Ids : LET info == am.mapInfo[n] IN
             /\ am.mapAddr[NetAddr[info.addr]] = n
             /\ info.nRandomPos \in 0 .. Len(am.vRandom) - 1
             /\ am.vRandom[info.nRandomPos + 1] = n
             /\ info.nRefCount = Cardinality({u \in DOMAIN am.vvNew : am.vvNew[u] = n})
             /\ IF info.fInTried
                THEN /\ info.nLastSuccess /\ info.nRefCount = 0
                     /\ {k \in TriedSlot : am.vvTried[k] = n} = {GetTriedSlot[info.addr]}
                ELSE info.nRefCount \in 1 .. NEW_BUCKETS_PER_ADDRESS
        /\ DOMAIN am.mapAddr = {NetAddr[am.mapInfo[n].addr] : n \in Ids}
        /\ \A k \in TriedSlot : am.vvTried[k] \in Tried \cup {None}
        /\ \A u \in DOMAIN am.vvNew : am.vvNew[u] # None =>
             /\ am.vvNew[u] \in Ids \ Tried
             /\ u[2] = GetBucketPosition[am.mapInfo[am.vvNew[u]].addr, u[1]]

\* The entry at every place of both tables, whatever its id.
EntryAt(a, n) ==
    IF n = None THEN <<>>
    ELSE <<a.mapInfo[n].addr, a.mapInfo[n].source, a.mapInfo[n].nLastSuccess>>

Contents(a) ==
    [new |-> [u \in DOMAIN a.vvNew |-> EntryAt(a, a.vvNew[u])],
     tried |-> [k \in TriedSlot |-> EntryAt(a, a.vvTried[k])]]

\* Serialize loses nothing that Unserialize needs: a node that is stopped and
\* started finds at every place of both tables the entry that was there, although
\* the ids, vRandom and the reference counts are all made anew.
ReloadExact == Contents(Unserialize(Serialize(am), TRUE)) = Contents(am)
=============================================================================
