--------------------------- MODULE BlockDownload ---------------------------
(***************************************************************************)
(* Fetching blocks from several peers at once (main.cpp: CNodeState,       *)
(* MarkBlockAsInFlight, MarkBlockAsReceived, FindNextBlocksToDownload, the *)
(* "inv", "headers" and "block" handlers and the part of SendMessages that *)
(* requests blocks and disconnects peers that stall).                      *)
(*                                                                         *)
(* One thread runs every handler and SendMessages, under cs_main: each is  *)
(* one action.  The socket thread closes and finalizes connections between *)
(* them.  Peers are full nodes and not one-shot; a node id is used for one *)
(* connection, as in the code.  The work of a chain is its height.         *)
(*                                                                         *)
(* Time is a choice: a timeout may or may not have passed when it is       *)
(* looked at, except that a peer in Answering answers in time.  A penalty  *)
(* below the ban score may or may not be the one that reaches it.          *)
(***************************************************************************)
EXTENDS Integers, Sequences, FiniteSets, SequencesExt, FiniteSetsExt

CONSTANTS Peer,        \* node ids
          Answering,   \* peers that stay connected and send what they are asked for
          Outbound,    \* peers we connected to: preferred for download
          Block,       \* block hashes, Genesis among them
          Genesis,
          Prev,        \* [Block \ {Genesis} -> Block]
          Invalid,     \* blocks that AcceptBlock finds invalid
          Announced,   \* blocks that are, at some time, a peer's best and announced
          None,        \* NULL, 0 or -1
          BLOCK_DOWNLOAD_WINDOW,
          MAX_BLOCKS_IN_TRANSIT_PER_PEER

ASSUME DownloadAssumption ==
    /\ Answering \subseteq Peer
    /\ Outbound \subseteq Peer
    /\ Genesis \in Block
    /\ Prev \in [Block \ {Genesis} -> Block]
    /\ Announced \subseteq Block \ {Genesis}
    /\ None \notin Peer \cup Block
    /\ BLOCK_DOWNLOAD_WINDOW \in Nat \ {0}
    /\ MAX_BLOCKS_IN_TRANSIT_PER_PEER \in Nat \ {0}

VARIABLES
    conn,      \* "none" yet, "connected" (in mapNodeState), "open" (version received), "gone"
    node,      \* [Peer -> CNodeState]
    mapBlocksInFlight,          \* [Block -> Peer \cup {None}]
    nQueuedValidatedHeaders,
    nPreferredDownload,
    nSyncStarted,
    index,     \* mapBlockIndex: blocks whose header is accepted
    data,      \* blocks with BLOCK_HAVE_DATA
    failed,    \* blocks with BLOCK_FAILED_VALID
    tip        \* chainActive.Tip()

vars == <<conn, node, mapBlocksInFlight, nQueuedValidatedHeaders, nPreferredDownload,
          nSyncStarted, index, data, failed, tip>>
chainVars == <<index, data, failed, tip>>

\* vBlocksInFlight is a set: its order only matters to the time of the oldest.
CNodeState ==
    [pindexBestKnownBlock : Block \cup {None},
     hashLastUnknownBlock : Block \cup {None},
     pindexLastCommonBlock : Block \cup {None},
     fSyncStarted : BOOLEAN,
     fStalling : BOOLEAN,        \* nStallingSince # 0
     vBlocksInFlight : SUBSET [hash : Block, fValidatedHeaders : BOOLEAN],
     nBlocksInFlight : Int,
     fPreferredDownload : BOOLEAN,
     fShouldBan : BOOLEAN,
     fAsked : BOOLEAN,           \* an answering peer has an unanswered getheaders message
     fDisconnect : BOOLEAN]

NewState ==
    [pindexBestKnownBlock |-> None, hashLastUnknownBlock |-> None,
     pindexLastCommonBlock |-> None, fSyncStarted |-> FALSE, fStalling |-> FALSE,
     vBlocksInFlight |-> {}, nBlocksInFlight |-> 0, fPreferredDownload |-> FALSE,
     fShouldBan |-> FALSE, fAsked |-> FALSE, fDisconnect |-> FALSE]

\* The keys of mapNodeState
InMap == {p \in Peer : conn[p] \in {"connected", "open"}}

\* The peers whose messages are handled and to whom messages are sent
Served == {p \in Peer : conn[p] = "open" /\ ~node[p].fDisconnect}

-----------------------------------------------------------------------------
(* The block tree *)

nHeight[b \in Block] == IF b = Genesis THEN 0 ELSE 1 + nHeight[Prev[b]]

AncestorsOf[b \in Block] ==
    IF b = Genesis THEN {Genesis} ELSE {b} \cup AncestorsOf[Prev[b]]

LastCommonAncestor(a, b) ==
    CHOOSE c \in AncestorsOf[a] \cap AncestorsOf[b] :
        \A d \in AncestorsOf[a] \cap AncestorsOf[b] : nHeight[d] <= nHeight[c]

\* nChainTx # 0: the block and all its ancestors have data
Linked(b) == AncestorsOf[b] \subseteq data

\* chainActive[h]
ActiveAt(h) == CHOOSE b \in AncestorsOf[tip] : nHeight[b] = h

\* The ancestors of b above height lo and up to height hi, lowest first
PathTo(b, lo, hi) ==
    [k \in 1 .. hi - lo |-> CHOOSE a \in AncestorsOf[b] : nHeight[a] = lo + k]

\* The longest chain without an invalid block: the one an answering peer has
Sound(b) == AncestorsOf[b] \cap Invalid = {}
Best == CHOOSE b \in Block : Sound(b) /\ \A c \in Block : Sound(c) => nHeight[c] <= nHeight[b]

-----------------------------------------------------------------------------
(* In-flight bookkeeping, on a record s of the three variables involved *)

Books == [node |-> node, map |-> mapBlocksInFlight, n |-> nQueuedValidatedHeaders]

SetBooks(s) ==
    /\ node' = s.node
    /\ mapBlocksInFlight' = s.map
    /\ nQueuedValidatedHeaders' = s.n

MarkBlockAsReceived(s, b) ==
    IF s.map[b] = None THEN s
    ELSE LET p == s.map[b]
             entry == CHOOSE e \in s.node[p].vBlocksInFlight : e.hash = b
         IN  [s EXCEPT !.n = @ - (IF entry.fValidatedHeaders THEN 1 ELSE 0),
                       !.node[p].vBlocksInFlight = @ \ {entry},
                       !.node[p].nBlocksInFlight = @ - 1,
                       !.node[p].fStalling = FALSE,
                       !.map[b] = None]

MarkBlockAsInFlight(s, p, b, validated) ==
    [MarkBlockAsReceived(s, b) EXCEPT
        !.n = @ + (IF validated THEN 1 ELSE 0),
        !.node[p].vBlocksInFlight = @ \cup {[hash |-> b, fValidatedHeaders |-> validated]},
        !.node[p].nBlocksInFlight = @ + 1,
        !.map[b] = p]

-----------------------------------------------------------------------------
(* What a peer is known to have, on its CNodeState st *)

BetterKnown(st, b) ==
    IF st.pindexBestKnownBlock = None \/ nHeight[b] >= nHeight[st.pindexBestKnownBlock]
    THEN [st EXCEPT !.pindexBestKnownBlock = b] ELSE st

ProcessBlockAvailability(st, idx) ==
    IF st.hashLastUnknownBlock \in idx
    THEN [BetterKnown(st, st.hashLastUnknownBlock) EXCEPT !.hashLastUnknownBlock = None]
    ELSE st

UpdateBlockAvailability(st, idx, b) ==
    LET st1 == ProcessBlockAvailability(st, idx)
    IN  IF b \in idx THEN BetterKnown(st1, b) ELSE [st1 EXCEPT !.hashLastUnknownBlock = b]

-----------------------------------------------------------------------------
(* FindNextBlocksToDownload *)

\* Neither downloaded nor in flight
Free(b) == b \notin data /\ mapBlocksInFlight[b] = None

\* Mutant: the last common block moves to any block that has data.
HighestStored(path, common) ==
    LET stored == {k \in DOMAIN path : path[k] \in data}
    IN  IF stored = {} THEN common ELSE path[Max(stored)]

\* The last block of the walk that has data and whose ancestors have (nChainTx)
HighestLinked(path, common) ==
    LET linked == {k \in DOMAIN path : Linked(path[k])}
    IN  IF linked = {} THEN common ELSE path[Max(linked)]

\* Mutant: the block just beyond the window is requested.
WindowPlusOne(common) == nHeight[common] + BLOCK_DOWNLOAD_WINDOW + 1

WindowEnd(common) == nHeight[common] + BLOCK_DOWNLOAD_WINDOW

\* The blocks the walk from common to best visits: one more than the window, and
\* none from the first invalid one on
WalkPath(common, best) ==
    LET path == PathTo(best, nHeight[common],
                       Min({nHeight[best], nHeight[common] + BLOCK_DOWNLOAD_WINDOW + 1}))
    IN  SelectSeq(path, LAMBDA b : AncestorsOf[b] \cap Range(path) \cap failed = {})

\* The peer waited for: the one that has the first block in flight, if the walk
\* finds nothing to fetch and would with a window one larger
Staller(p, path, fetch, nWindowEnd) ==
    LET inFlight == {k \in DOMAIN path : path[k] \notin data /\ ~Free(path[k])}
        waitingfor == IF inFlight = {} THEN None ELSE mapBlocksInFlight[path[Min(inFlight)]]
    IN  IF /\ fetch = <<>>
           /\ \E k \in DOMAIN path : Free(path[k]) /\ nHeight[path[k]] > nWindowEnd
           /\ waitingfor # p
        THEN waitingfor ELSE None

\* What the walk finds: the new pindexLastCommonBlock, at most count blocks to
\* fetch, lowest first, and the staller
Walk(p, common, path, count) ==
    LET fetch == SelectSeq(path, LAMBDA b : Free(b) /\ nHeight[b] <= WindowEnd(common))
    IN  [common |-> HighestLinked(path, common),
         fetch |-> SubSeq(fetch, 1, Min({count, Len(fetch)})),
         staller |-> Staller(p, path, fetch, WindowEnd(common))]

\* For the state st in which ProcessBlockAvailability has left the peer
FindNextBlocksToDownload(p, st, count) ==
    LET best == st.pindexBestKnownBlock
        guess == IF st.pindexLastCommonBlock # None THEN st.pindexLastCommonBlock
                 ELSE ActiveAt(Min({nHeight[best], nHeight[tip]}))
        common == LastCommonAncestor(guess, best)
        interesting == IF best = None THEN FALSE ELSE nHeight[best] >= nHeight[tip]
    IN  IF interesting THEN Walk(p, common, WalkPath(common, best), count)
        ELSE [common |-> st.pindexLastCommonBlock, fetch |-> <<>>, staller |-> None]

-----------------------------------------------------------------------------
(* Connections *)

Init ==
    /\ conn = [p \in Peer |-> "none"]
    /\ node = [p \in Peer |-> NewState]
    /\ mapBlocksInFlight = [b \in Block |-> None]
    /\ nQueuedValidatedHeaders = 0
    /\ nPreferredDownload = 0
    /\ nSyncStarted = 0
    /\ index = {Genesis}
    /\ data = {Genesis}
    /\ failed = {}
    /\ tip = Genesis

InitializeNode(p) ==
    /\ conn[p] = "none"
    /\ conn' = [conn EXCEPT ![p] = "connected"]
    /\ UNCHANGED <<node, mapBlocksInFlight, nQueuedValidatedHeaders, nPreferredDownload,
                   nSyncStarted, chainVars>>

\* The "version" handler, with UpdatePreferredDownload
Version(p) ==
    /\ conn[p] = "connected"
    /\ ~node[p].fDisconnect
    /\ conn' = [conn EXCEPT ![p] = "open"]
    /\ node' = [node EXCEPT ![p].fPreferredDownload = (p \in Outbound)]
    /\ nPreferredDownload' = nPreferredDownload + (IF p \in Outbound THEN 1 ELSE 0)
    /\ UNCHANGED <<mapBlocksInFlight, nQueuedValidatedHeaders, nSyncStarted, chainVars>>

\* The connection breaks: CloseSocketDisconnect
Drop(p) ==
    /\ p \in InMap \ Answering
    /\ ~node[p].fDisconnect
    /\ node' = [node EXCEPT ![p].fDisconnect = TRUE]
    /\ UNCHANGED <<conn, mapBlocksInFlight, nQueuedValidatedHeaders, nPreferredDownload,
                   nSyncStarted, chainVars>>

\* Mutant: the peer stays counted as the one headers are synced from.
FinalizeKeepsSync(p) ==
    /\ p \in InMap
    /\ node[p].fDisconnect
    /\ conn' = [conn EXCEPT ![p] = "gone"]
    /\ node' = [node EXCEPT ![p] = NewState]
    /\ mapBlocksInFlight' = [b \in Block |->
            IF \E e \in node[p].vBlocksInFlight : e.hash = b THEN None ELSE mapBlocksInFlight[b]]
    /\ nPreferredDownload' = nPreferredDownload - (IF node[p].fPreferredDownload THEN 1 ELSE 0)
    /\ UNCHANGED <<nSyncStarted, nQueuedValidatedHeaders, chainVars>>

\* nQueuedValidatedHeaders keeps counting the peer's blocks, as in the code.
FinalizeNode(p) ==
    /\ p \in InMap
    /\ node[p].fDisconnect
    /\ conn' = [conn EXCEPT ![p] = "gone"]
    /\ node' = [node EXCEPT ![p] = NewState]
    /\ mapBlocksInFlight' = [b \in Block |->
            IF \E e \in node[p].vBlocksInFlight : e.hash = b THEN None ELSE mapBlocksInFlight[b]]
    /\ nSyncStarted' = nSyncStarted - (IF node[p].fSyncStarted THEN 1 ELSE 0)
    /\ nPreferredDownload' = nPreferredDownload - (IF node[p].fPreferredDownload THEN 1 ELSE 0)
    /\ UNCHANGED <<nQueuedValidatedHeaders, chainVars>>

-----------------------------------------------------------------------------
(* Messages *)

\* Whether the announced block is requested at once, without its header: the
\* tip is near the present and the peer has a slot
FetchDirectly(st, near) == near /\ st.nBlocksInFlight < MAX_BLOCKS_IN_TRANSIT_PER_PEER

\* The "inv" handler, for a block
Inv(p, b, near) ==
    LET new == b \notin index /\ mapBlocksInFlight[b] = None
        st == UpdateBlockAvailability(node[p], index, b)
        s == [Books EXCEPT !.node[p] = [st EXCEPT !.fAsked = @ \/ (new /\ p \in Answering)]]
    IN  /\ p \in Served
        /\ p \in Answering => b = Best
        /\ SetBooks(IF new /\ FetchDirectly(st, near)
                    THEN MarkBlockAsInFlight(s, p, b, FALSE) ELSE s)
        /\ UNCHANGED <<conn, nPreferredDownload, nSyncStarted, chainVars>>

\* AcceptBlockHeader refuses the header of b
Refused(idx, b) ==
    \/ b \in failed
    \/ b \notin idx /\ (Prev[b] \notin idx \/ Prev[b] \in failed)

\* Misbehaving, for a refused header: nothing for a known one, 100 (a ban) for
\* an invalid parent and 10 for an unknown one
Punish(st, b, idx, reaches) ==
    [st EXCEPT !.fShouldBan = @ \/ (b \notin idx /\ (Prev[b] \in failed \/ reaches))]

AcceptHeaders(path) ==
    FoldLeft(LAMBDA a, h : IF a.refused # None THEN a
                           ELSE IF Refused(a.idx, h) THEN [a EXCEPT !.refused = h]
                           ELSE [a EXCEPT !.idx = @ \cup {h}],
             [idx |-> index, refused |-> None], path)

\* The "headers" handler: the headers of the ancestors of b above height lo
Headers(p, b, lo, reaches) ==
    LET a == AcceptHeaders(PathTo(b, lo, nHeight[b]))
        st == [node[p] EXCEPT !.fAsked = FALSE]
    IN  /\ p \in Served
        /\ lo < nHeight[b]
        /\ p \in Answering => /\ b = Best
                              /\ node[p].fAsked
                              /\ (CHOOSE c \in AncestorsOf[b] : nHeight[c] = lo) \in index
        /\ index' = a.idx
        /\ node' = [node EXCEPT ![p] =
               IF a.refused # None THEN Punish(st, a.refused, a.idx, reaches)
               ELSE UpdateBlockAvailability(st, a.idx, b)]
        /\ UNCHANGED <<conn, mapBlocksInFlight, nQueuedValidatedHeaders, nPreferredDownload,
                       nSyncStarted, data, failed, tip>>

\* The tips ActivateBestChain may choose when the blocks in d have data: it
\* stays on the current one unless another chain has more work
BestTips(d) ==
    LET linked == {b \in d : AncestorsOf[b] \subseteq d}
        top == Max({nHeight[b] : b \in linked})
    IN  IF nHeight[tip] = top THEN {tip} ELSE {b \in linked : nHeight[b] = top}

\* The "block" handler: ProcessNewBlock, AcceptBlock, ActivateBestChain.  A
\* body that is not intact fails CheckBlock, which the peer is banned for.
BlockMessage(p, b, intact, reaches) ==
    LET s == MarkBlockAsReceived(Books, b)
    IN  /\ p \in Served
        /\ p \in Answering => /\ intact
                              /\ mapBlocksInFlight[b] = p
                              /\ Prev[b] \in index
        /\ \/ /\ ~intact
              /\ SetBooks([s EXCEPT !.node[p].fShouldBan = TRUE])
              /\ UNCHANGED chainVars
           \/ /\ intact
              /\ Refused(index, b)
              /\ SetBooks([s EXCEPT !.node[p] = Punish(@, b, index, reaches)])
              /\ UNCHANGED chainVars
           \/ /\ intact
              /\ b \in data
              /\ SetBooks(s)
              /\ UNCHANGED chainVars
           \/ /\ intact
              /\ ~Refused(index, b) /\ b \notin data /\ b \in Invalid
              /\ SetBooks([s EXCEPT !.node[p].fShouldBan = @ \/ reaches])
              /\ index' = index \cup {b}
              /\ failed' = failed \cup {b}
              /\ UNCHANGED <<data, tip>>
           \/ /\ intact
              /\ ~Refused(index, b) /\ b \notin data /\ b \notin Invalid
              /\ SetBooks(s)
              /\ index' = index \cup {b}
              /\ data' = data \cup {b}
              /\ tip' \in BestTips(data')
              /\ UNCHANGED failed
        /\ UNCHANGED <<conn, nPreferredDownload, nSyncStarted>>

-----------------------------------------------------------------------------
(* SendMessages *)

\* Mutant: neither timeout is looked at.
NeverTooSlow(p, st, stalled, late) == FALSE

\* The peer has been stalling for BLOCK_STALLING_TIMEOUT (stalled), or its
\* oldest block in flight has timed out (late)
TooSlow(p, st, stalled, late) ==
    \/ stalled /\ st.fStalling
    \/ late /\ st.vBlocksInFlight # {}

\* "Start block sync": recent says that the best header is less than a day old
StartsSync(st, recent) ==
    /\ ~st.fSyncStarted
    /\ st.fPreferredDownload \/ nPreferredDownload = 0
    /\ nSyncStarted = 0 \/ recent

\* What SendMessages does before it requests blocks: bans, sync, timeouts
Housekeeping(p, st, stalled, late, recent) ==
    LET sync == StartsSync(st, recent)
    IN  [st EXCEPT !.fDisconnect = st.fShouldBan \/ TooSlow(p, st, stalled, late),
                   !.fShouldBan = FALSE,
                   !.fSyncStarted = @ \/ sync,
                   !.fAsked = @ \/ (sync /\ p \in Answering)]

\* Marking the blocks that were found as in flight, and the staller as stalling
Requested(p, st, w) ==
    LET s == FoldLeft(LAMBDA t, b : MarkBlockAsInFlight(t, p, b, TRUE),
                      [Books EXCEPT !.node[p] = [st EXCEPT !.pindexLastCommonBlock = w.common]],
                      w.fetch)
    IN  IF st.nBlocksInFlight = 0 /\ w.fetch = <<>> /\ w.staller # None
        THEN [s EXCEPT !.node[w.staller].fStalling = TRUE] ELSE s

RequestBlocks(p, st0) ==
    \E st \in {ProcessBlockAvailability(st0, index)} :
    \E w \in {FindNextBlocksToDownload(p, st,
                 MAX_BLOCKS_IN_TRANSIT_PER_PEER - st.nBlocksInFlight)} :
        SetBooks(Requested(p, st, w))

SendMessages(p, stalled, late, recent) ==
    /\ p \in Served
    /\ p \in Answering => ~stalled /\ ~late
    /\ nSyncStarted' = nSyncStarted + (IF StartsSync(node[p], recent) THEN 1 ELSE 0)
    /\ \E st \in {Housekeeping(p, node[p], stalled, late, recent)} :
         IF /\ ~st.fDisconnect
            /\ st.fPreferredDownload \/ nPreferredDownload = 0
            /\ st.nBlocksInFlight < MAX_BLOCKS_IN_TRANSIT_PER_PEER
         THEN RequestBlocks(p, st)
         ELSE SetBooks([Books EXCEPT !.node[p] = st])
    /\ UNCHANGED <<conn, nPreferredDownload, chainVars>>

-----------------------------------------------------------------------------

Next ==
    \E p \in Peer :
        \/ InitializeNode(p)
        \/ Version(p)
        \/ Drop(p)
        \/ FinalizeNode(p)
        \/ \E b \in Announced, near \in BOOLEAN : Inv(p, b, near)
        \/ \E b \in Announced, reaches \in BOOLEAN :
              \E lo \in 0 .. nHeight[b] - 1 : Headers(p, b, lo, reaches)
        \/ \E b \in Block \ {Genesis}, intact, reaches \in BOOLEAN :
              BlockMessage(p, b, intact, reaches)
        \/ \E stalled, late, recent \in BOOLEAN : SendMessages(p, stalled, late, recent)

Spec == Init /\ [][Next]_vars

\* The handler thread serves every peer again and again, and timeouts pass.
\* An answering peer connects, announces its best block and answers what it is
\* asked.  Nothing is assumed of what the other peers send.
Fairness ==
    /\ \A p \in Answering :
         /\ WF_vars(InitializeNode(p))
         /\ WF_vars(Version(p))
         /\ WF_vars(\E near \in BOOLEAN : Inv(p, Best, near))
         /\ WF_vars(\E lo \in 0 .. nHeight[Best] - 1 : Headers(p, Best, lo, FALSE))
         /\ \A b \in Block \ {Genesis} : WF_vars(BlockMessage(p, b, TRUE, FALSE))
         /\ WF_vars(\E recent \in BOOLEAN : SendMessages(p, FALSE, FALSE, recent))
    /\ \A p \in Peer \ Answering :
         /\ WF_vars(\E recent \in BOOLEAN : SendMessages(p, TRUE, TRUE, recent))
         /\ WF_vars(FinalizeNode(p))

FairSpec == Spec /\ Fairness

-----------------------------------------------------------------------------
(* Properties *)

\* mapBlocksInFlight and the lists of the connected peers say the same: an
\* entry of the map points into the list of a peer in mapNodeState (State() of
\* it is not NULL), no block is on two lists, and nBlocksInFlight is the
\* length of the list.  None of the blocks in flight is one we have: whoever
\* delivers it takes it off the list of the peer it was requested from.  And
\* nPreferredDownload and nSyncStarted count the peers in mapNodeState with the
\* flag set: a peer that leaves takes its share of everything with it.  No more
\* than MAX_BLOCKS_IN_TRANSIT_PER_PEER blocks are in flight from a peer, whichever
\* of "inv" and SendMessages requested them, and a peer whose stalling clock
\* runs (nStallingSince) owes us one.
BookkeepingExact ==
    /\ \A p \in Peer :
         /\ {e.hash : e \in node[p].vBlocksInFlight} = {b \in Block : mapBlocksInFlight[b] = p}
         /\ node[p].nBlocksInFlight = Cardinality(node[p].vBlocksInFlight)
         /\ node[p].nBlocksInFlight = Cardinality({b \in Block : mapBlocksInFlight[b] = p})
         /\ node[p].nBlocksInFlight <= MAX_BLOCKS_IN_TRANSIT_PER_PEER
         /\ node[p].fStalling => node[p].vBlocksInFlight # {}
    /\ \A b \in Block : mapBlocksInFlight[b] \in IF b \in data THEN {None}
                                                           ELSE InMap \cup {None}
    /\ nPreferredDownload = Cardinality({p \in InMap : node[p].fPreferredDownload})
    /\ nSyncStarted = Cardinality({p \in InMap : node[p].fSyncStarted})

\* Every block up to a peer's pindexLastCommonBlock has been downloaded, so
\* that the walk of FindNextBlocksToDownload, which starts there, skips no
\* missing block.
CommonIsLinked ==
    \A p \in Peer : LET c == node[p].pindexLastCommonBlock IN c # None => Linked(c)

\* A block in flight from one peer is never requested from another before the
\* first delivers or leaves; and a block requested for its header is within
\* BLOCK_DOWNLOAD_WINDOW of the last block in common with the peer, and not one
\* known to be invalid.
RequestsAllowed ==
    [][/\ \A b \in Block : mapBlocksInFlight[b] # None /\ mapBlocksInFlight'[b] # None
                             => mapBlocksInFlight'[b] = mapBlocksInFlight[b]
       /\ \A p \in Peer : \A e \in node'[p].vBlocksInFlight \ node[p].vBlocksInFlight :
            e.fValidatedHeaders =>
               /\ nHeight[e.hash] <= nHeight[node'[p].pindexLastCommonBlock] + BLOCK_DOWNLOAD_WINDOW
               /\ e.hash \notin failed]_vars

\* With one peer that answers, the best chain is downloaded and active in the
\* end, whatever the other peers announce, withhold, or have in flight: the
\* timeouts of SendMessages and FinalizeNode free what they hold.
Downloaded == <>(Linked(Best) /\ nHeight[tip] >= nHeight[Best])

\* nQueuedValidatedHeaders is, as its comment says, the number of blocks in
\* flight with validated headers.
QueuedCount ==
    nQueuedValidatedHeaders =
        Cardinality({b \in Block : \E p \in Peer : \E e \in node[p].vBlocksInFlight :
                        e.hash = b /\ e.fValidatedHeaders})
=============================================================================
