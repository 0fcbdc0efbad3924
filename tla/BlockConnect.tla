---------------------------- MODULE BlockConnect ----------------------------
(***************************************************************************)
(* Connecting and disconnecting blocks (main.cpp: ConnectBlock,            *)
(* DisconnectBlock, UpdateCoins, CheckInputs, ConnectTip, DisconnectTip) on*)
(* the stack of coin views of module CoinsCache, with the undo records that*)
(* take a block's transactions back.                                       *)
(*                                                                         *)
(* Which block is connected or disconnected next is ActivateBestChain's    *)
(* choice (module ChainState) and is open here: any block that extends the *)
(* tip, or the tip.  A step is one check of a transaction or one           *)
(* ModifyCoins, so that the caches are driven exactly as the code drives   *)
(* them.  Scripts are module CheckQueue's subject; here they are valid.    *)
(***************************************************************************)
EXTENDS CoinsCache, Sequences, FiniteSets, FiniteSetsExt, Functions

CONSTANTS TxIn,        \* [TxId -> Seq(TxId \X Pos)]: prevouts; <<>> is a coinbase
          TxOut,       \* [TxId -> [Pos -> Amount \cup {Spent}]]
          Unspendable, \* outputs <<t, n>> whose script can never be satisfied
          Prev,        \* [BlockHash \ {FirstBlock} -> BlockHash]
          BlockTx,     \* [BlockHash \ {FirstBlock} -> Seq(TxId)]
          COINBASE_MATURITY,
          Subsidy      \* [1 .. MaxHeight -> Nat]: GetBlockValue without the fees

VARIABLES undo,      \* the undo data the block index points to, if any
          undoDisk,  \* the part of it the block index on disk points to
          job,       \* the ConnectBlock or DisconnectBlock that is running
          failed     \* history: a write to the coin database has failed

vars == <<db, dbBlock, tip, tipBlock, view, viewOpen, undo, undoDisk, job, failed>>

\* The undo data of a block is a set of at most one sequence, a record per input
\* of each transaction but the coinbase.
NoUndo == {}
Idle == [op |-> "idle"]

Blocks == BlockHash \ {FirstBlock}

nHeight[b \in BlockHash] == IF b = FirstBlock THEN 0 ELSE 1 + nHeight[Prev[b]]

IsCoinBase(t) == TxIn[t] = <<>>
InputIds(t) == {TxIn[t][j][1] : j \in DOMAIN TxIn[t]}
SumOf(S, f(_)) == MapThenSumSet(f, S)
OutValue(v) == IF v = Spent THEN 0 ELSE v
GetValueOut(t) == SumOf(Pos, LAMBDA n : OutValue(TxOut[t][n]))

\* CCoins(tx, nHeight): FromTx and ClearUnspendable
FromTx(t, h) ==
    [fCoinBase |-> IsCoinBase(t),
     vout |-> [n \in Pos |-> IF <<t, n>> \in Unspendable THEN Spent ELSE TxOut[t][n]],
     nHeight |-> h]

\* CheckBlock and CheckTransaction: the first transaction and only the first is a
\* coinbase, no input twice in a transaction.  The merkle tree check, which finds
\* some repeated transactions, is left out: nothing here rests on it.
CheckTransaction(t) == IsInjective(TxIn[t])

CheckBlock(b) ==
    /\ \A i \in DOMAIN BlockTx[b] : IsCoinBase(BlockTx[b][i]) <=> i = 1
    /\ \A i \in DOMAIN BlockTx[b] : CheckTransaction(BlockTx[b][i])

\* Mutant: no BIP30.
NeverOverwrites(b) == FALSE

\* BIP30: no transaction of the block may overwrite coins that are not all spent
Overwrites(b) == \E i \in DOMAIN BlockTx[b] : ~IsPruned(ViewCoins(BlockTx[b][i]))

HaveInputs(t) ==
    \A j \in DOMAIN TxIn[t] : IsAvailable(ViewCoins(TxIn[t][j][1]), TxIn[t][j][2])

GetValueIn(t) ==
    SumOf(DOMAIN TxIn[t], LAMBDA j : ViewCoins(TxIn[t][j][1]).vout[TxIn[t][j][2]])

\* CheckInputs for a transaction of a block on top of the tip
CheckInputs(t) ==
    /\ \A j \in DOMAIN TxIn[t] :
           LET c == ViewCoins(TxIn[t][j][1])
           IN  c.fCoinBase => nHeight[TipBest] + 1 - c.nHeight >= COINBASE_MATURITY
    /\ GetValueIn(t) >= GetValueOut(t)

-----------------------------------------------------------------------------
Init ==
    /\ CacheInit
    /\ undo = [b \in Blocks |-> NoUndo]
    /\ undoDisk = undo
    /\ job = Idle
    /\ failed = FALSE

BookUnchanged == UNCHANGED <<undo, undoDisk, failed>>

CurrentTx == BlockTx[job.block][job.i]

(* ConnectTip, ConnectBlock *)

\* ConnectTip and TestBlockValidity make a view; fJustCheck is the latter's.
StartConnect(b, fJustCheck) ==
    /\ job = Idle
    /\ ~failed
    /\ Prev[b] = TipBest
    /\ CheckBlock(b)
    /\ OpenView
    /\ job' = [op |-> "bip30", block |-> b, just |-> fJustCheck, i |-> 1, j |-> 1,
               fees |-> 0, undo |-> <<>>]
    /\ BookUnchanged

CheckOverwrites ==
    /\ job.op = "bip30"
    /\ AccessView(Range(BlockTx[job.block]))
    /\ job' = [job EXCEPT !.op = IF Overwrites(job.block) THEN "refused" ELSE "check"]
    /\ BookUnchanged

\* HaveInputs, the fee and CheckInputs for transaction i; a coinbase skips them
CheckTx ==
    /\ job.op = "check"
    /\ AccessView(InputIds(CurrentTx))
    /\ IF IsCoinBase(CurrentTx)
       THEN job' = [job EXCEPT !.op = "update", !.j = 1]
       ELSE IF HaveInputs(CurrentTx) /\ CheckInputs(CurrentTx)
       THEN job' = [job EXCEPT !.op = "update", !.j = 1, !.undo = Append(@, <<>>),
                        !.fees = @ + GetValueIn(CurrentTx) - GetValueOut(CurrentTx)]
       ELSE job' = [job EXCEPT !.op = "refused"]
    /\ BookUnchanged

\* UpdateCoins: mark input j spent and record how to undo that
SpendInput ==
    /\ job.op = "update"
    /\ job.j \in DOMAIN TxIn[CurrentTx]
    /\ LET out == TxIn[CurrentTx][job.j]
           c == ViewCoins(out[1])
       IN  /\ ModifyView(out[1], SpentAt(c, out[2]))
           /\ job' = [job EXCEPT !.j = @ + 1,
                                 !.undo[job.i - 1] = Append(@, SpendUndo(c, out[2]))]
    /\ BookUnchanged

\* UpdateCoins: add the outputs
AddOutputs ==
    /\ job.op = "update"
    /\ job.j \notin DOMAIN TxIn[CurrentTx]
    /\ ModifyView(CurrentTx, FromTx(CurrentTx, nHeight[job.block]))
    /\ job' = [job EXCEPT !.op = IF job.i < Len(BlockTx[job.block])
                                 THEN "check" ELSE "reward",
                          !.i = @ + 1]
    /\ BookUnchanged

\* Mutant: the coinbase may pay anything.
NeverTooMuch == FALSE

\* The coinbase pays more than GetBlockValue
PaysTooMuch ==
    GetValueOut(BlockTx[job.block][1]) > Subsidy[nHeight[job.block]] + job.fees

\* Undo data is written unless the block has some from an earlier connection.
UndoWritten ==
    IF undo[job.block] = NoUndo THEN [undo EXCEPT ![job.block] = {job.undo}] ELSE undo

\* The end of ConnectBlock, with SetBestBlock; and ConnectTip flushes the view
\* into pcoinsTip.
FinishConnect ==
    /\ job.op = "reward"
    /\ ~PaysTooMuch
    /\ ~job.just
    /\ undo' = UndoWritten
    /\ CommitView(job.block)
    /\ job' = Idle
    /\ UNCHANGED <<undoDisk, failed>>

\* fJustCheck, or a check fails: the view is dropped.
GiveUp ==
    /\ \/ job.op = "refused"
       \/ job.op = "reward" /\ (job.just \/ PaysTooMuch)
    /\ DropView
    /\ job' = Idle
    /\ BookUnchanged

(* DisconnectTip, DisconnectBlock *)

StartDisconnect ==
    /\ job = Idle
    /\ ~failed
    /\ TipBest # FirstBlock
    /\ \E u \in undo[TipBest] : Len(u) + 1 = Len(BlockTx[TipBest])
    /\ OpenView
    /\ job' = [op |-> "remove", block |-> TipBest, i |-> Len(BlockTx[TipBest]),
               j |-> 0, clean |-> TRUE]
    /\ BookUnchanged

\* The outputs must be those of the block, and are cleared.
RemoveOutputs ==
    /\ job.op = "remove"
    /\ LET same == SameCoins(ViewCoins(CurrentTx), FromTx(CurrentTx, nHeight[job.block]))
       IN  job' = [job EXCEPT !.clean = @ /\ same, !.op = "restore",
                              !.j = IF job.i = 1 THEN 0 ELSE Len(TxIn[CurrentTx])]
    /\ ModifyView(CurrentTx, Empty)
    /\ BookUnchanged

\* Restore input j from the undo data, the last input first.
RestoreInput ==
    /\ job.op = "restore"
    /\ job.j > 0
    /\ \E blockUndo \in undo[job.block] :
       LET out == TxIn[CurrentTx][job.j]
           u == blockUndo[job.i - 1][job.j]
           c == ViewCoins(out[1])
       IN  /\ ModifyView(out[1], RestoredAt(c, out[2], u))
           /\ job' = [job EXCEPT !.j = @ - 1,
                                 !.clean = @ /\ RestoreIsClean(c, out[2], u)]
    /\ BookUnchanged

NextTxToRemove ==
    /\ job.op = "restore"
    /\ job.j = 0
    /\ job.i > 1
    /\ job' = [job EXCEPT !.op = "remove", !.i = @ - 1]
    /\ UNCHANGED cacheVars
    /\ BookUnchanged

\* SetBestBlock(pprev) and the Flush of DisconnectTip; an unclean view is dropped
FinishDisconnect ==
    /\ job.op = "restore"
    /\ job.j = 0
    /\ job.i = 1
    /\ IF job.clean THEN CommitView(Prev[job.block]) ELSE DropView
    /\ job' = Idle
    /\ BookUnchanged

(* FlushStateToDisk and the end of the process *)

\* The block index is written before the coins (module ChainState has the steps
\* in between).
FlushState ==
    /\ job = Idle
    /\ FlushTip
    /\ undoDisk' = undo
    /\ UNCHANGED <<undo, job, failed>>

FlushStateFails ==
    /\ job = Idle
    /\ ~failed
    /\ FlushTipFails
    /\ undoDisk' = undo
    /\ failed' = TRUE
    /\ UNCHANGED <<undo, job>>

Restart ==
    /\ Crash
    /\ undo' = undoDisk
    /\ job' = Idle
    /\ UNCHANGED <<undoDisk, failed>>

Next ==
    \/ \E b \in Blocks, fJustCheck \in BOOLEAN : StartConnect(b, fJustCheck)
    \/ CheckOverwrites
    \/ CheckTx
    \/ SpendInput
    \/ AddOutputs
    \/ FinishConnect
    \/ GiveUp
    \/ StartDisconnect
    \/ RemoveOutputs
    \/ RestoreInput
    \/ NextTxToRemove
    \/ FinishDisconnect
    \/ FlushState
    \/ FlushStateFails
    \/ Restart

Spec == Init /\ [][Next]_vars
-----------------------------------------------------------------------------
(* The reference: the unspent outputs of a chain, from its transactions alone *)

ChainTx[b \in BlockHash] ==
    IF b = FirstBlock THEN <<>>
    ELSE ChainTx[Prev[b]]
         \o [i \in DOMAIN BlockTx[b] |-> [tx |-> BlockTx[b][i], height |-> nHeight[b]]]

\* The coins of t: what its last occurrence created and nothing after it spent.
Utxo(b, t) ==
    LET made == {k \in DOMAIN ChainTx[b] : ChainTx[b][k].tx = t}
        last == Max(made)
        SpentLater(n) == \E k \in last + 1 .. Len(ChainTx[b]) :
                             <<t, n>> \in Range(TxIn[ChainTx[b][k].tx])
    IN  IF made = {} THEN Empty
        ELSE [FromTx(t, ChainTx[b][last].height) EXCEPT
                  !.vout = [n \in Pos |-> IF SpentLater(n) THEN Spent ELSE @[n]]]

UtxoTable == [b \in BlockHash |-> [t \in TxId |-> Utxo(b, t)]]

-----------------------------------------------------------------------------
(* Properties *)

\* pcoinsTip represents "the block hash whose state this CCoinsView currently
\* represents": through any connects, disconnects, refused blocks, flushes and
\* restarts its coins are exactly the unspent outputs of the chain to its block.
\* So does the database, and a restart at any moment finds coins and block that
\* belong together.
CoinsAreUtxo ==
    ~failed => \A t \in TxId : /\ SameCoins(TipCoins(t), UtxoTable[TipBest][t])
                               /\ SameCoins(db[t], UtxoTable[dbBlock][t])

\* UpdateCoins finds what the checks before it found.  Its assert(ret) holds: an
\* output that is about to be spent is there, although that was checked for all
\* the inputs at once.  And the outputs it writes replace no unspent output,
\* although the BIP30 check was made before the first transaction of the block.
UpdateCoinsSound ==
    job.op = "update" =>
        IF job.j \in DOMAIN TxIn[CurrentTx]
        THEN IsAvailable(ViewCoins(TxIn[CurrentTx][job.j][1]), TxIn[CurrentTx][job.j][2])
        ELSE IsPruned(ViewCoins(CurrentTx))

\* No money is made: the unspent outputs of the active chain are worth no more
\* than the subsidies of its blocks.
MoneySupply ==
    ~failed =>
        SumOf(TxId, LAMBDA t : SumOf(Pos, LAMBDA n : OutValue(TipCoins(t).vout[n])))
            <= SumOf(1 .. nHeight[TipBest], LAMBDA h : Subsidy[h])

\* DisconnectBlock never finds the database corrupted: outputs to remove are
\* those of the block and the undo records fit the coins they are applied to.
\* The tip can always be disconnected, and so can the tip a restart would find: a
\* block that is connected again keeps its old undo data (ConnectBlock writes
\* none), which is what this connection would have written.
Disconnectable ==
    /\ job.op \in {"remove", "restore"} => job.clean
    /\ TipBest # FirstBlock => undo[TipBest] # NoUndo
    /\ dbBlock # FirstBlock => undoDisk[dbBlock] # NoUndo
    /\ job.op = "reward" /\ undo[job.block] # NoUndo => undo[job.block] = {job.undo}

\* What coins.h says of GetBestBlock, of the database, write failures included.
DbRepresentsItsBlock == \A t \in TxId : SameCoins(db[t], UtxoTable[dbBlock][t])
=============================================================================
