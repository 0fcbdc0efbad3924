------------------------------- MODULE Coins -------------------------------
(***************************************************************************)
(* The unspent outputs of one transaction (class CCoins, coins.h and       *)
(* coins.cpp) and the undo record of one spent output (CTxInUndo, undo.h). *)
(*                                                                         *)
(* An output is the amount it pays, or Spent (CTxOut::SetNull).  vout is a *)
(* function on the output positions a transaction can have, so the trailing*)
(* null outputs that CCoins::Cleanup drops and the positions past the end  *)
(* of the vector are the same thing, as they are to every reader of a      *)
(* CCoins.  nVersion travels with nHeight everywhere and is left out.      *)
(***************************************************************************)
EXTENDS Integers

CONSTANTS NOut,      \* a transaction has at most NOut outputs
          Amount,    \* the amounts an output can pay
          MaxHeight  \* bound: the height of the highest block

ASSUME CoinsAssumption ==
    /\ NOut \in Nat \ {0}
    /\ Amount \subseteq Nat
    /\ MaxHeight \in Nat

Pos == 0 .. NOut - 1
Spent == -1

CCoins == [fCoinBase : BOOLEAN,
           vout : [Pos -> Amount \cup {Spent}],
           nHeight : 0 .. MaxHeight]

\* CCoins() and CCoins::Clear
Empty == [fCoinBase |-> FALSE, vout |-> [n \in Pos |-> Spent], nHeight |-> 0]

IsAvailable(c, n) == c.vout[n] # Spent

IsPruned(c) == \A n \in Pos : c.vout[n] = Spent

\* operator== : pruned CCoins are equal whatever their metadata
SameCoins(a, b) == a = b \/ (IsPruned(a) /\ IsPruned(b))

\* What a CCoins stands for: the metadata of a pruned one means nothing.
Meaning(c) == IF IsPruned(c) THEN Empty ELSE c

CTxInUndo == [txout : Amount, fCoinBase : BOOLEAN, nHeight : 0 .. MaxHeight]

\* CCoins::Spend: null the output; the coins left ...
SpentAt(c, n) == [c EXCEPT !.vout[n] = Spent]

\* Mutant: the metadata is recorded for every output.
UndoAlwaysFull(c, n) ==
    [txout |-> c.vout[n], fCoinBase |-> c.fCoinBase, nHeight |-> c.nHeight]

\* ... and the undo record, with the metadata when this was the last output.
SpendUndo(c, n) ==
    IF IsPruned(SpentAt(c, n))
    THEN [txout |-> c.vout[n], fCoinBase |-> c.fCoinBase, nHeight |-> c.nHeight]
    ELSE [txout |-> c.vout[n], fCoinBase |-> FALSE, nHeight |-> 0]

\* Mutant: the metadata of the record is not put back.
RestoredBare(c, n, undo) ==
    [(IF undo.nHeight # 0 THEN Empty ELSE c) EXCEPT !.vout[n] = undo.txout]

\* DisconnectBlock's "restore inputs": a record with a height starts over from
\* an empty CCoins with the recorded metadata.
RestoredAt(c, n, undo) ==
    LET start == IF undo.nHeight # 0
                 THEN [Empty EXCEPT !.fCoinBase = undo.fCoinBase,
                                    !.nHeight = undo.nHeight]
                 ELSE c
    IN  [start EXCEPT !.vout[n] = undo.txout]

\* DisconnectBlock's complaints about an undo record (fClean = false)
RestoreIsClean(c, n, undo) ==
    /\ (undo.nHeight # 0) <=> IsPruned(c)
    /\ undo.nHeight = 0 => ~IsAvailable(c, n)
=============================================================================
