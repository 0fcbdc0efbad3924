----------------------------- MODULE FlatCoins -----------------------------
(***************************************************************************)
(* What the coin views promise (the comments of class CCoinsView, coins.h):*)
(* the coins of the chain at `block' are a plain map, a scratch copy of it *)
(* can be changed and is then committed as a whole or forgotten, and the   *)
(* disk holds an earlier committed map together with its block.            *)
(***************************************************************************)
EXTENDS Coins

CONSTANTS TxId, BlockHash, FirstBlock

VARIABLES disk, diskBlock, coins, block, scratch, open

flatVars == <<disk, diskBlock, coins, block, scratch, open>>

Init ==
    /\ disk = [t \in TxId |-> Empty]
    /\ coins = disk
    /\ scratch = disk
    /\ diskBlock = FirstBlock
    /\ block = FirstBlock
    /\ open = FALSE

\* CCoinsViewCache view(pcoinsTip)
Open ==
    /\ ~open
    /\ open' = TRUE
    /\ UNCHANGED <<disk, diskBlock, coins, block, scratch>>

\* ModifyCoins
Modify(t, c) ==
    /\ open
    /\ scratch' = [scratch EXCEPT ![t] = Meaning(c)]
    /\ UNCHANGED <<disk, diskBlock, coins, block, open>>

\* SetBestBlock and Flush of the scratch view
Commit(b) ==
    /\ open
    /\ coins' = scratch
    /\ block' = b
    /\ open' = FALSE
    /\ UNCHANGED <<disk, diskBlock, scratch>>

\* The scratch view is destroyed
Drop ==
    /\ open
    /\ scratch' = coins
    /\ open' = FALSE
    /\ UNCHANGED <<disk, diskBlock, coins, block>>

\* Flush of pcoinsTip
Save ==
    /\ disk' = coins
    /\ diskBlock' = block
    /\ UNCHANGED <<coins, block, scratch, open>>

\* The process ends and starts again from the disk
Lose ==
    /\ coins' = disk
    /\ block' = diskBlock
    /\ scratch' = disk
    /\ open' = FALSE
    /\ UNCHANGED <<disk, diskBlock>>

Next ==
    \/ Open
    \/ \E t \in TxId, c \in CCoins : Modify(t, c)
    \/ \E b \in BlockHash : Commit(b)
    \/ Drop
    \/ Save
    \/ Lose

Spec == Init /\ [][Next]_flatVars
=============================================================================
