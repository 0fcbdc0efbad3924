--------------------------- MODULE MCBlockConnect ---------------------------
(***************************************************************************)
(* A genesis block g, the chain b1 b2 b3, a fork c2 c3 on b1, and blocks on*)
(* b1 that each break one rule.  Amounts are small; a coinbase may be spent*)
(* one block after its own.                                                *)
(***************************************************************************)
EXTENDS BlockConnect, TLC

\* cb1 pays output 0; its output 1 is unspendable.  t1 splits it, t2 spends the
\* first half in the same block, t3 joins both halves.
MCTxIn ==
    [t \in TxId |->
        CASE t = "t1" -> << <<"cb1", 0>> >>
          [] t = "t2" -> << <<"t1", 0>> >>
          [] t = "t3" -> << <<"t1", 1>>, <<"t2", 0>> >>
          [] t = "twice" -> << <<"t1", 1>>, <<"t1", 1>> >>
          [] t = "mint" -> << <<"cb1", 0>> >>
          [] t = "early" -> << <<"cb2", 0>> >>
          [] OTHER -> <<>>]

MCTxOut ==
    [t \in TxId |->
        CASE t = "cb1" -> <<5, 0>>
          [] t = "t1" -> <<2, 1>>
          [] t = "t2" -> <<2, Spent>>
          [] t = "t3" -> <<3, Spent>>
          [] t = "twice" -> <<2, Spent>>
          [] t = "mint" -> <<5, 1>>
          [] t = "early" -> <<1, Spent>>
          [] t = "cb2" -> <<3, Spent>>
          [] t = "cb3" -> <<1, Spent>>]

MCTxOut0 == [t \in TxId |-> [n \in Pos |-> MCTxOut[t][n + 1]]]

MCUnspendable == {<<"cb1", 1>>}

MCPrev ==
    [b \in BlockHash \ {"g"} |->
        CASE b = "b1" -> "g" [] b = "b3" -> "b2" [] b = "c3" -> "c2" [] OTHER -> "b1"]

\* c3 creates cb1 again, whose first occurrence is spent by then; "again" does so
\* while it is not.  cb2 takes the fee of t1 with its subsidy.
MCBlockTx ==
    [b \in BlockHash \ {"g"} |->
        CASE b = "b1" -> <<"cb1">>
          [] b = "b2" -> <<"cb2", "t1", "t2">>
          [] b = "b3" -> <<"cb3", "t3">>
          [] b = "c2" -> <<"cb2", "t1">>
          [] b = "c3" -> <<"cb1", "t2", "t3">>
          [] b = "again" -> <<"cb1">>
          [] b = "samein" -> <<"cb3", "t1", "twice">>
          [] b = "sametx" -> <<"cb3", "t1", "t1">>
          [] b = "greedy" -> <<"cb2">>
          [] b = "minter" -> <<"cb3", "mint">>
          [] b = "young" -> <<"cb2", "t1", "early">>
          [] b = "double" -> <<"cb3", "t1", "mint">>]

MCSubsidy == <<5, 1, 5>>
=============================================================================
