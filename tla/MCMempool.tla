----------------------------- MODULE MCMempool -----------------------------
(***************************************************************************)
(* A small instance of Mempool.  Above three blocks of coinbases, two      *)
(* blocks confirm different spends of the first one: `a' (then `c') or     *)
(* `b'.  `c' spends `a' and the second coinbase, which matures a block     *)
(* later; `d' spends both outputs of `c' and one of `a' and is locked      *)
(* until `c' can be in a block; `e' spends `b' and is locked until `b' is  *)
(* confirmed; `x' spends `a' with a bad script.                            *)
(***************************************************************************)
EXTENDS Mempool

MCTx == {"cb1", "cb2", "cb3", "cb4", "a", "b", "c", "d", "e", "x"}

MCTxIn == [cb1 |-> {}, cb2 |-> {}, cb3 |-> {}, cb4 |-> {},
           a |-> {<<"cb1", 0>>},
           b |-> {<<"cb1", 0>>},
           c |-> {<<"a", 0>>, <<"cb2", 0>>},
           d |-> {<<"c", 0>>, <<"c", 1>>, <<"a", 1>>},
           e |-> {<<"b", 0>>},
           x |-> {<<"a", 1>>}]

MCTxOut == [cb1 |-> 1, cb2 |-> 1, cb3 |-> 1, cb4 |-> 1, a |-> 2, b |-> 1, c |-> 2, d |-> 1, e |-> 1, x |-> 1]

MCnLockTime == [t \in MCTx |-> CASE t = "d" -> 3 [] t = "e" -> 4 [] OTHER -> 0]

MCBlock == {"g", "b1", "b2", "b3", "b4", "c4"}
MCPrev == [b1 |-> "g", b2 |-> "b1", b3 |-> "b2", b4 |-> "b3", c4 |-> "b3"]
MCBlockTx == [b1 |-> <<"cb1">>, b2 |-> <<"cb2">>, b3 |-> <<"cb3">>,
              b4 |-> <<"cb4", "a", "c">>, c4 |-> <<"cb4", "b">>]
=============================================================================
