---------------------------- MODULE MCCoinsCache ----------------------------
(* The coin caches with two transactions of one output and two block hashes. *)
EXTENDS CoinsCache, TLC

Symmetry == Permutations(TxId)
=============================================================================
