-------------------------- MODULE MCBlockDownload --------------------------
(* Small networks for BlockDownload. *)
EXTENDS BlockDownload, TLC

CONSTANTS g, b1, b2, b3, p1, p2

ChainOfTwo == (b1 :> g) @@ (b2 :> b1)

\* b3 competes with b2
Fork == (b1 :> g) @@ (b2 :> b1) @@ (b3 :> b1)
=============================================================================
