----------------------------- MODULE MCAddrMan -----------------------------
(***************************************************************************)
(* A small instance of AddrMan: four services on three addresses, three    *)
(* sources, three new buckets, more than an address may be in, in one of   *)
(* which addresses collide, and a tried table in which three services want *)
(* the same place.                                                         *)
(***************************************************************************)
EXTENDS AddrMan

\* s1 and s2 are two ports of one address.
MCNetAddr == [s1 |-> "a", s2 |-> "a", t |-> "b", u |-> "c"]
MCService == DOMAIN MCNetAddr

MCGetNewBucket ==
    [x \in MCService \X {"q", "r", "w"} |->
        IF x[1] = "u" \/ x[2] = "q" THEN 1 ELSE IF x[2] = "r" THEN 2 ELSE 3]

\* In the first bucket t is in the way of both ports; elsewhere nothing is.
MCGetBucketPosition ==
    [x \in MCService \X {1, 2, 3} |-> IF x[1] = "u" \/ (x[1] = "t" /\ x[2] # 1) THEN 2 ELSE 1]

MCGetTriedSlot == [s \in MCService |-> IF s = "s2" THEN 2 ELSE 1]
=============================================================================
