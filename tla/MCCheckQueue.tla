---------------------------- MODULE MCCheckQueue ----------------------------
(***************************************************************************)
(* Two workers and the master, four checks: batches of one and of two, and *)
(* both workers can be idle, busy or interrupted when one is taken.        *)
(***************************************************************************)
EXTENDS CheckQueue
=============================================================================
