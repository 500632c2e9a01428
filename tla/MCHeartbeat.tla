----------------------------- MODULE MCHeartbeat -----------------------------
(***************************************************************************)
(* Heartbeat on small sets of occurrences, with runs that are alike.       *)
(***************************************************************************)
EXTENDS Heartbeat, TLC

Symmetric == Permutations(Runs)
=============================================================================
