--------------------------- MODULE MCMemoryExposure ---------------------------
(* A brief source and a newer one over two turns, and one the policy refuses. *)
EXTENDS MemoryExposure, TLC

CONSTANTS c1, c2, memo, newer, sealed, r1, r2

MCSourceTime == memo :> 0 @@ newer :> 1 @@ sealed :> 0
MCExpiresAt == memo :> 9 @@ newer :> 2 @@ sealed :> 9

Symmetry == Permutations(Callers) \cup Permutations(Replies)

=============================================================================
