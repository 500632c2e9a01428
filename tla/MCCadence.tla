------------------------------- MODULE MCCadence -------------------------------
(* Three private messages for a map of one, one delivery, two silences. *)
EXTENDS Cadence, TLC

CONSTANTS p1, p2, p3, v1, r1, r2

Symmetry == Permutations({p1, p2, p3}) \cup Permutations({r1, r2})

=============================================================================
