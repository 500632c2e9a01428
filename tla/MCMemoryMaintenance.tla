-------------------------- MODULE MCMemoryMaintenance --------------------------
(* Three cards, two requests and two callers. *)
EXTENDS MemoryMaintenance

CONSTANTS c1, c2, q1, q2, k1, k2, k3

Symmetry == Permutations(Callers) \cup Permutations(Requests)
            \cup Permutations(Added)

=============================================================================
