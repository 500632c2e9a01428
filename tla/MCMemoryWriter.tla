---------------------------- MODULE MCMemoryWriter ----------------------------
(* Two callers, a diary entry and a write of the host. *)
EXTENDS MemoryWriter, TLC

CONSTANTS c1, c2, b1, b2, r1, r2

Symmetry == Permutations(Callers) \cup Permutations(Bodies)
            \cup Permutations(Receipts)

=============================================================================
