--------------------------- MODULE MCEffectLedger ---------------------------
(***************************************************************************)
(* EffectLedger on two effects that compete for two keys, with two         *)
(* contents and a receipt for either.  Nothing in the ledger tells one     *)
(* effect, key or content from another.                                    *)
(***************************************************************************)
EXTENDS EffectLedger, TLC

Symmetric ==
  Permutations(Effects) \cup Permutations(Keys) \cup Permutations(Bodies)
=============================================================================
