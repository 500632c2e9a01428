------------------------------ MODULE MCPanel ------------------------------
(***************************************************************************)
(* Panel with two owners.  The first has a field that two events compete   *)
(* for, one of them stamped by the clock at every call, and that a version *)
(* 1 file may hold already; the second has a consume-once field.           *)
(***************************************************************************)
EXTENDS Panel, TLC

CONSTANTS mood1, mood2, old, reminder

MCField == [e \in {mood1, mood2, old} |-> <<"a", "mood">>]
             @@ (reminder :> <<"b", "reminder">>)
=============================================================================
