--------------------------- MODULE EffectContract ---------------------------
(***************************************************************************)
(* What a caller may rely on from the effect ledger, whatever happens      *)
(* between the intent and its outcome: an effect is promised once under a  *)
(* key of its own, it is confirmed only by evidence about the content that *)
(* was promised, and once confirmed or abandoned it stays so.              *)
(***************************************************************************)
CONSTANTS Effects, Keys, Bodies, Receipts, NoValue

\* promise[e]: the outcome of e, and the key, content and evidence it has.
VARIABLE promise

Nothing == [status |-> "absent", key |-> NoValue, body |-> NoValue,
            receipt |-> NoValue]

Init == promise = [e \in Effects |-> Nothing]

\* A promise takes a key no other effect holds.
Promise(e, k, b) ==
  /\ promise[e].status = "absent"
  /\ \A f \in Effects : promise[f].key # k
  /\ promise' = [promise EXCEPT ![e] =
       [status |-> "open", key |-> k, body |-> b, receipt |-> NoValue]]

\* Only a receipt for the promised content confirms an open effect.
Confirm(e, r) ==
  /\ promise[e].status = "open"
  /\ r.body = promise[e].body
  /\ promise' = [promise EXCEPT ![e] =
       [status |-> "verified", key |-> promise[e].key, body |-> r.body,
        receipt |-> r]]

Abandon(e) ==
  /\ promise[e].status = "open"
  /\ promise' = [promise EXCEPT ![e].status = "failed"]

Next ==
  \E e \in Effects :
    \/ \E k \in Keys, b \in Bodies : Promise(e, k, b)
    \/ \E r \in Receipts : Confirm(e, r)
    \/ Abandon(e)

Spec == Init /\ [][Next]_promise
=============================================================================
