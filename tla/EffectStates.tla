---------------------------- MODULE EffectStates ----------------------------
(***************************************************************************)
(* The life of one effect record, shared by every module that writes to    *)
(* effects.jsonl: the states, the states each mutator of EffectLedger      *)
(* accepts, and the transition table a replay of the file enforces         *)
(* (moonbite_plugin/effects.py).                                           *)
(***************************************************************************)
EXTENDS Integers

\* EFFECT_STATES, and "absent" for an effect the ledger has no row of.
EffectState == {"intent", "pending", "executed_unverified", "verified",
                "failed", "expired", "requeued"}

\* The states from which mark_pending, verify, fail and expire append a row.
Pendable   == {"intent", "requeued"}
Unverified == {"pending", "executed_unverified"}
Failable   == {"intent", "pending", "executed_unverified", "requeued"}

\* verified and failed effects accept no further row.
Settled == {"verified", "failed"}

\* What callers see of a state (EffectContract): the states between intent and
\* outcome, retries and crashes are hidden.
Outcome(s) == IF s \in Settled \cup {"absent"} THEN s ELSE "open"

\* The rows a replay accepts after a row in state prev, attempts aside.
Edge(prev, op, next) ==
  \/ /\ prev \in Pendable
     /\ \/ op = "mark_pending" /\ next = "pending"
        \/ op = "fail" /\ next = "failed"
  \/ /\ prev = "pending"
     /\ op = "mark_queue_accepted" /\ next = "executed_unverified"
  \/ /\ prev \in Unverified
     /\ \/ op = "verify" /\ next = "verified"
        \/ op = "fail" /\ next = "failed"
        \/ op = "expire" /\ next = "expired"

\* _valid_transition: only a requeue may renew the attempt and the deadline.
ValidTransition(prev, op, row) ==
  \/ /\ prev.state = "expired"
     /\ op = "requeue" /\ row.state = "requeued"
     /\ row.attempt = prev.attempt + 1
     /\ row.expires > prev.expires
  \/ /\ Edge(prev.state, op, row.state)
     /\ row.expires = prev.expires
     /\ row.attempt = prev.attempt
=============================================================================
