------------------------- MODULE ConversationBridge -------------------------
(***************************************************************************)
(* ConversationBridge (moonbite_plugin/_conversation) beside the session   *)
(* store and the effect ledger: the receipts of session hooks, delivered   *)
(* after the session's lock is released, make up cycles of a conversation; *)
(* a settled and quiet cycle may ask for one checkpoint effect.            *)
(*                                                                         *)
(* The bridge has its own file and lock, and reads the two other files     *)
(* while it holds it.  Replaying conversation_bridge.jsonl consults the    *)
(* effects as they are now, so whether a row replays can change after it   *)
(* was written.                                                            *)
(***************************************************************************)
EXTENDS SessionLifecycle, EffectStates, Sequences

CONSTANTS
  Private,        \* the turns opened by a fresh private inbound message
  QuietWindow,    \* quiet_window
  OverdueWindow,  \* overdue_window
  MaxInFlight     \* bound: how many receipts are on their way at a time

ASSUME PrivateAssumption == Private \subseteq Turns
ASSUME WindowsAssumption == QuietWindow \in Nat /\ OverdueWindow \in Nat
ASSUME FlightAssumption == MaxInFlight \in Nat \ {0}

VARIABLES
  receipts,  \* receipts on their way from the session store to the bridge
  cycles,    \* the replay of conversation_bridge.jsonl
  effect,    \* the checkpoint effect of each cycle, by its scoped key
  request    \* where request_checkpoint stands, under the bridge's lock

bridge == <<receipts, cycles, effect, request>>
vars == <<clock, session, crashes, bridge>>

\* _ConversationCycle.  seen is the state of last_reconciliation.
Cycle == [dirty     : SUBSET Turns,
          settled   : SUBSET Turns,
          private   : Time \cup {NoTime},
          answered  : Time \cup {NoTime},
          requested : BOOLEAN,
          seen      : EffectState \cup {"none"}]

NewCycle == [dirty |-> {}, settled |-> {}, private |-> NoTime,
             answered |-> NoTime, requested |-> FALSE, seen |-> "none"]

\* A receipt of pre_llm_call or post_llm_call; proven is whether the snapshot
\* it carries shows the turn settled and none open.
Receipt == [hook : {"pre_llm_call", "post_llm_call"}, turn : Turns,
            proven : BOOLEAN]

\* Every event can start a cycle of its own.
MaxCycles == 2 * Cardinality(Turns)

TypeOK ==
  /\ SessionTypeOK
  /\ receipts \subseteq Receipt
  /\ cycles \in Seq(Cycle) /\ Len(cycles) <= MaxCycles
  /\ effect \in [1..MaxCycles -> EffectState \cup {"absent"}]
  /\ request \in {"idle", "allowed", "begun"}

Init ==
  /\ SessionInit
  /\ receipts = {}
  /\ cycles = <<>>
  /\ effect = [i \in 1..MaxCycles |-> "absent"]
  /\ request = "idle"

-----------------------------------------------------------------------------
(* Session hooks and their receipts. *)

PendingStates == {"intent", "pending", "executed_unverified", "requeued"}

Requested == {i \in DOMAIN cycles : cycles[i].requested}
Active == {i \in Requested : effect[i] \in PendingStates}

\* _replay_unlocked: a request row does not replay while the checkpoint of an
\* earlier cycle is active again.
Readable == \A i \in Active : \A j \in Requested : j <= i

SessionHook ==
  /\ SessionStep
  /\ UNCHANGED bridge

ProvenNow(t, turns) == turns[t] = "completed" /\ \A u \in Turns : turns[u] # "open"

Receipts(t, hook, proven) ==
  receipts \cup {[hook |-> hook, turn |-> t, proven |-> proven]}

CanCarry == Cardinality(receipts) < MaxInFlight

\* A hook that recorded its callback hands the receipt over.
PreHook(t) ==
  /\ CanCarry
  /\ \E hooks \in HookSets : RecordPre(t, hooks)
  /\ receipts' = IF turn'[t] = "open" THEN Receipts(t, "pre_llm_call", FALSE)
                                      ELSE receipts
  /\ UNCHANGED <<cycles, effect, request>>

PostHook(t) ==
  /\ CanCarry
  /\ RecordPost(t)
  /\ receipts' = Receipts(t, "post_llm_call", ProvenNow(t, turn'))
  /\ UNCHANGED <<cycles, effect, request>>

\* The host repeats a hook: the callback is found recorded, and its receipt
\* comes with a snapshot of the session as it is now.
RepeatHook(t, hook) ==
  /\ CanCarry
  /\ \/ /\ hook = "pre_llm_call" /\ preAt[t] # NoTime
        /\ receipts' = Receipts(t, hook, FALSE)
     \/ /\ hook = "post_llm_call" /\ postAt[t] # NoTime
        /\ receipts' = Receipts(t, hook, ProvenNow(t, turn))
  /\ UNCHANGED <<clock, session, crashes, cycles, effect, request>>

-----------------------------------------------------------------------------
(* observe. *)

Current == cycles[Len(cycles)]

\* A new event joins the current cycle unless its checkpoint was requested.
Joins == cycles # <<>> /\ ~ Current.requested

PutCycle(c) ==
  cycles' = IF Joins THEN [cycles EXCEPT ![Len(cycles)] = c]
                     ELSE Append(cycles, c)

Target == IF Joins THEN Current ELSE NewCycle

Seen(r) ==
  \E i \in DOMAIN cycles :
    r.turn \in IF r.hook = "pre_llm_call" THEN cycles[i].dirty
                                          ELSE cycles[i].settled

\* _validate_session_receipt and _apply_event.
MarksDirty(r) == r.hook = "pre_llm_call" /\ r.turn \in Private
MarksSettled(r) == r.hook = "post_llm_call"

Acceptable(r) ==
  /\ MarksDirty(r) => Seen(r) \/ preAt[r.turn] >= Target.private
  /\ MarksSettled(r) =>
       r.proven /\ (Seen(r) \/ postAt[r.turn] >= Target.answered)

\* Bug: a message joins the cycle whose checkpoint was already requested.
ObserveLate(r) ==
  /\ r \in receipts /\ request = "idle" /\ Readable
  /\ receipts' = receipts \ {r}
  /\ Acceptable(r) /\ ~ Seen(r)
  /\ IF MarksSettled(r)
       THEN PutCycle([Target EXCEPT !.settled = @ \cup {r.turn},
                                    !.answered = postAt[r.turn]])
       ELSE cycles' = IF cycles = <<>>
         THEN <<[NewCycle EXCEPT !.dirty = {r.turn}, !.private = preAt[r.turn]]>>
         ELSE [cycles EXCEPT ![Len(cycles)].dirty = @ \cup {r.turn}]
  /\ UNCHANGED <<clock, session, crashes, effect, request>>

\* Bug: a receipt of any hook settles the turn it names.
ObserveAnyHook(r) ==
  /\ r \in receipts /\ request = "idle" /\ Readable
  /\ receipts' = receipts \ {r}
  /\ IF r.turn \in Private
       THEN PutCycle([Target EXCEPT !.dirty = @ \cup {r.turn},
                                    !.private = preAt[r.turn],
                                    !.settled = @ \cup {r.turn},
                                    !.answered = clock])
       ELSE UNCHANGED cycles
  /\ UNCHANGED <<clock, session, crashes, effect, request>>

\* The receipt of a fresh private message opens or extends a cycle, a settled
\* turn answers it; a refused receipt is dropped with an error.
Observe(r) ==
  /\ r \in receipts /\ request = "idle" /\ Readable
  /\ receipts' = receipts \ {r}
  /\ \/ /\ ~ Acceptable(r) \/ Seen(r) \/ ~ (MarksDirty(r) \/ MarksSettled(r))
        /\ UNCHANGED cycles
     \/ /\ Acceptable(r) /\ ~ Seen(r) /\ MarksDirty(r)
        /\ PutCycle([Target EXCEPT !.dirty = @ \cup {r.turn},
                                   !.private = preAt[r.turn]])
     \/ /\ Acceptable(r) /\ ~ Seen(r) /\ MarksSettled(r)
        /\ PutCycle([Target EXCEPT !.settled = @ \cup {r.turn},
                                   !.answered = postAt[r.turn]])
  /\ UNCHANGED <<clock, session, crashes, effect, request>>

\* The process dies between the session's row and the bridge's.
LoseReceipt(r) ==
  /\ r \in receipts
  /\ DiesBetweenRows
  /\ receipts' = receipts \ {r}
  /\ UNCHANGED <<clock, session, cycles, effect, request>>

-----------------------------------------------------------------------------
(* request_checkpoint and reconcile. *)

Answered(c) == c.answered # NoTime /\ c.private <= c.answered

\* _build_snapshot: can_checkpoint of the current cycle.
CanCheckpoint ==
  /\ cycles # <<>>
  /\ Current.dirty # {} /\ Answered(Current)
  /\ OpenTurns = {}
  /\ \/ clock >= Current.answered + QuietWindow
     \/ clock >= Current.private + OverdueWindow
  /\ ~ Current.requested
  /\ Active = {}

\* Bug: the gate does not ask whether the newest message was answered.
AllowUnanswered ==
  /\ request = "idle" /\ Readable
  /\ cycles # <<>> /\ Current.dirty # {} /\ ~ Current.requested
  /\ Active = {}
  /\ request' = "allowed"
  /\ UNCHANGED <<clock, session, crashes, receipts, cycles, effect>>

AllowCheckpoint ==
  /\ request = "idle" /\ Readable
  /\ CanCheckpoint
  /\ request' = "allowed"
  /\ UNCHANGED <<clock, session, crashes, receipts, cycles, effect>>

\* begin_intent under the cycle's scoped key: a repeated request finds the
\* effect it began before it died.
BeginCheckpoint ==
  /\ request = "allowed"
  /\ effect' = [effect EXCEPT ![Len(cycles)] = IF @ = "absent" THEN "intent"
                                                               ELSE @]
  /\ request' = "begun"
  /\ UNCHANGED <<clock, session, crashes, receipts, cycles>>

\* The bridge's row, unless another checkpoint has meanwhile become active.
RecordRequest ==
  /\ request = "begun"
  /\ cycles' = IF Active = {} /\ Current.dirty # {} /\ Answered(Current)
                 THEN [cycles EXCEPT ![Len(cycles)].requested = TRUE]
                 ELSE cycles
  /\ request' = "idle"
  /\ UNCHANGED <<clock, session, crashes, receipts, effect>>

RequesterDies ==
  /\ request # "idle"
  /\ DiesBetweenRows
  /\ request' = "idle"
  /\ UNCHANGED <<clock, session, receipts, cycles, effect>>

\* _checkpoint_for_reconcile: the latest active checkpoint, else the latest.
Reconcilable(i) ==
  /\ i \in Requested
  /\ IF Active # {} THEN i \in Active /\ \A j \in Active : j <= i
                    ELSE \A j \in Requested : j <= i

Order(s) == CASE s \in {"intent", "requeued"} -> 0
              [] s = "pending"                -> 1
              [] s = "executed_unverified"    -> 2

Backwards(old, new) ==
  /\ {old, new} \subseteq PendingStates
  /\ Order(new) < Order(old)

\* reconcile: what the ledger says of the checkpoint, recorded when it changed.
Reconcile(i) ==
  /\ request = "idle" /\ Readable
  /\ Reconcilable(i)
  /\ effect[i] # cycles[i].seen
  /\ cycles[i].seen # "verified"
  /\ ~ Backwards(cycles[i].seen, effect[i])
  /\ cycles' = [cycles EXCEPT ![i].seen = effect[i]]
  /\ UNCHANGED <<clock, session, crashes, receipts, effect, request>>

\* The host carries the checkpoint out, through the effect ledger.
HostSettles(i) ==
  /\ \E next \in EffectState :
       /\ \/ \E op \in {"mark_pending", "mark_queue_accepted", "verify",
                        "fail", "expire"} : Edge(effect[i], op, next)
          \/ effect[i] = "expired" /\ next = "requeued"
       /\ effect' = [effect EXCEPT ![i] = next]
  /\ UNCHANGED <<clock, session, crashes, receipts, cycles, request>>

-----------------------------------------------------------------------------
Next ==
  \/ SessionHook
  \/ \E t \in Turns : PreHook(t) \/ PostHook(t)
  \/ \E t \in Turns, hook \in {"pre_llm_call", "post_llm_call"} :
       RepeatHook(t, hook)
  \/ \E r \in receipts : Observe(r) \/ LoseReceipt(r)
  \/ AllowCheckpoint
  \/ BeginCheckpoint
  \/ RecordRequest
  \/ RequesterDies
  \/ \E i \in DOMAIN cycles : Reconcile(i) \/ HostSettles(i)

Spec == Init /\ [][Next]_vars

-----------------------------------------------------------------------------
(* Correctness. *)

\* The bridge counts what the session store holds and counts it once: a cycle
\* is dirty by private messages the store accepted, answered by turns it
\* settled, and no event belongs to two cycles, whatever is lost or repeated
\* between the two files.
BridgeFollowsSession ==
  /\ TypeOK
  /\ \A i \in DOMAIN cycles :
       /\ \A t \in cycles[i].dirty : t \in Private /\ preAt[t] # NoTime
       /\ \A t \in cycles[i].settled : turn[t] = "completed"
       /\ \A j \in DOMAIN cycles \ {i} :
            /\ cycles[i].dirty \cap cycles[j].dirty = {}
            /\ cycles[i].settled \cap cycles[j].settled = {}

\* What a checkpoint covers is fixed when it is asked for: a message that comes
\* later, or is only delivered later, is not in it.
CheckpointsAreFrozen ==
  [][\A i \in Requested :
       cycles'[i].dirty = cycles[i].dirty
         /\ cycles'[i].settled = cycles[i].settled]_vars

\* No checkpoint effect is begun for a conversation whose newest message is
\* unanswered, though the gate was read before the effect ledger was written.
IntentsAreAnswered ==
  [][\A i \in DOMAIN cycles : effect[i] = "absent" /\ effect'[i] # "absent"
       => cycles[i].dirty # {} /\ Answered(cycles[i])]_vars

\* "Replayable dirty/settled/checkpoint bridge.  ... Every public read replays
\* that ledger" (_conversation/engine.py): the rows the bridge wrote replay.
AlwaysReplays == Readable

\* "Projection retries are safe because both consumers are idempotent"
\* (_service/session_lifecycle.py): a receipt the bridge has not consumed is
\* not refused when the host repeats the hook.
RetriesAreSafe == \A r \in receipts : Acceptable(r)
=============================================================================
