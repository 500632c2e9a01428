------------------------------ MODULE Heartbeat ------------------------------
(***************************************************************************)
(* One heartbeat occurrence from Judge to terminal: HeartbeatEngine.run    *)
(* (moonbite_plugin/heartbeat.py) with the recovery, plan, execution and   *)
(* outcome modules of _heartbeat/, and the host's two reconcile calls.     *)
(*                                                                         *)
(* Four files change under four locks of their own, one write at a time:   *)
(* the effect ledger, the effect plan, the cadence state with its marker   *)
(* of every effect, and the terminal audit.  Runs exclude one another with *)
(* the heartbeat_execution lock; the host's reconcile calls do not take    *)
(* it.  Every step below is one write, or one read whose result is used    *)
(* after another actor may have written.                                   *)
(***************************************************************************)
EXTENDS EffectStates, FiniteSets

CONSTANTS
  Occurrences,     \* explicit occurrences: a candidate and its epoch
  Kinds,           \* the effects a decision may ask for
  Runs,            \* processes that call run
  NoRun,           \* nobody holds heartbeat_execution
  NoEffect,        \* a run is between two effects
  OptionalIntent,  \* the sinks can be called without their intent argument
  MaxCrashes       \* bound: how often a run or a reconcile call is cut short

ASSUME SomeOccurrence    == Occurrences # {}
ASSUME KindsAssumption   == Kinds \subseteq {"delivery", "wake"}
ASSUME NoRunAssumption   == NoRun \notin Runs
ASSUME CrashesAssumption == MaxCrashes \in Nat
ASSUME SinksAssumption   == OptionalIntent \in BOOLEAN

Effects == Occurrences \X Kinds

ASSUME NoEffectAssumption == NoEffect \notin Effects

Occ(e)  == e[1]
Kind(e) == e[2]

VARIABLES
  ledger,   \* effects.jsonl: the state of every effect
  reason,   \* ... and why it failed
  lapsed,   \* occurrences whose effects are past their expiry
  plan,     \* the closed effect plan of every occurrence
  marker,   \* cadence: the last state noted for every effect
  audit,    \* the canonical terminal of every occurrence
  lock,     \* who holds heartbeat_execution
  run,      \* where each run is
  host,     \* where the reconcile call of each effect is
  calls,    \* how often the sink has been invoked for each effect
  crashes

durable == <<ledger, reason, lapsed, plan, marker, audit>>
vars    == <<durable, lock, run, host, calls, crashes>>

Reason  == {"none", "intentional_silence", "delegated_failure", "adapter"}
Marker  == EffectState \cup {"none", "intentional_silence"}
NoPlan  == [kinds |-> {}, delegated |-> FALSE]
Plan    == [kinds : SUBSET Kinds, delegated : BOOLEAN]

\* evidence: the row names the planned effects.
Terminal   == [terminal : {"none", "skipped", "failed", "intentional_silence",
                           "verified"},
               evidence : BOOLEAN]
NoTerminal == [terminal |-> "none", evidence |-> FALSE]

\* EffectResult: unrecorded is a failure the ledger refused to take.
Result  == {"none", "queued", "requeued", "failed", "silent", "verified",
            "unrecorded"}
Phase   == {"idle", "entered", "recover", "gates", "reconcile", "judge",
            "prepare", "execute", "failing", "skipping"}
Step    == {"next", "expire", "requeue", "call", "called", "repeated", "mark"}

\* todo: effects still to handle; at: the one being handled; seen, due: what
\* the run read before it began; value: the marker it owes at.
Idle == [phase |-> "idle", step |-> "next",
         occ |-> CHOOSE o \in Occurrences : TRUE,
         todo |-> {}, at |-> NoEffect, value |-> "none",
         seen |-> [e \in Effects |-> "none"], due |-> {},
         result |-> [k \in Kinds |-> "none"]]

RunState == [phase : Phase, step : Step, occ : Occurrences,
             todo : SUBSET Effects, at : Effects \cup {NoEffect},
             value : Marker, seen : [Effects -> Marker],
             due : SUBSET Occurrences, result : [Kinds -> Result]]

Quiet == [step |-> "idle", value |-> "none"]

TypeOK ==
  /\ ledger \in [Effects -> EffectState \cup {"absent"}]
  /\ reason \in [Effects -> Reason]
  /\ \A e \in Effects : reason[e] # "none" <=> ledger[e] = "failed"
  /\ lapsed \subseteq Occurrences
  /\ plan \in [Occurrences -> Plan]
  /\ marker \in [Effects -> Marker]
  /\ audit \in [Occurrences -> Terminal]
  /\ lock \in Runs \cup {NoRun}
  /\ run \in [Runs -> RunState]
  /\ host \in [Effects -> [step : {"idle", "mark", "audit"}, value : Marker]]
  /\ calls \in [Effects -> Nat]
  /\ crashes \in 0..MaxCrashes

Init ==
  /\ ledger = [e \in Effects |-> "absent"]
  /\ reason = [e \in Effects |-> "none"]
  /\ lapsed = {}
  /\ plan = [o \in Occurrences |-> NoPlan]
  /\ marker = [e \in Effects |-> "none"]
  /\ audit = [o \in Occurrences |-> NoTerminal]
  /\ lock = NoRun
  /\ run = [r \in Runs |-> Idle]
  /\ host = [e \in Effects |-> Quiet]
  /\ calls = [e \in Effects |-> 0]
  /\ crashes = 0

-----------------------------------------------------------------------------
(* What the ledger and the plan say. *)

Planned(o)  == {o} \X plan[o].kinds
IsSilent(e) == ledger[e] = "failed" /\ reason[e] = "intentional_silence"

AllSettled(o) ==
  plan[o].kinds # {} /\ \A e \in Planned(o) : ledger[e] \in Settled

\* The aggregate of a settled occurrence.
Aggregate(o) ==
  IF \E e \in Planned(o) : ledger[e] = "failed" /\ ~ IsSilent(e) THEN "failed"
  ELSE IF \E e \in Planned(o) : IsSilent(e) THEN "intentional_silence"
  ELSE "verified"

\* The host settles wakes and delegated deliveries; it alone may call a
\* delegated delivery silent.
Delegated(e)  == Kind(e) = "delivery" /\ plan[Occ(e)].delegated
HostSettles(e) == Kind(e) = "wake" \/ Delegated(e)

SetLedger(e, s)  == ledger' = [ledger EXCEPT ![e] = s]
FailLedger(e, why) ==
  SetLedger(e, "failed") /\ reason' = [reason EXCEPT ![e] = why]

-----------------------------------------------------------------------------
(* How a run moves on. *)

Goto(r, s) == run' = [run EXCEPT ![r] = s]
Release(r) == Goto(r, Idle) /\ lock' = NoRun

\* r turns to e, delivery before wake.
Turn(r, phase, e) ==
  /\ run[r].phase = phase
  /\ run[r].step = "next"
  /\ e \in run[r].todo
  /\ Kind(e) = "wake" => <<Occ(e), "delivery">> \notin run[r].todo

\* r handles e further before it turns to another effect.
Proceed(r, e, step) ==
  Goto(r, [run[r] EXCEPT !.step = step, !.at = e, !.todo = @ \ {e}])

\* r has the result of e, and may owe the cadence a marker of it.
Resolve(r, e, result) ==
  Goto(r, [run[r] EXCEPT !.step = "next", !.at = NoEffect, !.todo = @ \ {e},
                         !.result[Kind(e)] = result])

ResolveAndMark(r, e, result, value) ==
  Goto(r, [run[r] EXCEPT !.step = "mark", !.at = e, !.todo = @ \ {e},
                         !.value = value, !.result[Kind(e)] = result])

FailedResult(e) == IF IsSilent(e) THEN "silent" ELSE "failed"

-----------------------------------------------------------------------------
(* run: the terminal is looked up before the lock is tried. *)

\* existing_terminal_result: an occurrence with a terminal is not run again.  It
\* returns the terminal if the ledger agrees with it and raises if it does not.
HasTerminal(o) == audit[o] # NoTerminal

Enter(r, o) ==
  /\ run[r].phase = "idle"
  /\ ~ HasTerminal(o)
  /\ Goto(r, [Idle EXCEPT !.phase = "entered", !.occ = o])
  /\ UNCHANGED <<durable, lock, host, calls, crashes>>

ExecutionInProgress(r) ==
  /\ run[r].phase = "entered"
  /\ lock # NoRun
  /\ Goto(r, Idle)
  /\ UNCHANGED <<durable, lock, host, calls, crashes>>

Begin(r) ==
  LET o == run[r].occ IN
  Goto(r, [run[r] EXCEPT
    !.phase = IF plan[o] = NoPlan THEN "gates" ELSE "recover",
    !.todo = Planned(o),
    !.seen = [e \in Effects |-> IF e \in Planned(o) THEN marker[e]
                                                   ELSE "none"],
    !.due  = lapsed])

\* Bug: a run goes on although another one holds the lock.
AcquireAnyway(r) ==
  /\ run[r].phase = "entered"
  /\ lock' = r
  /\ Begin(r)
  /\ UNCHANGED <<durable, host, calls, crashes>>

\* The clock, the plan and all markers are read once, at the start.
Acquire(r) ==
  /\ run[r].phase = "entered"
  /\ lock = NoRun
  /\ lock' = r
  /\ Begin(r)
  /\ UNCHANGED <<durable, host, calls, crashes>>

-----------------------------------------------------------------------------
(* candidate_existing_effects: recovery of a planned occurrence.  The marker *)
(* decides first; the ledger is asked only where the marker leaves it open.  *)

\* A marker that says unverified: expire decides under the ledger's lock.
RecoverUnverifiedMarker(r, e) ==
  /\ Turn(r, "recover", e)
  /\ run[r].seen[e] \in Unverified
  /\ \/ /\ ledger[e] \in Unverified
        /\ Occ(e) \in run[r].due
        /\ SetLedger(e, "expired")
        /\ Proceed(r, e, "requeue")
     \/ /\ ledger[e] \in Unverified
        /\ Occ(e) \notin run[r].due
        /\ Resolve(r, e, "queued")
        /\ UNCHANGED ledger
     \/ /\ ledger[e] = "failed"
        /\ ResolveAndMark(r, e, FailedResult(e), "failed")
        /\ UNCHANGED ledger
     \/ /\ ledger[e] \in {"verified", "expired", "requeued"}
        /\ Goto(r, [run[r] EXCEPT !.phase = "failing"])
        /\ UNCHANGED ledger
  /\ UNCHANGED <<reason, lapsed, plan, marker, audit, lock, host, calls,
                 crashes>>

RecoverFinalMarker(r, e) ==
  /\ Turn(r, "recover", e)
  /\ \/ /\ run[r].seen[e] = "failed"
        /\ ledger[e] = "failed"
        /\ ResolveAndMark(r, e, FailedResult(e), "failed")
     \/ /\ run[r].seen[e] = "failed"
        /\ ledger[e] # "failed"
        /\ Resolve(r, e, "failed")
     \/ /\ run[r].seen[e] = "requeued"
        /\ Resolve(r, e, "requeued")
  /\ UNCHANGED <<durable, lock, host, calls, crashes>>

\* effect_plan_incomplete: an intent that never became pending leaves the
\* occurrence awaiting_effect_intent.
RecoverIncompletePlan(r, e) ==
  /\ Turn(r, "recover", e)
  /\ run[r].seen[e] \in {"none", "verified", "intentional_silence"}
  /\ ledger[e] \in {"absent", "intent"}
  /\ Release(r)
  /\ UNCHANGED <<durable, host, calls, crashes>>

\* existing_effect: the record decides.
RecoverRecord(r, e) ==
  /\ Turn(r, "recover", e)
  /\ run[r].seen[e] \in {"none", "verified", "intentional_silence"}
  /\ \/ /\ ledger[e] \in {"verified", "requeued"}
        /\ ResolveAndMark(r, e, ledger[e], ledger[e])
     \/ /\ ledger[e] = "failed"
        /\ ResolveAndMark(r, e, FailedResult(e), "failed")
     \/ /\ ledger[e] \in Unverified
        /\ Occ(e) \notin run[r].due
        /\ ResolveAndMark(r, e, "queued", ledger[e])
     \/ /\ ledger[e] \in Unverified
        /\ Occ(e) \in run[r].due
        /\ Proceed(r, e, "expire")
     \/ /\ ledger[e] = "expired"
        /\ Proceed(r, e, "requeue")
  /\ UNCHANGED <<durable, lock, host, calls, crashes>>

\* The record may have been settled since it was read: then neither expire nor
\* the fail that follows is accepted, and the marker says failed all the same.
ExpireRecord(r, e) ==
  /\ run[r].step = "expire" /\ run[r].at = e
  /\ \/ /\ ledger[e] \in Unverified
        /\ SetLedger(e, "expired")
        /\ Proceed(r, e, "requeue")
     \/ /\ ledger[e] \notin Unverified
        /\ ResolveAndMark(r, e, "unrecorded", "failed")
        /\ UNCHANGED ledger
  /\ UNCHANGED <<reason, lapsed, plan, marker, audit, lock, host, calls,
                 crashes>>

\* Nobody but the holder of heartbeat_execution touches an expired effect.
Requeue(r, e) ==
  /\ run[r].step = "requeue" /\ run[r].at = e
  /\ SetLedger(e, "requeued")
  /\ ResolveAndMark(r, e, "requeued", "requeued")
  /\ UNCHANGED <<reason, lapsed, plan, marker, audit, lock, host, calls,
                 crashes>>

\* cadence.record_effect_terminal.
WriteMarker(r, e) ==
  /\ run[r].step = "mark" /\ run[r].at = e
  /\ marker' = [marker EXCEPT ![e] = run[r].value]
  /\ Goto(r, [run[r] EXCEPT !.step = "next", !.at = NoEffect,
                            !.value = "none"])
  /\ UNCHANGED <<ledger, reason, lapsed, plan, audit, lock, host, calls,
                 crashes>>

-----------------------------------------------------------------------------
(* The gates of an occurrence without a plan. *)

ControlDenies(r) ==
  /\ run[r].phase = "gates"
  /\ Goto(r, [run[r] EXCEPT !.phase = "skipping"])
  /\ UNCHANGED <<durable, lock, host, calls, crashes>>

\* _reconcile_pending: unsettled effects of any occurrence go first.
ListPending(r) ==
  /\ run[r].phase = "gates"
  /\ LET pending == {e \in Effects : ledger[e] \in Unverified} IN
     Goto(r, [run[r] EXCEPT
       !.phase = IF pending = {} THEN "judge" ELSE "reconcile",
       !.todo = pending,
       !.seen = [e \in Effects |-> IF e \in pending THEN ledger[e]
                                                    ELSE "none"]])
  /\ UNCHANGED <<durable, lock, host, calls, crashes>>

ReconcileListed(r, e) ==
  /\ run[r].phase = "reconcile" /\ run[r].step = "next"
  /\ e \in run[r].todo
  /\ \/ /\ Occ(e) \in run[r].due
        /\ ledger[e] \in Unverified
        /\ SetLedger(e, "expired")
        /\ Proceed(r, e, "requeue")
     \/ /\ Occ(e) \in run[r].due
        /\ ledger[e] \notin Unverified
        /\ Goto(r, [run[r] EXCEPT !.phase = "failing"])
        /\ UNCHANGED ledger
     \/ /\ Occ(e) \notin run[r].due
        /\ ResolveAndMark(r, e, "queued", run[r].seen[e])
        /\ UNCHANGED ledger
  /\ UNCHANGED <<reason, lapsed, plan, marker, audit, lock, host, calls,
                 crashes>>

\* pending or requeued: the occurrence itself has no terminal yet.
Reconciled(r) ==
  /\ run[r].phase = "reconcile" /\ run[r].step = "next"
  /\ run[r].todo = {}
  /\ Release(r)
  /\ UNCHANGED <<durable, host, calls, crashes>>

\* The cadence gates and the Judge: no event, a skip, or a failing Judge.
Decline(r) ==
  /\ run[r].phase = "judge"
  /\ \/ Release(r)
     \/ /\ \E p \in {"skipping", "failing"} :
             Goto(r, [run[r] EXCEPT !.phase = p])
        /\ UNCHANGED lock
  /\ UNCHANGED <<durable, host, calls, crashes>>

-----------------------------------------------------------------------------
(* execute_decision: plan, cadence, intents, adapters. *)

\* ensure_effect_plan stores the closed plan, or finds the same one stored.
\* A cadence write that fails next ends the run before any intent.
Decide(r, p) ==
  /\ run[r].phase = "judge"
  /\ LET o == run[r].occ IN
     /\ plan[o] \in {NoPlan, p}
     /\ plan' = [plan EXCEPT ![o] = p]
     /\ \E next \in {"prepare", "failing"} :
          Goto(r, [run[r] EXCEPT !.phase = next, !.todo = {o} \X p.kinds])
  /\ UNCHANGED <<ledger, reason, lapsed, marker, audit, lock, host, calls,
                 crashes>>

\* Bug: the adapters are invoked as soon as the first intent is durable.
PrepareFirstIntent(r, e) ==
  /\ Turn(r, "prepare", e)
  /\ SetLedger(e, "intent")
  /\ Goto(r, [run[r] EXCEPT !.phase = "execute"])
  /\ UNCHANGED <<reason, lapsed, plan, marker, audit, lock, host, calls,
                 crashes>>

\* begin_intent returns the record its idempotency key already has.
PrepareIntent(r, e) ==
  /\ Turn(r, "prepare", e)
  /\ SetLedger(e, IF ledger[e] = "absent" THEN "intent" ELSE ledger[e])
  /\ Goto(r, IF run[r].todo = {e}
               THEN [run[r] EXCEPT !.phase = "execute",
                                   !.todo = Planned(Occ(e))]
               ELSE [run[r] EXCEPT !.todo = @ \ {e}])
  /\ UNCHANGED <<reason, lapsed, plan, marker, audit, lock, host, calls,
                 crashes>>

MarkPending(r, e) ==
  /\ Turn(r, "execute", e)
  /\ ledger[e] \in Pendable
  /\ SetLedger(e, "pending")
  /\ Proceed(r, e, "call")
  /\ UNCHANGED <<reason, lapsed, plan, marker, audit, lock, host, calls,
                 crashes>>

\* The sink does its work, and answers later.
Call(r, e) ==
  /\ run[r].step = "call" /\ run[r].at = e
  /\ calls' = [calls EXCEPT ![e] = @ + 1]
  /\ Proceed(r, e, "called")
  /\ UNCHANGED <<durable, lock, host, crashes>>

\* invoke takes a TypeError or ValueError of the sink for a missing parameter
\* and calls it once more, without the intent.
CallAgain(r, e) ==
  /\ OptionalIntent
  /\ run[r].step = "called" /\ run[r].at = e
  /\ calls' = [calls EXCEPT ![e] = @ + 1]
  /\ Proceed(r, e, "repeated")
  /\ UNCHANGED <<durable, lock, host, crashes>>

Answers(r, e) == run[r].step \in {"called", "repeated"} /\ run[r].at = e

\* fail_effect: the marker is written whether or not the ledger takes the fail.
FailEffect(r, e) ==
  \/ /\ ledger[e] \in Failable
     /\ FailLedger(e, "adapter")
     /\ ResolveAndMark(r, e, "failed", "failed")
  \/ /\ ledger[e] \notin Failable
     /\ ResolveAndMark(r, e, "unrecorded", "failed")
     /\ UNCHANGED <<ledger, reason>>

\* The sink raised, refused, or answered with something malformed.  A receipt
\* for a delegated delivery is refused in the same way.
AnswerFailed(r, e) ==
  /\ Answers(r, e)
  /\ FailEffect(r, e)
  /\ UNCHANGED <<lapsed, plan, marker, audit, lock, host, calls, crashes>>

\* A receipt: the host may have verified the effect with the same one.
AnswerReceipt(r, e) ==
  /\ Answers(r, e)
  /\ ~ Delegated(e)
  /\ ledger[e] \in Unverified \cup {"verified"}
  /\ SetLedger(e, "verified")
  /\ ResolveAndMark(r, e, "verified", "verified")
  /\ UNCHANGED <<reason, lapsed, plan, marker, audit, lock, host, calls,
                 crashes>>

\* Bug: acceptance into a queue counts as verification.
AcceptedIsVerified(r, e) ==
  /\ Answers(r, e)
  /\ ledger[e] = "pending"
  /\ SetLedger(e, "executed_unverified")
  /\ ResolveAndMark(r, e, "verified", "verified")
  /\ UNCHANGED <<reason, lapsed, plan, marker, audit, lock, host, calls,
                 crashes>>

\* Acceptance into a queue, unless the host has settled the effect meanwhile.
AnswerAccepted(r, e) ==
  /\ Answers(r, e)
  /\ \/ /\ ledger[e] = "pending"
        /\ SetLedger(e, "executed_unverified")
        /\ ResolveAndMark(r, e, "queued", "executed_unverified")
     \/ /\ ledger[e] = "verified"
        /\ ResolveAndMark(r, e, "verified", "verified")
        /\ UNCHANGED ledger
     \/ /\ ledger[e] = "failed"
        /\ ResolveAndMark(r, e, FailedResult(e), "failed")
        /\ UNCHANGED ledger
  /\ UNCHANGED <<reason, lapsed, plan, marker, audit, lock, host, calls,
                 crashes>>

-----------------------------------------------------------------------------
(* _finish: canonical_terminal and record_audit_terminal. *)

Results(r) == {run[r].result[Kind(e)] : e \in Planned(run[r].occ)}

\* Bug: a verified effect beside a silent one leaves the occurrence open.
ReplayTerminalOfOneKind(rs) ==
  IF rs \cap {"failed", "unrecorded"} # {}
    THEN IF rs \subseteq {"failed", "silent", "verified"} THEN "failed"
                                                          ELSE "none"
  ELSE IF rs = {"silent"} THEN "intentional_silence"
  ELSE IF rs = {"verified"} THEN "verified" ELSE "none"

\* replay_effects and canonical_terminal.
ReplayTerminal(rs) ==
  IF rs \cap {"failed", "unrecorded"} # {}
    THEN IF rs \subseteq {"failed", "silent", "verified"} THEN "failed"
                                                          ELSE "none"
  ELSE IF "silent" \in rs /\ rs \subseteq {"silent", "verified"}
    THEN "intentional_silence"
  ELSE IF rs = {"verified"} THEN "verified" ELSE "none"

\* The end of execute_decision and canonical_terminal: a silent effect is one
\* that is not ok.
ExecuteTerminal(rs) ==
  IF rs \cap {"failed", "silent", "unrecorded"} # {}
    THEN IF rs \subseteq {"failed", "silent", "verified"} THEN "failed"
                                                          ELSE "none"
  ELSE IF rs = {"verified"} THEN "verified" ELSE "none"

\* A terminal is written once; another one for the occurrence is refused.
RecordTerminal(o, terminal, evidence) ==
  audit' = IF terminal # "none" /\ audit[o] = NoTerminal
             THEN [audit EXCEPT ![o] = [terminal |-> terminal,
                                        evidence |-> evidence]]
             ELSE audit

FinishEffects(r) ==
  /\ run[r].phase \in {"recover", "execute"}
  /\ run[r].step = "next" /\ run[r].todo = {}
  /\ RecordTerminal(run[r].occ,
                    IF run[r].phase = "recover"
                      THEN ReplayTerminal(Results(r))
                      ELSE ExecuteTerminal(Results(r)), TRUE)
  /\ Release(r)
  /\ UNCHANGED <<ledger, reason, lapsed, plan, marker, host, calls, crashes>>

\* An error before the effects, and a skip, have no effects to show.
FinishWithoutEffects(r) ==
  /\ run[r].phase \in {"failing", "skipping"}
  /\ RecordTerminal(run[r].occ,
                    IF run[r].phase = "failing" THEN "failed" ELSE "skipped",
                    FALSE)
  /\ Release(r)
  /\ UNCHANGED <<ledger, reason, lapsed, plan, marker, host, calls, crashes>>

-----------------------------------------------------------------------------
(* reconcile_heartbeat_delivery and reconcile_heartbeat_wake: ledger, then   *)
(* marker, then terminal, and all of it again when the host repeats the call. *)

Report(e, step, value) ==
  host' = [host EXCEPT ![e] = [step |-> step, value |-> value]]

HostVerifies(e) ==
  /\ host[e] = Quiet
  /\ HostSettles(e)
  /\ ledger[e] \in Unverified \cup {"verified"}
  /\ SetLedger(e, "verified")
  /\ Report(e, "mark", "verified")
  /\ UNCHANGED <<reason, lapsed, plan, marker, audit, lock, run, calls,
                 crashes>>

\* Silence and failure of a delegated delivery; a repeated report must agree
\* with the first.
HostGivesUp(e, why, value) ==
  /\ host[e] = Quiet
  /\ Delegated(e)
  /\ ledger[e] \in Unverified \/ reason[e] = why
  /\ FailLedger(e, why)
  /\ Report(e, "mark", value)
  /\ UNCHANGED <<lapsed, plan, marker, audit, lock, run, calls, crashes>>

\* status unknown projects the state that was read, and settles nothing.
HostDoesNotKnow(e) ==
  /\ host[e] = Quiet
  /\ Delegated(e)
  /\ ledger[e] \in Unverified
  /\ Report(e, "mark", ledger[e])
  /\ UNCHANGED <<durable, lock, run, calls, crashes>>

HostMarks(e) ==
  /\ host[e].step = "mark"
  /\ marker' = [marker EXCEPT ![e] = host[e].value]
  /\ host' = [host EXCEPT ![e] = IF host[e].value \in Unverified
                                   THEN Quiet
                                   ELSE [host[e] EXCEPT !.step = "audit"]]
  /\ UNCHANGED <<ledger, reason, lapsed, plan, audit, lock, run, calls,
                 crashes>>

\* Bug: the terminal of one effect is taken for the occurrence's.
HostAuditsOwnEffect(e) ==
  /\ host[e].step = "audit"
  /\ RecordTerminal(Occ(e), host[e].value, TRUE)
  /\ host' = [host EXCEPT ![e] = Quiet]
  /\ UNCHANGED <<ledger, reason, lapsed, plan, marker, lock, run, calls,
                 crashes>>

\* record_settled_occurrence_terminal: only once every sibling is settled.
HostAudits(e) ==
  /\ host[e].step = "audit"
  /\ RecordTerminal(Occ(e), IF AllSettled(Occ(e)) THEN Aggregate(Occ(e))
                                                  ELSE "none", TRUE)
  /\ host' = [host EXCEPT ![e] = Quiet]
  /\ UNCHANGED <<ledger, reason, lapsed, plan, marker, lock, run, calls,
                 crashes>>

-----------------------------------------------------------------------------
(* Time and crashes. *)

\* The effects of an occurrence share one deadline.
Lapse(o) ==
  /\ o \notin lapsed
  /\ \E e \in Planned(o) : ledger[e] # "absent"
  /\ lapsed' = lapsed \cup {o}
  /\ UNCHANGED <<ledger, reason, plan, marker, audit, lock, run, host, calls,
                 crashes>>

\* A process dies: its lock is free, what it wrote stays.
RunCrashes(r) ==
  /\ crashes < MaxCrashes
  /\ lock = r
  /\ Release(r)
  /\ crashes' = crashes + 1
  /\ UNCHANGED <<durable, host, calls>>

HostCrashes(e) ==
  /\ crashes < MaxCrashes
  /\ host[e] # Quiet
  /\ host' = [host EXCEPT ![e] = Quiet]
  /\ crashes' = crashes + 1
  /\ UNCHANGED <<durable, lock, run, calls>>

-----------------------------------------------------------------------------
\* delegated delivery needs a wake.
Decisions == {p \in Plan : /\ p.kinds # {}
                           /\ p.delegated => p.kinds = {"delivery", "wake"}}

Recover(r, e) ==
  \/ RecoverUnverifiedMarker(r, e)
  \/ RecoverFinalMarker(r, e)
  \/ RecoverIncompletePlan(r, e)
  \/ RecoverRecord(r, e)
  \/ ExpireRecord(r, e)
  \/ Requeue(r, e)
  \/ WriteMarker(r, e)

Execute(r, e) ==
  \/ PrepareIntent(r, e)
  \/ MarkPending(r, e)
  \/ Call(r, e)
  \/ CallAgain(r, e)
  \/ AnswerFailed(r, e)
  \/ AnswerReceipt(r, e)
  \/ AnswerAccepted(r, e)

\* A run that has begun goes on.
Continue(r) ==
  \/ ExecutionInProgress(r)
  \/ Acquire(r)
  \/ ControlDenies(r)
  \/ ListPending(r)
  \/ Reconciled(r)
  \/ Decline(r)
  \/ \E p \in Decisions : Decide(r, p)
  \/ FinishEffects(r)
  \/ FinishWithoutEffects(r)
  \/ \E e \in Effects :
       Recover(r, e) \/ ReconcileListed(r, e) \/ Execute(r, e)

HostReports(e) ==
  \/ HostVerifies(e)
  \/ HostGivesUp(e, "intentional_silence", "intentional_silence")
  \/ HostGivesUp(e, "delegated_failure", "failed")
  \/ HostDoesNotKnow(e)
  \/ HostMarks(e)
  \/ HostAudits(e)

Next ==
  \/ \E r \in Runs : (\E o \in Occurrences : Enter(r, o)) \/ Continue(r)
  \/ \E r \in Runs : RunCrashes(r)
  \/ \E e \in Effects : HostReports(e) \/ HostCrashes(e)
  \/ \E o \in Occurrences : Lapse(o)

Spec == Init /\ [][Next]_vars

\* A sink returns, a call that holds the lock ends, and the host runs an
\* occurrence again while it has no terminal.
Fairness ==
  /\ \A r \in Runs : WF_vars(Continue(r))
  /\ \A o \in Occurrences : WF_vars(\E r \in Runs : Enter(r, o))

FairSpec == Spec /\ Fairness

-----------------------------------------------------------------------------
(* Correctness. *)

\* A terminal that claims an outcome is true of the ledger: an occurrence is
\* verified only if all its planned effects are, and silent only if all are
\* settled, none has failed and one is silent (canonical_terminal,
\* record_settled_occurrence_terminal).
ClaimsAreTrue ==
  \A o \in Occurrences :
    audit[o].terminal \in {"verified", "intentional_silence"}
      => AllSettled(o) /\ Aggregate(o) = audit[o].terminal

\* "Visible-contact at-most-once behavior" (DESIGN.md): the sink is never invoked
\* twice for an effect, whatever expires, crashes or is run again.
AtMostOneCall == \A e \in Effects : calls[e] <= 1

\* The whole approved set is durable before the first adapter acts.
IntentsBeforeCalls ==
  \A e \in Effects : calls[e] > 0 =>
    \A f \in Planned(Occ(e)) : ledger[f] # "absent"

\* A marker may lag behind the ledger, and may say failed of any effect, but
\* never claims an outcome the ledger does not have.
MarkersFollowLedger ==
  /\ TypeOK
  /\ \A e \in Effects :
       /\ marker[e] \in {"verified", "requeued"} => ledger[e] = marker[e]
       /\ marker[e] = "intentional_silence" => IsSilent(e)

\* Pending work is serialized globally: two occurrences never wait for the
\* outcome of their effects at the same time (_reconcile_pending, under the
\* execution lock).
OnePendingOccurrence ==
  \A e, f \in Effects :
    ledger[e] \in Unverified /\ ledger[f] \in Unverified => Occ(e) = Occ(f)

\* Once all planned effects are settled a terminal is recorded, whichever of
\* the reconcile calls was cut short.
SettledIsReported ==
  \A o \in Occurrences : AllSettled(o) ~> audit[o] # NoTerminal

\* "An early receipt cannot settle the whole occurrence while another required
\* effect is missing or pending" (CHANGELOG.md).
EarlyReceiptSettlesNothing ==
  [][\A o \in Occurrences :
       (/\ audit'[o] # audit[o]
        /\ \E e \in Planned(o) : ledger[e] = "verified") => AllSettled(o)]_vars

\* "Exact duplicates reuse that terminal before Judge/provider execution"
\* (CHANGELOG.md): no sink is invoked for an occurrence that has a terminal.
NoCallAfterTerminal ==
  [][\A e \in Effects :
       calls'[e] > calls[e] => audit[Occ(e)] = NoTerminal]_vars
=============================================================================
