------------------------------- MODULE Autonomy -------------------------------
(***************************************************************************)
(* Autonomy occurrences (moonbite_plugin/autonomy.py, _autonomy/), with    *)
(* the controls that admit them (moonbite_plugin/control.py) and the       *)
(* host's reconcile and fail calls.                                        *)
(*                                                                         *)
(* An explicit occurrence has one effect.  run_once does all its work      *)
(* under the lock autonomy_execution; a run that finds it taken changes    *)
(* nothing, so one variable holds the only run there can be.  The host's   *)
(* calls take no lock beyond that of each write, and everybody reads the   *)
(* control in force once, at the start, and acts on it until the end.      *)
(***************************************************************************)
EXTENDS EffectStates, FiniteSets

CONSTANTS
  Occurrences,  \* explicit occurrences: a source event and its epoch
  Slots,        \* (source, feature) of a control, by rising priority
  NoOccurrence, \* the run settles nobody else's effect
  MaxPuts,      \* bound: how many controls are put
  MaxCrashes    \* bound: how often a run or a host call is cut short

\* There are finitely many slots: of any of them one has the highest priority.
ASSUME SlotsAssumption ==
  /\ Slots \subseteq Nat
  /\ \A held \in SUBSET Slots :
       held # {} => \E s \in held : \A t \in held : t <= s
ASSUME LimitsAssumption == MaxPuts \in Nat /\ MaxCrashes \in Nat
ASSUME NoOccurrenceAssumption == NoOccurrence \notin Occurrences

VARIABLES
  ledger,    \* effects.jsonl: the state of the effect of every occurrence
  reason,    \* ... and why it failed
  lapsed,    \* occurrences whose effect is past its expiry
  audit,     \* the canonical terminal of every occurrence
  bound,     \* the control the audit first names for every effect
  control,   \* controls.jsonl: the active control of every slot
  puts,      \* how many controls have been put: the last one's identity
  run,       \* the run that holds autonomy_execution
  host,      \* the host's call for every occurrence
  calls,     \* how often the provider has been invoked
  under,     \* the control each effect was started under
  consumed,  \* which control was consumed for which occurrence
  crashes

effects  == <<ledger, reason, lapsed>>
records  == <<audit, bound>>
controls == <<control, puts, consumed>>
vars == <<effects, records, controls, run, host, calls, under, crashes>>

\* ControlIntent and GateResult: identity 0 is no control.
Modes  == {"none", "pause", "play_next"}
Gates  == [id : 0..MaxPuts, mode : Modes]
NoGate == [id |-> 0, mode |-> "none"]

TerminalName == {"none", "skipped", "failed", "expired", "verified"}

RunStep  == {"idle", "check", "settle", "expired", "decide", "start", "call",
             "called", "consume", "replay", "report"}
HostStep == {"idle", "settle", "fail", "consume", "report"}

NoRun  == [step |-> "idle", gate |-> NoGate, due |-> {}, at |-> NoOccurrence,
           occ |-> NoOccurrence, value |-> "none"]
NoCall == [step |-> "idle", says |-> "nothing", gate |-> NoGate,
           settled |-> FALSE, value |-> "none"]

TypeOK ==
  /\ ledger \in [Occurrences -> EffectState \cup {"absent"}]
  /\ reason \in [Occurrences -> {"none", "expired", "mismatch", "other"}]
  /\ \A o \in Occurrences : reason[o] # "none" <=> ledger[o] = "failed"
  /\ lapsed \subseteq Occurrences
  /\ audit \in [Occurrences -> TerminalName]
  /\ bound \in [Occurrences -> 0..MaxPuts]
  /\ control \in [Slots -> Gates]
  /\ puts \in 0..MaxPuts
  /\ run \in [step : RunStep, gate : Gates, due : SUBSET Occurrences,
              at : Occurrences \cup {NoOccurrence},
              occ : Occurrences \cup {NoOccurrence}, value : TerminalName]
  /\ host \in [Occurrences ->
                [step : HostStep, gate : Gates, settled : BOOLEAN,
                 says : {"nothing", "receipt", "mismatch", "failure"},
                 value : TerminalName]]
  /\ calls \in [Occurrences -> Nat]
  /\ under \in [Occurrences -> 0..MaxPuts]
  /\ consumed \subseteq (1..MaxPuts) \X Occurrences
  /\ crashes \in 0..MaxCrashes

Init ==
  /\ ledger = [o \in Occurrences |-> "absent"]
  /\ reason = [o \in Occurrences |-> "none"]
  /\ lapsed = {}
  /\ audit = [o \in Occurrences |-> "none"]
  /\ bound = [o \in Occurrences |-> 0]
  /\ control = [s \in Slots |-> NoGate]
  /\ puts = 0
  /\ run = NoRun
  /\ host = [o \in Occurrences |-> NoCall]
  /\ calls = [o \in Occurrences |-> 0]
  /\ under = [o \in Occurrences |-> 0]
  /\ consumed = {}
  /\ crashes = 0

-----------------------------------------------------------------------------
(* Controls. *)

\* resolve and evaluate_gate: the control of the highest slot in use.
Gate ==
  LET held == {s \in Slots : control[s] # NoGate}
  IN  IF held = {} THEN NoGate
      ELSE control[CHOOSE s \in held : \A t \in held : t <= s]

\* put replaces the control of its feature and source.
Put(s, mode) ==
  /\ puts < MaxPuts
  /\ puts' = puts + 1
  /\ control' = [control EXCEPT ![s] = [id |-> puts + 1, mode |-> mode]]
  /\ UNCHANGED <<effects, records, consumed, run, host, calls, under, crashes>>

\* clear, or the end of its lifetime.
Withdraw(s) ==
  /\ control[s] # NoGate
  /\ control' = [control EXCEPT ![s] = NoGate]
  /\ UNCHANGED <<effects, records, puts, consumed, run, host, calls, under,
                 crashes>>

\* consume: for the sake of o; a control that is gone is no error.
ConsumeFor(o, id) ==
  /\ control' = [s \in Slots |-> IF control[s].id = id THEN NoGate
                                                       ELSE control[s]]
  /\ consumed' = consumed \cup {<<id, o>>}
  /\ UNCHANGED puts

\* consume_verified: only a play_next control, and only if it may be.
ConsumeIf(o, gate, mayConsume) ==
  IF gate.mode = "play_next" /\ mayConsume
    THEN ConsumeFor(o, gate.id)
    ELSE UNCHANGED controls

-----------------------------------------------------------------------------
(* What is written about an effect. *)

SetLedger(o, s) == ledger' = [ledger EXCEPT ![o] = s] /\ UNCHANGED reason

FailLedger(o, why) ==
  /\ ledger' = [ledger EXCEPT ![o] = "failed"]
  /\ reason' = [reason EXCEPT ![o] = why]

\* canonical_terminal of a failed effect.
FailedTerminal(o) == IF reason[o] = "expired" THEN "expired" ELSE "failed"

\* finish: a terminal is written once, any other row whenever it is due; the
\* first row that names a control binds the effect to it.
Row(o, gate, terminal) ==
  IF terminal # "none" /\ audit[o] # "none"
    THEN UNCHANGED records
    ELSE /\ audit' = IF terminal = "none" THEN audit
                     ELSE [audit EXCEPT ![o] = terminal]
         /\ bound' = IF bound[o] # 0 THEN bound
                     ELSE [bound EXCEPT ![o] = gate.id]

\* A terminal without an effect binds nothing.
RowWithoutEffect(o, terminal) ==
  /\ audit' = IF audit[o] = "none" THEN [audit EXCEPT ![o] = terminal]
                                   ELSE audit
  /\ UNCHANGED bound

Goto(step)          == run' = [run EXCEPT !.step = step]
GoReport(terminal)  == run' = [run EXCEPT !.step = "report", !.value = terminal]
Release             == run' = NoRun

-----------------------------------------------------------------------------
(* run_once_locked. *)

\* The control and the clock are read first.
Begin(o) ==
  /\ run = NoRun
  /\ run' = [NoRun EXCEPT !.step = "check", !.occ = o, !.gate = Gate,
                          !.due = lapsed]
  /\ UNCHANGED <<effects, records, controls, host, calls, under, crashes>>

\* existing_terminal_result: a terminal is replayed if no effect belongs to it,
\* set aside if it agrees with a settled effect, and a conflict otherwise.  If
\* the effect cannot be looked up, or is another occurrence's, the occurrence
\* has failed, whatever has become of its effect.
AgreesWithLedger(o) ==
  \/ ledger[o] = "verified" /\ audit[o] = "verified"
  \/ ledger[o] = "failed" /\ audit[o] = FailedTerminal(o)

Check ==
  /\ run.step = "check"
  /\ \/ /\ audit[run.occ] = "none" \/ AgreesWithLedger(run.occ)
        /\ Goto("settle")
        /\ UNCHANGED records
     \/ /\ ~ (audit[run.occ] = "none" \/ AgreesWithLedger(run.occ))
        /\ Release
        /\ UNCHANGED records
     \/ /\ RowWithoutEffect(run.occ, "failed")
        /\ Release
  /\ UNCHANGED <<effects, controls, host, calls, under, crashes>>

Overdue == {o \in run.due : ledger[o] \in Unverified}

\* settle_expired_unverified, one effect after the other; what the host has
\* settled since is passed over.
SettleExpired(o) ==
  /\ run.step = "settle"
  /\ o \in Overdue
  /\ FailLedger(o, "expired")
  /\ run' = [run EXCEPT !.step = "expired", !.at = o]
  /\ UNCHANGED <<lapsed, records, controls, host, calls, under, crashes>>

ReportExpired ==
  /\ run.step = "expired"
  /\ Row(run.at, run.gate, "expired")
  /\ run' = [run EXCEPT !.step = "settle", !.at = NoOccurrence]
  /\ UNCHANGED <<effects, controls, host, calls, under, crashes>>

\* Bug: work that was started and not confirmed is started again.
ResumeStarted ==
  /\ run.step = "settle" /\ Overdue = {}
  /\ \/ ledger[run.occ] = "verified" /\ Goto("replay")
     \/ ledger[run.occ] = "executed_unverified" /\ Release
     \/ ledger[run.occ] = "pending" /\ Goto("call")
     \/ ledger[run.occ] \in {"absent", "intent"} /\ Goto("decide")
     \/ ledger[run.occ] = "failed" /\ GoReport(FailedTerminal(run.occ))
  /\ UNCHANGED <<effects, records, controls, host, calls, under, crashes>>

\* Bug: an effect that failed needs no report.
ResumeLeavesFailed ==
  /\ run.step = "settle" /\ Overdue = {}
  /\ \/ ledger[run.occ] = "verified" /\ Goto("replay")
     \/ ledger[run.occ] \in Unverified \cup {"failed"} /\ Release
     \/ ledger[run.occ] \in {"absent", "intent"} /\ Goto("decide")
  /\ UNCHANGED <<effects, records, controls, host, calls, under, crashes>>

\* existing_result: work that has been started is left to the host.
Resume ==
  /\ run.step = "settle" /\ Overdue = {}
  /\ \/ ledger[run.occ] = "verified" /\ Goto("replay")
     \/ ledger[run.occ] \in Unverified /\ Release
     \/ ledger[run.occ] \in {"absent", "intent"} /\ Goto("decide")
     \/ ledger[run.occ] = "failed" /\ GoReport(FailedTerminal(run.occ))
  /\ UNCHANGED <<effects, records, controls, host, calls, under, crashes>>

\* Bug: a refused intent is given a terminal.
DeclineForGood ==
  /\ run.step = "decide"
  /\ RowWithoutEffect(run.occ, "skipped")
  /\ Release
  /\ UNCHANGED <<effects, controls, host, calls, under, crashes>>

\* The control, an active chat, the Judge, or no provider to run: skipped.  Bad
\* settings, a Judge that raises or names an unknown provider: failed.
DeclineNew ==
  /\ ledger[run.occ] = "absent"
  /\ \/ RowWithoutEffect(run.occ, "skipped")
     \/ /\ run.gate.mode # "pause"
        /\ RowWithoutEffect(run.occ, "failed")

\* An intent that is refused keeps its occurrence open, but for an active_chat
\* that is no Boolean: that fails the occurrence over the open intent.
DeclineIntent ==
  /\ ledger[run.occ] # "absent"
  /\ \/ UNCHANGED records
     \/ /\ run.gate.mode # "pause"
        /\ \/ Row(run.occ, run.gate, "none")
           \/ RowWithoutEffect(run.occ, "failed")

Decline ==
  /\ run.step = "decide"
  /\ DeclineNew \/ DeclineIntent
  /\ Release
  /\ UNCHANGED <<effects, controls, host, calls, under, crashes>>

BeginIntent ==
  /\ run.step = "decide"
  /\ run.gate.mode # "pause"
  /\ SetLedger(run.occ, IF ledger[run.occ] = "absent" THEN "intent"
                                                      ELSE ledger[run.occ])
  /\ Goto("start")
  /\ UNCHANGED <<lapsed, records, controls, host, calls, under, crashes>>

\* Unless the host has failed the intent meanwhile.
MarkPending ==
  /\ run.step = "start"
  /\ \/ /\ ledger[run.occ] = "intent"
        /\ SetLedger(run.occ, "pending")
        /\ under' = [under EXCEPT ![run.occ] = run.gate.id]
        /\ Goto("call")
     \/ /\ ledger[run.occ] # "intent"
        /\ GoReport("failed")
        /\ UNCHANGED <<ledger, reason, under>>
  /\ UNCHANGED <<lapsed, records, controls, host, calls, crashes>>

RunProvider ==
  /\ run.step = "call"
  /\ calls' = [calls EXCEPT ![run.occ] = @ + 1]
  /\ Goto("called")
  /\ UNCHANGED <<effects, records, controls, host, under, crashes>>

\* fail(effect, why): accepted, or already done, or refused.
ProviderFails ==
  /\ run.step = "called"
  /\ \/ /\ ledger[run.occ] \in Failable
        /\ FailLedger(run.occ, "other")
        /\ GoReport("failed")
     \/ /\ ledger[run.occ] \notin Failable
        /\ GoReport("none")
        /\ UNCHANGED <<ledger, reason>>
  /\ UNCHANGED <<lapsed, records, controls, host, calls, under, crashes>>

\* Bug: accepted work counts as completed.
AcceptedIsCompleted ==
  /\ run.step = "called"
  /\ ledger[run.occ] = "pending"
  /\ SetLedger(run.occ, "executed_unverified")
  /\ Goto("consume")
  /\ UNCHANGED <<lapsed, records, controls, host, calls, under, crashes>>

\* The provider accepts the work: if the host has settled the effect, the
\* ledger refuses, and the run reports a failure.
ProviderAccepts ==
  /\ run.step = "called"
  /\ \/ /\ ledger[run.occ] = "pending"
        /\ SetLedger(run.occ, "executed_unverified")
        /\ GoReport("none")
     \/ /\ ledger[run.occ] # "pending"
        /\ GoReport("failed")
        /\ UNCHANGED <<ledger, reason>>
  /\ UNCHANGED <<lapsed, records, controls, host, calls, under, crashes>>

\* A receipt the ledger takes, now or before.
Takes(o) == ledger[o] \in Unverified \cup {"verified"}

ProviderVerifies ==
  /\ run.step = "called"
  /\ Takes(run.occ)
  /\ SetLedger(run.occ, "verified")
  /\ Goto("consume")
  /\ UNCHANGED <<lapsed, records, controls, host, calls, under, crashes>>

\* A receipt the ledger refuses fails the effect as receipt_mismatch.
ProviderMismatches ==
  /\ run.step = "called"
  /\ \/ /\ ledger[run.occ] \in Failable
        /\ FailLedger(run.occ, "mismatch")
        /\ GoReport("failed")
     \/ /\ ledger[run.occ] \notin Failable
        /\ GoReport(IF reason[run.occ] = "mismatch" THEN "failed" ELSE "none")
        /\ UNCHANGED <<ledger, reason>>
  /\ UNCHANGED <<lapsed, records, controls, host, calls, under, crashes>>

\* The run's own control, or in a replay the one the effect is bound to.
ConsumeVerified ==
  /\ run.step \in {"consume", "replay"}
  /\ ConsumeIf(run.occ, run.gate,
               run.step = "consume" \/ bound[run.occ] = run.gate.id)
  /\ GoReport("verified")
  /\ UNCHANGED <<effects, records, host, calls, under, crashes>>

Finish ==
  /\ run.step = "report"
  /\ Row(run.occ, run.gate, run.value)
  /\ Release
  /\ UNCHANGED <<effects, controls, host, calls, under, crashes>>

-----------------------------------------------------------------------------
(* The host: reconcile with a receipt, and fail. *)

SetHost(o, call) == host' = [host EXCEPT ![o] = call]
HostReport(o, terminal) ==
  SetHost(o, [host[o] EXCEPT !.step = "report", !.value = terminal])

\* The host has evidence only of a provider that ran.  Work past its expiry
\* is not reconciled unless it is settled.
Reconcile(o, says) ==
  /\ host[o] = NoCall
  /\ calls[o] > 0
  /\ o \notin lapsed \/ ledger[o] \in Settled
  /\ SetHost(o, [step |-> "settle", says |-> says, gate |-> Gate,
                 settled |-> ledger[o] \in Settled, value |-> "none"])
  /\ UNCHANGED <<effects, records, controls, run, calls, under, crashes>>

HostVerifies(o) ==
  /\ host[o].step = "settle" /\ host[o].says = "receipt"
  /\ Takes(o)
  /\ SetLedger(o, "verified")
  /\ SetHost(o, [host[o] EXCEPT !.step = "consume"])
  /\ UNCHANGED <<lapsed, records, controls, run, calls, under, crashes>>

\* A receipt the ledger refuses: the record that was read decides what is
\* reported if the ledger refuses the failure too.
HostMismatches(o) ==
  /\ host[o].step = "settle"
  /\ host[o].says = "mismatch" \/ ~ Takes(o)
  /\ \/ /\ ledger[o] \in Failable
        /\ FailLedger(o, "mismatch")
        /\ HostReport(o, "failed")
     \/ /\ ledger[o] \notin Failable
        /\ HostReport(o, IF reason[o] = "mismatch" \/ host[o].settled
                           THEN "failed" ELSE "none")
        /\ UNCHANGED <<ledger, reason>>
  /\ UNCHANGED <<lapsed, records, controls, run, calls, under, crashes>>

\* The host may name the control it thinks it acts for; a receipt counts for
\* it only where the audit does not name another one.
HostConsumes(o) ==
  /\ host[o].step = "consume"
  /\ LET gate == host[o].gate IN
     \/ ConsumeIf(o, gate, bound[o] = gate.id)
     \/ /\ host[o].says = "receipt"
        /\ ConsumeIf(o, gate, bound[o] \in {0, gate.id})
     \/ /\ host[o].says = "receipt"
        /\ UNCHANGED controls
  /\ HostReport(o, "verified")
  /\ UNCHANGED <<effects, records, run, calls, under, crashes>>

\* fail: a settled effect is replayed as it is.
HostFails(o) ==
  /\ host[o] = NoCall
  /\ ledger[o] # "absent"
  /\ LET call == [NoCall EXCEPT !.says = "failure", !.gate = Gate] IN
     SetHost(o, CASE ledger[o] = "verified" -> [call EXCEPT !.step = "consume"]
                  [] ledger[o] = "failed" ->
                       [call EXCEPT !.step = "report",
                                    !.value = FailedTerminal(o)]
                  [] OTHER -> [call EXCEPT !.step = "fail"])
  /\ UNCHANGED <<effects, records, controls, run, calls, under, crashes>>

HostGivesUp(o) ==
  /\ host[o].step = "fail"
  /\ \/ /\ ledger[o] \in Failable
        /\ FailLedger(o, "other")
        /\ HostReport(o, "failed")
     \/ /\ ledger[o] \notin Failable
        /\ SetHost(o, NoCall)
        /\ UNCHANGED <<ledger, reason>>
  /\ UNCHANGED <<lapsed, records, controls, run, calls, under, crashes>>

HostFinishes(o) ==
  /\ host[o].step = "report"
  /\ Row(o, host[o].gate, host[o].value)
  /\ SetHost(o, NoCall)
  /\ UNCHANGED <<effects, controls, run, calls, under, crashes>>

-----------------------------------------------------------------------------
(* Time and crashes. *)

Lapse(o) ==
  /\ ledger[o] # "absent"
  /\ o \notin lapsed
  /\ lapsed' = lapsed \cup {o}
  /\ UNCHANGED <<ledger, reason, records, controls, run, host, calls, under,
                 crashes>>

RunCrashes ==
  /\ crashes < MaxCrashes
  /\ run # NoRun
  /\ Release
  /\ crashes' = crashes + 1
  /\ UNCHANGED <<effects, records, controls, host, calls, under>>

HostCrashes(o) ==
  /\ crashes < MaxCrashes
  /\ host[o] # NoCall
  /\ SetHost(o, NoCall)
  /\ crashes' = crashes + 1
  /\ UNCHANGED <<effects, records, controls, run, calls, under>>

-----------------------------------------------------------------------------
\* The run that holds the lock goes on.
Continue ==
  \/ Check
  \/ \E o \in Occurrences : SettleExpired(o)
  \/ ReportExpired
  \/ Resume
  \/ Decline
  \/ BeginIntent
  \/ MarkPending
  \/ RunProvider
  \/ ProviderFails
  \/ ProviderAccepts
  \/ ProviderVerifies
  \/ ProviderMismatches
  \/ ConsumeVerified
  \/ Finish

HostActs(o) ==
  \/ Reconcile(o, "receipt")
  \/ Reconcile(o, "mismatch")
  \/ HostVerifies(o)
  \/ HostMismatches(o)
  \/ HostConsumes(o)
  \/ HostFails(o)
  \/ HostGivesUp(o)
  \/ HostFinishes(o)

Next ==
  \/ Continue
  \/ RunCrashes
  \/ \E o \in Occurrences : \/ Begin(o)
                            \/ HostActs(o)
                            \/ HostCrashes(o)
                            \/ Lapse(o)
  \/ \E s \in Slots : \/ Put(s, "pause")
                      \/ Put(s, "play_next")
                      \/ Withdraw(s)

Spec == Init /\ [][Next]_vars

\* A provider returns and a run that holds the lock ends.  The host's ticks come
\* back to an occurrence that has no terminal, and one of them finds the lock
\* free, for ticks are far apart and runs are not.
Fairness ==
  /\ WF_vars(Continue)
  /\ \A o \in Occurrences : SF_vars(audit[o] = "none" /\ Begin(o))

FairSpec == Spec /\ Fairness

-----------------------------------------------------------------------------
(* Correctness. *)

\* "Autonomy runs at most one provider per tick" (DESIGN.md), and an
\* occurrence that was begun is never begun again.
AtMostOneCall == \A o \in Occurrences : calls[o] <= 1

\* A terminal that says verified or expired is true of the ledger, whichever
\* of run and host was first, and a skipped occurrence has no effect at all.
ClaimsAreTrue ==
  \A o \in Occurrences :
    /\ audit[o] = "verified" => ledger[o] = "verified"
    /\ audit[o] = "expired"  => reason[o] = "expired"
    /\ audit[o] = "skipped"  => ledger[o] = "absent"

\* "play_next is consumed only after a completed provider" (DESIGN.md): a
\* consumed control has a verified effect to show.
ConsumedAfterVerified ==
  /\ TypeOK
  /\ \A c \in consumed : ledger[c[2]] = "verified"

\* "An effect left pending or executed_unverified must still have a reachable
\* terminal after expiry" (DESIGN.md): it gets one.
LapsedIsReported ==
  \A o \in Occurrences :
    o \in lapsed /\ ledger[o] \in Unverified ~> audit[o] # "none"

\* "Late reconcile never consumes a new play_next control"
\* (tests/test_autonomy_runtime.py): a control is consumed for the work that
\* was started under it.
ConsumedByItsOwnEffect == \A c \in consumed : under[c[2]] = c[1]
=============================================================================
