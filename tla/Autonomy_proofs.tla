---------------------------- MODULE Autonomy_proofs ----------------------------
(***************************************************************************)
(* Proofs about Autonomy, for any occurrences and controls and any number  *)
(* of crashes.                                                             *)
(*                                                                         *)
(* What is settled stays settled and what has been pended is never an      *)
(* intent again (Advances).  So what a run or a call of the host has       *)
(* learned of its effect is still true when it writes it down, however     *)
(* many steps of others come in between (RunInv, HostInv), and the         *)
(* provider is called only from the one step that ends the intent.         *)
(***************************************************************************)
EXTENDS Autonomy, TLAPS

\* A row may say this of its effect.
Truthful(o, terminal) ==
  /\ terminal = "verified" => ledger[o] = "verified"
  /\ terminal = "expired" => reason[o] = "expired"
  /\ terminal # "skipped"

\* Only a control that was put can be consumed.
Real(gate) == gate.mode = "play_next" => gate.id # 0

\* What the run that holds autonomy_execution knows of its effect.
RunInv ==
  /\ Real(run.gate)
  /\ run.step # "idle" => run.occ \in Occurrences
  /\ run.step \notin {"idle", "check"} => audit[run.occ] # "skipped"
  /\ run.step = "expired" => run.at \in Occurrences /\ reason[run.at] = "expired"
  /\ run.step = "call" =>
       calls[run.occ] = 0 /\ ledger[run.occ] \notin {"absent", "intent"}
  /\ run.step \in {"consume", "replay"} => ledger[run.occ] = "verified"
  /\ run.step = "report" => Truthful(run.occ, run.value)

\* What each call of the host knows.
HostInv ==
  \A o \in Occurrences :
    /\ Real(host[o].gate)
    /\ host[o].step = "consume" => ledger[o] = "verified"
    /\ host[o].step = "report" => Truthful(o, host[o].value)

\* What the files say.
FilesInv ==
  /\ \A s \in Slots : Real(control[s])
  /\ \A o \in Occurrences : ledger[o] \in {"absent", "intent"} => calls[o] = 0
  /\ \A c \in consumed : ledger[c[2]] = "verified"
  /\ ClaimsAreTrue

\* The inductive invariant.
IInv == TypeOK /\ RunInv /\ HostInv /\ FilesInv /\ AtMostOneCall

\* What no step undoes.
Advances ==
  \A o \in Occurrences :
    /\ ledger[o] \in Settled => ledger'[o] = ledger[o] /\ reason'[o] = reason[o]
    /\ ledger[o] \notin {"absent", "intent"} =>
         ledger'[o] \notin {"absent", "intent"}
    /\ audit[o] = "skipped" => ledger'[o] = ledger[o]

-----------------------------------------------------------------------------
(* Controls. *)

\* resolve gives the control of some slot, or none.
LEMMA GateIsHeld == Gate = NoGate \/ \E s \in Slots : Gate = control[s]
<1> DEFINE held == {s \in Slots : control[s] # NoGate}
<1>1. CASE held = {}
  BY <1>1 DEF Gate
<1>2. CASE held # {}
  <2>1. \E s \in held : \A t \in held : t <= s
    BY <1>2, SlotsAssumption
  <2>2. (CHOOSE s \in held : \A t \in held : t <= s) \in held
    BY <2>1
  <2> QED
    BY <1>2, <2>2 DEF Gate
<1> QED
  BY <1>1, <1>2

LEMMA GateIsReal ==
  ASSUME TypeOK, FilesInv
  PROVE  Gate \in Gates /\ Real(Gate)
<1>1. NoGate \in Gates /\ Real(NoGate)
  BY LimitsAssumption DEF NoGate, Gates, Modes, Real
<1>2. \A s \in Slots : control[s] \in Gates /\ Real(control[s])
  BY DEF TypeOK, FilesInv
<1> QED
  BY GateIsHeld, <1>1, <1>2

-----------------------------------------------------------------------------
(* What each action changes, as the rest of the argument uses it. *)

LedgerType ==
  /\ ledger \in [Occurrences -> EffectState \cup {"absent"}]
  /\ reason \in [Occurrences -> {"none", "expired", "mismatch", "other"}]
  /\ \A o \in Occurrences : reason[o] # "none" <=> ledger[o] = "failed"

\* What the steps that write the ledger have in common.
LEMMA SetLedgerStep ==
  ASSUME LedgerType, NEW o \in Occurrences, NEW s \in EffectState,
         audit[o] # "skipped",
         SetLedger(o, s), s # "failed", ledger[o] # "failed",
         ledger[o] = "verified" => s = "verified",
         ledger[o] \in {"absent", "intent"} \/ s # "intent"
  PROVE  LedgerType' /\ Advances /\ ledger' = [ledger EXCEPT ![o] = s]
<1>1. /\ ledger' = [ledger EXCEPT ![o] = s]
      /\ reason' = reason
  BY DEF SetLedger
<1>2. LedgerType'
  BY <1>1 DEF LedgerType
<1>3. Advances
  BY <1>1 DEF LedgerType, Advances, Settled, EffectState
<1> QED
  BY <1>1, <1>2, <1>3

LEMMA FailLedgerStep ==
  ASSUME LedgerType, NEW o \in Occurrences, audit[o] # "skipped",
         NEW why \in {"expired", "mismatch", "other"},
         FailLedger(o, why), ledger[o] \notin Settled
  PROVE  LedgerType' /\ Advances /\ ledger'[o] = "failed" /\ reason'[o] = why
<1>1. /\ ledger' = [ledger EXCEPT ![o] = "failed"]
      /\ reason' = [reason EXCEPT ![o] = why]
  BY DEF FailLedger
<1>2. "failed" \in EffectState
  BY DEF EffectState
<1>3. LedgerType'
  BY <1>1, <1>2 DEF LedgerType
<1>4. Advances
  BY <1>1 DEF LedgerType, Advances, Settled
<1> QED
  BY <1>1, <1>3, <1>4 DEF LedgerType


\* What one party knows survives what another one does.
LEMMA HostKeeps ==
  ASSUME IInv, Advances, UNCHANGED host
  PROVE  HostInv'
<1>1. SUFFICES ASSUME NEW o \in Occurrences
               PROVE  /\ Real(host[o].gate)
                      /\ host[o].step = "consume" => ledger'[o] = "verified"
                      /\ host[o].step = "report" =>
                           /\ host[o].value = "verified" => ledger'[o] = "verified"
                           /\ host[o].value = "expired" => reason'[o] = "expired"
                           /\ host[o].value # "skipped"
  BY DEF HostInv, Truthful, Real
<1>2. reason[o] = "expired" => ledger[o] = "failed"
  BY DEF IInv, TypeOK
<1> QED
  BY <1>2 DEF IInv, HostInv, Truthful, Advances, Settled

LEMMA RunKeeps ==
  ASSUME IInv, Advances, UNCHANGED <<run, calls>>,
         \A o \in Occurrences : audit'[o] = "skipped" => audit[o] = "skipped"
  PROVE  RunInv'
<1>1. \A o \in Occurrences : reason[o] = "expired" => ledger[o] = "failed"
  BY DEF IInv, TypeOK
<1> QED
  BY <1>1 DEF IInv, RunInv, Truthful, Real, Advances, Settled

LEMMA FilesKeep ==
  ASSUME IInv, Advances, UNCHANGED <<control, consumed, calls, audit>>
  PROVE  FilesInv' /\ AtMostOneCall'
<1>1. \A o \in Occurrences : reason[o] = "expired" => ledger[o] = "failed"
  BY DEF IInv, TypeOK
<1>2. \A c \in consumed : c[2] \in Occurrences
  BY DEF IInv, TypeOK
<1>3. ClaimsAreTrue'
  BY <1>1 DEF IInv, FilesInv, ClaimsAreTrue, Advances, Settled
<1>4. \A c \in consumed : ledger'[c[2]] = "verified"
  BY <1>2 DEF IInv, FilesInv, Advances, Settled
<1> QED
  BY <1>3, <1>4 DEF IInv, FilesInv, AtMostOneCall, Advances, Real

\* A ledger that is left alone advances.
LEMMA UnchangedAdvances ==
  ASSUME UNCHANGED <<ledger, reason>>
  PROVE  Advances
BY DEF Advances

\* A row that is true of its effect.
LEMMA TrueRow ==
  ASSUME IInv, NEW o \in Occurrences, NEW gate \in Gates,
         NEW terminal \in TerminalName, Truthful(o, terminal),
         Row(o, gate, terminal), UNCHANGED <<ledger, reason>>
  PROVE  /\ audit' \in [Occurrences -> TerminalName]
         /\ bound' \in [Occurrences -> 0..MaxPuts]
         /\ \A x \in Occurrences : audit'[x] = "skipped" => audit[x] = "skipped"
         /\ ClaimsAreTrue'
<1>1. audit' = audit \/ audit' = [audit EXCEPT ![o] = terminal]
  BY DEF Row, records
<1>2. bound' = bound \/ bound' = [bound EXCEPT ![o] = gate.id]
  BY DEF Row, records
<1>3. gate.id \in 0..MaxPuts
  BY DEF Gates
<1>4. /\ audit \in [Occurrences -> TerminalName]
      /\ bound \in [Occurrences -> 0..MaxPuts]
  BY DEF IInv, TypeOK
<1>5. audit' \in [Occurrences -> TerminalName]
  BY <1>1, <1>4
<1>6. bound' \in [Occurrences -> 0..MaxPuts]
  BY <1>2, <1>3, <1>4
<1>7. \A x \in Occurrences : audit'[x] = "skipped" => audit[x] = "skipped"
  BY <1>1, <1>4 DEF Truthful
<1>8. ClaimsAreTrue'
  BY <1>1, <1>4 DEF IInv, FilesInv, ClaimsAreTrue, Truthful
<1> QED
  BY <1>5, <1>6, <1>7, <1>8

\* A control is consumed for verified work.
LEMMA VerifiedConsumes ==
  ASSUME IInv, NEW o \in Occurrences, NEW gate \in Gates, Real(gate),
         ledger[o] = "verified", UNCHANGED ledger,
         \/ UNCHANGED controls
         \/ gate.mode = "play_next" /\ ConsumeFor(o, gate.id)
  PROVE  /\ control' \in [Slots -> Gates] /\ UNCHANGED puts
         /\ \A s \in Slots : Real(control'[s])
         /\ consumed' \subseteq (1..MaxPuts) \X Occurrences
         /\ \A c \in consumed' : ledger'[c[2]] = "verified"
<1>1. CASE UNCHANGED controls
  BY <1>1 DEF IInv, TypeOK, FilesInv, controls
<1>2. CASE gate.mode = "play_next" /\ ConsumeFor(o, gate.id)
  <2>1. gate.id \in 1..MaxPuts
    BY <1>2, LimitsAssumption DEF Gates, Real
  <2>2. NoGate \in Gates /\ Real(NoGate)
    BY LimitsAssumption DEF NoGate, Gates, Modes, Real
  <2>3. control' \in [Slots -> Gates] /\ \A s \in Slots : Real(control'[s])
    BY <1>2, <2>2 DEF ConsumeFor, IInv, TypeOK, FilesInv
  <2>4. consumed' = consumed \cup {<<gate.id, o>>}
    BY <1>2 DEF ConsumeFor
  <2>5. consumed' \subseteq (1..MaxPuts) \X Occurrences
    BY <2>1, <2>4 DEF IInv, TypeOK
  <2>6. \A c \in consumed' : ledger'[c[2]] = "verified"
    BY <2>4 DEF IInv, FilesInv
  <2> QED
    BY <1>2, <2>3, <2>5, <2>6 DEF ConsumeFor
<1> QED
  BY <1>1, <1>2

-----------------------------------------------------------------------------
(* The initial state. *)

LEMMA InitIInv == Init => IInv
<1> SUFFICES ASSUME Init PROVE IInv
  OBVIOUS
<1>1. NoGate \in Gates /\ Real(NoGate)
  BY LimitsAssumption DEF NoGate, Gates, Modes, Real
<1>2. TypeOK
  BY <1>1, LimitsAssumption
  DEF Init, TypeOK, NoRun, NoCall, RunStep, HostStep, TerminalName
<1>3. RunInv /\ HostInv
  BY <1>1 DEF Init, RunInv, HostInv, NoRun, NoCall
<1>4. FilesInv /\ AtMostOneCall
  BY <1>1 DEF Init, FilesInv, ClaimsAreTrue, AtMostOneCall
<1> QED
  BY <1>2, <1>3, <1>4 DEF IInv

-----------------------------------------------------------------------------
(* Steps that only the run sees. *)

\* The run's part of the type.
RunType ==
  run \in [step : RunStep, gate : Gates, due : SUBSET Occurrences,
           at : Occurrences \cup {NoOccurrence},
           occ : Occurrences \cup {NoOccurrence}, value : TerminalName]

\* A step of the run that writes nothing.
LEMMA RunOnly ==
  ASSUME IInv, RunType', RunInv',
         UNCHANGED <<effects, records, controls, host, calls, under>>,
         crashes' \in 0..MaxCrashes
  PROVE  IInv'
<1> USE DEF effects, records, controls
<1>1. Advances
  BY UnchangedAdvances
<1>2. TypeOK'
  BY DEF IInv, TypeOK, RunType
<1>3. HostInv'
  BY <1>1, HostKeeps
<1>4. FilesInv' /\ AtMostOneCall'
  BY <1>1, FilesKeep
<1> QED
  BY <1>2, <1>3, <1>4 DEF IInv

LEMMA NoRunHolds ==
  ASSUME run' = NoRun
  PROVE  RunType' /\ RunInv'
<1>1. NoGate \in Gates /\ Real(NoGate)
  BY LimitsAssumption DEF NoGate, Gates, Modes, Real
<1> QED
  BY <1>1 DEF NoRun, RunType, RunInv, RunStep, TerminalName, Real

LEMMA BeginStep ==
  ASSUME IInv, NEW o \in Occurrences, Begin(o)
  PROVE  IInv'
<1>1. Gate \in Gates /\ Real(Gate)
  BY GateIsReal DEF IInv
<1>2. run' = [NoRun EXCEPT !.step = "check", !.occ = o, !.gate = Gate,
                           !.due = lapsed]
  BY DEF Begin
<1>3. run' = [step |-> "check", gate |-> Gate, due |-> lapsed,
              at |-> NoOccurrence, occ |-> o, value |-> "none"]
  BY <1>2 DEF NoRun
<1>4. RunType' /\ RunInv'
  BY <1>1, <1>3 DEF RunType, RunInv, RunStep, TerminalName, Real, IInv, TypeOK
<1>5. crashes' \in 0..MaxCrashes
  BY DEF Begin, IInv, TypeOK
<1> QED
  BY <1>4, <1>5, RunOnly DEF Begin

LEMMA ResumeStep ==
  ASSUME IInv, Resume
  PROVE  IInv'
<1> DEFINE o == run.occ
<1>1. UNCHANGED <<audit, ledger, reason, calls, crashes>>
  BY DEF Resume, effects, records
<1>2. o \in Occurrences /\ audit[o] # "skipped"
  BY DEF Resume, IInv, RunInv
<1>3. RunType' /\ RunInv'
  <2>1. CASE ledger[o] = "verified" /\ Goto("replay")
    BY <1>1, <1>2, <2>1 DEF Goto, IInv, TypeOK, RunInv, RunType, RunStep, Real
  <2>2. CASE Release
    BY <2>2, NoRunHolds DEF Release
  <2>3. CASE Goto("decide")
    BY <1>1, <1>2, <2>3 DEF Goto, IInv, TypeOK, RunInv, RunType, RunStep, Real
  <2>4. CASE ledger[o] = "failed" /\ GoReport(FailedTerminal(o))
    <3>1. run' = [run EXCEPT !.step = "report", !.value = FailedTerminal(o)]
      BY <2>4 DEF GoReport
    <3>2. FailedTerminal(o) \in TerminalName /\ Truthful(o, FailedTerminal(o))
      BY DEF FailedTerminal, TerminalName, Truthful
    <3> QED
      BY <1>1, <1>2, <3>1, <3>2
      DEF IInv, TypeOK, RunInv, RunType, RunStep, Real, Truthful
  <2> QED
    BY <2>1, <2>2, <2>3, <2>4 DEF Resume
<1> QED
  BY <1>1, <1>3, RunOnly DEF Resume, IInv, TypeOK

LEMMA RunCrashesStep ==
  ASSUME IInv, RunCrashes
  PROVE  IInv'
<1>1. run' = NoRun
  BY DEF RunCrashes, Release
<1>2. crashes' \in 0..MaxCrashes
  BY LimitsAssumption DEF RunCrashes, IInv, TypeOK
<1> QED
  BY <1>1, <1>2, NoRunHolds, RunOnly DEF RunCrashes

-----------------------------------------------------------------------------
(* Steps of the run that write the ledger. *)

LEMMA RunWrites ==
  ASSUME IInv, LedgerType', Advances, RunType', RunInv',
         under' \in [Occurrences -> 0..MaxPuts],
         UNCHANGED <<lapsed, records, controls, host, calls, crashes>>
  PROVE  IInv'
<1> USE DEF records, controls
<1>1. TypeOK'
  BY DEF IInv, TypeOK, RunType, LedgerType
<1>2. HostInv'
  BY HostKeeps
<1>3. FilesInv' /\ AtMostOneCall'
  BY FilesKeep
<1> QED
  BY <1>1, <1>2, <1>3 DEF IInv

\* What the run has at hand once its effect is settled or found so.
LEMMA RunFacts ==
  ASSUME IInv, run.step # "idle"
  PROVE  /\ LedgerType /\ RunType
         /\ run.occ \in Occurrences /\ Real(run.gate)
         /\ run.step # "check" => audit[run.occ] # "skipped"
         /\ under \in [Occurrences -> 0..MaxPuts]
         /\ ledger[run.occ] = "absent" \/ ledger[run.occ] \in EffectState
BY DEF IInv, TypeOK, RunInv, LedgerType, RunType

\* The run goes on to a report that is true.
LEMMA RunReports ==
  ASSUME IInv, run.step \notin {"idle", "check"}, UNCHANGED <<audit, calls>>,
         NEW terminal \in {"none", "failed"},
         run' = [run EXCEPT !.step = "report", !.value = terminal]
  PROVE  RunType' /\ RunInv'
<1>1. terminal \in TerminalName
  BY DEF TerminalName
<1>2. RunType'
  BY <1>1, RunFacts DEF RunType, RunStep
<1>3. RunInv'
  BY RunFacts DEF RunType, RunInv, Truthful, Real
<1> QED
  BY <1>2, <1>3

LEMMA SettleExpiredStep ==
  ASSUME IInv, NEW o \in Occurrences, SettleExpired(o)
  PROVE  IInv'
<1>1. /\ run.step = "settle" /\ ledger[o] \in Unverified
      /\ run' = [run EXCEPT !.step = "expired", !.at = o]
      /\ FailLedger(o, "expired")
  BY DEF SettleExpired, Overdue
<1>2. audit[o] # "skipped" /\ ledger[o] \notin Settled
  BY <1>1 DEF IInv, FilesInv, ClaimsAreTrue, Unverified, Settled
<1>3. LedgerType' /\ Advances /\ reason'[o] = "expired"
  BY <1>1, <1>2, RunFacts, FailLedgerStep
<1>4. RunType'
  BY <1>1, RunFacts DEF RunType, RunStep
<1>5. RunInv'
  BY <1>1, <1>3, RunFacts DEF SettleExpired, records, RunType, RunInv, Real
<1> QED
  BY <1>3, <1>4, <1>5, RunFacts, <1>1, RunWrites DEF SettleExpired

LEMMA BeginIntentStep ==
  ASSUME IInv, BeginIntent
  PROVE  IInv'
<1> DEFINE o == run.occ
<1>1. /\ run.step = "decide"
      /\ run' = [run EXCEPT !.step = "start"]
  BY DEF BeginIntent, Goto
<1>2. LedgerType' /\ Advances
  <2>1. CASE ledger[o] = "absent"
    <3>1. SetLedger(o, "intent") /\ "intent" \in EffectState
      BY <2>1 DEF BeginIntent, EffectState
    <3> QED
      BY <1>1, <2>1, <3>1, RunFacts, SetLedgerStep
  <2>2. CASE ledger[o] # "absent"
    <3>1. UNCHANGED <<ledger, reason>>
      BY <1>1, <2>2, RunFacts DEF BeginIntent, SetLedger, LedgerType
    <3> QED
      BY <1>1, <3>1, RunFacts, UnchangedAdvances DEF LedgerType
  <2> QED
    BY <2>1, <2>2
<1>3. RunType' /\ RunInv'
  BY <1>1, RunFacts DEF RunType, RunStep, RunInv, Real, BeginIntent, records
<1> QED
  BY <1>1, <1>2, <1>3, RunFacts, RunWrites DEF BeginIntent

LEMMA MarkPendingStep ==
  ASSUME IInv, MarkPending
  PROVE  IInv'
<1> DEFINE o == run.occ
<1>1. run.step = "start" /\ UNCHANGED <<audit, calls>>
  BY DEF MarkPending, records
<1>2. CASE ledger[o] = "intent"
  <2>1. /\ SetLedger(o, "pending") /\ "pending" \in EffectState
        /\ under' = [under EXCEPT ![o] = run.gate.id]
        /\ run' = [run EXCEPT !.step = "call"]
    BY <1>2 DEF MarkPending, Goto, EffectState
  <2>2. LedgerType' /\ Advances /\ ledger' = [ledger EXCEPT ![o] = "pending"]
    BY <1>1, <1>2, <2>1, RunFacts, SetLedgerStep
  <2>3. calls[o] = 0
    BY <1>1, <1>2, RunFacts DEF IInv, FilesInv
  <2>4. RunType'
    BY <1>1, <2>1, RunFacts DEF RunType, RunStep
  <2>5. RunInv'
    BY <1>1, <2>1, <2>2, <2>3, RunFacts DEF RunType, RunInv, Real, LedgerType
  <2>6. under' \in [Occurrences -> 0..MaxPuts]
    BY <1>1, <2>1, RunFacts DEF RunType, Gates
  <2> QED
    BY <2>2, <2>4, <2>5, <2>6, RunWrites DEF MarkPending
<1>3. CASE ledger[o] # "intent"
  <2>1. /\ UNCHANGED <<ledger, reason, under>>
        /\ run' = [run EXCEPT !.step = "report", !.value = "failed"]
    BY <1>3 DEF MarkPending, GoReport
  <2>2. LedgerType' /\ Advances
    BY <1>1, <2>1, RunFacts, UnchangedAdvances DEF LedgerType
  <2>3. RunType' /\ RunInv'
    BY <1>1, <2>1, RunReports
  <2> QED
    BY <1>1, <2>1, <2>2, <2>3, RunFacts, RunWrites DEF MarkPending
<1> QED
  BY <1>2, <1>3

\* The provider's answer: the run fails its effect, or reports without a change.
LEMMA AnswerStep ==
  ASSUME IInv, run.step = "called",
         NEW why \in {"mismatch", "other"}, NEW terminal \in {"none", "failed"},
         \/ ledger[run.occ] \in Failable /\ FailLedger(run.occ, why)
         \/ UNCHANGED <<ledger, reason>>,
         run' = [run EXCEPT !.step = "report", !.value = terminal],
         UNCHANGED <<lapsed, records, controls, host, calls, under, crashes>>
  PROVE  IInv'
<1>1. LedgerType' /\ Advances
  <2>1. CASE ledger[run.occ] \in Failable /\ FailLedger(run.occ, why)
    BY <2>1, RunFacts, FailLedgerStep DEF Failable, Settled
  <2>2. CASE UNCHANGED <<ledger, reason>>
    BY <2>2, RunFacts, UnchangedAdvances DEF LedgerType
  <2> QED
    BY <2>1, <2>2
<1>2. RunType' /\ RunInv'
  BY RunReports DEF records
<1> QED
  BY <1>1, <1>2, RunFacts, RunWrites

LEMMA ProviderFailsStep ==
  ASSUME IInv, ProviderFails
  PROVE  IInv'
<1>1. CASE ledger[run.occ] \in Failable /\ FailLedger(run.occ, "other")
           /\ GoReport("failed")
  BY <1>1, AnswerStep DEF ProviderFails, GoReport
<1>2. CASE GoReport("none") /\ UNCHANGED <<ledger, reason>>
  BY <1>2, AnswerStep DEF ProviderFails, GoReport
<1> QED
  BY <1>1, <1>2 DEF ProviderFails

LEMMA ProviderMismatchesStep ==
  ASSUME IInv, ProviderMismatches
  PROVE  IInv'
<1>1. CASE ledger[run.occ] \in Failable /\ FailLedger(run.occ, "mismatch")
           /\ GoReport("failed")
  BY <1>1, AnswerStep DEF ProviderMismatches, GoReport
<1>2. CASE UNCHANGED <<ledger, reason>> /\ GoReport("failed")
  BY <1>2, AnswerStep DEF ProviderMismatches, GoReport
<1>3. CASE UNCHANGED <<ledger, reason>> /\ GoReport("none")
  BY <1>3, AnswerStep DEF ProviderMismatches, GoReport
<1> QED
  BY <1>1, <1>2, <1>3 DEF ProviderMismatches

LEMMA ProviderAcceptsStep ==
  ASSUME IInv, ProviderAccepts
  PROVE  IInv'
<1> DEFINE o == run.occ
<1>1. run.step = "called" /\ UNCHANGED <<audit, calls>>
  BY DEF ProviderAccepts, records
<1>2. CASE ledger[o] = "pending"
  <2>1. /\ SetLedger(o, "executed_unverified")
        /\ "executed_unverified" \in EffectState
        /\ run' = [run EXCEPT !.step = "report", !.value = "none"]
    BY <1>2 DEF ProviderAccepts, GoReport, EffectState
  <2>2. LedgerType' /\ Advances
    BY <1>1, <1>2, <2>1, RunFacts, SetLedgerStep
  <2> QED
    BY <1>1, <2>1, <2>2, RunFacts, RunReports, RunWrites DEF ProviderAccepts
<1>3. CASE ledger[o] # "pending"
  BY <1>3, AnswerStep DEF ProviderAccepts, GoReport
<1> QED
  BY <1>2, <1>3

LEMMA ProviderVerifiesStep ==
  ASSUME IInv, ProviderVerifies
  PROVE  IInv'
<1> DEFINE o == run.occ
<1>1. /\ run.step = "called" /\ ledger[o] \in Unverified \cup {"verified"}
      /\ SetLedger(o, "verified") /\ "verified" \in EffectState
      /\ run' = [run EXCEPT !.step = "consume"]
      /\ UNCHANGED <<audit, calls, under>>
  BY DEF ProviderVerifies, Takes, Goto, records, EffectState
<1>2. LedgerType' /\ Advances /\ ledger' = [ledger EXCEPT ![o] = "verified"]
  BY <1>1, RunFacts, SetLedgerStep DEF Unverified
<1>3. RunType'
  BY <1>1, RunFacts DEF RunType, RunStep
<1>4. RunInv'
  BY <1>1, <1>2, RunFacts DEF RunType, RunInv, Real, LedgerType
<1> QED
  BY <1>1, <1>2, <1>3, <1>4, RunFacts, RunWrites DEF ProviderVerifies

-----------------------------------------------------------------------------
(* The call of the provider, and what the run writes elsewhere. *)

\* The intent ends once, and the provider is called from there.
LEMMA RunProviderStep ==
  ASSUME IInv, RunProvider
  PROVE  IInv'
<1> DEFINE o == run.occ
<1>1. /\ run.step = "call" /\ run' = [run EXCEPT !.step = "called"]
      /\ calls' = [calls EXCEPT ![o] = @ + 1]
      /\ UNCHANGED <<effects, records, controls, host, under, crashes>>
  BY DEF RunProvider, Goto
<1>2. o \in Occurrences /\ calls[o] = 0 /\ ledger[o] \notin {"absent", "intent"}
  BY <1>1 DEF IInv, RunInv
<1>3. calls \in [Occurrences -> Nat]
  BY DEF IInv, TypeOK
<1>4. Advances
  BY <1>1, UnchangedAdvances DEF effects
<1>5. RunType' /\ RunInv'
  BY <1>1, RunFacts DEF RunType, RunStep, RunInv, Real, records
<1>6. TypeOK'
  <2>1. calls' \in [Occurrences -> Nat]
    BY <1>1, <1>2, <1>3
  <2> QED
    BY <1>1, <1>5, <2>1 DEF IInv, TypeOK, RunType, effects, records, controls
<1>7. HostInv'
  BY <1>1, <1>4, HostKeeps
<1>8. FilesInv'
  BY <1>1, <1>2, <1>3
  DEF IInv, FilesInv, ClaimsAreTrue, effects, records, controls, Real
<1>9. AtMostOneCall'
  BY <1>1, <1>2, <1>3 DEF IInv, AtMostOneCall
<1> QED
  BY <1>5, <1>6, <1>7, <1>8, <1>9 DEF IInv

LEMMA ConsumeVerifiedStep ==
  ASSUME IInv, ConsumeVerified
  PROVE  IInv'
<1> DEFINE o == run.occ
<1>1. /\ run.step \in {"consume", "replay"}
      /\ run' = [run EXCEPT !.step = "report", !.value = "verified"]
      /\ UNCHANGED <<effects, records, host, calls, under, crashes>>
  BY DEF ConsumeVerified, GoReport
<1>2. o \in Occurrences /\ ledger[o] = "verified"
  BY <1>1 DEF IInv, RunInv
<1>3. run.gate \in Gates /\ Real(run.gate)
  BY DEF IInv, TypeOK, RunInv
<1>4. \/ UNCHANGED controls
      \/ run.gate.mode = "play_next" /\ ConsumeFor(o, run.gate.id)
  BY DEF ConsumeVerified, ConsumeIf
<1>5. /\ control' \in [Slots -> Gates] /\ UNCHANGED puts
      /\ \A s \in Slots : Real(control'[s])
      /\ consumed' \subseteq (1..MaxPuts) \X Occurrences
      /\ \A c \in consumed' : ledger'[c[2]] = "verified"
  BY <1>1, <1>2, <1>3, <1>4, VerifiedConsumes DEF effects
<1>6. Advances
  BY <1>1, UnchangedAdvances DEF effects
<1>7. "verified" \in TerminalName
  BY DEF TerminalName
<1>8. RunType' /\ RunInv'
  BY <1>1, <1>2, <1>7, RunFacts
  DEF RunType, RunStep, RunInv, Real, Truthful, effects, records
<1>9. TypeOK'
  BY <1>1, <1>5, <1>8 DEF IInv, TypeOK, RunType, effects, records
<1>10. HostInv'
  BY <1>1, <1>6, HostKeeps
<1>11. FilesInv' /\ AtMostOneCall'
  BY <1>1, <1>5
  DEF IInv, FilesInv, ClaimsAreTrue, AtMostOneCall, effects, records, Real
<1> QED
  BY <1>8, <1>9, <1>10, <1>11 DEF IInv

\* The run writes a row and goes on.
LEMMA RunRow ==
  ASSUME IInv, RunType', RunInv',
         audit' \in [Occurrences -> TerminalName],
         bound' \in [Occurrences -> 0..MaxPuts],
         ClaimsAreTrue',
         UNCHANGED <<effects, controls, host, calls, under, crashes>>
  PROVE  IInv'
<1> USE DEF effects, controls
<1>1. Advances
  BY UnchangedAdvances
<1>2. TypeOK'
  BY DEF IInv, TypeOK, RunType
<1>3. HostInv'
  BY <1>1, HostKeeps
<1>4. FilesInv' /\ AtMostOneCall'
  BY DEF IInv, FilesInv, AtMostOneCall, Real
<1> QED
  BY <1>2, <1>3, <1>4 DEF IInv

LEMMA ReportExpiredStep ==
  ASSUME IInv, ReportExpired
  PROVE  IInv'
<1>1. /\ run.step = "expired" /\ Row(run.at, run.gate, "expired")
      /\ run' = [run EXCEPT !.step = "settle", !.at = NoOccurrence]
      /\ UNCHANGED <<effects, controls, host, calls, under, crashes>>
  BY DEF ReportExpired
<1>2. run.at \in Occurrences /\ Truthful(run.at, "expired")
  BY <1>1 DEF IInv, RunInv, Truthful
<1>3. run.gate \in Gates /\ "expired" \in TerminalName
  BY DEF IInv, TypeOK, TerminalName
<1>4. /\ audit' \in [Occurrences -> TerminalName]
      /\ bound' \in [Occurrences -> 0..MaxPuts]
      /\ \A x \in Occurrences : audit'[x] = "skipped" => audit[x] = "skipped"
      /\ ClaimsAreTrue'
  BY <1>1, <1>2, <1>3, TrueRow DEF effects
<1>5. RunType' /\ RunInv'
  BY <1>1, <1>4, RunFacts DEF RunType, RunStep, RunInv, Real
<1> QED
  BY <1>1, <1>4, <1>5, RunRow

LEMMA FinishStep ==
  ASSUME IInv, Finish
  PROVE  IInv'
<1>1. /\ run.step = "report" /\ Row(run.occ, run.gate, run.value)
      /\ run' = NoRun
      /\ UNCHANGED <<effects, controls, host, calls, under, crashes>>
  BY DEF Finish, Release
<1>2. run.occ \in Occurrences /\ Truthful(run.occ, run.value)
  BY <1>1 DEF IInv, RunInv
<1>3. run.gate \in Gates /\ run.value \in TerminalName
  BY DEF IInv, TypeOK
<1>4. /\ audit' \in [Occurrences -> TerminalName]
      /\ bound' \in [Occurrences -> 0..MaxPuts]
      /\ ClaimsAreTrue'
  BY <1>1, <1>2, <1>3, TrueRow DEF effects
<1> QED
  BY <1>1, <1>4, NoRunHolds, RunRow

LEMMA CheckStep ==
  ASSUME IInv, Check
  PROVE  IInv'
<1>1. CASE run' = NoRun /\ UNCHANGED records
  BY <1>1, NoRunHolds, RunOnly DEF Check, IInv, TypeOK
<1>2. CASE /\ Goto("settle") /\ UNCHANGED records
           /\ audit[run.occ] = "none" \/ AgreesWithLedger(run.occ)
  <2>1. run' = [run EXCEPT !.step = "settle"]
    BY <1>2 DEF Goto
  <2>2. audit[run.occ] # "skipped"
    BY <1>2 DEF AgreesWithLedger, FailedTerminal
  <2>3. UNCHANGED <<audit, ledger, reason, calls, crashes>>
    BY <1>2 DEF Check, effects, records
  <2>4. RunType'
    BY <2>1 DEF IInv, TypeOK, RunType, RunStep
  <2>5. run.occ \in Occurrences
    BY DEF Check, IInv, RunInv
  <2>6. RunInv'
    BY <2>1, <2>2, <2>3, <2>5 DEF IInv, TypeOK, RunInv, Real
  <2> QED
    BY <1>2, <2>3, <2>4, <2>6, RunOnly DEF Check, IInv, TypeOK
<1>3. CASE run' = NoRun /\ RowWithoutEffect(run.occ, "failed")
  <2>1. /\ run.occ \in Occurrences
        /\ UNCHANGED <<effects, controls, host, calls, under, crashes>>
    BY DEF Check, IInv, RunInv
  <2>2. /\ audit \in [Occurrences -> TerminalName]
        /\ bound \in [Occurrences -> 0..MaxPuts]
        /\ ClaimsAreTrue
    BY DEF IInv, TypeOK, FilesInv
  <2>3. /\ audit' \in [Occurrences -> TerminalName]
        /\ bound' \in [Occurrences -> 0..MaxPuts]
        /\ ClaimsAreTrue'
    BY <1>3, <2>1, <2>2
    DEF RowWithoutEffect, ClaimsAreTrue, TerminalName, effects
  <2> QED
    BY <1>3, <2>1, <2>3, NoRunHolds, RunRow
<1> QED
  BY <1>1, <1>2, <1>3 DEF Check, Release

\* A skipped occurrence has no effect when it is skipped.
LEMMA DeclineStep ==
  ASSUME IInv, Decline
  PROVE  IInv'
<1> DEFINE o == run.occ
<1>1. /\ run.step = "decide" /\ run' = NoRun
      /\ UNCHANGED <<effects, controls, host, calls, under, crashes>>
  BY DEF Decline, Release
<1>2. o \in Occurrences /\ run.gate \in Gates
  BY <1>1, RunFacts DEF RunType
<1>3. /\ audit \in [Occurrences -> TerminalName]
      /\ bound \in [Occurrences -> 0..MaxPuts]
      /\ ClaimsAreTrue
  BY DEF IInv, TypeOK, FilesInv
<1>4. /\ audit' \in [Occurrences -> TerminalName]
      /\ bound' \in [Occurrences -> 0..MaxPuts]
      /\ ClaimsAreTrue'
  <2>1. CASE DeclineNew
    <3>1. PICK t \in {"skipped", "failed"} : RowWithoutEffect(o, t)
      BY <2>1 DEF DeclineNew
    <3>2. ledger[o] = "absent"
      BY <2>1 DEF DeclineNew
    <3> QED
      BY <1>1, <1>2, <1>3, <3>1, <3>2
      DEF RowWithoutEffect, ClaimsAreTrue, TerminalName, effects
  <2>2. CASE DeclineIntent
    <3>1. CASE UNCHANGED records
      BY <1>1, <1>3, <3>1 DEF records, ClaimsAreTrue, effects
    <3>2. CASE Row(o, run.gate, "none")
      <4>1. "none" \in TerminalName /\ Truthful(o, "none")
        BY DEF TerminalName, Truthful
      <4> QED
        BY <1>1, <1>2, <3>2, <4>1, TrueRow DEF effects
    <3>3. CASE RowWithoutEffect(o, "failed")
      BY <1>1, <1>2, <1>3, <3>3
      DEF RowWithoutEffect, ClaimsAreTrue, TerminalName, effects
    <3> QED
      BY <2>2, <3>1, <3>2, <3>3 DEF DeclineIntent
  <2> QED
    BY <2>1, <2>2 DEF Decline
<1> QED
  BY <1>1, <1>4, NoRunHolds, RunRow

-----------------------------------------------------------------------------
(* The host. *)

\* The host's part of the type.
HostCalls ==
  [step : HostStep, gate : Gates, settled : BOOLEAN,
   says : {"nothing", "receipt", "mismatch", "failure"}, value : TerminalName]

\* What a call of the host may hold.
CallHolds(o, call) ==
  /\ call \in HostCalls
  /\ Real(call.gate)
  /\ call.step = "consume" => ledger'[o] = "verified"
  /\ call.step = "report" =>
       /\ call.value = "verified" => ledger'[o] = "verified"
       /\ call.value = "expired" => reason'[o] = "expired"
       /\ call.value # "skipped"

LEMMA HostFacts ==
  ASSUME IInv, NEW o \in Occurrences
  PROVE  /\ host \in [Occurrences -> HostCalls]
         /\ host[o] \in HostCalls /\ Real(host[o].gate)
         /\ LedgerType
         /\ host[o].step = "consume" => ledger[o] = "verified"
         /\ host[o].step = "report" => Truthful(o, host[o].value)
BY DEF IInv, TypeOK, HostInv, HostCalls, LedgerType

\* The other calls keep what they know.
LEMMA HostSteps ==
  ASSUME IInv, Advances, NEW o \in Occurrences, NEW call,
         SetHost(o, call), CallHolds(o, call)
  PROVE  HostInv' /\ host' \in [Occurrences -> HostCalls]
<1>1. /\ host' = [host EXCEPT ![o] = call]
      /\ host \in [Occurrences -> HostCalls] /\ call \in HostCalls
  BY HostFacts DEF SetHost, CallHolds
<1>2. ASSUME NEW x \in Occurrences
      PROVE  /\ Real(host'[x].gate)
             /\ host'[x].step = "consume" => ledger'[x] = "verified"
             /\ host'[x].step = "report" =>
                  /\ host'[x].value = "verified" => ledger'[x] = "verified"
                  /\ host'[x].value = "expired" => reason'[x] = "expired"
                  /\ host'[x].value # "skipped"
  <2>1. CASE x = o
    BY <1>1, <2>1 DEF CallHolds
  <2>2. CASE x # o
    <3>1. host'[x] = host[x]
      BY <1>1, <2>2
    <3>2. reason[x] = "expired" => ledger[x] = "failed"
      BY DEF IInv, TypeOK
    <3> QED
      BY <3>1, <3>2, HostFacts DEF Truthful, Advances, Settled
  <2> QED
    BY <2>1, <2>2
<1>3. HostInv'
  BY <1>2 DEF HostInv, Truthful, Real
<1> QED
  BY <1>1, <1>3

\* A step of the host that may write the ledger, and nothing else but its call.
LEMMA HostWrites ==
  ASSUME IInv, LedgerType', Advances, NEW o \in Occurrences, NEW call,
         SetHost(o, call), CallHolds(o, call), crashes' \in 0..MaxCrashes,
         UNCHANGED <<lapsed, records, controls, run, calls, under>>
  PROVE  IInv'
<1> USE DEF records, controls
<1>1. HostInv' /\ host' \in [Occurrences -> HostCalls]
  BY HostSteps
<1>2. TypeOK'
  BY <1>1 DEF IInv, TypeOK, LedgerType, HostCalls
<1>3. RunInv'
  BY RunKeeps
<1>4. FilesInv' /\ AtMostOneCall'
  BY FilesKeep
<1> QED
  BY <1>1, <1>2, <1>3, <1>4 DEF IInv

LEMMA NoCallHolds ==
  ASSUME NEW o
  PROVE  CallHolds(o, NoCall)
<1>1. NoGate \in Gates /\ Real(NoGate)
  BY LimitsAssumption DEF NoGate, Gates, Modes, Real
<1> QED
  BY <1>1 DEF CallHolds, NoCall, HostCalls, HostStep, TerminalName

\* A step that only begins or ends a call.
LEMMA HostOnly ==
  ASSUME IInv, NEW o \in Occurrences, NEW call,
         SetHost(o, call), CallHolds(o, call), crashes' \in 0..MaxCrashes,
         UNCHANGED <<effects, records, controls, run, calls, under>>
  PROVE  IInv'
<1>1. Advances
  BY UnchangedAdvances DEF effects
<1>2. LedgerType'
  BY HostFacts DEF LedgerType, effects
<1> QED
  BY <1>1, <1>2, HostWrites DEF effects

LEMMA ReconcileStep ==
  ASSUME IInv, NEW o \in Occurrences, NEW says \in {"receipt", "mismatch"},
         Reconcile(o, says)
  PROVE  IInv'
<1> DEFINE call == [step |-> "settle", says |-> says, gate |-> Gate,
                    settled |-> ledger[o] \in Settled, value |-> "none"]
<1>1. Gate \in Gates /\ Real(Gate)
  BY GateIsReal DEF IInv
<1>2. call \in HostCalls /\ CallHolds(o, call)
  BY <1>1 DEF CallHolds, HostCalls, HostStep, TerminalName
<1>3. crashes' \in 0..MaxCrashes /\ SetHost(o, call)
  BY DEF Reconcile, IInv, TypeOK
<1> HIDE DEF call
<1> QED
  BY <1>2, <1>3, HostOnly DEF Reconcile

LEMMA HostFailsStep ==
  ASSUME IInv, NEW o \in Occurrences, HostFails(o)
  PROVE  IInv'
<1> DEFINE call == [NoCall EXCEPT !.says = "failure", !.gate = Gate]
<1>1. Gate \in Gates /\ Real(Gate)
  BY GateIsReal DEF IInv
<1>2. /\ call \in HostCalls /\ call.gate = Gate
      /\ call.step = "idle" /\ call.value = "none"
  BY <1>1 DEF NoCall, HostCalls, HostStep, TerminalName
<1> HIDE DEF call
<1>3. crashes' \in 0..MaxCrashes /\ UNCHANGED <<ledger, reason>>
  BY DEF HostFails, IInv, TypeOK, effects
<1>4. CASE ledger[o] = "verified" /\ SetHost(o, [call EXCEPT !.step = "consume"])
  <2>1. CallHolds(o, [call EXCEPT !.step = "consume"])
    BY <1>1, <1>2, <1>3, <1>4 DEF CallHolds, HostCalls, HostStep, TerminalName
  <2> QED
    BY <1>3, <1>4, <2>1, HostOnly DEF HostFails
<1>5. CASE /\ ledger[o] = "failed"
           /\ SetHost(o, [call EXCEPT !.step = "report",
                                      !.value = FailedTerminal(o)])
  <2>1. /\ FailedTerminal(o) \in TerminalName \ {"skipped", "verified"}
        /\ FailedTerminal(o) = "expired" => reason[o] = "expired"
    BY DEF FailedTerminal, TerminalName
  <2>2. CallHolds(o, [call EXCEPT !.step = "report",
                                  !.value = FailedTerminal(o)])
    BY <1>1, <1>2, <1>3, <2>1 DEF CallHolds, HostCalls, HostStep, TerminalName
  <2> QED
    BY <1>3, <1>5, <2>2, HostOnly DEF HostFails
<1>6. CASE SetHost(o, [call EXCEPT !.step = "fail"])
  <2>1. CallHolds(o, [call EXCEPT !.step = "fail"])
    BY <1>1, <1>2 DEF CallHolds, HostCalls, HostStep, TerminalName
  <2> QED
    BY <1>3, <1>6, <2>1, HostOnly DEF HostFails
<1> QED
  BY <1>4, <1>5, <1>6 DEF HostFails, call

LEMMA HostVerifiesStep ==
  ASSUME IInv, NEW o \in Occurrences, HostVerifies(o)
  PROVE  IInv'
<1>1. /\ ledger[o] \in Unverified \cup {"verified"}
      /\ SetLedger(o, "verified") /\ "verified" \in EffectState
      /\ SetHost(o, [host[o] EXCEPT !.step = "consume"])
  BY DEF HostVerifies, Takes, EffectState
<1>2. audit[o] # "skipped"
  BY <1>1 DEF IInv, FilesInv, ClaimsAreTrue, Unverified
<1>3. LedgerType' /\ Advances /\ ledger'[o] = "verified"
  BY <1>1, <1>2, HostFacts, SetLedgerStep DEF Unverified, LedgerType
<1>4. CallHolds(o, [host[o] EXCEPT !.step = "consume"])
  BY <1>3, HostFacts DEF CallHolds, HostCalls, HostStep
<1> QED
  BY <1>1, <1>3, <1>4, HostWrites DEF HostVerifies, IInv, TypeOK

\* The host fails its effect, or reports what it read, or gives up.
LEMMA HostRefuses ==
  ASSUME IInv, NEW o \in Occurrences, NEW why \in {"mismatch", "other"},
         NEW terminal \in {"failed", "none"}, NEW call,
         \/ ledger[o] \in Failable /\ FailLedger(o, why)
         \/ UNCHANGED <<ledger, reason>>,
         \/ call = [host[o] EXCEPT !.step = "report", !.value = terminal]
         \/ call = NoCall,
         SetHost(o, call),
         UNCHANGED <<lapsed, records, controls, run, calls, under, crashes>>
  PROVE  IInv'
<1>1. LedgerType' /\ Advances
  <2>1. CASE ledger[o] \in Failable /\ FailLedger(o, why)
    <3>1. audit[o] # "skipped"
      BY <2>1 DEF IInv, FilesInv, ClaimsAreTrue, Failable
    <3> QED
      BY <2>1, <3>1, HostFacts, FailLedgerStep DEF Failable, Settled
  <2>2. CASE UNCHANGED <<ledger, reason>>
    BY <2>2, HostFacts, UnchangedAdvances DEF LedgerType
  <2> QED
    BY <2>1, <2>2
<1>2. CallHolds(o, call)
  <2>1. CASE call = NoCall
    BY <2>1, NoCallHolds
  <2>2. CASE call = [host[o] EXCEPT !.step = "report", !.value = terminal]
    <3>1. "report" \in HostStep /\ terminal \in TerminalName
      BY DEF HostStep, TerminalName
    <3>2. call \in HostCalls /\ call.gate = host[o].gate
      BY <2>2, <3>1, HostFacts DEF HostCalls
    <3>3. call.step = "report" /\ call.value = terminal
      BY <2>2, HostFacts DEF HostCalls
    <3> QED
      BY <3>2, <3>3, HostFacts DEF CallHolds
  <2> QED
    BY <2>1, <2>2
<1> QED
  BY <1>1, <1>2, HostWrites DEF IInv, TypeOK

LEMMA HostMismatchesStep ==
  ASSUME IInv, NEW o \in Occurrences, HostMismatches(o)
  PROVE  IInv'
<1>1. CASE /\ ledger[o] \in Failable /\ FailLedger(o, "mismatch")
           /\ HostReport(o, "failed")
  BY <1>1, HostRefuses DEF HostMismatches, HostReport
<1>2. CASE UNCHANGED <<ledger, reason>> /\ HostReport(o, "failed")
  BY <1>2, HostRefuses DEF HostMismatches, HostReport
<1>3. CASE UNCHANGED <<ledger, reason>> /\ HostReport(o, "none")
  BY <1>3, HostRefuses DEF HostMismatches, HostReport
<1> QED
  BY <1>1, <1>2, <1>3 DEF HostMismatches

LEMMA HostGivesUpStep ==
  ASSUME IInv, NEW o \in Occurrences, HostGivesUp(o)
  PROVE  IInv'
<1>1. CASE /\ ledger[o] \in Failable /\ FailLedger(o, "other")
           /\ HostReport(o, "failed")
  BY <1>1, HostRefuses DEF HostGivesUp, HostReport
<1>2. CASE UNCHANGED <<ledger, reason>> /\ SetHost(o, NoCall)
  BY <1>2, HostRefuses DEF HostGivesUp
<1> QED
  BY <1>1, <1>2 DEF HostGivesUp

LEMMA HostConsumesStep ==
  ASSUME IInv, NEW o \in Occurrences, HostConsumes(o)
  PROVE  IInv'
<1> DEFINE call == [host[o] EXCEPT !.step = "report", !.value = "verified"]
<1>1. /\ host[o].step = "consume" /\ SetHost(o, call)
      /\ UNCHANGED <<effects, records, run, calls, under, crashes>>
  BY DEF HostConsumes, HostReport
<1>2. ledger[o] = "verified" /\ host[o].gate \in Gates /\ Real(host[o].gate)
  BY <1>1, HostFacts DEF HostCalls
<1>3. \/ UNCHANGED controls
      \/ host[o].gate.mode = "play_next" /\ ConsumeFor(o, host[o].gate.id)
  BY DEF HostConsumes, ConsumeIf
<1>4. /\ control' \in [Slots -> Gates] /\ UNCHANGED puts
      /\ \A s \in Slots : Real(control'[s])
      /\ consumed' \subseteq (1..MaxPuts) \X Occurrences
      /\ \A c \in consumed' : ledger'[c[2]] = "verified"
  BY <1>1, <1>2, <1>3, VerifiedConsumes DEF effects
<1>5. Advances
  BY <1>1, UnchangedAdvances DEF effects
<1>6. CallHolds(o, call)
  BY <1>1, <1>2, HostFacts
  DEF CallHolds, HostCalls, HostStep, TerminalName, effects
<1>7. HostInv' /\ host' \in [Occurrences -> HostCalls]
  BY <1>1, <1>5, <1>6, HostSteps
<1>8. TypeOK'
  BY <1>1, <1>4, <1>7 DEF IInv, TypeOK, HostCalls, effects, records
<1>9. RunInv'
  BY <1>1, <1>5, RunKeeps DEF records
<1>10. FilesInv' /\ AtMostOneCall'
  BY <1>1, <1>4
  DEF IInv, FilesInv, ClaimsAreTrue, AtMostOneCall, effects, records, Real
<1> QED
  BY <1>7, <1>8, <1>9, <1>10 DEF IInv

LEMMA HostFinishesStep ==
  ASSUME IInv, NEW o \in Occurrences, HostFinishes(o)
  PROVE  IInv'
<1>1. /\ host[o].step = "report" /\ SetHost(o, NoCall)
      /\ Row(o, host[o].gate, host[o].value)
      /\ UNCHANGED <<effects, controls, run, calls, under, crashes>>
  BY DEF HostFinishes
<1>2. /\ Truthful(o, host[o].value)
      /\ host[o].gate \in Gates /\ host[o].value \in TerminalName
  BY <1>1, HostFacts DEF HostCalls
<1>3. /\ audit' \in [Occurrences -> TerminalName]
      /\ bound' \in [Occurrences -> 0..MaxPuts]
      /\ \A x \in Occurrences : audit'[x] = "skipped" => audit[x] = "skipped"
      /\ ClaimsAreTrue'
  BY <1>1, <1>2, TrueRow DEF effects
<1>4. Advances
  BY <1>1, UnchangedAdvances DEF effects
<1>5. HostInv' /\ host' \in [Occurrences -> HostCalls]
  BY <1>1, <1>4, NoCallHolds, HostSteps
<1>6. TypeOK'
  BY <1>1, <1>3, <1>5 DEF IInv, TypeOK, HostCalls, effects, controls
<1>7. RunInv'
  BY <1>1, <1>3, <1>4, RunKeeps
<1>8. FilesInv' /\ AtMostOneCall'
  BY <1>1, <1>3 DEF IInv, FilesInv, AtMostOneCall, effects, controls, Real
<1> QED
  BY <1>5, <1>6, <1>7, <1>8 DEF IInv

LEMMA HostCrashesStep ==
  ASSUME IInv, NEW o \in Occurrences, HostCrashes(o)
  PROVE  IInv'
<1>1. crashes' \in 0..MaxCrashes
  BY LimitsAssumption DEF HostCrashes, IInv, TypeOK
<1> QED
  BY <1>1, NoCallHolds, HostOnly DEF HostCrashes

-----------------------------------------------------------------------------
(* Controls and time. *)

\* The controls change, and the gates that were read keep their own.
LEMMA ControlSteps ==
  ASSUME IInv, control' \in [Slots -> Gates], puts' \in 0..MaxPuts,
         \A s \in Slots : Real(control'[s]),
         UNCHANGED <<effects, records, consumed, run, host, calls, under, crashes>>
  PROVE  IInv'
<1>1. Advances
  BY UnchangedAdvances DEF effects
<1>2. TypeOK'
  BY DEF IInv, TypeOK, effects, records
<1>3. RunInv' /\ HostInv'
  BY <1>1, RunKeeps, HostKeeps DEF records
<1>4. FilesInv' /\ AtMostOneCall'
  BY DEF IInv, FilesInv, ClaimsAreTrue, AtMostOneCall, effects, records, Real
<1> QED
  BY <1>2, <1>3, <1>4 DEF IInv

LEMMA PutStep ==
  ASSUME IInv, NEW s \in Slots, NEW mode \in {"pause", "play_next"},
         Put(s, mode)
  PROVE  IInv'
<1> DEFINE gate == [id |-> puts + 1, mode |-> mode]
<1>1. puts \in 0..MaxPuts /\ puts < MaxPuts /\ puts' = puts + 1
  BY DEF Put, IInv, TypeOK
<1>2. puts' \in 0..MaxPuts /\ gate \in Gates /\ Real(gate)
  BY <1>1, LimitsAssumption DEF Gates, Modes, Real
<1>3. control' = [control EXCEPT ![s] = gate]
  BY DEF Put
<1> HIDE DEF gate
<1>4. control' \in [Slots -> Gates] /\ \A x \in Slots : Real(control'[x])
  BY <1>2, <1>3 DEF IInv, TypeOK, FilesInv
<1> QED
  BY <1>2, <1>4, ControlSteps DEF Put

LEMMA WithdrawStep ==
  ASSUME IInv, NEW s \in Slots, Withdraw(s)
  PROVE  IInv'
<1>1. NoGate \in Gates /\ Real(NoGate)
  BY LimitsAssumption DEF NoGate, Gates, Modes, Real
<1>2. control' \in [Slots -> Gates] /\ \A x \in Slots : Real(control'[x])
  BY <1>1 DEF Withdraw, IInv, TypeOK, FilesInv
<1> QED
  BY <1>2, ControlSteps DEF Withdraw, IInv, TypeOK

LEMMA LapseStep ==
  ASSUME IInv, NEW o \in Occurrences, Lapse(o)
  PROVE  IInv'
<1>1. Advances
  BY UnchangedAdvances DEF Lapse
<1>2. TypeOK'
  BY DEF Lapse, IInv, TypeOK, records, controls
<1>3. RunInv' /\ HostInv'
  BY <1>1, RunKeeps, HostKeeps DEF Lapse, records
<1>4. FilesInv' /\ AtMostOneCall'
  BY <1>1, FilesKeep DEF Lapse, records, controls
<1> QED
  BY <1>2, <1>3, <1>4 DEF IInv

-----------------------------------------------------------------------------
(* The theorems. *)

LEMMA ContinueStep ==
  ASSUME IInv, Continue
  PROVE  IInv'
BY CheckStep, SettleExpiredStep, ReportExpiredStep, ResumeStep, DeclineStep,
   BeginIntentStep, MarkPendingStep, RunProviderStep, ProviderFailsStep,
   ProviderAcceptsStep, ProviderVerifiesStep, ProviderMismatchesStep,
   ConsumeVerifiedStep, FinishStep
DEF Continue

LEMMA HostActsStep ==
  ASSUME IInv, NEW o \in Occurrences, HostActs(o)
  PROVE  IInv'
BY ReconcileStep, HostVerifiesStep, HostMismatchesStep, HostConsumesStep,
   HostFailsStep, HostGivesUpStep, HostFinishesStep
DEF HostActs

LEMMA NextKeepsIInv ==
  ASSUME IInv, [Next]_vars
  PROVE  IInv'
<1>1. CASE Next
  BY <1>1, ContinueStep, RunCrashesStep, BeginStep, HostActsStep,
     HostCrashesStep, LapseStep, PutStep, WithdrawStep
  DEF Next
<1>2. CASE UNCHANGED vars
  <2> USE <1>2 DEF vars, effects, records, controls
  <2>1. crashes' \in 0..MaxCrashes /\ RunType'
    BY DEF IInv, TypeOK, RunType
  <2>2. Advances
    BY UnchangedAdvances
  <2>3. RunInv'
    BY <2>2, RunKeeps
  <2> QED
    BY <2>1, <2>3, RunOnly
<1> QED
  BY <1>1, <1>2

\* The invariant holds of every reachable state, from any number of
\* occurrences and controls.
LEMMA InductiveInvariant == Spec => []IInv
BY InitIInv, NextKeepsIInv, PTL DEF Spec

\* However runs and host calls overlap and wherever they are cut short, the
\* provider is called once for an occurrence at most.
THEOREM ProviderCalledOnce == Spec => []AtMostOneCall
<1>1. IInv => AtMostOneCall
  BY DEF IInv
<1> QED
  BY <1>1, InductiveInvariant, PTL

\* A terminal in the audit is never contradicted by the ledger, also when run
\* and host settle the effect at once.
THEOREM TerminalsAlwaysTrue == Spec => []ClaimsAreTrue
<1>1. IInv => ClaimsAreTrue
  BY DEF IInv, FilesInv
<1> QED
  BY <1>1, InductiveInvariant, PTL

\* A control is consumed only for work whose effect is verified, and what is
\* verified stays so.
THEOREM OnlyVerifiedConsumes == Spec => []ConsumedAfterVerified
<1>1. IInv => ConsumedAfterVerified
  BY DEF IInv, FilesInv, ConsumedAfterVerified
<1> QED
  BY <1>1, InductiveInvariant, PTL

=============================================================================
