--------------------------- MODULE Heartbeat_proofs ---------------------------
(***************************************************************************)
(* Proofs about Heartbeat, for any occurrences, runs and kinds of effects, *)
(* and any number of crashes; and, at the end, about its cadence, for any  *)
(* sources, receipts and policy, and maps of any capacity.                 *)
(*                                                                         *)
(* The argument for Heartbeat has two halves.  What the files say          *)
(* (FilesInv) survives every step that leaves settled and requeued effects *)
(* alone.  That every step does is owed to the run that holds              *)
(* heartbeat_execution: Holds says what this run knows at each point, and  *)
(* the host, which does not take the lock, changes nothing that it relies  *)
(* on.  Of the cadence's maps CadenceInv says what was dropped from them.  *)
(***************************************************************************)
EXTENDS Heartbeat, Cadence, FiniteSetTheorems, FunctionTheorems, TLAPS

Outside == {"idle", "entered"}

\* Exactly the run that holds the lock is beyond its entry.
LockInv ==
  \A r \in Runs : /\ run[r].phase \notin Outside <=> lock = r
                  /\ run[r].phase \in Outside =>
                       /\ run[r].step = "next"
                       /\ \A k \in Kinds : run[r].result[k] = "none"

\* What holds of the state s of the run that has the lock.
Holds(s) ==
  \* Without a plan it has decided nothing; with one, it handles its effects.
  /\ s.phase \in {"gates", "reconcile", "judge"} => plan[s.occ] = NoPlan
  /\ s.phase \in {"recover", "prepare", "execute"} =>
       \A e \in s.todo : e \in Planned(s.occ)
  /\ s.phase \in {"recover", "prepare", "execute"} /\ s.step # "next" =>
       s.at \in Planned(s.occ)
  \* Where its steps belong.
  /\ s.phase \in {"gates", "judge", "failing", "skipping"} => s.step = "next"
  /\ s.step # "next" => s.at \in Effects /\ s.at \notin s.todo
  /\ s.step \in {"call", "called", "repeated"} => s.phase = "execute"
  /\ s.step = "expire" => s.phase = "recover"
  /\ s.step = "requeue" => s.phase \in {"recover", "reconcile"}
  /\ s.step = "requeue" => ledger[s.at] = "expired"
  \* Intents come before calls, and a call after each intent at most.
  /\ s.phase = "prepare" =>
       /\ s.step = "next"
       /\ \A e \in Planned(s.occ) :
            /\ calls[e] = 0 /\ ledger[e] \in {"absent", "intent"}
            /\ e \notin s.todo => ledger[e] = "intent"
  /\ s.phase = "execute" =>
       /\ \A e \in Planned(s.occ) :
            ledger[e] \notin {"absent", "expired", "requeued"}
       /\ \A e \in s.todo : calls[e] = 0 /\ ledger[e] = "intent"
       /\ s.step = "call" => calls[s.at] = 0
       /\ s.step \in {"call", "called", "repeated"} => ledger[s.at] # "intent"
  \* It waits for no other occurrence.
  /\ s.phase \in {"judge", "prepare", "execute"} =>
       \A e \in Effects : ledger[e] \in Unverified => Occ(e) = s.occ
  \* What it is about to write is true.
  /\ s.step = "mark" =>
       /\ s.value \in {"verified", "requeued"} => ledger[s.at] = s.value
       /\ s.value # "intentional_silence"
  /\ s.phase = "reconcile" => \A e \in s.todo : s.seen[e] \in Unverified
  /\ \A e \in Effects : Occ(e) = s.occ =>
       /\ s.result[Kind(e)] = "verified" => ledger[e] = "verified"
       /\ s.result[Kind(e)] = "silent" => IsSilent(e)

HolderInv == \A r \in Runs : lock = r => Holds(run[r])

\* The host's marks are true.
HostInv ==
  \A e \in Effects :
    /\ host[e].value \in {"verified", "requeued"} => ledger[e] = host[e].value
    /\ host[e].value = "intentional_silence" => IsSilent(e)

\* Nothing is done for an effect before it is planned.
PlanFirst ==
  \A e \in Effects : e \notin Planned(Occ(e)) =>
    ledger[e] = "absent" /\ calls[e] = 0

MarkersAreTrue ==
  \A e \in Effects :
    /\ marker[e] \in {"verified", "requeued"} => ledger[e] = marker[e]
    /\ marker[e] = "intentional_silence" => IsSilent(e)

\* What the files say.
FilesInv ==
  /\ PlanFirst
  /\ MarkersAreTrue
  /\ ClaimsAreTrue
  /\ IntentsBeforeCalls

\* The inductive invariant.
IInv ==
  /\ TypeOK
  /\ LockInv
  /\ HolderInv
  /\ HostInv
  /\ FilesInv
  /\ OnePendingOccurrence
  /\ ~ OptionalIntent => AtMostOneCall

-----------------------------------------------------------------------------
(* Effects. *)

LEMMA EffectParts ==
  /\ \A e \in Effects : Occ(e) \in Occurrences /\ Kind(e) \in Kinds
  /\ \A e, f \in Effects : Occ(e) = Occ(f) /\ Kind(e) = Kind(f) => e = f
BY DEF Effects, Occ, Kind

LEMMA PlannedParts ==
  ASSUME TypeOK, NEW o \in Occurrences
  PROVE  /\ \A e \in Planned(o) : e \in Effects /\ Occ(e) = o
         /\ \A e \in Effects : e \in Planned(o) <=>
              Occ(e) = o /\ Kind(e) \in plan[o].kinds
         /\ plan[o] = NoPlan => Planned(o) = {}
         /\ plan[o].kinds # {} <=> Planned(o) # {}
<1>1. plan[o] \in Plan
  BY DEF TypeOK
<1>2. plan[o].kinds \subseteq Kinds
  BY <1>1 DEF Plan
<1>3. \A e \in Planned(o) : e \in Effects /\ Occ(e) = o
  BY <1>2 DEF Planned, Effects, Occ
<1>4. ASSUME NEW e \in Effects
      PROVE  e \in Planned(o) <=> Occ(e) = o /\ Kind(e) \in plan[o].kinds
  <2>1. PICK x \in Occurrences, k \in Kinds : e = <<x, k>>
    BY DEF Effects
  <2> QED
    BY <2>1 DEF Planned, Occ, Kind
<1>5. plan[o].kinds # {} => Planned(o) # {}
  <2>1. \A k \in plan[o].kinds : <<o, k>> \in Planned(o)
    BY DEF Planned
  <2> QED
    BY <2>1
<1>6. plan[o].kinds = {} => Planned(o) = {}
  BY DEF Planned
<1>7. plan[o] = NoPlan => plan[o].kinds = {}
  BY DEF NoPlan
<1> QED
  BY <1>3, <1>4, <1>5, <1>6, <1>7

-----------------------------------------------------------------------------
(* What a step may do to the files. *)

\* Settled and requeued effects stay as they are, and a new effect is planned.
Advances ==
  \A e \in Effects :
    /\ ledger[e] \in Settled \cup {"requeued"}
         => ledger'[e] = ledger[e] /\ reason'[e] = reason[e]
    /\ ledger[e] # "absent" => ledger'[e] # "absent"
    /\ ledger[e] = "absent" /\ ledger'[e] # "absent" => e \in Planned(Occ(e))

\* A ledger that advances keeps every claim made of it.
LEMMA AdvancingKeepsFiles ==
  ASSUME TypeOK, FilesInv, Advances, UNCHANGED <<plan, marker, audit, calls>>
  PROVE  FilesInv'
<1>1. \A o \in Occurrences : Planned(o)' = Planned(o)
  BY DEF Planned
<1>2. \A o \in Occurrences : \A e \in Planned(o) : e \in Effects
  BY PlannedParts
<1>3. \A e \in Effects : IsSilent(e) => IsSilent(e)'
  BY DEF Advances, IsSilent, Settled
<1>4. PlanFirst'
  BY <1>1, EffectParts DEF FilesInv, PlanFirst, Advances
<1>5. MarkersAreTrue'
  BY <1>3 DEF FilesInv, MarkersAreTrue, Advances, Settled
<1>6. ClaimsAreTrue'
  <2> SUFFICES ASSUME NEW o \in Occurrences,
                      audit[o].terminal \in {"verified", "intentional_silence"}
               PROVE  AllSettled(o)' /\ Aggregate(o)' = audit[o].terminal
    BY DEF ClaimsAreTrue
  <2>1. AllSettled(o) /\ Aggregate(o) = audit[o].terminal
    BY DEF FilesInv, ClaimsAreTrue
  <2>2. \A e \in Planned(o) : ledger'[e] = ledger[e] /\ reason'[e] = reason[e]
    BY <1>2, <2>1 DEF AllSettled, Advances
  <2>3. AllSettled(o)'
    BY <1>1, <2>1, <2>2 DEF AllSettled
  <2>4. \A e \in Planned(o) : IsSilent(e)' <=> IsSilent(e)
    BY <2>2 DEF IsSilent
  <2>5. Aggregate(o)' = Aggregate(o)
    BY <1>1, <2>2, <2>4 DEF Aggregate
  <2> QED
    BY <2>1, <2>3, <2>5
<1>7. IntentsBeforeCalls'
  BY <1>1, <1>2, EffectParts DEF FilesInv, IntentsBeforeCalls, Advances
<1> QED
  BY <1>4, <1>5, <1>6, <1>7 DEF FilesInv

\* Advancing leaves the host's open reports true.
LEMMA AdvancingKeepsHost ==
  ASSUME TypeOK, HostInv, Advances, UNCHANGED host
  PROVE  HostInv'
BY DEF HostInv, Advances, IsSilent, Settled

-----------------------------------------------------------------------------
(* How a run moves on. *)

\* The other runs are as they were, and r is at s.
LEMMA GotoMoves ==
  ASSUME TypeOK, NEW r \in Runs, NEW s \in RunState, Goto(r, s)
  PROVE  /\ run' \in [Runs -> RunState]
         /\ run'[r] = s
         /\ \A q \in Runs : q # r => run'[q] = run[q]
BY DEF TypeOK, Goto

\* What a run carries besides the effect it is at.
SameErrand(r) ==
  /\ run'[r].occ = run[r].occ
  /\ run'[r].phase = run[r].phase
  /\ run'[r].seen = run[r].seen
  /\ run'[r].due = run[r].due

OthersStay(r) ==
  /\ run' \in [Runs -> RunState]
  /\ \A q \in Runs : q # r => run'[q] = run[q]

LEMMA Proceeds ==
  ASSUME TypeOK, NEW r \in Runs, NEW e \in Effects, NEW step \in Step,
         Proceed(r, e, step)
  PROVE  /\ OthersStay(r) /\ SameErrand(r)
         /\ run'[r].step = step /\ run'[r].at = e
         /\ run'[r].todo = run[r].todo \ {e}
         /\ run'[r].value = run[r].value
         /\ run'[r].result = run[r].result
<1> DEFINE s == [run[r] EXCEPT !.step = step, !.at = e, !.todo = @ \ {e}]
<1>1. run[r] \in RunState
  BY DEF TypeOK
<1>2. /\ s \in RunState
      /\ s.occ = run[r].occ /\ s.phase = run[r].phase /\ s.seen = run[r].seen
      /\ s.due = run[r].due /\ s.value = run[r].value /\ s.result = run[r].result
      /\ s.step = step /\ s.at = e /\ s.todo = run[r].todo \ {e}
  BY <1>1 DEF RunState
<1>3. Goto(r, s)
  BY DEF Proceed
<1> HIDE DEF s
<1> QED
  BY <1>2, <1>3, GotoMoves DEF OthersStay, SameErrand

LEMMA Resolves ==
  ASSUME TypeOK, NEW r \in Runs, NEW e \in Effects, NEW result \in Result,
         Resolve(r, e, result)
  PROVE  /\ OthersStay(r) /\ SameErrand(r)
         /\ run'[r].step = "next" /\ run'[r].todo = run[r].todo \ {e}
         /\ run'[r].value = run[r].value
         /\ run'[r].result = [run[r].result EXCEPT ![Kind(e)] = result]
<1> DEFINE s == [run[r] EXCEPT !.step = "next", !.at = NoEffect,
                               !.todo = @ \ {e}, !.result[Kind(e)] = result]
<1>1. run[r] \in RunState
  BY DEF TypeOK
<1>2. [run[r].result EXCEPT ![Kind(e)] = result] \in [Kinds -> Result]
  BY <1>1 DEF RunState
<1>3. /\ s \in RunState
      /\ s.occ = run[r].occ /\ s.phase = run[r].phase /\ s.seen = run[r].seen
      /\ s.due = run[r].due /\ s.value = run[r].value
      /\ s.result = [run[r].result EXCEPT ![Kind(e)] = result]
      /\ s.step = "next" /\ s.todo = run[r].todo \ {e}
  BY <1>1, <1>2 DEF RunState, Step
<1>4. Goto(r, s)
  BY DEF Resolve
<1> HIDE DEF s
<1> QED
  BY <1>3, <1>4, GotoMoves DEF OthersStay, SameErrand

LEMMA ResolvesAndMarks ==
  ASSUME TypeOK, NEW r \in Runs, NEW e \in Effects, NEW result \in Result,
         NEW value \in Marker, ResolveAndMark(r, e, result, value)
  PROVE  /\ OthersStay(r) /\ SameErrand(r)
         /\ run'[r].step = "mark" /\ run'[r].at = e
         /\ run'[r].todo = run[r].todo \ {e} /\ run'[r].value = value
         /\ run'[r].result = [run[r].result EXCEPT ![Kind(e)] = result]
<1> DEFINE s == [run[r] EXCEPT !.step = "mark", !.at = e, !.todo = @ \ {e},
                               !.value = value, !.result[Kind(e)] = result]
<1>1. run[r] \in RunState
  BY DEF TypeOK
<1>2. [run[r].result EXCEPT ![Kind(e)] = result] \in [Kinds -> Result]
  BY <1>1 DEF RunState
<1>3. /\ s \in RunState
      /\ s.occ = run[r].occ /\ s.phase = run[r].phase /\ s.seen = run[r].seen
      /\ s.due = run[r].due /\ s.value = value
      /\ s.result = [run[r].result EXCEPT ![Kind(e)] = result]
      /\ s.step = "mark" /\ s.at = e /\ s.todo = run[r].todo \ {e}
  BY <1>1, <1>2 DEF RunState, Step
<1>4. Goto(r, s)
  BY DEF ResolveAndMark
<1> HIDE DEF s
<1> QED
  BY <1>3, <1>4, GotoMoves DEF OthersStay, SameErrand

\* A change of phase alone.
LEMMA ChangesPhase ==
  ASSUME TypeOK, NEW r \in Runs, NEW phase \in Phase,
         Goto(r, [run[r] EXCEPT !.phase = phase])
  PROVE  /\ OthersStay(r)
         /\ run'[r] = [run[r] EXCEPT !.phase = phase]
<1>1. run[r] \in RunState
  BY DEF TypeOK
<1>2. [run[r] EXCEPT !.phase = phase] \in RunState
  BY <1>1 DEF RunState
<1> QED
  BY <1>2, GotoMoves DEF OthersStay

LEMMA IdleIsTyped ==
  ASSUME NEW o \in Occurrences
  PROVE  Idle \in RunState /\ Idle.phase = "idle"
<1>1. (CHOOSE x \in Occurrences : TRUE) \in Occurrences
  OBVIOUS
<1> QED
  BY <1>1 DEF Idle, RunState, Phase, Step, Marker, Result

-----------------------------------------------------------------------------
(* Steps of the run that holds the lock. *)

\* At most one row, about e: it is not the first of e, and does not follow one
\* that settled or requeued e.
RowAbout(e) ==
  /\ ledger' \in [Effects -> EffectState \cup {"absent"}]
  /\ reason' \in [Effects -> Reason]
  /\ \A f \in Effects : reason'[f] # "none" <=> ledger'[f] = "failed"
  /\ \A f \in Effects : f # e => ledger'[f] = ledger[f] /\ reason'[f] = reason[f]
  /\ ledger[e] \in Settled \cup {"requeued"}
       => ledger'[e] = ledger[e] /\ reason'[e] = reason[e]
  /\ ledger[e] = "absent" <=> ledger'[e] = "absent"
  /\ ledger'[e] \in Unverified => ledger[e] \in Unverified

LEMMA RowAdvances ==
  ASSUME NEW e \in Effects, RowAbout(e)
  PROVE  Advances
BY DEF RowAbout, Advances

LEMMA SameLedgerIsRow ==
  ASSUME TypeOK, NEW e \in Effects, UNCHANGED <<ledger, reason>>
  PROVE  RowAbout(e)
BY DEF TypeOK, RowAbout

\* e is the effect the run is at or turns to.
Handles(r, e) ==
  \/ run[r].step = "next" /\ e \in run[r].todo
  \/ run[r].step # "next" /\ run[r].at = e

Quietly == UNCHANGED <<lapsed, plan, marker, audit, lock, host, calls, crashes>>

\* What a row about one effect leaves to show: what the run knows.
LEMMA RowKeepsRest ==
  ASSUME IInv, NEW r \in Runs, lock = r, NEW e \in Effects, RowAbout(e),
         Quietly, OthersStay(r), run'[r].phase \notin Outside,
         Holds(run[r])'
  PROVE  IInv'
<1>1. TypeOK'
  BY DEF IInv, TypeOK, RowAbout, Quietly, OthersStay
<1>2. LockInv'
  BY DEF IInv, LockInv, Quietly, OthersStay
<1>3. HolderInv'
  BY DEF HolderInv, Quietly
<1>4. Advances
  BY RowAdvances
<1>5. HostInv' /\ FilesInv'
  BY <1>4, AdvancingKeepsFiles, AdvancingKeepsHost DEF IInv, Quietly
<1>6. OnePendingOccurrence'
  BY DEF IInv, OnePendingOccurrence, RowAbout
<1>7. ~ OptionalIntent => AtMostOneCall'
  BY DEF IInv, AtMostOneCall, Quietly
<1> QED
  BY <1>1, <1>2, <1>3, <1>5, <1>6, <1>7 DEF IInv

\* What the run knows of the effects it does not handle is not touched.
LEMMA ResultKeepsInvariant ==
  ASSUME IInv, NEW r \in Runs, lock = r, NEW e \in Effects,
         NEW result \in Result, NEW value \in Marker,
         Handles(r, e), run[r].phase \in {"recover", "reconcile", "execute"},
         RowAbout(e), Quietly,
         \/ Resolve(r, e, result)
         \/ /\ ResolveAndMark(r, e, result, value)
            /\ value \in {"verified", "requeued"} => ledger'[e] = value
            /\ value # "intentional_silence",
         result = "verified" => ledger'[e] = "verified",
         result = "silent" => IsSilent(e)',
         run[r].phase = "reconcile" => result \notin {"verified", "silent"},
         run[r].phase = "execute" =>
           ledger'[e] \notin {"absent", "expired", "requeued"}
  PROVE  IInv'
<1>1. Holds(run[r]) /\ run[r].occ \in Occurrences /\ run[r].phase \notin Outside
        /\ run[r].result \in [Kinds -> Result]
  BY DEF IInv, HolderInv, TypeOK, RunState, LockInv
<1>2. /\ OthersStay(r) /\ SameErrand(r)
      /\ run'[r].todo = run[r].todo \ {e}
      /\ run'[r].result = [run[r].result EXCEPT ![Kind(e)] = result]
      /\ \/ run'[r].step = "next"
         \/ /\ run'[r].step = "mark" /\ run'[r].at = e /\ run'[r].value = value
            /\ value \in {"verified", "requeued"} => ledger'[e] = value
            /\ value # "intentional_silence"
  BY Resolves, ResolvesAndMarks DEF IInv
<1>3. Planned(run[r].occ)' = Planned(run[r].occ)
  BY <1>2 DEF Planned, Quietly, SameErrand
<1>4. run[r].phase \in {"recover", "execute"} => e \in Planned(run[r].occ)
  BY <1>1 DEF Holds, Handles
<1>5. \A f \in Planned(run[r].occ) : f \in Effects /\ Occ(f) = run[r].occ
  BY <1>1, PlannedParts DEF IInv
<1>6. \A f \in Effects : Occ(f) = run[r].occ =>
        /\ run'[r].result[Kind(f)] = "verified" => ledger'[f] = "verified"
        /\ run'[r].result[Kind(f)] = "silent" => IsSilent(f)'
  <2> SUFFICES ASSUME NEW f \in Effects, Occ(f) = run[r].occ
               PROVE  /\ run'[r].result[Kind(f)] = "verified"
                           => ledger'[f] = "verified"
                      /\ run'[r].result[Kind(f)] = "silent" => IsSilent(f)'
    OBVIOUS
  <2>1. CASE Kind(f) # Kind(e)
    <3>1. run'[r].result[Kind(f)] = run[r].result[Kind(f)]
      BY <1>1, <1>2, <2>1, EffectParts
    <3>2. ledger'[f] = ledger[f] /\ reason'[f] = reason[f]
      BY <2>1 DEF RowAbout
    <3> QED
      BY <1>1, <3>1, <3>2 DEF Holds, IsSilent
  <2>2. CASE Kind(f) = Kind(e)
    <3>1. run'[r].result[Kind(f)] = result
      BY <1>1, <1>2, <2>2, EffectParts
    <3>2. run[r].phase # "reconcile" => f = e
      BY <1>4, <1>5, <2>2, EffectParts
    <3> QED
      BY <3>1, <3>2
  <2> QED
    BY <2>1, <2>2
<1>7. /\ run'[r].phase = run[r].phase /\ run'[r].occ = run[r].occ
      /\ run'[r].seen = run[r].seen
  BY <1>2 DEF SameErrand
<1>8. \A f \in run'[r].todo : f \in run[r].todo /\ f # e
  BY <1>2
<1>9. \A f \in Effects : f # e => ledger'[f] = ledger[f]
  BY DEF RowAbout
<1>10. \A f \in run[r].todo : f \in Effects
  BY DEF IInv, TypeOK, RunState
<1>11. UNCHANGED <<plan, calls>>
  BY DEF Quietly
<1>12. Holds(run[r])'
  <2>1. run'[r].phase \in {"recover", "execute"} =>
          /\ \A f \in run'[r].todo : f \in Planned(run[r].occ)
          /\ run'[r].step # "next" => run'[r].at \in Planned(run[r].occ)
    BY <1>1, <1>2, <1>4, <1>7, <1>8 DEF Holds
  <2>2. run'[r].phase = "execute" =>
          /\ \A f \in Planned(run[r].occ) :
               ledger'[f] \notin {"absent", "expired", "requeued"}
          /\ \A f \in run'[r].todo : calls'[f] = 0 /\ ledger'[f] = "intent"
    BY <1>1, <1>5, <1>7, <1>8, <1>9, <1>10, <1>11 DEF Holds
  <2>3. run'[r].phase = "execute" =>
          \A f \in Effects : ledger'[f] \in Unverified => Occ(f) = run[r].occ
    BY <1>1, <1>7 DEF Holds, RowAbout
  <2>4. run'[r].phase = "reconcile" =>
          \A f \in run'[r].todo : run'[r].seen[f] \in Unverified
    BY <1>1, <1>7, <1>8 DEF Holds
  <2>5. run'[r].phase \in {"gates", "reconcile", "judge"} =>
          plan'[run[r].occ] = NoPlan
    BY <1>1, <1>7, <1>11 DEF Holds
  <2>6. run'[r].step # "next" => run'[r].at \in Effects
          /\ run'[r].at \notin run'[r].todo
    BY <1>2
  <2> QED
    BY <1>2, <1>3, <1>6, <1>7, <2>1, <2>2, <2>3, <2>4, <2>5, <2>6 DEF Holds
<1> QED
  BY <1>1, <1>2, <1>7, <1>12, RowKeepsRest

\* A run that handles e further.
LEMMA ProceedingKeepsInvariant ==
  ASSUME IInv, NEW r \in Runs, lock = r, NEW e \in Effects, NEW step \in Step,
         Handles(r, e), Proceed(r, e, step), Quietly,
         ledger' \in [Effects -> EffectState \cup {"absent"}],
         reason' = reason, ledger[e] # "failed", ledger'[e] # "failed",
         \A f \in Effects : f # e => ledger'[f] = ledger[f],
         step \in {"expire", "requeue", "call"},
         step = "expire" => run[r].phase = "recover" /\ UNCHANGED ledger,
         step = "requeue" =>
           /\ run[r].phase \in {"recover", "reconcile"}
           /\ ledger[e] \in Unverified \cup {"expired"}
           /\ ledger'[e] = "expired",
         step = "call" =>
           /\ run[r].phase = "execute" /\ run[r].step = "next"
           /\ ledger'[e] = "pending"
  PROVE  IInv'
<1>1. Holds(run[r]) /\ run[r].occ \in Occurrences /\ run[r].phase \notin Outside
        /\ run[r].result \in [Kinds -> Result]
  BY DEF IInv, HolderInv, TypeOK, RunState, LockInv
<1>2. /\ OthersStay(r) /\ SameErrand(r)
      /\ run'[r].step = step /\ run'[r].at = e
      /\ run'[r].todo = run[r].todo \ {e}
      /\ run'[r].result = run[r].result
  BY Proceeds DEF IInv
<1>3. Planned(run[r].occ)' = Planned(run[r].occ)
  BY <1>2 DEF Planned, Quietly, SameErrand
<1>4. run[r].phase \in {"recover", "execute"} => e \in Planned(run[r].occ)
  BY <1>1 DEF Holds, Handles
<1>5. \A f \in Planned(run[r].occ) : f \in Effects /\ Occ(f) = run[r].occ
  BY <1>1, PlannedParts DEF IInv
<1>6. step = "call" => ledger[e] = "intent" /\ calls[e] = 0
  BY <1>1 DEF Holds, Handles
<1>7. /\ run'[r].phase = run[r].phase /\ run'[r].occ = run[r].occ
      /\ run'[r].seen = run[r].seen
  BY <1>2 DEF SameErrand
<1>8. \A f \in run'[r].todo : f \in run[r].todo /\ f # e /\ f \in Effects
  BY <1>2 DEF IInv, TypeOK, RunState
<1>9. UNCHANGED <<plan, calls>>
  BY DEF Quietly
<1>10. Advances
  BY <1>6 DEF Advances, Settled, Unverified
<1>11. \A f \in Effects : IsSilent(f) => IsSilent(f)'
  BY <1>10 DEF Advances, IsSilent, Settled
<1>12. \A f \in Effects : ledger'[f] \in Unverified =>
         ledger[f] \in Unverified \/ (step = "call" /\ f = e)
  <2> SUFFICES ASSUME NEW f \in Effects, ledger'[f] \in Unverified,
                      ledger[f] \notin Unverified
               PROVE  step = "call" /\ f = e
    OBVIOUS
  <2>1. f = e
    OBVIOUS
  <2> QED
    BY <2>1 DEF Unverified
<1>13. Holds(run[r])'
  <2>1. run'[r].phase \in {"recover", "execute"} =>
          /\ \A f \in run'[r].todo : f \in Planned(run[r].occ)
          /\ run'[r].at \in Planned(run[r].occ)
    BY <1>1, <1>2, <1>4, <1>7, <1>8 DEF Holds
  <2>2. run'[r].phase = "execute" =>
          /\ \A f \in Planned(run[r].occ) :
               ledger'[f] \notin {"absent", "expired", "requeued"}
          /\ \A f \in run'[r].todo : calls'[f] = 0 /\ ledger'[f] = "intent"
          /\ calls'[e] = 0 /\ ledger'[e] # "intent"
    BY <1>1, <1>5, <1>6, <1>7, <1>8, <1>9 DEF Holds
  <2>3. run'[r].phase = "execute" =>
          \A f \in Effects : ledger'[f] \in Unverified => Occ(f) = run[r].occ
    BY <1>1, <1>4, <1>5, <1>7, <1>12 DEF Holds
  <2>4. run'[r].phase = "reconcile" =>
          \A f \in run'[r].todo : run'[r].seen[f] \in Unverified
    BY <1>1, <1>7, <1>8 DEF Holds
  <2>5. run'[r].phase \in {"gates", "reconcile", "judge"} =>
          plan'[run[r].occ] = NoPlan
    BY <1>1, <1>7, <1>9 DEF Holds
  <2>6. \A f \in Effects : Occ(f) = run[r].occ =>
          /\ run'[r].result[Kind(f)] = "verified" => ledger'[f] = "verified"
          /\ run'[r].result[Kind(f)] = "silent" => IsSilent(f)'
    BY <1>1, <1>2, <1>10, <1>11 DEF Holds, Advances, Settled
  <2>7. run'[r].phase \in {"recover", "reconcile", "execute"}
    BY <1>7
  <2> QED
    BY <1>2, <1>3, <1>7, <2>1, <2>2, <2>3, <2>4, <2>5, <2>6, <2>7 DEF Holds
<1>14. TypeOK'
  BY <1>2 DEF IInv, TypeOK, Quietly, OthersStay
<1>15. LockInv' /\ HolderInv'
  BY <1>1, <1>2, <1>7, <1>13 DEF IInv, LockInv, HolderInv, Quietly, OthersStay
<1>16. HostInv' /\ FilesInv'
  BY <1>10, AdvancingKeepsFiles, AdvancingKeepsHost DEF IInv, Quietly
<1>17. OnePendingOccurrence'
  <2>1. CASE step = "call"
    <3>1. \A f \in Effects : ledger[f] \in Unverified => Occ(f) = run[r].occ
      BY <1>1, <2>1 DEF Holds
    <3> QED
      BY <1>4, <1>5, <1>12, <2>1, <3>1 DEF OnePendingOccurrence
  <2>2. CASE step # "call"
    BY <1>12, <2>2 DEF IInv, OnePendingOccurrence
  <2> QED
    BY <2>1, <2>2
<1>18. ~ OptionalIntent => AtMostOneCall'
  BY <1>9 DEF IInv, AtMostOneCall
<1> QED
  BY <1>14, <1>15, <1>16, <1>17, <1>18 DEF IInv

\* A step of the run that holds or takes the lock and writes no file.
LEMMA SilentStepKeepsInvariant ==
  ASSUME IInv, NEW r \in Runs, lock \in {r, NoRun},
         UNCHANGED <<durable, host, calls, crashes>>, OthersStay(r),
         \/ lock' = r /\ run'[r].phase \notin Outside /\ Holds(run[r])'
         \/ lock' = NoRun /\ run'[r] = Idle
  PROVE  IInv'
<1>1. TypeOK'
  BY DEF IInv, TypeOK, OthersStay, durable
<1>2. Idle.phase \in Outside /\ Idle.step = "next"
        /\ \A k \in Kinds : Idle.result[k] = "none"
  BY DEF Idle, Outside
<1>3. LockInv'
  BY <1>2, NoRunAssumption DEF IInv, LockInv, OthersStay
<1>4. HolderInv'
  BY NoRunAssumption DEF HolderInv
<1>5. HostInv' /\ FilesInv'
  BY AdvancingKeepsFiles, AdvancingKeepsHost DEF IInv, Advances, durable
<1>6. OnePendingOccurrence' /\ (~ OptionalIntent => AtMostOneCall')
  BY DEF IInv, OnePendingOccurrence, AtMostOneCall, durable
<1> QED
  BY <1>1, <1>3, <1>4, <1>5, <1>6 DEF IInv

LEMMA ReleaseKeepsInvariant ==
  ASSUME IInv, NEW r \in Runs, lock = r, Release(r),
         UNCHANGED <<durable, host, calls, crashes>>
  PROVE  IInv'
<1>1. Idle \in RunState
  BY IdleIsTyped DEF IInv, TypeOK, RunState
<1>2. OthersStay(r) /\ run'[r] = Idle /\ lock' = NoRun
  BY <1>1, GotoMoves DEF Release, OthersStay, IInv
<1> QED
  BY <1>2, SilentStepKeepsInvariant

\* Between two effects a run may give up, or pass from one gate to the next.
LEMMA GivingUpKeepsInvariant ==
  ASSUME IInv, NEW r \in Runs, lock = r, run[r].step = "next",
         NEW phase \in {"failing", "skipping"},
         Goto(r, [run[r] EXCEPT !.phase = phase]),
         UNCHANGED <<durable, lock, host, calls, crashes>>
  PROVE  IInv'
<1>1. run[r] \in RunState /\ Holds(run[r])
  BY DEF IInv, TypeOK, HolderInv
<1>2. /\ OthersStay(r)
      /\ run'[r] = [run[r] EXCEPT !.phase = phase]
  BY ChangesPhase DEF IInv, Phase
<1>3. /\ run'[r].phase = phase /\ run'[r].step = "next"
      /\ run'[r].occ = run[r].occ /\ run'[r].result = run[r].result
  BY <1>1, <1>2 DEF RunState
<1>4. Holds(run[r])'
  BY <1>1, <1>3 DEF Holds, IsSilent, durable
<1> QED
  BY <1>2, <1>3, <1>4, SilentStepKeepsInvariant DEF Outside

\* cadence.record_effect_terminal, by the run.
LEMMA WriteMarkerKeepsInvariant ==
  ASSUME IInv, NEW r \in Runs, NEW e \in Effects, WriteMarker(r, e)
  PROVE  IInv'
<1>1. run[r] \in RunState
  BY DEF IInv, TypeOK
<1>2. lock = r /\ Holds(run[r]) /\ run[r].phase \notin Outside
  BY DEF WriteMarker, IInv, LockInv, HolderInv
<1> DEFINE s == [run[r] EXCEPT !.step = "next", !.at = NoEffect,
                               !.value = "none"]
<1>3. /\ s \in RunState
      /\ s.step = "next" /\ s.occ = run[r].occ /\ s.phase = run[r].phase
      /\ s.todo = run[r].todo /\ s.seen = run[r].seen /\ s.result = run[r].result
  BY <1>1 DEF RunState, Step, Marker
<1>4. Goto(r, s)
  BY DEF WriteMarker
<1> HIDE DEF s
<1>5. OthersStay(r) /\ run'[r] = s
  BY <1>3, <1>4, GotoMoves DEF IInv, OthersStay
<1>6. /\ marker' = [marker EXCEPT ![e] = run[r].value]
      /\ UNCHANGED <<ledger, reason, lapsed, plan, audit, lock, host, calls,
                     crashes>>
  BY DEF WriteMarker
<1>7. /\ run[r].value \in Marker /\ run[r].value # "intentional_silence"
      /\ run[r].value \in {"verified", "requeued"} => ledger[e] = run[r].value
  BY <1>1, <1>2 DEF WriteMarker, Holds, RunState
<1>8. TypeOK'
  BY <1>5, <1>6, <1>7 DEF IInv, TypeOK, OthersStay
<1>9. Holds(run[r])'
  BY <1>2, <1>3, <1>5, <1>6 DEF Holds, IsSilent, Planned
<1>10. LockInv' /\ HolderInv'
  BY <1>2, <1>3, <1>5, <1>6, <1>9 DEF IInv, LockInv, HolderInv, OthersStay
<1>11. HostInv' /\ OnePendingOccurrence' /\ (~ OptionalIntent => AtMostOneCall')
  BY <1>6 DEF IInv, HostInv, IsSilent, OnePendingOccurrence, AtMostOneCall
<1>12. MarkersAreTrue'
  BY <1>6, <1>7 DEF IInv, FilesInv, MarkersAreTrue, IsSilent, TypeOK
<1>13. PlanFirst' /\ ClaimsAreTrue' /\ IntentsBeforeCalls'
  BY <1>6 DEF IInv, FilesInv, PlanFirst, ClaimsAreTrue, IntentsBeforeCalls,
     Planned, AllSettled, Aggregate, IsSilent
<1> QED
  BY <1>8, <1>10, <1>11, <1>12, <1>13 DEF IInv, FilesInv

\* The recovery of a planned occurrence, and of what is listed.
LEMMA RecoverKeepsInvariant ==
  ASSUME IInv, NEW r \in Runs, NEW e \in Effects,
         Recover(r, e) \/ ReconcileListed(r, e)
  PROVE  IInv'
<1> USE DEF Unverified
<1>1. ASSUME Handles(r, e), run[r].step # "next" \/ run[r].phase \notin Outside
      PROVE  lock = r /\ Holds(run[r]) /\ run[r].phase \notin Outside
  BY <1>1 DEF IInv, LockInv, HolderInv, Handles
<1>2. /\ "queued" \in Result /\ "failed" \in Result /\ "unrecorded" \in Result
      /\ "verified" \in Result /\ "requeued" \in Result
      /\ FailedResult(e) \in Result \ {"verified"}
      /\ FailedResult(e) = "silent" => IsSilent(e)
      /\ {"failed", "verified", "requeued", "none", "pending",
          "executed_unverified"} \subseteq Marker
      /\ {"expire", "requeue", "next"} \subseteq Step
  BY DEF Result, FailedResult, Marker, EffectState, Step
<1>3. TypeOK /\ ledger \in [Effects -> EffectState \cup {"absent"}]
        /\ reason \in [Effects -> Reason]
  BY DEF IInv, TypeOK
<1>4. UNCHANGED <<ledger, reason>> =>
        RowAbout(e) /\ (IsSilent(e) => IsSilent(e)')
  BY <1>3, SameLedgerIsRow DEF IsSilent
<1>5. CASE RecoverUnverifiedMarker(r, e)
  <2>1. /\ Handles(r, e) /\ run[r].phase = "recover" /\ run[r].step = "next"
        /\ Quietly /\ UNCHANGED reason
    BY <1>5 DEF RecoverUnverifiedMarker, Turn, Handles, Quietly
  <2>2. lock = r
    BY <1>1, <2>1 DEF Outside
  <2>3. CASE ledger[e] \in Unverified /\ SetLedger(e, "expired")
               /\ Proceed(r, e, "requeue")
    <3>1. /\ ledger' \in [Effects -> EffectState \cup {"absent"}]
          /\ ledger'[e] = "expired"
          /\ \A f \in Effects : f # e => ledger'[f] = ledger[f]
      BY <1>3, <2>3 DEF SetLedger, EffectState
    <3> QED
      BY <1>2, <2>1, <2>2, <2>3, <3>1, ProceedingKeepsInvariant
  <2>4. CASE Resolve(r, e, "queued") /\ UNCHANGED ledger
    BY <1>2, <1>4, <2>1, <2>2, <2>4, ResultKeepsInvariant
  <2>5. CASE ledger[e] = "failed" /\ UNCHANGED ledger
               /\ ResolveAndMark(r, e, FailedResult(e), "failed")
    BY <1>2, <1>4, <2>1, <2>2, <2>5, ResultKeepsInvariant
  <2>6. CASE Goto(r, [run[r] EXCEPT !.phase = "failing"]) /\ UNCHANGED ledger
    BY <2>1, <2>2, <2>6, GivingUpKeepsInvariant DEF Quietly, durable
  <2> QED
    BY <1>5, <2>3, <2>4, <2>5, <2>6 DEF RecoverUnverifiedMarker
<1>6. CASE RecoverFinalMarker(r, e)
  <2>1. /\ Handles(r, e) /\ run[r].phase = "recover" /\ run[r].step = "next"
        /\ Quietly /\ UNCHANGED <<ledger, reason>>
    BY <1>6 DEF RecoverFinalMarker, Turn, Handles, Quietly, durable
  <2>2. lock = r
    BY <1>1, <2>1 DEF Outside
  <2>3. CASE ResolveAndMark(r, e, FailedResult(e), "failed")
    BY <1>2, <1>4, <2>1, <2>2, <2>3, ResultKeepsInvariant
  <2>4. CASE Resolve(r, e, "failed")
    BY <1>2, <1>4, <2>1, <2>2, <2>4, ResultKeepsInvariant
  <2>5. CASE Resolve(r, e, "requeued")
    BY <1>2, <1>4, <2>1, <2>2, <2>5, ResultKeepsInvariant
  <2> QED
    BY <1>6, <2>3, <2>4, <2>5 DEF RecoverFinalMarker
<1>7. CASE RecoverIncompletePlan(r, e)
  <2>1. lock = r
    BY <1>1, <1>7 DEF RecoverIncompletePlan, Turn, Handles, Outside
  <2> QED
    BY <1>7, <2>1, ReleaseKeepsInvariant DEF RecoverIncompletePlan
<1>8. CASE RecoverRecord(r, e)
  <2>1. /\ Handles(r, e) /\ run[r].phase = "recover" /\ run[r].step = "next"
        /\ Quietly /\ UNCHANGED <<ledger, reason>>
    BY <1>8 DEF RecoverRecord, Turn, Handles, Quietly, durable
  <2>2. lock = r
    BY <1>1, <2>1 DEF Outside
  <2>3. ASSUME NEW x \in {"verified", "requeued"}, ledger[e] = x,
               ResolveAndMark(r, e, x, x)
        PROVE  IInv'
    BY <1>2, <1>4, <2>1, <2>2, <2>3, ResultKeepsInvariant
  <2>4. CASE ResolveAndMark(r, e, FailedResult(e), "failed")
    BY <1>2, <1>4, <2>1, <2>2, <2>4, ResultKeepsInvariant
  <2>5. CASE ledger[e] \in Unverified /\ ResolveAndMark(r, e, "queued", ledger[e])
    BY <1>2, <1>4, <2>1, <2>2, <2>5, ResultKeepsInvariant
  <2>6. CASE ledger[e] \in Unverified /\ Proceed(r, e, "expire")
    BY <1>2, <1>3, <2>1, <2>2, <2>6, ProceedingKeepsInvariant
  <2>7. CASE ledger[e] = "expired" /\ Proceed(r, e, "requeue")
    BY <1>2, <1>3, <2>1, <2>2, <2>7, ProceedingKeepsInvariant
  <2> QED
    BY <1>8, <2>3, <2>4, <2>5, <2>6, <2>7 DEF RecoverRecord
<1>9. CASE ExpireRecord(r, e)
  <2>1. /\ Handles(r, e) /\ run[r].step = "expire"
        /\ Quietly /\ UNCHANGED reason
    BY <1>9 DEF ExpireRecord, Handles, Quietly
  <2>2. lock = r /\ run[r].phase = "recover"
    BY <1>1, <2>1 DEF Holds
  <2>3. CASE ledger[e] \in Unverified /\ SetLedger(e, "expired")
               /\ Proceed(r, e, "requeue")
    <3>1. /\ ledger' \in [Effects -> EffectState \cup {"absent"}]
          /\ ledger'[e] = "expired"
          /\ \A f \in Effects : f # e => ledger'[f] = ledger[f]
      BY <1>3, <2>3 DEF SetLedger, EffectState
    <3> QED
      BY <1>2, <2>1, <2>2, <2>3, <3>1, ProceedingKeepsInvariant
  <2>4. CASE ResolveAndMark(r, e, "unrecorded", "failed") /\ UNCHANGED ledger
    BY <1>2, <1>4, <2>1, <2>2, <2>4, ResultKeepsInvariant
  <2> QED
    BY <1>9, <2>3, <2>4 DEF ExpireRecord
<1>10. CASE Requeue(r, e)
  <2>1. /\ Handles(r, e) /\ run[r].step = "requeue"
        /\ Quietly /\ UNCHANGED reason /\ SetLedger(e, "requeued")
        /\ ResolveAndMark(r, e, "requeued", "requeued")
    BY <1>10 DEF Requeue, Handles, Quietly
  <2>2. lock = r /\ run[r].phase \in {"recover", "reconcile"}
          /\ ledger[e] = "expired"
    BY <1>1, <2>1 DEF Holds, Handles
  <2>3. RowAbout(e) /\ ledger'[e] = "requeued"
    BY <1>3, <2>1, <2>2 DEF SetLedger, RowAbout, EffectState, Settled, TypeOK
  <2> QED
    BY <1>2, <2>1, <2>2, <2>3, ResultKeepsInvariant
<1>11. CASE ReconcileListed(r, e)
  <2>1. /\ Handles(r, e) /\ run[r].phase = "reconcile" /\ run[r].step = "next"
        /\ e \in run[r].todo /\ Quietly /\ UNCHANGED reason
    BY <1>11 DEF ReconcileListed, Handles, Quietly
  <2>2. lock = r /\ run[r].seen[e] \in Unverified
    BY <1>1, <2>1 DEF Outside, Holds
  <2>3. CASE ledger[e] \in Unverified /\ SetLedger(e, "expired")
               /\ Proceed(r, e, "requeue")
    <3>1. /\ ledger' \in [Effects -> EffectState \cup {"absent"}]
          /\ ledger'[e] = "expired"
          /\ \A f \in Effects : f # e => ledger'[f] = ledger[f]
      BY <1>3, <2>3 DEF SetLedger, EffectState
    <3> QED
      BY <1>2, <2>1, <2>2, <2>3, <3>1, ProceedingKeepsInvariant
  <2>4. CASE Goto(r, [run[r] EXCEPT !.phase = "failing"]) /\ UNCHANGED ledger
    BY <2>1, <2>2, <2>4, GivingUpKeepsInvariant DEF Quietly, durable
  <2>5. CASE ResolveAndMark(r, e, "queued", run[r].seen[e]) /\ UNCHANGED ledger
    BY <1>2, <1>4, <2>1, <2>2, <2>5, ResultKeepsInvariant
  <2> QED
    BY <1>11, <2>3, <2>4, <2>5 DEF ReconcileListed
<1> QED
  BY <1>5, <1>6, <1>7, <1>8, <1>9, <1>10, <1>11, WriteMarkerKeepsInvariant
     DEF Recover

-----------------------------------------------------------------------------
(* Entry, gates and decision. *)

\* What the holder knows stays true while the files it has read do.
LEMMA KnowledgeStays ==
  ASSUME NEW r \in Runs, run'[r] = run[r], Holds(run[r]),
         UNCHANGED <<ledger, reason, plan, calls>>
  PROVE  Holds(run[r])'
BY DEF Holds, IsSilent, Planned

\* A run that has not got the lock leaves what its holder knows alone.
LEMMA EntryKeepsInvariant ==
  ASSUME IInv, NEW r \in Runs,
         (\E o \in Occurrences : Enter(r, o)) \/ ExecutionInProgress(r)
  PROVE  IInv'
<1>1. PICK s \in RunState : /\ Goto(r, s) /\ s.phase \in Outside
                            /\ s.step = "next"
                            /\ \A k \in Kinds : s.result[k] = "none"
  <2>1. ASSUME NEW o \in Occurrences, Enter(r, o)
        PROVE  /\ Goto(r, [Idle EXCEPT !.phase = "entered", !.occ = o])
               /\ [Idle EXCEPT !.phase = "entered", !.occ = o] \in RunState
    BY <2>1, IdleIsTyped DEF Enter, Idle, RunState, Phase
  <2>2. CASE ExecutionInProgress(r)
    <3>1. Idle \in RunState
      BY IdleIsTyped DEF IInv, TypeOK, RunState
    <3> QED
      BY <2>2, <3>1 DEF ExecutionInProgress, Idle, Outside
  <2> QED
    BY <2>1, <2>2 DEF Idle, Outside
<1>2. /\ UNCHANGED <<durable, lock, host, calls, crashes>>
      /\ run[r].phase \in Outside
  BY DEF Enter, ExecutionInProgress, Outside
<1>3. OthersStay(r) /\ run'[r] = s
  BY <1>1, GotoMoves DEF IInv, OthersStay
<1>4. TypeOK'
  BY <1>2, <1>3 DEF IInv, TypeOK, OthersStay, durable
<1>5. LockInv' /\ lock # r
  BY <1>1, <1>2, <1>3 DEF IInv, LockInv, OthersStay
<1>6. HolderInv'
  BY <1>2, <1>3, <1>5, KnowledgeStays DEF IInv, HolderInv, OthersStay, durable
<1>7. HostInv' /\ FilesInv'
  BY <1>2, AdvancingKeepsFiles, AdvancingKeepsHost DEF IInv, Advances, durable
<1>8. OnePendingOccurrence' /\ (~ OptionalIntent => AtMostOneCall')
  BY <1>2 DEF IInv, OnePendingOccurrence, AtMostOneCall, durable
<1> QED
  BY <1>4, <1>5, <1>6, <1>7, <1>8 DEF IInv

LEMMA AcquireKeepsInvariant ==
  ASSUME IInv, NEW r \in Runs, Acquire(r)
  PROVE  IInv'
<1> DEFINE o == run[r].occ
           s == [run[r] EXCEPT
                  !.phase = IF plan[o] = NoPlan THEN "gates" ELSE "recover",
                  !.todo = Planned(o),
                  !.seen = [e \in Effects |-> IF e \in Planned(o)
                                                THEN marker[e] ELSE "none"],
                  !.due  = lapsed]
<1>1. /\ TypeOK /\ run[r] \in RunState /\ o \in Occurrences
      /\ marker \in [Effects -> Marker] /\ lapsed \subseteq Occurrences
  BY DEF IInv, TypeOK, RunState
<1>2. /\ run[r].step = "next"
      /\ \A k \in Kinds : run[r].result[k] = "none"
  BY DEF Acquire, IInv, LockInv, Outside
<1>3. \A e \in Planned(o) : e \in Effects
  BY <1>1, PlannedParts
<1>4. [e \in Effects |-> IF e \in Planned(o) THEN marker[e] ELSE "none"]
        \in [Effects -> Marker]
  BY <1>1 DEF Marker
<1>5. /\ s \in RunState /\ s.step = "next" /\ s.occ = o /\ s.todo = Planned(o)
      /\ s.phase = (IF plan[o] = NoPlan THEN "gates" ELSE "recover")
      /\ \A k \in Kinds : s.result[k] = "none"
  BY <1>1, <1>2, <1>3, <1>4 DEF RunState, Phase
<1>6. Goto(r, s) /\ lock' = r /\ lock = NoRun
        /\ UNCHANGED <<durable, host, calls, crashes>>
  BY DEF Acquire, Begin
<1> HIDE DEF s
<1>7. OthersStay(r) /\ run'[r] = s
  BY <1>1, <1>5, <1>6, GotoMoves DEF OthersStay
<1>8. s.phase \in {"gates", "recover"} /\ (s.phase = "gates" => plan[o] = NoPlan)
  BY <1>5
<1>9. \A e \in Effects : s.result[Kind(e)] = "none"
  BY <1>5, EffectParts
<1>10. UNCHANGED <<ledger, plan>>
  BY <1>6 DEF durable
<1>11. Planned(o)' = Planned(o)
  BY <1>7, <1>5, <1>10 DEF Planned
<1>12. Holds(run[r])'
  BY <1>5, <1>7, <1>8, <1>9, <1>10, <1>11 DEF Holds
<1> QED
  BY <1>6, <1>7, <1>8, <1>12, SilentStepKeepsInvariant DEF Outside

LEMMA ListPendingKeepsInvariant ==
  ASSUME IInv, NEW r \in Runs, ListPending(r)
  PROVE  IInv'
<1> DEFINE pending == {e \in Effects : ledger[e] \in Unverified}
           s == [run[r] EXCEPT
                  !.phase = IF pending = {} THEN "judge" ELSE "reconcile",
                  !.todo = pending,
                  !.seen = [e \in Effects |-> IF e \in pending
                                                THEN ledger[e] ELSE "none"]]
<1>1. TypeOK /\ run[r] \in RunState
  BY DEF IInv, TypeOK
<1>2. lock = r /\ Holds(run[r]) /\ run[r].phase = "gates"
  BY DEF ListPending, IInv, LockInv, HolderInv, Outside
<1>3. run[r].step = "next" /\ plan[run[r].occ] = NoPlan
  BY <1>2 DEF Holds
<1>4. [e \in Effects |-> IF e \in pending THEN ledger[e] ELSE "none"]
        \in [Effects -> Marker]
  BY DEF Marker, Unverified, EffectState
<1>5. /\ s \in RunState /\ s.step = "next" /\ s.occ = run[r].occ
      /\ s.todo = pending /\ s.result = run[r].result
      /\ s.phase = (IF pending = {} THEN "judge" ELSE "reconcile")
      /\ \A e \in pending : s.seen[e] \in Unverified
  BY <1>1, <1>3, <1>4 DEF RunState, Phase
<1>6. Goto(r, s) /\ UNCHANGED <<durable, lock, host, calls, crashes>>
  BY DEF ListPending
<1> HIDE DEF s
<1>7. OthersStay(r) /\ run'[r] = s
  BY <1>1, <1>5, <1>6, GotoMoves DEF OthersStay
<1>8. s.phase \in {"judge", "reconcile"} /\ (s.phase = "judge" => pending = {})
  BY <1>5
<1>9. UNCHANGED <<ledger, reason, plan>>
  BY <1>6 DEF durable
<1>10. \A e \in Effects : Occ(e) = s.occ =>
         /\ s.result[Kind(e)] = "verified" => ledger'[e] = "verified"
         /\ s.result[Kind(e)] = "silent" => IsSilent(e)'
  BY <1>2, <1>5, <1>9 DEF Holds, IsSilent
<1>11. s.phase = "judge" => \A e \in Effects : ledger'[e] \notin Unverified
  BY <1>8, <1>9
<1>12. Holds(run[r])'
  BY <1>3, <1>5, <1>7, <1>8, <1>9, <1>10, <1>11 DEF Holds
<1> QED
  BY <1>2, <1>6, <1>7, <1>8, <1>12, SilentStepKeepsInvariant DEF Outside

\* The plan of an occurrence is stored once, before anything is done for it.
LEMMA DecideKeepsInvariant ==
  ASSUME IInv, NEW r \in Runs, NEW p \in Decisions, Decide(r, p)
  PROVE  IInv'
<1> DEFINE o == run[r].occ
<1>1. TypeOK /\ run[r] \in RunState /\ o \in Occurrences /\ p \in Plan
        /\ p.kinds \subseteq Kinds
  BY DEF IInv, TypeOK, RunState, Decisions, Plan
<1>2. lock = r /\ Holds(run[r]) /\ run[r].phase = "judge"
  BY DEF Decide, IInv, LockInv, HolderInv, Outside
<1>3. run[r].step = "next" /\ plan[o] = NoPlan
  BY <1>2 DEF Holds
<1>4. /\ plan' = [plan EXCEPT ![o] = p]
      /\ UNCHANGED <<ledger, reason, lapsed, marker, audit, lock, host, calls,
                     crashes>>
  BY DEF Decide
<1>5. PICK next \in {"prepare", "failing"} :
        Goto(r, [run[r] EXCEPT !.phase = next, !.todo = {o} \X p.kinds])
  BY DEF Decide
<1> DEFINE s == [run[r] EXCEPT !.phase = next, !.todo = {o} \X p.kinds]
<1>6. {o} \X p.kinds \subseteq Effects
  BY <1>1 DEF Effects
<1>7. /\ s \in RunState /\ s.step = "next" /\ s.occ = o /\ s.phase = next
      /\ s.todo = {o} \X p.kinds /\ s.result = run[r].result
  BY <1>1, <1>3, <1>6 DEF RunState, Phase
<1>8. OthersStay(r) /\ run'[r] = s
  BY <1>1, <1>5, <1>7, GotoMoves DEF OthersStay
<1> HIDE DEF s
<1>9. /\ Planned(o)' = {o} \X p.kinds
      /\ \A x \in Occurrences : x # o => plan'[x] = plan[x]
      /\ \A x \in Occurrences : x # o => Planned(x)' = Planned(x)
  BY <1>1, <1>4, <1>7, <1>8 DEF Planned, TypeOK
<1>10. \A e \in Effects : Occ(e) = o => ledger[e] = "absent" /\ calls[e] = 0
  BY <1>1, <1>3, PlannedParts DEF IInv, FilesInv, PlanFirst
<1>11. \A e \in Planned(o)' : e \in Effects /\ Occ(e) = o
  BY <1>6, <1>7, <1>8, <1>9 DEF Occ
<1>12. Holds(run[r])'
  <2>1. \A e \in Effects : Occ(e) = o =>
          /\ s.result[Kind(e)] = "verified" => ledger'[e] = "verified"
          /\ s.result[Kind(e)] = "silent" => IsSilent(e)'
    BY <1>2, <1>4, <1>7 DEF Holds, IsSilent
  <2>2. \A e \in Effects : ledger'[e] \in Unverified => Occ(e) = o
    BY <1>2, <1>4 DEF Holds
  <2>3. s.todo = Planned(o)'
    BY <1>7, <1>9
  <2>4. \A e \in Planned(o)' : calls'[e] = 0 /\ ledger'[e] = "absent"
    BY <1>4, <1>10, <1>11
  <2>5. s.phase \in {"prepare", "failing"}
    BY <1>7
  <2> QED
    BY <1>7, <1>8, <2>1, <2>2, <2>3, <2>4, <2>5 DEF Holds
<1>13. TypeOK'
  BY <1>1, <1>4, <1>8 DEF TypeOK, OthersStay
<1>14. LockInv' /\ HolderInv'
  BY <1>2, <1>4, <1>7, <1>8, <1>12 DEF IInv, LockInv, HolderInv, OthersStay,
     Outside
<1>15. HostInv' /\ OnePendingOccurrence' /\ (~ OptionalIntent => AtMostOneCall')
  BY <1>4 DEF IInv, HostInv, IsSilent, OnePendingOccurrence, AtMostOneCall
<1>16. PlanFirst'
  BY <1>4, <1>9, <1>10, EffectParts DEF IInv, FilesInv, PlanFirst
<1>17. MarkersAreTrue'
  BY <1>4 DEF IInv, FilesInv, MarkersAreTrue, IsSilent
<1>18. ClaimsAreTrue'
  <2> SUFFICES ASSUME NEW x \in Occurrences,
                      audit[x].terminal \in {"verified", "intentional_silence"}
               PROVE  AllSettled(x)' /\ Aggregate(x)' = audit[x].terminal
    BY <1>4 DEF ClaimsAreTrue
  <2>1. AllSettled(x) /\ Aggregate(x) = audit[x].terminal
    BY DEF IInv, FilesInv, ClaimsAreTrue
  <2>2. x # o
    BY <1>3, <2>1 DEF AllSettled, NoPlan
  <2> QED
    BY <1>4, <1>9, <2>1, <2>2 DEF AllSettled, Aggregate, IsSilent
<1>19. IntentsBeforeCalls'
  BY <1>4, <1>9, <1>10, EffectParts DEF IInv, FilesInv, IntentsBeforeCalls
<1> QED
  BY <1>13, <1>14, <1>15, <1>16, <1>17, <1>18, <1>19 DEF IInv, FilesInv

-----------------------------------------------------------------------------
(* Intents, calls and answers. *)

LEMMA PrepareKeepsInvariant ==
  ASSUME IInv, NEW r \in Runs, NEW e \in Effects, PrepareIntent(r, e)
  PROVE  IInv'
<1>1. TypeOK /\ run[r] \in RunState /\ run[r].occ \in Occurrences
  BY DEF IInv, TypeOK, RunState
<1>2. /\ lock = r /\ Holds(run[r])
      /\ run[r].phase = "prepare" /\ run[r].step = "next" /\ e \in run[r].todo
  BY DEF PrepareIntent, Turn, IInv, LockInv, HolderInv, Outside
<1>3. e \in Planned(run[r].occ) /\ Occ(e) = run[r].occ
        /\ ledger[e] \in {"absent", "intent"}
  BY <1>1, <1>2, PlannedParts DEF Holds
<1>4. /\ UNCHANGED <<reason, lapsed, plan, marker, audit, lock, host, calls,
                     crashes>>
      /\ ledger' \in [Effects -> EffectState \cup {"absent"}]
      /\ ledger'[e] = "intent"
      /\ \A f \in Effects : f # e => ledger'[f] = ledger[f]
  BY <1>1, <1>3 DEF PrepareIntent, SetLedger, EffectState, TypeOK
<1>5. \A f \in Planned(run[r].occ) : f \in Effects /\ Occ(f) = run[r].occ
  BY <1>1, PlannedParts
<1> DEFINE s == IF run[r].todo = {e}
                  THEN [run[r] EXCEPT !.phase = "execute",
                                      !.todo = Planned(Occ(e))]
                  ELSE [run[r] EXCEPT !.todo = @ \ {e}]
<1>6. /\ s \in RunState /\ s.step = "next" /\ s.occ = run[r].occ
      /\ s.result = run[r].result
      /\ \/ /\ run[r].todo = {e} /\ s.phase = "execute"
            /\ s.todo = Planned(run[r].occ)
         \/ s.phase = "prepare" /\ s.todo = run[r].todo \ {e}
  BY <1>1, <1>2, <1>3, <1>5 DEF RunState, Phase
<1>7. Goto(r, s)
  BY DEF PrepareIntent
<1> HIDE DEF s
<1>8. OthersStay(r) /\ run'[r] = s
  BY <1>1, <1>6, <1>7, GotoMoves DEF OthersStay
<1>9. Planned(run[r].occ)' = Planned(run[r].occ)
  BY <1>4, <1>6, <1>8 DEF Planned
<1>10. Advances
  BY <1>3, <1>4 DEF Advances, Settled
<1>11. \A f \in Effects : ledger'[f] \in Unverified => ledger[f] \in Unverified
  BY <1>4 DEF Unverified
<1>12. Holds(run[r])'
  <2>1. \A f \in Effects : Occ(f) = run[r].occ =>
          /\ s.result[Kind(f)] = "verified" => ledger'[f] = "verified"
          /\ s.result[Kind(f)] = "silent" => IsSilent(f)'
    BY <1>2, <1>6, <1>10 DEF Holds, IsSilent, Advances, Settled
  <2>2. \A f \in Planned(run[r].occ) :
          /\ calls'[f] = 0 /\ ledger'[f] \in {"absent", "intent"}
          /\ f \notin run[r].todo \ {e} => ledger'[f] = "intent"
    BY <1>2, <1>4, <1>5 DEF Holds
  <2>3. \A f \in Effects : ledger'[f] \notin Unverified
    <3>1. \A f \in Planned(run[r].occ) : ledger'[f] \notin Unverified
      BY <2>2 DEF Unverified
    <3>2. \A f \in Effects : ledger[f] \in Unverified => Occ(f) = run[r].occ
      BY <1>2 DEF Holds
    <3>3. \A f \in Effects : f \notin Planned(Occ(f)) => ledger[f] = "absent"
      BY DEF IInv, FilesInv, PlanFirst
    <3> QED
      BY <1>11, <3>1, <3>2, <3>3 DEF Unverified
  <2>4. CASE s.phase = "execute"
    BY <1>6, <1>8, <1>9, <2>1, <2>2, <2>3, <2>4 DEF Holds
  <2>5. CASE s.phase = "prepare"
    <3>1. \A f \in s.todo : f \in Planned(run[r].occ)
      BY <1>2, <1>6, <2>5 DEF Holds
    <3> QED
      BY <1>6, <1>8, <1>9, <2>1, <2>2, <2>3, <2>5, <3>1 DEF Holds
  <2> QED
    BY <1>6, <2>4, <2>5
<1>13. TypeOK'
  BY <1>1, <1>3, <1>4, <1>8 DEF TypeOK, OthersStay
<1>14. LockInv' /\ HolderInv'
  BY <1>2, <1>4, <1>6, <1>8, <1>12 DEF IInv, LockInv, HolderInv, OthersStay,
     Outside
<1>15. HostInv' /\ FilesInv'
  BY <1>4, <1>10, AdvancingKeepsFiles, AdvancingKeepsHost DEF IInv
<1>16. OnePendingOccurrence' /\ (~ OptionalIntent => AtMostOneCall')
  BY <1>4, <1>11 DEF IInv, OnePendingOccurrence, AtMostOneCall
<1> QED
  BY <1>13, <1>14, <1>15, <1>16 DEF IInv

LEMMA MarkPendingKeepsInvariant ==
  ASSUME IInv, NEW r \in Runs, NEW e \in Effects, MarkPending(r, e)
  PROVE  IInv'
<1>1. /\ lock = r /\ Holds(run[r])
      /\ run[r].phase = "execute" /\ run[r].step = "next" /\ e \in run[r].todo
  BY DEF MarkPending, Turn, IInv, LockInv, HolderInv, Outside
<1>2. ledger[e] = "intent"
  BY <1>1 DEF Holds
<1>3. /\ Proceed(r, e, "call") /\ Quietly /\ UNCHANGED reason
      /\ ledger' \in [Effects -> EffectState \cup {"absent"}]
      /\ ledger'[e] = "pending"
      /\ \A f \in Effects : f # e => ledger'[f] = ledger[f]
  BY DEF MarkPending, Quietly, SetLedger, IInv, TypeOK, EffectState
<1>4. Handles(r, e) /\ "call" \in Step
  BY <1>1 DEF Handles, Step
<1> QED
  BY <1>1, <1>2, <1>3, <1>4, ProceedingKeepsInvariant

\* The first call of the sink, and the one that drops its intent.
LEMMA CallKeepsInvariant ==
  ASSUME IInv, NEW r \in Runs, NEW e \in Effects,
         Call(r, e) \/ CallAgain(r, e)
  PROVE  IInv'
<1>1. PICK step \in {"called", "repeated"} :
        /\ Proceed(r, e, step)
        /\ step = "called" => run[r].step = "call"
        /\ step = "repeated" => OptionalIntent /\ run[r].step = "called"
        /\ run[r].at = e /\ calls' = [calls EXCEPT ![e] = @ + 1]
        /\ UNCHANGED <<durable, lock, host, crashes>>
  BY DEF Call, CallAgain
<1>2. TypeOK /\ run[r] \in RunState /\ run[r].occ \in Occurrences
  BY DEF IInv, TypeOK, RunState
<1>3. lock = r /\ Holds(run[r])
  BY <1>1 DEF IInv, LockInv, HolderInv
<1>4. run[r].phase = "execute" /\ e \in Planned(run[r].occ)
        /\ e \notin run[r].todo /\ ledger[e] # "intent"
        /\ (step = "called" => calls[e] = 0)
  BY <1>1, <1>3 DEF Holds
<1>5. /\ OthersStay(r) /\ SameErrand(r)
      /\ run'[r].step = step /\ run'[r].at = e
      /\ run'[r].todo = run[r].todo \ {e}
      /\ run'[r].result = run[r].result
  BY <1>1, <1>2, Proceeds DEF Step
<1>6. /\ run'[r].phase = "execute" /\ run'[r].occ = run[r].occ
  BY <1>4, <1>5 DEF SameErrand
<1>7. /\ UNCHANGED <<ledger, reason, plan, marker, audit>>
      /\ \A f \in Effects : f # e => calls'[f] = calls[f]
      /\ calls'[e] = calls[e] + 1 /\ calls[e] \in Nat
      /\ calls' \in [Effects -> Nat]
  BY <1>1, <1>2 DEF TypeOK, durable
<1>8. \A f \in Planned(run[r].occ) : f \in Effects /\ Occ(f) = run[r].occ
  BY <1>2, PlannedParts
<1>9. \A x \in Occurrences : Planned(x)' = Planned(x)
  BY <1>7 DEF Planned
<1>10. Planned(run[r].occ)' = Planned(run[r].occ)
  BY <1>6, <1>7 DEF Planned
<1>11. Holds(run[r])'
  <2>1. \A f \in Effects : Occ(f) = run[r].occ =>
          /\ run'[r].result[Kind(f)] = "verified" => ledger'[f] = "verified"
          /\ run'[r].result[Kind(f)] = "silent" => IsSilent(f)'
    BY <1>3, <1>5, <1>7 DEF Holds, IsSilent
  <2>2. \A f \in run'[r].todo : f \in Planned(run[r].occ) /\ f # e
          /\ calls'[f] = 0 /\ ledger'[f] = "intent"
    BY <1>3, <1>4, <1>5, <1>7, <1>8 DEF Holds
  <2>3. \A f \in Effects : ledger'[f] \in Unverified => Occ(f) = run[r].occ
    BY <1>3, <1>4, <1>7 DEF Holds
  <2>4. \A f \in Planned(run[r].occ) :
          ledger'[f] \notin {"absent", "expired", "requeued"}
    BY <1>3, <1>4, <1>7 DEF Holds
  <2> QED
    BY <1>4, <1>5, <1>6, <1>7, <1>10, <2>1, <2>2, <2>3, <2>4 DEF Holds
<1>12. TypeOK'
  BY <1>1, <1>2, <1>5, <1>7 DEF TypeOK, OthersStay, durable
<1>13. LockInv' /\ HolderInv'
  BY <1>1, <1>3, <1>5, <1>6, <1>11 DEF IInv, LockInv, HolderInv, OthersStay,
     Outside
<1>14. HostInv' /\ MarkersAreTrue' /\ OnePendingOccurrence'
  BY <1>1, <1>7 DEF IInv, FilesInv, HostInv, MarkersAreTrue, IsSilent,
     OnePendingOccurrence
<1>15. ClaimsAreTrue'
  BY <1>7 DEF IInv, FilesInv, ClaimsAreTrue, AllSettled, Aggregate, Planned,
     IsSilent
<1>16. PlanFirst'
  BY <1>4, <1>7, <1>8, <1>9, EffectParts DEF IInv, FilesInv, PlanFirst
<1>17. IntentsBeforeCalls'
  <2>1. \A f \in Planned(Occ(e)) : ledger[f] # "absent"
    BY <1>3, <1>4, <1>8 DEF Holds
  <2> QED
    BY <1>7, <1>9, <2>1, EffectParts DEF IInv, FilesInv, IntentsBeforeCalls
<1>18. ~ OptionalIntent => AtMostOneCall'
  BY <1>1, <1>4, <1>7 DEF IInv, AtMostOneCall
<1> QED
  BY <1>12, <1>13, <1>14, <1>15, <1>16, <1>17, <1>18 DEF IInv, FilesInv

\* What the sink answers, and what the ledger makes of it.
LEMMA AnswerKeepsInvariant ==
  ASSUME IInv, NEW r \in Runs, NEW e \in Effects,
         AnswerFailed(r, e) \/ AnswerReceipt(r, e) \/ AnswerAccepted(r, e)
  PROVE  IInv'
<1>1. Answers(r, e) /\ Quietly
  BY DEF AnswerFailed, AnswerReceipt, AnswerAccepted, Quietly
<1>2. lock = r /\ Holds(run[r]) /\ Handles(r, e)
  BY <1>1 DEF Answers, IInv, LockInv, HolderInv, Handles
<1>3. TypeOK /\ ledger \in [Effects -> EffectState \cup {"absent"}]
        /\ reason \in [Effects -> Reason]
        /\ \A f \in Effects : reason[f] # "none" <=> ledger[f] = "failed"
  BY DEF IInv, TypeOK
<1>4. run[r].phase = "execute" /\ e \in Planned(run[r].occ)
        /\ ledger[e] \notin {"absent", "intent", "expired", "requeued"}
  BY <1>1, <1>2 DEF Answers, Holds
<1>5. /\ {"queued", "failed", "unrecorded", "verified"} \subseteq Result
      /\ FailedResult(e) \in Result \ {"verified"}
      /\ FailedResult(e) = "silent" => IsSilent(e)
      /\ {"failed", "verified", "executed_unverified"} \subseteq Marker
  BY DEF Result, FailedResult, Marker, EffectState
<1>6. UNCHANGED <<ledger, reason>> =>
        /\ RowAbout(e) /\ (IsSilent(e) => IsSilent(e)')
        /\ ledger'[e] \notin {"absent", "expired", "requeued"}
  BY <1>3, <1>4, SameLedgerIsRow DEF IsSilent
<1>7. CASE AnswerFailed(r, e)
  <2>1. CASE /\ ledger[e] \in Failable /\ FailLedger(e, "adapter")
             /\ ResolveAndMark(r, e, "failed", "failed")
    <3>1. RowAbout(e) /\ ledger'[e] = "failed"
      BY <1>3, <1>4, <2>1 DEF FailLedger, SetLedger, RowAbout, EffectState,
         Reason, Settled, Failable, Unverified
    <3> QED
      BY <1>1, <1>2, <1>4, <1>5, <2>1, <3>1, ResultKeepsInvariant
  <2>2. CASE /\ ResolveAndMark(r, e, "unrecorded", "failed")
             /\ UNCHANGED <<ledger, reason>>
    BY <1>1, <1>2, <1>4, <1>5, <1>6, <2>2, ResultKeepsInvariant
  <2> QED
    BY <1>7, <2>1, <2>2 DEF AnswerFailed, FailEffect
<1>8. CASE AnswerReceipt(r, e)
  <2>1. /\ ResolveAndMark(r, e, "verified", "verified") /\ UNCHANGED reason
        /\ SetLedger(e, "verified") /\ ledger[e] \in Unverified \cup {"verified"}
    BY <1>8 DEF AnswerReceipt
  <2>2. RowAbout(e) /\ ledger'[e] = "verified"
    BY <1>3, <2>1 DEF SetLedger, RowAbout, EffectState, Settled, Unverified
  <2> QED
    BY <1>1, <1>2, <1>4, <1>5, <2>1, <2>2, ResultKeepsInvariant
<1>9. CASE AnswerAccepted(r, e)
  <2>1. CASE /\ ledger[e] = "pending" /\ SetLedger(e, "executed_unverified")
             /\ ResolveAndMark(r, e, "queued", "executed_unverified")
             /\ UNCHANGED reason
    <3>1. RowAbout(e) /\ ledger'[e] = "executed_unverified"
      BY <1>3, <2>1 DEF SetLedger, RowAbout, EffectState, Settled, Unverified
    <3> QED
      BY <1>1, <1>2, <1>4, <1>5, <2>1, <3>1, ResultKeepsInvariant
  <2>2. CASE /\ ledger[e] = "verified" /\ UNCHANGED <<ledger, reason>>
             /\ ResolveAndMark(r, e, "verified", "verified")
    BY <1>1, <1>2, <1>4, <1>5, <1>6, <2>2, ResultKeepsInvariant
  <2>3. CASE /\ UNCHANGED <<ledger, reason>>
             /\ ResolveAndMark(r, e, FailedResult(e), "failed")
    BY <1>1, <1>2, <1>4, <1>5, <1>6, <2>3, ResultKeepsInvariant
  <2> QED
    BY <1>9, <2>1, <2>2, <2>3 DEF AnswerAccepted
<1> QED
  BY <1>7, <1>8, <1>9

-----------------------------------------------------------------------------
(* Terminals. *)

\* A terminal that is true when it is recorded.
LEMMA RecordedTerminalIsTrue ==
  ASSUME IInv, NEW o \in Occurrences, NEW evidence \in BOOLEAN,
         NEW terminal \in {"none", "skipped", "failed", "intentional_silence",
                           "verified"},
         RecordTerminal(o, terminal, evidence),
         terminal \in {"verified", "intentional_silence"} =>
           AllSettled(o) /\ Aggregate(o) = terminal,
         UNCHANGED <<ledger, reason, plan>>
  PROVE  audit' \in [Occurrences -> Terminal] /\ ClaimsAreTrue'
<1>1. audit \in [Occurrences -> Terminal] /\ ClaimsAreTrue
  BY DEF IInv, TypeOK, FilesInv
<1>2. [terminal |-> terminal, evidence |-> evidence] \in Terminal
  BY DEF Terminal
<1>3. audit' \in [Occurrences -> Terminal]
  BY <1>1, <1>2 DEF RecordTerminal
<1>4. \A x \in Occurrences : \/ audit'[x] = audit[x]
                             \/ x = o /\ audit'[x].terminal = terminal
  BY <1>1 DEF RecordTerminal
<1>5. \A x \in Occurrences : /\ AllSettled(x)' = AllSettled(x)
                             /\ Aggregate(x)' = Aggregate(x)
  BY DEF AllSettled, Aggregate, Planned, IsSilent
<1>6. ClaimsAreTrue'
  BY <1>1, <1>4, <1>5 DEF ClaimsAreTrue
<1> QED
  BY <1>3, <1>6

LEMMA FinishKeepsInvariant ==
  ASSUME IInv, NEW r \in Runs, lock = r, Release(r),
         audit' \in [Occurrences -> Terminal], ClaimsAreTrue',
         UNCHANGED <<ledger, reason, lapsed, plan, marker, host, calls, crashes>>
  PROVE  IInv'
<1>1. Idle \in RunState
  BY IdleIsTyped DEF IInv, TypeOK, RunState
<1>2. OthersStay(r) /\ run'[r] = Idle /\ lock' = NoRun
  BY <1>1, GotoMoves DEF Release, OthersStay, IInv
<1>3. TypeOK'
  BY <1>2 DEF IInv, TypeOK, OthersStay
<1>4. Idle.phase \in Outside /\ Idle.step = "next"
        /\ \A k \in Kinds : Idle.result[k] = "none"
  BY DEF Idle, Outside
<1>5. LockInv' /\ HolderInv'
  BY <1>2, <1>4, NoRunAssumption DEF IInv, LockInv, HolderInv, OthersStay
<1>6. HostInv' /\ OnePendingOccurrence' /\ (~ OptionalIntent => AtMostOneCall')
  BY DEF IInv, HostInv, IsSilent, OnePendingOccurrence, AtMostOneCall
<1>7. PlanFirst' /\ MarkersAreTrue' /\ IntentsBeforeCalls'
  BY DEF IInv, FilesInv, PlanFirst, MarkersAreTrue, IntentsBeforeCalls,
     IsSilent, Planned
<1> QED
  BY <1>3, <1>5, <1>6, <1>7 DEF IInv, FilesInv

\* What the results of a finished run say of its occurrence.
LEMMA ResultsAreTrue ==
  ASSUME IInv, NEW r \in Runs, Holds(run[r]), Results(r) # {},
         Results(r) \subseteq {"silent", "verified"}
  PROVE  /\ AllSettled(run[r].occ)
         /\ Aggregate(run[r].occ) = IF "silent" \in Results(r)
                                      THEN "intentional_silence"
                                      ELSE "verified"
<1> DEFINE o == run[r].occ
<1>1. TypeOK /\ o \in Occurrences
  BY DEF IInv, TypeOK, RunState
<1>2. /\ \A e \in Planned(o) : e \in Effects /\ Occ(e) = o
      /\ plan[o].kinds # {}
  BY <1>1, PlannedParts DEF Results
<1>3. ASSUME NEW e \in Planned(o)
      PROVE  /\ run[r].result[Kind(e)] \in {"silent", "verified"}
             /\ run[r].result[Kind(e)] = "verified" => ledger[e] = "verified"
             /\ run[r].result[Kind(e)] = "silent" => IsSilent(e)
  BY <1>2 DEF Holds, Results
<1>4. AllSettled(o)
  BY <1>2, <1>3 DEF AllSettled, IsSilent, Settled
<1>5. ~ \E e \in Planned(o) : ledger[e] = "failed" /\ ~ IsSilent(e)
  BY <1>3
<1>6. (\E e \in Planned(o) : IsSilent(e)) <=> "silent" \in Results(r)
  BY <1>3 DEF Results, IsSilent
<1> QED
  BY <1>4, <1>5, <1>6 DEF Aggregate

LEMMA FinishesKeepInvariant ==
  ASSUME IInv, NEW r \in Runs, FinishEffects(r) \/ FinishWithoutEffects(r)
  PROVE  IInv'
<1>1. lock = r /\ Holds(run[r]) /\ run[r].occ \in Occurrences
  BY DEF FinishEffects, FinishWithoutEffects, IInv, LockInv, HolderInv,
     Outside, TypeOK, RunState
<1>2. CASE FinishEffects(r)
  <2>1. PICK t \in {ReplayTerminal(Results(r)), ExecuteTerminal(Results(r))} :
          RecordTerminal(run[r].occ, t, TRUE)
    BY <1>2 DEF FinishEffects
  <2>2. /\ Release(r)
        /\ UNCHANGED <<ledger, reason, lapsed, plan, marker, host, calls,
                       crashes>>
    BY <1>2 DEF FinishEffects
  <2>3. t \in {"none", "skipped", "failed", "intentional_silence", "verified"}
    BY DEF ReplayTerminal, ExecuteTerminal
  <2>4. t = "verified" => Results(r) = {"verified"}
    BY DEF ReplayTerminal, ExecuteTerminal
  <2>5. t = "intentional_silence" =>
          "silent" \in Results(r) /\ Results(r) \subseteq {"silent", "verified"}
    BY DEF ReplayTerminal, ExecuteTerminal
  <2>6. t \in {"verified", "intentional_silence"} =>
          AllSettled(run[r].occ) /\ Aggregate(run[r].occ) = t
    BY <1>1, <2>4, <2>5, ResultsAreTrue
  <2> QED
    BY <1>1, <2>1, <2>2, <2>3, <2>6, RecordedTerminalIsTrue,
       FinishKeepsInvariant
<1>3. CASE FinishWithoutEffects(r)
  <2>1. PICK t \in {"failed", "skipped"} :
          RecordTerminal(run[r].occ, t, FALSE)
    BY <1>3 DEF FinishWithoutEffects
  <2>2. /\ Release(r)
        /\ UNCHANGED <<ledger, reason, lapsed, plan, marker, host, calls,
                       crashes>>
    BY <1>3 DEF FinishWithoutEffects
  <2> QED
    BY <1>1, <2>1, <2>2, RecordedTerminalIsTrue, FinishKeepsInvariant
<1> QED
  BY <1>2, <1>3

-----------------------------------------------------------------------------
(* The host, time and crashes. *)

\* The host settles what is unverified, and the holder of the lock relies on
\* nothing that this changes.
LEMMA ReportKeepsInvariant ==
  ASSUME IInv, NEW e \in Effects, RowAbout(e),
         ledger'[e] # ledger[e] =>
           ledger[e] \in Unverified /\ ledger'[e] \in Settled,
         host' \in [Effects -> [step : {"idle", "mark", "audit"},
                                value : Marker]],
         \A f \in Effects : f # e => host'[f] = host[f],
         host'[e].value \in {"verified", "requeued"}
           => ledger'[e] = host'[e].value,
         host'[e].value = "intentional_silence" => IsSilent(e)',
         UNCHANGED <<lapsed, plan, marker, audit, lock, run, calls, crashes>>
  PROVE  IInv'
<1>1. TypeOK'
  BY DEF IInv, TypeOK, RowAbout
<1>2. LockInv'
  BY DEF IInv, LockInv
<1>3. Advances
  BY RowAdvances
<1>4. /\ \A f \in Effects : IsSilent(f) => IsSilent(f)'
      /\ \A f \in Effects : ledger'[f] = ledger[f] \/
           (ledger[f] \in Unverified /\ ledger'[f] \in Settled)
  BY <1>3 DEF Advances, IsSilent, Settled, RowAbout
<1>5. HolderInv'
  <2> SUFFICES ASSUME NEW q \in Runs, lock = q
               PROVE  Holds(run[q])'
    BY DEF HolderInv
  <2> DEFINE s == run[q]
  <2>1. Holds(s) /\ s.occ \in Occurrences
    BY DEF IInv, HolderInv, TypeOK, RunState
  <2>2. \A f \in Planned(s.occ) : f \in Effects
    BY <2>1, PlannedParts DEF IInv
  <2>3. \A f \in s.todo : f \in Effects
    BY DEF IInv, TypeOK, RunState
  <2>4. \A f \in Effects :
          /\ ledger[f] \in {"absent", "intent", "expired", "requeued",
                            "verified"} => ledger'[f] = ledger[f]
          /\ ledger'[f] \in {"absent", "intent", "expired", "requeued"}
               => ledger'[f] = ledger[f]
          /\ ledger'[f] \in Unverified => ledger[f] \in Unverified
    BY <1>4 DEF Unverified, Settled
  <2>5. s.phase = "prepare" =>
          /\ s.step = "next"
          /\ \A f \in Planned(s.occ) :
               /\ calls[f] = 0 /\ ledger'[f] \in {"absent", "intent"}
               /\ f \notin s.todo => ledger'[f] = "intent"
    BY <2>1, <2>2, <2>4 DEF Holds
  <2>6. s.phase = "execute" =>
          /\ \A f \in Planned(s.occ) :
               ledger'[f] \notin {"absent", "expired", "requeued"}
          /\ \A f \in s.todo : calls[f] = 0 /\ ledger'[f] = "intent"
          /\ s.step = "call" => calls[s.at] = 0
          /\ s.step \in {"call", "called", "repeated"} =>
               ledger'[s.at] # "intent"
    <3> SUFFICES ASSUME s.phase = "execute"
                 PROVE  /\ \A f \in Planned(s.occ) :
                             ledger'[f] \notin {"absent", "expired", "requeued"}
                        /\ \A f \in s.todo : calls[f] = 0 /\ ledger'[f] = "intent"
                        /\ s.step = "call" => calls[s.at] = 0
                        /\ s.step \in {"call", "called", "repeated"} =>
                             ledger'[s.at] # "intent"
      OBVIOUS
    <3>1. /\ \A f \in Planned(s.occ) :
               ledger[f] \notin {"absent", "expired", "requeued"}
          /\ \A f \in s.todo : calls[f] = 0 /\ ledger[f] = "intent"
          /\ s.step = "call" => calls[s.at] = 0
          /\ s.step \in {"call", "called", "repeated"} =>
               ledger[s.at] # "intent" /\ s.at \in Effects
      BY <2>1 DEF Holds
    <3> QED
      BY <2>2, <2>3, <2>4, <3>1
  <2>7. /\ s.step = "requeue" => ledger'[s.at] = "expired"
        /\ s.step = "mark" /\ s.value \in {"verified", "requeued"} =>
             ledger'[s.at] = s.value
    BY <2>1, <2>4 DEF Holds
  <2>8. /\ s.phase \in {"judge", "prepare", "execute"} =>
             \A f \in Effects : ledger'[f] \in Unverified => Occ(f) = s.occ
        /\ \A f \in Effects : Occ(f) = s.occ =>
             /\ s.result[Kind(f)] = "verified" => ledger'[f] = "verified"
             /\ s.result[Kind(f)] = "silent" => IsSilent(f)'
    BY <1>4, <2>1, <2>4 DEF Holds
  <2>9. Planned(s.occ)' = Planned(s.occ) /\ run'[q] = s
    BY DEF Planned
  <2> QED
    BY <2>1, <2>5, <2>6, <2>7, <2>8, <2>9 DEF Holds
<1>6. HostInv'
  BY <1>3, <1>4 DEF IInv, HostInv, Advances, Settled
<1>7. FilesInv'
  BY <1>3, AdvancingKeepsFiles DEF IInv
<1>8. OnePendingOccurrence' /\ (~ OptionalIntent => AtMostOneCall')
  BY <1>4 DEF IInv, OnePendingOccurrence, AtMostOneCall, Unverified, Settled
<1> QED
  BY <1>1, <1>2, <1>5, <1>6, <1>7, <1>8 DEF IInv

LEMMA HostKeepsInvariant ==
  ASSUME IInv, NEW e \in Effects, HostReports(e)
  PROVE  IInv'
<1>1. TypeOK /\ ledger \in [Effects -> EffectState \cup {"absent"}]
        /\ reason \in [Effects -> Reason]
        /\ (\A f \in Effects : reason[f] # "none" <=> ledger[f] = "failed")
        /\ host \in [Effects -> [step : {"idle", "mark", "audit"},
                                 value : Marker]]
        /\ Occ(e) \in Occurrences
  BY EffectParts DEF IInv, TypeOK
<1>2. ASSUME NEW step \in {"idle", "mark", "audit"}, NEW value \in Marker,
             Report(e, step, value)
      PROVE  /\ host' \in [Effects -> [step : {"idle", "mark", "audit"},
                                       value : Marker]]
             /\ host'[e].value = value
             /\ \A f \in Effects : f # e => host'[f] = host[f]
  BY <1>1, <1>2 DEF Report
<1>3. {"verified", "failed", "intentional_silence", "pending",
       "executed_unverified"} \subseteq Marker
  BY DEF Marker, EffectState
<1>4. CASE HostVerifies(e)
  <2>1. /\ SetLedger(e, "verified") /\ Report(e, "mark", "verified")
        /\ ledger[e] \in Unverified \cup {"verified"}
        /\ UNCHANGED <<reason, lapsed, plan, marker, audit, lock, run, calls,
                       crashes>>
    BY <1>4 DEF HostVerifies
  <2>2. /\ RowAbout(e) /\ ledger'[e] = "verified"
        /\ ledger'[e] # ledger[e] => ledger[e] \in Unverified
    BY <1>1, <2>1 DEF SetLedger, RowAbout, EffectState, Settled, Unverified
  <2> QED
    BY <1>2, <1>3, <2>1, <2>2, ReportKeepsInvariant DEF Settled
<1>5. ASSUME NEW why \in {"intentional_silence", "delegated_failure"},
             NEW value \in {"intentional_silence", "failed"},
             value = "intentional_silence" => why = "intentional_silence",
             HostGivesUp(e, why, value)
      PROVE  IInv'
  <2>1. /\ FailLedger(e, why) /\ Report(e, "mark", value)
        /\ ledger[e] \in Unverified \/ (ledger[e] = "failed" /\ reason[e] = why)
        /\ UNCHANGED <<lapsed, plan, marker, audit, lock, run, calls, crashes>>
    BY <1>1, <1>5 DEF HostGivesUp
  <2>2. /\ RowAbout(e) /\ ledger'[e] = "failed" /\ reason'[e] = why
        /\ ledger'[e] # ledger[e] => ledger[e] \in Unverified
    BY <1>1, <2>1 DEF FailLedger, SetLedger, RowAbout, EffectState, Reason,
       Settled, Unverified
  <2>3. value = "intentional_silence" => IsSilent(e)'
    BY <1>5, <2>2 DEF IsSilent
  <2> QED
    BY <1>2, <1>3, <2>1, <2>2, <2>3, ReportKeepsInvariant DEF Settled
<1>6. CASE HostDoesNotKnow(e)
  <2>1. /\ Report(e, "mark", ledger[e]) /\ ledger[e] \in Unverified
        /\ UNCHANGED <<durable, lock, run, calls, crashes>>
    BY <1>6 DEF HostDoesNotKnow
  <2>2. RowAbout(e) /\ ledger[e] \in Marker /\ UNCHANGED ledger
    BY <1>1, <1>3, <2>1, SameLedgerIsRow DEF durable, Unverified
  <2> QED
    BY <1>2, <2>1, <2>2, ReportKeepsInvariant DEF durable, Unverified
<1>7. CASE HostMarks(e)
  <2>1. /\ marker' = [marker EXCEPT ![e] = host[e].value]
        /\ UNCHANGED <<ledger, reason, lapsed, plan, audit, lock, run, calls,
                       crashes>>
    BY <1>7 DEF HostMarks
  <2>2. /\ host' \in [Effects -> [step : {"idle", "mark", "audit"},
                                  value : Marker]]
        /\ \A f \in Effects : host'[f].value \in {host[f].value, "none"}
    BY <1>1, <1>7 DEF HostMarks, Quiet, Marker
  <2>3. host[e].value \in Marker
    BY <1>1
  <2>4. TypeOK'
    BY <2>1, <2>2, <2>3 DEF IInv, TypeOK
  <2>5. LockInv'
    BY <2>1 DEF IInv, LockInv
  <2>6. HolderInv'
    BY <2>1, KnowledgeStays DEF IInv, HolderInv
  <2>7. HostInv'
    BY <2>1, <2>2 DEF IInv, HostInv, IsSilent
  <2>8. PlanFirst' /\ ClaimsAreTrue' /\ IntentsBeforeCalls'
    BY <2>1 DEF IInv, FilesInv, PlanFirst, ClaimsAreTrue, IntentsBeforeCalls,
       Planned, AllSettled, Aggregate, IsSilent
  <2>9. MarkersAreTrue'
    BY <2>1 DEF IInv, FilesInv, MarkersAreTrue, HostInv, IsSilent, TypeOK
  <2>10. OnePendingOccurrence' /\ (~ OptionalIntent => AtMostOneCall')
    BY <2>1 DEF IInv, OnePendingOccurrence, AtMostOneCall
  <2> QED
    BY <2>4, <2>5, <2>6, <2>7, <2>8, <2>9, <2>10 DEF IInv, FilesInv
<1>8. CASE HostAudits(e)
  <2>1. PICK t \in {Aggregate(Occ(e)), "none"} :
          /\ RecordTerminal(Occ(e), t, TRUE)
          /\ t # "none" => AllSettled(Occ(e)) /\ t = Aggregate(Occ(e))
    BY <1>8 DEF HostAudits
  <2>2. /\ host' = [host EXCEPT ![e] = Quiet]
        /\ UNCHANGED <<ledger, reason, lapsed, plan, marker, lock, run, calls,
                       crashes>>
    BY <1>8 DEF HostAudits
  <2>3. t \in {"none", "skipped", "failed", "intentional_silence", "verified"}
    BY DEF Aggregate
  <2>4. audit' \in [Occurrences -> Terminal] /\ ClaimsAreTrue'
    BY <1>1, <2>1, <2>2, <2>3, RecordedTerminalIsTrue
  <2>5. /\ host' \in [Effects -> [step : {"idle", "mark", "audit"},
                                  value : Marker]]
        /\ \A f \in Effects : host'[f].value \in {host[f].value, "none"}
    BY <1>1, <2>2 DEF Quiet, Marker
  <2>6. TypeOK'
    BY <2>2, <2>4, <2>5 DEF IInv, TypeOK
  <2>7. LockInv'
    BY <2>2 DEF IInv, LockInv
  <2>8. HolderInv'
    BY <2>2, KnowledgeStays DEF IInv, HolderInv
  <2>9. HostInv'
    BY <2>2, <2>5 DEF IInv, HostInv, IsSilent
  <2>10. PlanFirst' /\ MarkersAreTrue' /\ IntentsBeforeCalls'
    BY <2>2 DEF IInv, FilesInv, PlanFirst, MarkersAreTrue, IntentsBeforeCalls,
       Planned, IsSilent
  <2>11. OnePendingOccurrence' /\ (~ OptionalIntent => AtMostOneCall')
    BY <2>2 DEF IInv, OnePendingOccurrence, AtMostOneCall
  <2> QED
    BY <2>4, <2>6, <2>7, <2>8, <2>9, <2>10, <2>11 DEF IInv, FilesInv
<1> QED
  BY <1>4, <1>5, <1>6, <1>7, <1>8 DEF HostReports

\* Time passes, the host's call is cut short, or nothing happens.
LEMMA StandstillKeepsInvariant ==
  ASSUME IInv,
         UNCHANGED <<ledger, reason, plan, marker, audit, lock, run, calls>>,
         lapsed' \subseteq Occurrences, crashes' \in 0..MaxCrashes,
         \/ host' = host
         \/ \E e \in Effects : host' = [host EXCEPT ![e] = Quiet]
  PROVE  IInv'
<1>1. /\ host' \in [Effects -> [step : {"idle", "mark", "audit"},
                                value : Marker]]
      /\ \A f \in Effects : host'[f].value \in {host[f].value, "none"}
  BY DEF IInv, TypeOK, Quiet, Marker
<1>2. TypeOK' /\ LockInv'
  BY <1>1 DEF IInv, TypeOK, LockInv
<1>3. HolderInv'
  BY KnowledgeStays DEF IInv, HolderInv
<1>4. HostInv'
  BY <1>1 DEF IInv, HostInv, IsSilent
<1>5. FilesInv'
  BY DEF IInv, FilesInv, PlanFirst, MarkersAreTrue, ClaimsAreTrue,
     IntentsBeforeCalls, Planned, AllSettled, Aggregate, IsSilent
<1>6. OnePendingOccurrence' /\ (~ OptionalIntent => AtMostOneCall')
  BY DEF IInv, OnePendingOccurrence, AtMostOneCall
<1> QED
  BY <1>2, <1>3, <1>4, <1>5, <1>6 DEF IInv

\* A dead run is one that was never begun; what it wrote stays.
LEMMA RunCrashKeepsInvariant ==
  ASSUME IInv, NEW r \in Runs, RunCrashes(r)
  PROVE  IInv'
<1>1. Idle \in RunState
  BY IdleIsTyped DEF IInv, TypeOK, RunState
<1>2. OthersStay(r) /\ run'[r] = Idle /\ lock' = NoRun /\ lock = r
        /\ crashes < MaxCrashes /\ crashes' = crashes + 1
        /\ UNCHANGED <<durable, host, calls>>
  BY <1>1, GotoMoves DEF RunCrashes, Release, OthersStay, IInv
<1>3. crashes' \in 0..MaxCrashes
  BY <1>2, CrashesAssumption DEF IInv, TypeOK
<1>4. TypeOK'
  BY <1>2, <1>3 DEF IInv, TypeOK, OthersStay, durable
<1>5. Idle.phase \in Outside /\ Idle.step = "next"
        /\ \A k \in Kinds : Idle.result[k] = "none"
  BY DEF Idle, Outside
<1>6. LockInv' /\ HolderInv'
  BY <1>2, <1>5, NoRunAssumption DEF IInv, LockInv, HolderInv, OthersStay
<1>7. HostInv' /\ OnePendingOccurrence' /\ (~ OptionalIntent => AtMostOneCall')
  BY <1>2 DEF IInv, HostInv, IsSilent, OnePendingOccurrence, AtMostOneCall,
     durable
<1>8. FilesInv'
  BY <1>2 DEF IInv, FilesInv, PlanFirst, MarkersAreTrue, ClaimsAreTrue,
     IntentsBeforeCalls, Planned, AllSettled, Aggregate, IsSilent, durable
<1> QED
  BY <1>4, <1>6, <1>7, <1>8 DEF IInv

-----------------------------------------------------------------------------
(* The inductive invariant. *)

LEMMA ContinueKeepsInvariant ==
  ASSUME IInv, NEW r \in Runs, Continue(r)
  PROVE  IInv'
<1>1. CASE ExecutionInProgress(r) \/ Acquire(r)
  BY <1>1, EntryKeepsInvariant, AcquireKeepsInvariant
<1>2. CASE ControlDenies(r)
  <2>1. lock = r /\ run[r].step = "next"
    BY <1>2 DEF ControlDenies, IInv, LockInv, HolderInv, Holds, Outside
  <2> QED
    BY <1>2, <2>1, GivingUpKeepsInvariant DEF ControlDenies
<1>3. CASE ListPending(r)
  BY <1>3, ListPendingKeepsInvariant
<1>4. CASE Reconciled(r)
  <2>1. lock = r
    BY <1>4 DEF Reconciled, IInv, LockInv, Outside
  <2> QED
    BY <1>4, <2>1, ReleaseKeepsInvariant DEF Reconciled
<1>5. CASE Decline(r)
  <2>1. lock = r /\ run[r].step = "next"
    BY <1>5 DEF Decline, IInv, LockInv, HolderInv, Holds, Outside
  <2> QED
    BY <1>5, <2>1, ReleaseKeepsInvariant, GivingUpKeepsInvariant DEF Decline
<1>6. CASE \E p \in Decisions : Decide(r, p)
  BY <1>6, DecideKeepsInvariant
<1>7. CASE FinishEffects(r) \/ FinishWithoutEffects(r)
  BY <1>7, FinishesKeepInvariant
<1>8. ASSUME NEW e \in Effects, Recover(r, e) \/ ReconcileListed(r, e)
      PROVE  IInv'
  BY <1>8, RecoverKeepsInvariant
<1>9. ASSUME NEW e \in Effects, Execute(r, e)
      PROVE  IInv'
  BY <1>9, PrepareKeepsInvariant, MarkPendingKeepsInvariant,
     CallKeepsInvariant, AnswerKeepsInvariant DEF Execute
<1> QED
  BY <1>1, <1>2, <1>3, <1>4, <1>5, <1>6, <1>7, <1>8, <1>9 DEF Continue

LEMMA StepKeepsInvariant == IInv /\ [Next]_vars => IInv'
<1> SUFFICES ASSUME IInv, [Next]_vars
             PROVE  IInv'
  OBVIOUS
<1>1. ASSUME NEW r \in Runs, NEW o \in Occurrences, Enter(r, o)
      PROVE  IInv'
  BY <1>1, EntryKeepsInvariant
<1>2. ASSUME NEW r \in Runs, Continue(r)
      PROVE  IInv'
  BY <1>2, ContinueKeepsInvariant
<1>3. ASSUME NEW r \in Runs, RunCrashes(r)
      PROVE  IInv'
  BY <1>3, RunCrashKeepsInvariant
<1>4. ASSUME NEW e \in Effects, HostReports(e)
      PROVE  IInv'
  BY <1>4, HostKeepsInvariant
<1>5. ASSUME NEW e \in Effects, HostCrashes(e)
      PROVE  IInv'
  <2>1. crashes' \in 0..MaxCrashes /\ lapsed' \subseteq Occurrences
    BY <1>5, CrashesAssumption DEF HostCrashes, IInv, TypeOK, durable
  <2> QED
    BY <1>5, <2>1, StandstillKeepsInvariant DEF HostCrashes, durable
<1>6. ASSUME NEW o \in Occurrences, Lapse(o)
      PROVE  IInv'
  <2>1. crashes' \in 0..MaxCrashes /\ lapsed' \subseteq Occurrences
    BY <1>6 DEF Lapse, IInv, TypeOK
  <2> QED
    BY <1>6, <2>1, StandstillKeepsInvariant DEF Lapse
<1>7. CASE UNCHANGED vars
  <2>1. crashes' \in 0..MaxCrashes /\ lapsed' \subseteq Occurrences
    BY <1>7 DEF vars, durable, IInv, TypeOK
  <2> QED
    BY <1>7, <2>1, StandstillKeepsInvariant DEF vars, durable
<1> QED
  BY <1>1, <1>2, <1>3, <1>4, <1>5, <1>6, <1>7 DEF Next

LEMMA InvariantAtStart == Init => IInv
<1> SUFFICES ASSUME Init
             PROVE  IInv
  OBVIOUS
<1>1. \A e \in Effects : Occ(e) \in Occurrences /\ Kind(e) \in Kinds
  BY EffectParts
<1>2. Idle \in RunState
  BY SomeOccurrence, IdleIsTyped
<1>3. \A r \in Runs : run[r] = Idle
  BY DEF Init
<1>4. TypeOK
  BY <1>2, <1>3, CrashesAssumption DEF Init, TypeOK, EffectState, Reason, NoPlan,
     Plan, Marker, NoTerminal, Terminal, Quiet
<1>5. LockInv /\ HolderInv
  BY <1>3, NoRunAssumption DEF Init, LockInv, HolderInv, Idle, Outside
<1>6. HostInv /\ OnePendingOccurrence /\ AtMostOneCall
  BY DEF Init, HostInv, Quiet, OnePendingOccurrence, AtMostOneCall, Unverified
<1>7. FilesInv
  BY <1>1 DEF Init, FilesInv, PlanFirst, MarkersAreTrue, ClaimsAreTrue,
     IntentsBeforeCalls, NoTerminal
<1> QED
  BY <1>4, <1>5, <1>6, <1>7 DEF IInv

LEMMA InductiveInvariant == Spec => []IInv
BY InvariantAtStart, StepKeepsInvariant, PTL DEF Spec

-----------------------------------------------------------------------------
(* What is always so. *)

\* A terminal that says verified or silent agrees with the ledger: every planned
\* effect is settled, and the aggregate of their outcomes is the one recorded
\* (canonical_terminal, record_settled_occurrence_terminal), whatever the order
\* in which runs, reports of the host and crashes fall.
THEOREM ClaimsAreAlwaysTrue == Spec => []ClaimsAreTrue
<1>1. IInv => ClaimsAreTrue
  BY DEF IInv, FilesInv
<1> QED
  BY <1>1, InductiveInvariant, PTL

\* No adapter is invoked before the intents of the whole approved set are
\* durable (execute_decision).
THEOREM IntentsAlwaysFirst == Spec => []IntentsBeforeCalls
<1>1. IInv => IntentsBeforeCalls
  BY DEF IInv, FilesInv
<1> QED
  BY <1>1, InductiveInvariant, PTL

\* The effects of two occurrences never wait for their outcome at the same time
\* (_reconcile_pending under the execution lock).
THEOREM PendingIsAlwaysSerialized == Spec => []OnePendingOccurrence
<1>1. IInv => OnePendingOccurrence
  BY DEF IInv
<1> QED
  BY <1>1, InductiveInvariant, PTL

\* A cadence marker never claims an outcome the ledger does not have
\* (record_effect_terminal, called by the run and by the host's report).
THEOREM MarkersAlwaysFollow == Spec => []MarkersFollowLedger
<1>1. IInv => MarkersFollowLedger
  BY DEF IInv, FilesInv, MarkersAreTrue, MarkersFollowLedger
<1> QED
  BY <1>1, InductiveInvariant, PTL

\* The sink of an effect is invoked once at most, however often its occurrence
\* is run again, expires or crashes, unless the sink can be called without its
\* intent argument (invoke).
THEOREM CalledAtMostOnce ==
  ASSUME ~ OptionalIntent
  PROVE  Spec => []AtMostOneCall
<1>1. IInv => AtMostOneCall
  BY DEF IInv
<1> QED
  BY <1>1, InductiveInvariant, PTL

-----------------------------------------------------------------------------
(* What the ledger is asked for. *)

\* The states that a row of the ledger may lead to (EffectStates).
Accepts(prev, next) ==
  \/ prev = "absent" /\ next = "intent"
  \/ prev = "expired" /\ next = "requeued"
  \/ \E op \in {"mark_pending", "mark_queue_accepted", "verify", "fail",
                "expire"} : Edge(prev, op, next)

\* A step appends one row at most, of one effect.
OneRow(e) ==
  /\ Accepts(ledger[e], ledger'[e])
  /\ \A f \in Effects \ {e} : ledger'[f] = ledger[f] /\ reason'[f] = reason[f]

RowsFollowTable == [][\E e \in Effects : OneRow(e)]_<<ledger, reason>>

AtMostOneRow(e) == UNCHANGED <<ledger, reason>> \/ OneRow(e)

\* What every mutator that has something to append does.
LEMMA SetLedgerIsOneRow ==
  ASSUME IInv, NEW e \in Effects, NEW s, SetLedger(e, s),
         s = ledger[e] \/ Accepts(ledger[e], s), UNCHANGED reason
  PROVE  AtMostOneRow(e)
<1>1. ledger'[e] = s /\ \A f \in Effects \ {e} : ledger'[f] = ledger[f]
  BY DEF IInv, TypeOK, SetLedger
<1>2. CASE s = ledger[e]
  BY <1>2 DEF SetLedger, IInv, TypeOK, AtMostOneRow
<1> QED
  BY <1>1, <1>2 DEF OneRow, AtMostOneRow

LEMMA FailLedgerIsOneRow ==
  ASSUME IInv, NEW e \in Effects, NEW why, FailLedger(e, why),
         \/ Accepts(ledger[e], "failed")
         \/ ledger[e] = "failed" /\ reason[e] = why
  PROVE  AtMostOneRow(e)
<1>1. /\ ledger'[e] = "failed"
      /\ \A f \in Effects \ {e} : ledger'[f] = ledger[f] /\ reason'[f] = reason[f]
  BY DEF IInv, TypeOK, SetLedger, FailLedger
<1>2. CASE ledger[e] = "failed" /\ reason[e] = why
  BY <1>2 DEF SetLedger, FailLedger, IInv, TypeOK, AtMostOneRow
<1> QED
  BY <1>1, <1>2 DEF OneRow, AtMostOneRow

LEMMA TableParts ==
  /\ Accepts("absent", "intent") /\ Accepts("expired", "requeued")
  /\ \A s \in Pendable : Accepts(s, "pending")
  /\ Accepts("pending", "executed_unverified")
  /\ \A s \in Unverified : Accepts(s, "verified") /\ Accepts(s, "expired")
  /\ \A s \in Failable : Accepts(s, "failed")
BY DEF Accepts, Edge, Pendable, Unverified, Failable

\* A run appends only what the ledger takes.
LEMMA RunAppendsOneRow ==
  ASSUME IInv, NEW r \in Runs, NEW e \in Effects,
         Recover(r, e) \/ ReconcileListed(r, e) \/ Execute(r, e)
  PROVE  AtMostOneRow(e)
<1>1. CASE UNCHANGED <<ledger, reason>>
  BY <1>1 DEF OneRow, AtMostOneRow
<1>2. ASSUME ledger[e] \in Unverified, SetLedger(e, "expired"), UNCHANGED reason
      PROVE  AtMostOneRow(e)
  BY <1>2, SetLedgerIsOneRow, TableParts
<1>3. CASE RecoverUnverifiedMarker(r, e) \/ ExpireRecord(r, e)
             \/ ReconcileListed(r, e)
  BY <1>1, <1>2, <1>3
  DEF RecoverUnverifiedMarker, ExpireRecord, ReconcileListed
\* Nothing in requeue checks the state: the holder of the lock knows it.
<1>4. CASE Requeue(r, e)
  <2>1. run[r].step = "requeue" /\ run[r].at = e
    BY <1>4 DEF Requeue
  <2>2. run[r].phase \notin Outside
    BY <2>1 DEF IInv, LockInv
  <2>3. lock = r
    BY <2>2 DEF IInv, LockInv
  <2>4. Holds(run[r])
    BY <2>3 DEF IInv, HolderInv
  <2>5. ledger[e] = "expired"
    BY <2>1, <2>4 DEF Holds
  <2>6. SetLedger(e, "requeued") /\ UNCHANGED reason
    BY <1>4 DEF Requeue
  <2> QED
    BY <2>5, <2>6, SetLedgerIsOneRow, TableParts
<1>5. CASE RecoverFinalMarker(r, e) \/ RecoverIncompletePlan(r, e)
             \/ RecoverRecord(r, e) \/ WriteMarker(r, e)
             \/ Call(r, e) \/ CallAgain(r, e)
  BY <1>1, <1>5 DEF RecoverFinalMarker, RecoverIncompletePlan, RecoverRecord,
                    WriteMarker, Call, CallAgain, durable
<1>6. CASE PrepareIntent(r, e)
  <2>1. /\ SetLedger(e, IF ledger[e] = "absent" THEN "intent" ELSE ledger[e])
        /\ UNCHANGED reason
    BY <1>6 DEF PrepareIntent
  <2> QED
    BY <2>1, SetLedgerIsOneRow, TableParts
<1>7. CASE MarkPending(r, e)
  BY <1>7, SetLedgerIsOneRow, TableParts DEF MarkPending
<1>8. CASE AnswerFailed(r, e)
  BY <1>1, <1>8, FailLedgerIsOneRow, TableParts DEF AnswerFailed, FailEffect
<1>9. CASE AnswerReceipt(r, e)
  BY <1>9, SetLedgerIsOneRow, TableParts DEF AnswerReceipt
<1>10. CASE AnswerAccepted(r, e)
  <2>1. CASE ledger[e] = "pending" /\ SetLedger(e, "executed_unverified")
             /\ UNCHANGED reason
    BY <2>1, SetLedgerIsOneRow, TableParts
  <2> QED
    BY <1>1, <1>10, <2>1 DEF AnswerAccepted
<1> QED
  BY <1>3, <1>4, <1>5, <1>6, <1>7, <1>8, <1>9, <1>10 DEF Recover, Execute

\* So does the host, though it holds no lock of the heartbeat.
LEMMA HostAppendsOneRow ==
  ASSUME IInv, NEW e \in Effects, HostReports(e) \/ HostCrashes(e)
  PROVE  AtMostOneRow(e)
<1>1. CASE UNCHANGED <<ledger, reason>>
  BY <1>1 DEF OneRow, AtMostOneRow
<1>2. CASE HostVerifies(e)
  BY <1>2, SetLedgerIsOneRow, TableParts DEF HostVerifies
<1>3. ASSUME NEW why \in {"intentional_silence", "delegated_failure"},
             NEW value, HostGivesUp(e, why, value)
      PROVE  AtMostOneRow(e)
  <2>1. FailLedger(e, why) /\ (ledger[e] \in Unverified \/ reason[e] = why)
    BY <1>3 DEF HostGivesUp
  <2>2. reason[e] = why => ledger[e] = "failed"
    BY DEF IInv, TypeOK
  <2>3. ledger[e] \in Unverified => Accepts(ledger[e], "failed")
    BY TableParts DEF Unverified, Failable
  <2> QED
    BY <2>1, <2>2, <2>3, FailLedgerIsOneRow
<1>4. CASE HostDoesNotKnow(e) \/ HostMarks(e) \/ HostAudits(e) \/ HostCrashes(e)
  BY <1>1, <1>4 DEF HostDoesNotKnow, HostMarks, HostAudits, HostCrashes, durable
<1> QED
  BY <1>2, <1>3, <1>4 DEF HostReports

\* Runs and host never ask the ledger for a row that its replay would refuse:
\* what one of them read of an effect is still true of it, or is read again,
\* when it appends (execute_decision, candidate_existing_effects, reconcile).
THEOREM RowsAlwaysFollowTable == Spec => RowsFollowTable
<1>1. ASSUME IInv, Next
      PROVE  (\E e \in Effects : OneRow(e)) \/ UNCHANGED <<ledger, reason>>
  <2>1. ASSUME NEW r \in Runs,
               \/ \E o \in Occurrences : Enter(r, o)
               \/ ExecutionInProgress(r) \/ Acquire(r) \/ ControlDenies(r)
               \/ ListPending(r) \/ Reconciled(r) \/ Decline(r)
               \/ \E p \in Decisions : Decide(r, p)
               \/ FinishEffects(r) \/ FinishWithoutEffects(r)
               \/ RunCrashes(r)
        PROVE  UNCHANGED <<ledger, reason>>
    BY <2>1 DEF Enter, ExecutionInProgress, Acquire, ControlDenies, ListPending,
                Reconciled, Decline, Decide, FinishEffects,
                FinishWithoutEffects, RunCrashes, durable
  <2>2. ASSUME NEW o \in Occurrences, Lapse(o)
        PROVE  UNCHANGED <<ledger, reason>>
    BY <2>2 DEF Lapse
  <2>3. ASSUME NEW e \in Effects, AtMostOneRow(e)
        PROVE  (\E f \in Effects : OneRow(f)) \/ UNCHANGED <<ledger, reason>>
    BY <2>3 DEF AtMostOneRow
  <2> QED
    BY <1>1, <2>1, <2>2, <2>3, RunAppendsOneRow, HostAppendsOneRow
    DEF Next, Continue
<1>2. IInv /\ [Next]_vars => [\E e \in Effects : OneRow(e)]_<<ledger, reason>>
  BY <1>1 DEF vars, durable
<1> QED
  BY <1>2, InductiveInvariant, PTL DEF Spec, RowsFollowTable

-----------------------------------------------------------------------------
(* The cadence. *)

\* The receipts a streak may stand on, and when they completed.
Earning(end, last, mark) ==
  {q \in Receipts : /\ end[q].eligible
                    /\ end[q].at <= last
                    /\ \A c \in Channels : mark[c] < end[q].at}
EarnedBy(end, last, mark) == {end[r].at : r \in Earning(end, last, mark)}
Earned == EarnedBy(ended, backoff.last, watermark)

\* A contact known as recent is in the map under the time it was sent, or the
\* overflow marker of its channel outlives it.  Recent alone is not inductive:
\* the contact that makes a channel recent may be another one, which ages
\* sooner.
ContactsAreHeld ==
  \A s \in heard :
    /\ sent[s] # Never
    /\ sent[s] + Window > now =>
         \/ contacts[s] = sent[s]
         \/ overflow[Channel(s)] >= sent[s] + Window

\* StreakFollowsContacts and StreakIsEarned, which are inductive as they are.
StreakInv ==
  /\ backoff.streak > 0 => \A c \in Channels : watermark[c] < backoff.last
  /\ backoff.streak <= Cardinality(Earned)

\* The inductive invariant.
CadenceInv ==
  /\ CadenceTypeOK
  /\ ContactsAreHeld
  /\ StreakInv

-----------------------------------------------------------------------------
(* The maps. *)

\* What an operation prunes is what has left the window, so nothing that is
\* still recent is lost.
LEMMA PruningKeepsRecent ==
  ASSUME CadenceTypeOK, ContactsAreHeld
  PROVE  /\ Pruned \in [Sources -> Times \cup {Never}]
         /\ PrunedOverflow \in [Channels -> Nat]
         /\ \A s \in Sources : Pruned[s] # Never => contacts[s] # Never
         /\ \A s \in heard : sent[s] + Window > now =>
              \/ Pruned[s] = sent[s]
              \/ PrunedOverflow[Channel(s)] >= sent[s] + Window
<1> USE PolicyAssumption, BoundAssumption DEF CadenceTypeOK, Times, Never, Pruned,
        PrunedOverflow, Channels
<1>1. \A s \in Sources : Channel(s) \in Channels
  BY DEF Channel
<1>2. \A s \in Sources :
        Pruned[s] = IF contacts[s] + Window > now THEN contacts[s] ELSE Never
  OBVIOUS
<1>3. \A c \in Channels :
        PrunedOverflow[c] = IF overflow[c] > now THEN overflow[c] ELSE Never
  OBVIOUS
<1>4. ASSUME NEW s \in heard, sent[s] + Window > now
      PROVE  \/ Pruned[s] = sent[s]
             \/ PrunedOverflow[Channel(s)] >= sent[s] + Window
  BY <1>1, <1>2, <1>3, <1>4 DEF ContactsAreHeld
<1> QED
  BY <1>2, <1>4

\* The contacts of one channel are finitely many, and fewer of them are fewer.
LEMMA FewerContacts ==
  ASSUME NEW c \in Channels, NEW f, NEW g,
         \A s \in Of(c) : g[s] # Never => f[s] # Never
  PROVE  /\ IsFiniteSet({s \in Of(c) : f[s] # Never})
         /\ Cardinality({s \in Of(c) : g[s] # Never})
              <= Cardinality({s \in Of(c) : f[s] # Never})
         /\ Cardinality({s \in Of(c) : g[s] # Never}) \in Nat
<1> DEFINE F == {s \in Of(c) : f[s] # Never}
           G == {s \in Of(c) : g[s] # Never}
<1>1. IsFiniteSet(Of(c))
  BY SourceAssumption DEF Of
<1>2. F \in SUBSET Of(c) /\ G \in SUBSET F
  OBVIOUS
<1>3. IsFiniteSet(F)
  BY <1>1, <1>2, FS_Subset
<1>4. IsFiniteSet(G) /\ Cardinality(G) <= Cardinality(F)
  <2> HIDE DEF F, G
  <2> QED
    BY <1>2, <1>3, FS_Subset
<1>5. Cardinality(G) \in Nat
  BY <1>4, FS_CardinalityType
<1> QED
  BY <1>3, <1>4, <1>5

\* Whatever Record does to the maps, they stay within their capacity and hold
\* every recent contact.
LEMMA RecordKeepsContacts ==
  ASSUME CadenceTypeOK, ContactsAreHeld, NEW s \in Sources,
         sent[s] # Never, sent[s] <= now, UNCHANGED <<now, sent>>,
         \/ /\ contacts' = Pruned /\ overflow' = PrunedOverflow
            /\ UNCHANGED heard
         \/ Spill(s)
         \/ Keep(s)
  PROVE  /\ contacts' \in [Sources -> Times \cup {Never}]
         /\ overflow' \in [Channels -> Nat]
         /\ heard' \subseteq Sources
         /\ \A c \in Channels :
              Cardinality({q \in Of(c) : contacts'[q] # Never}) <= ContactMax
         /\ ContactsAreHeld'
<1> DEFINE Held(c) == {q \in Of(c) : contacts[q] # Never}
           Left(c) == {q \in Of(c) : Pruned[q] # Never}
<1>1. /\ Pruned \in [Sources -> Times \cup {Never}]
      /\ PrunedOverflow \in [Channels -> Nat]
      /\ \A q \in Sources : Pruned[q] # Never => contacts[q] # Never
      /\ \A q \in heard : sent[q] + Window > now =>
           \/ Pruned[q] = sent[q]
           \/ PrunedOverflow[Channel(q)] >= sent[q] + Window
  BY PruningKeepsRecent
<1>2. \A c \in Channels : Of(c) \subseteq Sources
  BY DEF Of, Sources
<1>3. /\ sent[s] \in Times /\ sent[s] + Window \in Nat /\ Channel(s) \in Channels
      /\ Window \in Nat
      /\ \A q \in Sources : sent[q] \in Nat /\ Channel(q) \in Channels
  BY PolicyAssumption DEF CadenceTypeOK, Times, Never, Channel, Channels
<1>4. \A c \in Channels : /\ IsFiniteSet(Left(c))
                          /\ Cardinality(Left(c)) \in Nat
                          /\ Cardinality(Left(c)) <= ContactMax
  <2> SUFFICES ASSUME NEW c \in Channels
               PROVE  /\ IsFiniteSet(Left(c))
                      /\ Cardinality(Left(c)) \in Nat
                      /\ Cardinality(Left(c)) <= ContactMax
    OBVIOUS
  <2>1. /\ IsFiniteSet(Held(c)) /\ Cardinality(Left(c)) <= Cardinality(Held(c))
        /\ Cardinality(Left(c)) \in Nat
    BY <1>1, <1>2, FewerContacts
  <2>2. IsFiniteSet(Left(c))
    BY FewerContacts
  <2>3. Cardinality(Held(c)) \in Nat
    <3> HIDE DEF Held
    <3> QED
      BY <2>1, FS_CardinalityType
  <2>4. Cardinality(Held(c)) <= ContactMax
    BY DEF CadenceTypeOK
  <2> HIDE DEF Held, Left
  <2> QED
    BY <2>1, <2>2, <2>3, <2>4, BoundAssumption
<1>5. CASE contacts' = Pruned /\ overflow' = PrunedOverflow /\ UNCHANGED heard
  <2>1. ContactsAreHeld'
    BY <1>1, <1>5 DEF ContactsAreHeld
  <2> QED
    BY <1>1, <1>4, <1>5, <2>1 DEF CadenceTypeOK
<1>6. CASE Spill(s)
  <2>1. /\ contacts' = Pruned /\ heard' = heard \cup {s}
        /\ overflow' = [PrunedOverflow EXCEPT ![Channel(s)] =
                          Later(PrunedOverflow[Channel(s)], sent[s] + Window)]
    BY <1>6 DEF Spill
  <2>2. /\ overflow' \in [Channels -> Nat]
        /\ \A c \in Channels : overflow'[c] >= PrunedOverflow[c]
        /\ overflow'[Channel(s)] >= sent[s] + Window
    BY <1>1, <1>3, <2>1 DEF Later
  <2>3. ContactsAreHeld'
    <3> SUFFICES ASSUME NEW q \in heard'
                 PROVE  /\ sent[q] # Never
                        /\ sent[q] + Window > now =>
                             \/ Pruned[q] = sent[q]
                             \/ overflow'[Channel(q)] >= sent[q] + Window
      BY <2>1 DEF ContactsAreHeld
    <3>1. CASE q = s
      BY <2>2, <3>1
    <3>2. CASE q \in heard
      <4>1. q \in Sources /\ sent[q] # Never
        BY <3>2 DEF CadenceTypeOK, ContactsAreHeld
      <4>2. /\ overflow'[Channel(q)] \in Nat /\ PrunedOverflow[Channel(q)] \in Nat
            /\ overflow'[Channel(q)] >= PrunedOverflow[Channel(q)]
            /\ sent[q] \in Nat
        BY <1>1, <1>3, <2>2, <4>1
      <4> QED
        BY <1>1, <1>3, <3>2, <4>1, <4>2
    <3> QED
      BY <2>1, <3>1, <3>2
  <2> QED
    BY <1>1, <1>4, <2>1, <2>2, <2>3 DEF CadenceTypeOK
<1>7. CASE Keep(s)
  <2>1. /\ contacts' = [Pruned EXCEPT ![s] = sent[s]] /\ heard' = heard \cup {s}
        /\ overflow' = PrunedOverflow /\ ~ Full(Channel(s))
    BY <1>7 DEF Keep
  <2>2. ContactsAreHeld'
    BY <1>1, <2>1 DEF ContactsAreHeld, CadenceTypeOK
  <2>3. \A c \in Channels :
          Cardinality({q \in Of(c) : contacts'[q] # Never}) <= ContactMax
    <3> SUFFICES ASSUME NEW c \in Channels
                 PROVE  Cardinality({q \in Of(c) : contacts'[q] # Never})
                          <= ContactMax
      OBVIOUS
    <3>1. CASE c = Channel(s)
      <4>1. {q \in Of(c) : contacts'[q] # Never} = Left(c) \cup {s}
        BY <1>1, <1>2, <2>1, <3>1 DEF Channel, Of, Sources
      <4>2. Cardinality(Left(c)) < ContactMax
        BY <1>4, <2>1, <3>1, BoundAssumption DEF Full
      <4>3. Cardinality(Left(c) \cup {s}) =
              IF s \in Left(c) THEN Cardinality(Left(c))
              ELSE Cardinality(Left(c)) + 1
        <5>1. IsFiniteSet(Left(c))
          BY <1>4
        <5> HIDE DEF Left
        <5> QED
          BY <5>1, FS_AddElement
      <4>4. Cardinality(Left(c)) \in Nat
        BY <1>4
      <4> HIDE DEF Left
      <4> QED
        BY <4>1, <4>2, <4>3, <4>4, BoundAssumption
    <3>2. CASE c # Channel(s)
      <4>1. {q \in Of(c) : contacts'[q] # Never} = Left(c)
        BY <1>1, <1>2, <2>1, <3>2, SourceAssumption
           DEF Channel, Channels, Of, Sources
      <4> QED
        BY <1>4, <4>1
    <3> QED
      BY <3>1, <3>2
  <2> QED
    BY <1>1, <1>3, <2>1, <2>2, <2>3 DEF CadenceTypeOK
<1> QED
  BY <1>5, <1>6, <1>7

-----------------------------------------------------------------------------
(* The streak. *)

\* The times a streak may stand on are finitely many.
LEMMA EarnedIsFinite ==
  ASSUME NEW end, NEW last, NEW mark
  PROVE  /\ IsFiniteSet(EarnedBy(end, last, mark))
         /\ Cardinality(EarnedBy(end, last, mark)) \in Nat
<1> DEFINE S == Earning(end, last, mark)
           T == EarnedBy(end, last, mark)
           at == [r \in S |-> end[r].at]
<1>1. IsFiniteSet(S)
  <2>1. S \in SUBSET Receipts
    BY DEF Earning
  <2> HIDE DEF S
  <2> QED
    BY <2>1, SourceAssumption, FS_Subset
<1>2. at \in Surjection(S, T)
  <2>1. at \in [S -> T]
    BY DEF EarnedBy
  <2>2. \A t \in T : \E r \in S : at[r] = t
    BY DEF EarnedBy
  <2> HIDE DEF at, S, T
  <2> QED
    BY <2>1, <2>2, Fun_IsSurj
<1>3. IsFiniteSet(T)
  <2> HIDE DEF at, S, T
  <2> QED
    BY <1>1, <1>2, FS_Surjection
<1>4. Cardinality(T) \in Nat
  <2> HIDE DEF T
  <2> QED
    BY <1>3, FS_CardinalityType
<1> QED
  BY <1>3, <1>4

\* A step that takes none of those times away leaves a streak earned.
LEMMA EarnedOnlyGrows ==
  ASSUME Earned \subseteq Earned'
  PROVE  /\ Cardinality(Earned) \in Nat /\ Cardinality(Earned') \in Nat
         /\ Cardinality(Earned) <= Cardinality(Earned')
<1>1. IsFiniteSet(Earned') /\ Cardinality(Earned') \in Nat
  BY EarnedIsFinite DEF Earned
<1>2. Cardinality(Earned) \in Nat
  BY EarnedIsFinite DEF Earned
<1>3. Cardinality(Earned) <= Cardinality(Earned')
  BY <1>1, FS_Subset
<1> QED
  BY <1>1, <1>2, <1>3

\* Without a streak nothing has to be earned.
LEMMA NoStreakNoDebt ==
  ASSUME backoff'.streak = 0
  PROVE  StreakInv'
<1>1. Cardinality(Earned') \in Nat
  BY EarnedIsFinite DEF Earned
<1> QED
  BY <1>1 DEF StreakInv

\* A silence that counts adds its own time to those the streak stands on.
LEMMA SilenceEarns ==
  ASSUME CadenceTypeOK, StreakInv, NEW r \in Receipts, Counts(r), ApplySilence(r),
         ended[r].at <= now, UNCHANGED <<ended, watermark>>
  PROVE  /\ backoff' \in [until : Nat, streak : 0..StreakMax,
                          last : Times \cup {Never}]
         /\ StreakInv'
<1> USE DEF CadenceTypeOK
<1>1. /\ ended[r].at \in Times \cup {Never} /\ ended[r].eligible
      /\ ended[r].at > backoff.last
      /\ \A c \in Channels : watermark[c] < ended[r].at
  <2>1. /\ ended[r].eligible
        /\ ended[r].at > backoff.last
        /\ \A c \in Channels : ~ (ended[r].at <= watermark[c])
    BY DEF Counts, AfterContact
  <2>2. /\ ended[r].at \in Times \cup {Never}
        /\ \A c \in Channels : watermark[c] \in Times \cup {Never}
    OBVIOUS
  <2>3. \A c \in Channels : watermark[c] < ended[r].at
    BY <2>1, <2>2 DEF Times, Never
  <2> QED
    BY <2>1, <2>2, <2>3
<1>2. /\ backoff.last \in Nat /\ ended[r].at \in Nat /\ backoff.streak \in Nat
      /\ backoff.until \in Nat /\ now \in Nat /\ StreakMax \in Nat \ {0}
      /\ backoff.streak <= StreakMax
  BY <1>1, BoundAssumption DEF Times, Never
<1> DEFINE k == IF backoff.streak < StreakMax THEN backoff.streak + 1
                ELSE StreakMax
<1>3. k \in 0..StreakMax /\ k <= backoff.streak + 1
  BY <1>2
<1>4. /\ backoff'.streak = k /\ backoff'.last = ended[r].at
      /\ backoff' \in [until : Nat, streak : 0..StreakMax,
                       last : Times \cup {Never}]
  <2>1. backoff' = Counted(k, ended[r].at)
    BY DEF ApplySilence
  <2> HIDE DEF k
  <2> QED
    BY <1>1, <1>2, <1>3, <2>1, PolicyAssumption DEF Counted, Never
<1>5. /\ Earned \cup {ended[r].at} \subseteq Earned'
      /\ ended[r].at \notin Earned
  <2>1. ended[r].at \in Earned'
    BY <1>1, <1>2, <1>4 DEF Earned, EarnedBy, Earning
  <2>2. Earned \subseteq Earned'
    <3> SUFFICES ASSUME NEW q \in Earning(ended, backoff.last, watermark)
                 PROVE  q \in Earning(ended, backoff.last, watermark)'
      BY DEF Earned, EarnedBy
    <3>1. ended[q].at \in Nat
      BY DEF Earning, Times, Never
    <3> QED
      BY <1>1, <1>2, <1>4, <3>1 DEF Earning
  <2>3. ended[r].at \notin Earned
    BY <1>1, <1>2 DEF Earned, EarnedBy, Earning
  <2> QED
    BY <2>1, <2>2, <2>3
<1>6. Cardinality(Earned') >= Cardinality(Earned) + 1
  <2>1. IsFiniteSet(Earned) /\ IsFiniteSet(Earned')
          /\ Cardinality(Earned) \in Nat /\ Cardinality(Earned') \in Nat
    BY EarnedIsFinite DEF Earned
  <2>2. Cardinality(Earned \cup {ended[r].at}) = Cardinality(Earned) + 1
    BY <1>5, <2>1, FS_AddElement
  <2>3. Cardinality(Earned \cup {ended[r].at}) <= Cardinality(Earned')
    BY <1>5, <2>1, FS_Subset
  <2> QED
    BY <2>1, <2>2, <2>3
<1>7. Cardinality(Earned) \in Nat /\ Cardinality(Earned') \in Nat
  BY EarnedIsFinite DEF Earned
<1>8. backoff'.streak <= Cardinality(Earned')
  <2> HIDE DEF k
  <2> QED
    BY <1>2, <1>3, <1>4, <1>6, <1>7 DEF StreakInv
<1>9. \A c \in Channels : watermark'[c] < backoff'.last
  BY <1>1, <1>4
<1> QED
  BY <1>4, <1>8, <1>9 DEF StreakInv

-----------------------------------------------------------------------------
(* The steps. *)

\* Marking a receipt processed forgets the oldest when there is no room.
LEMMA ProcessIsBounded ==
  ASSUME CadenceTypeOK, NEW r \in Receipts, Process(r)
  PROVE  processed' \in Seq(Receipts) /\ Len(processed') <= ReceiptMax
<1> DEFINE all == Append(processed, r)
           first == Later(1, Len(all) - ReceiptMax + 1)
<1>1. all \in Seq(Receipts) /\ Len(all) \in Nat \ {0}
  BY DEF CadenceTypeOK
<1>2. ReceiptMax \in Nat \ {0}
  BY BoundAssumption
<1>3. /\ first \in 1..Len(all)
      /\ Len(all) - first + 1 <= ReceiptMax
  BY <1>1, <1>2 DEF Later
<1>4. processed' = SubSeq(all, first, Len(all))
  BY DEF Process
<1> HIDE DEF all, first
<1>5. /\ processed' \in Seq(Receipts)
      /\ Len(processed') = Len(all) - first + 1
  BY <1>1, <1>3, <1>4
<1> QED
  BY <1>3, <1>5

\* Every step keeps the invariant.
LEMMA CadenceStepKeeps ==
  ASSUME CadenceInv, [CadenceNext]_cadenceVars
  PROVE  CadenceInv'
<1> USE DEF CadenceInv
<1>1. CASE UNCHANGED cadenceVars
  BY <1>1 DEF cadenceVars, CadenceTypeOK, ContactsAreHeld, StreakInv, Earned,
     EarnedBy, Earning, Times, Channels, Of
<1>2. CASE Tick
  <2>1. now' \in Times /\ now' = now + 1
    BY <1>2, BoundAssumption DEF Tick, CadenceTypeOK, Times
  <2>2. CadenceTypeOK'
    BY <1>2, <2>1 DEF Tick, CadenceTypeOK, contactVars
  <2>3. ContactsAreHeld'
    <3>1. \A s \in heard : sent[s] \in Nat
      BY DEF CadenceTypeOK, Times, Never
    <3> QED
      BY <1>2, <2>1, <3>1, PolicyAssumption
         DEF Tick, ContactsAreHeld, contactVars, CadenceTypeOK, Times
  <2>4. StreakInv'
    BY <1>2 DEF Tick, StreakInv, Earned, EarnedBy, Earning, contactVars
  <2> QED
    BY <2>2, <2>3, <2>4
<1>3. ASSUME NEW s \in Sources, Contact(s) PROVE CadenceInv'
  <2>1. CadenceTypeOK'
    BY <1>3 DEF Contact, CadenceTypeOK, contactVars
  <2>2. ContactsAreHeld'
    BY <1>3 DEF Contact, ContactsAreHeld, contactVars, CadenceTypeOK
  <2>3. StreakInv'
    BY <1>3 DEF Contact, StreakInv, Earned, EarnedBy, Earning, contactVars
  <2> QED
    BY <2>1, <2>2, <2>3
<1>4. ASSUME NEW r \in Receipts, End(r) PROVE CadenceInv'
  <2>1. PICK eligible \in BOOLEAN :
          ended' = [ended EXCEPT ![r] = [at |-> now, eligible |-> eligible]]
    BY <1>4 DEF End
  <2>2. UNCHANGED <<now, sent, contacts, overflow, watermark, heard, backoff,
                    processed>>
    BY <1>4 DEF End, contactVars
  <2>3. CadenceTypeOK'
    BY <2>1, <2>2 DEF CadenceTypeOK
  <2>4. ContactsAreHeld'
    BY <2>2 DEF ContactsAreHeld
  <2>5. Earned \subseteq Earned'
    <3> SUFFICES ASSUME NEW q \in Earning(ended, backoff.last, watermark)
                 PROVE  /\ q \in Earning(ended, backoff.last, watermark)'
                        /\ ended'[q] = ended[q]
      BY DEF Earned, EarnedBy
    <3>1. q # r
      BY <1>4 DEF End, Earning, NotEnded
    <3>2. ended'[q] = ended[q]
      BY <2>1, <3>1 DEF CadenceTypeOK, Earning
    <3> QED
      BY <2>2, <3>2 DEF Earning
  <2>6. StreakInv'
    <3>1. backoff.streak \in Nat
      BY BoundAssumption DEF CadenceTypeOK
    <3> QED
      BY <2>2, <2>5, <3>1, EarnedOnlyGrows DEF StreakInv
  <2> QED
    BY <2>3, <2>4, <2>6
<1>5. ASSUME NEW s \in Sources, Record(s) PROVE CadenceInv'
  <2>1. /\ sent[s] # Never /\ sent[s] <= now
        /\ UNCHANGED <<now, sent, ended, processed>>
    BY <1>5 DEF Record
  <2>2. \/ /\ contacts' = Pruned /\ overflow' = PrunedOverflow
           /\ UNCHANGED heard
        \/ Spill(s)
        \/ Keep(s)
    BY <1>5 DEF Record, Repeated, Stale
  <2>3. /\ contacts' \in [Sources -> Times \cup {Never}]
        /\ overflow' \in [Channels -> Nat]
        /\ heard' \subseteq Sources
        /\ \A c \in Channels :
             Cardinality({q \in Of(c) : contacts'[q] # Never}) <= ContactMax
        /\ ContactsAreHeld'
    BY <2>1, <2>2, RecordKeepsContacts
  <2>4. CASE UNCHANGED <<watermark, backoff>>
    <3>1. CadenceTypeOK'
      BY <2>1, <2>3, <2>4 DEF CadenceTypeOK
    <3>2. StreakInv'
      BY <2>1, <2>4 DEF StreakInv, Earned, EarnedBy, Earning
    <3> QED
      BY <2>3, <3>1, <3>2
  <2>5. CASE /\ watermark' = [watermark EXCEPT ![Channel(s)] = Later(@, sent[s])]
             /\ backoff' = NoBackoff
    <3>1. watermark' \in [Channels -> Times \cup {Never}]
      BY <2>1, <2>5 DEF CadenceTypeOK, Later
    <3>2. backoff' \in [until : Nat, streak : 0..StreakMax,
                        last : Times \cup {Never}] /\ backoff'.streak = 0
      BY <2>5, BoundAssumption DEF NoBackoff, Never
    <3>3. CadenceTypeOK'
      BY <2>1, <2>3, <3>1, <3>2 DEF CadenceTypeOK
    <3> QED
      BY <2>3, <3>2, <3>3, NoStreakNoDebt
  <2> QED
    BY <1>5, <2>4, <2>5 DEF Record, Repeated
<1>6. ASSUME NEW r \in Receipts, Silence(r) PROVE CadenceInv'
  <2>1. /\ contacts' = Pruned /\ overflow' = PrunedOverflow
        /\ UNCHANGED <<now, sent, ended, watermark, heard>>
    BY <1>6 DEF Silence
  <2>2. /\ contacts' \in [Sources -> Times \cup {Never}]
        /\ overflow' \in [Channels -> Nat]
        /\ \A c \in Channels :
             Cardinality({q \in Of(c) : contacts'[q] # Never}) <= ContactMax
        /\ ContactsAreHeld'
    <3>1. /\ contacts' \in [Sources -> Times \cup {Never}]
          /\ overflow' \in [Channels -> Nat]
          /\ \A s \in Sources : contacts'[s] # Never => contacts[s] # Never
          /\ ContactsAreHeld'
      BY <2>1, PruningKeepsRecent DEF ContactsAreHeld
    <3>2. ASSUME NEW c \in Channels
          PROVE  Cardinality({q \in Of(c) : contacts'[q] # Never}) <= ContactMax
      <4> DEFINE Held == {q \in Of(c) : contacts[q] # Never}
                 Left == {q \in Of(c) : contacts'[q] # Never}
      <4>1. \A q \in Of(c) : contacts'[q] # Never => contacts[q] # Never
        BY <3>1 DEF Of, Sources
      <4>2. IsFiniteSet(Held) /\ Cardinality(Left) <= Cardinality(Held)
              /\ Cardinality(Left) \in Nat
        BY <4>1, FewerContacts
      <4>3. Cardinality(Held) <= ContactMax
        BY DEF CadenceTypeOK
      <4>4. Cardinality(Held) \in Nat
        <5> HIDE DEF Held
        <5> QED
          BY <4>2, FS_CardinalityType
      <4> HIDE DEF Held, Left
      <4>5. Cardinality(Left) <= ContactMax
        BY <4>2, <4>3, <4>4, BoundAssumption
      <4> QED
        BY <4>5 DEF Left
    <3> QED
      BY <3>1, <3>2
  <2>3. processed' \in Seq(Receipts) /\ Len(processed') <= ReceiptMax
    BY <1>6, ProcessIsBounded DEF Silence, CadenceTypeOK
  <2>4. CASE UNCHANGED backoff
    <3>1. CadenceTypeOK'
      BY <2>1, <2>2, <2>3, <2>4 DEF CadenceTypeOK
    <3>2. StreakInv'
      BY <2>1, <2>4 DEF StreakInv, Earned, EarnedBy, Earning
    <3> QED
      BY <2>2, <3>1, <3>2
  <2>5. CASE Counts(r) /\ ApplySilence(r) /\ ended[r].at <= now
    <3>1. /\ backoff' \in [until : Nat, streak : 0..StreakMax,
                           last : Times \cup {Never}]
          /\ StreakInv'
      BY <2>1, <2>5, SilenceEarns
    <3>2. CadenceTypeOK'
      BY <2>1, <2>2, <2>3, <3>1 DEF CadenceTypeOK
    <3> QED
      BY <2>2, <3>1, <3>2
  <2> QED
    BY <1>6, <2>4, <2>5 DEF Silence
<1>7. CASE Snooze
  <2>1. PICK minutes \in Snoozes :
          backoff' = [backoff EXCEPT !.until = now + minutes]
    BY <1>7 DEF Snooze
  <2>2. UNCHANGED <<now, sent, ended, contacts, overflow, watermark, heard,
                    processed>>
    BY <1>7 DEF Snooze, contactVars
  <2>3. now + minutes \in Nat
    BY BoundAssumption DEF CadenceTypeOK, Times
  <2>4. /\ backoff' \in [until : Nat, streak : 0..StreakMax,
                         last : Times \cup {Never}]
        /\ backoff'.streak = backoff.streak /\ backoff'.last = backoff.last
    BY <2>1, <2>3 DEF CadenceTypeOK
  <2>5. CadenceTypeOK' /\ ContactsAreHeld'
    BY <2>2, <2>4 DEF CadenceTypeOK, ContactsAreHeld
  <2>6. StreakInv'
    BY <2>2, <2>4 DEF StreakInv, Earned, EarnedBy, Earning
  <2> QED
    BY <2>5, <2>6
<1>8. CASE Resume
  <2>1. backoff' \in [until : Nat, streak : 0..StreakMax,
                      last : Times \cup {Never}] /\ backoff'.streak = 0
    BY <1>8, BoundAssumption DEF Resume, NoBackoff, Never
  <2>2. CadenceTypeOK' /\ ContactsAreHeld'
    BY <1>8, <2>1 DEF Resume, CadenceTypeOK, ContactsAreHeld, contactVars
  <2> QED
    BY <2>1, <2>2, NoStreakNoDebt
<1> QED
  BY <1>1, <1>2, <1>3, <1>4, <1>5, <1>6, <1>7, <1>8 DEF CadenceNext

\* The invariant holds of every reachable state.
LEMMA CadenceInvariant == CadenceSpec => []CadenceInv
<1>1. CadenceInit => CadenceInv
  <2> SUFFICES ASSUME CadenceInit PROVE CadenceInv
    OBVIOUS
  <2> USE DEF CadenceInit
  <2>1. ASSUME NEW c \in Channels
        PROVE  Cardinality({s \in Of(c) : contacts[s] # Never}) <= ContactMax
    <3>1. {s \in Of(c) : contacts[s] # Never} = {}
      BY DEF Of, Sources
    <3>2. Cardinality({}) = 0
      BY FS_EmptySet
    <3>3. 0 <= ContactMax
      BY BoundAssumption
    <3> HIDE DEF CadenceInit
    <3> QED
      BY <3>1, <3>2, <3>3
  <2>2. backoff \in [until : Nat, streak : 0..StreakMax,
                     last : Times \cup {Never}] /\ backoff.streak = 0
    BY BoundAssumption DEF NoBackoff, Never
  <2>3. processed \in Seq(Receipts) /\ Len(processed) <= ReceiptMax
    BY BoundAssumption
  <2>4. CadenceTypeOK
    BY <2>1, <2>2, <2>3, BoundAssumption DEF CadenceTypeOK, Times, Never, NotEnded
  <2>5. Cardinality(Earned) \in Nat
    BY EarnedIsFinite DEF Earned
  <2> QED
    BY <2>2, <2>4, <2>5 DEF CadenceInv, ContactsAreHeld, StreakInv
<1> QED
  BY <1>1, CadenceStepKeeps, PTL DEF CadenceSpec

\* No contact that was recorded in its window is forgotten before the window
\* closes, whatever the capacity of the maps.
THEOREM ContactsAlwaysRecent == CadenceSpec => []ContactsStayRecent
<1>1. CadenceInv => ContactsStayRecent
  <2> SUFFICES ASSUME CadenceInv, NEW s \in heard, sent[s] + Window > now
               PROVE  Recent(Channel(s))
    BY DEF ContactsStayRecent
  <2>1. s \in Of(Channel(s)) /\ Channel(s) \in Channels /\ s \in Sources
    BY DEF CadenceInv, CadenceTypeOK, Sources, Of, Channel, Channels
  <2>2. /\ sent[s] # Never /\ sent[s] \in Nat /\ now \in Nat
        /\ overflow[Channel(s)] \in Nat
        /\ contacts[s] = sent[s] \/ overflow[Channel(s)] >= sent[s] + Window
    BY <2>1 DEF CadenceInv, CadenceTypeOK, ContactsAreHeld, Times, Never
  <2> QED
    BY <2>1, <2>2, PolicyAssumption DEF Recent
<1> QED
  BY <1>1, CadenceInvariant, PTL

\* Every contact known is older than what the streak counts.
THEOREM StreakAlwaysFollowsContacts == CadenceSpec => []StreakFollowsContacts
<1>1. CadenceInv => StreakFollowsContacts
  BY DEF CadenceInv, StreakInv, StreakFollowsContacts
<1> QED
  BY <1>1, CadenceInvariant, PTL

\* A streak counts no silence twice, although the receipts it remembers are
\* fewer than those that may come again.
THEOREM StreakAlwaysEarned == CadenceSpec => []StreakIsEarned
<1>1. CadenceInv => StreakIsEarned
  BY DEF CadenceInv, StreakInv, StreakIsEarned, Earned, EarnedBy, Earning
<1> QED
  BY <1>1, CadenceInvariant, PTL
=============================================================================
