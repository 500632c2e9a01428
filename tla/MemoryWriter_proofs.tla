-------------------------- MODULE MemoryWriter_proofs --------------------------
(***************************************************************************)
(* Proofs about MemoryWriter, for any callers, writes and contents, and    *)
(* any number of calls and attempts.                                       *)
(*                                                                         *)
(* A writer may be called for an attempt that nobody was called for yet.   *)
(* An attempt is open to a caller only while its effect is an intent or    *)
(* requeued; the claim lock lets one caller at a time end that, and only a *)
(* requeue, which counts the attempt on, brings it back (EffectInv and     *)
(* CallInv).  A diary entry has no requeue, hence one attempt, one row.    *)
(***************************************************************************)
EXTENDS MemoryWriter, TLAPS

Entries == {<<>>} \cup {<<b>> : b \in Bodies}

\* The types, as far as the other parts do not imply them.
Types ==
  /\ effect \in [Writes -> Effects]
  /\ \A w \in Writes :
       /\ effect[w].state = "absent" <=> effect[w].body = None
       /\ effect[w].state = "verified" <=> effect[w].receipt # None
  /\ claim \in Callers \cup {None}
  /\ call \in [Callers -> Calls]
  /\ written \in [Writes -> [1..MaxAttempt -> {0, 1}]]
  /\ diary \in [Writes -> Entries]
  /\ returned \subseteq Diaries \X Bodies
  /\ orphaned \subseteq Writes
  /\ made \in 0..MaxCalls

\* What a call knows while it is between two of its steps.
CallHolds(c) ==
  LET s == call[c]
      e == effect[s.write]
  IN  /\ s.pc # "idle" => made >= 1 /\ s.body \in Bodies
      /\ s.pc = "marking" <=> claim = c
      /\ s.pc = "marking" => e.state \in Claimable \cup {"failed"}
      /\ s.pc = "writing" =>
           /\ s.attempt \in 1..e.attempt
           /\ e.state \in Claimable => s.attempt < e.attempt
           /\ written[s.write][s.attempt] = 0
      /\ s.pc = "answered" /\ s.answer = "receipt" => s.receipt # None
      /\ s.pc = "opening" => s.write \in Diaries /\ e.state = "verified"

CallInv == \A c \in Callers : CallHolds(c)

\* No two callers are about to call the writer for one attempt.
WritersInv ==
  \A c, d \in Callers :
    /\ call[c].pc = "writing" /\ call[d].pc = "writing"
    /\ call[c].write = call[d].write /\ call[c].attempt = call[d].attempt
    => c = d

\* An attempt that is open to a caller has had no writer, nor has any to come.
EffectInv ==
  \A w \in Writes :
    /\ effect[w].state = "absent" <=> effect[w].attempt = 0
    /\ \A a \in 1..MaxAttempt :
         /\ a > effect[w].attempt => written[w][a] = 0
         /\ written[w][a] # 0 => made >= 1
    /\ effect[w].state \in Claimable => written[w][effect[w].attempt] = 0

\* A diary entry has one attempt, and no row but that of its writer.
DiaryInv ==
  /\ \A w \in Diaries : /\ effect[w].attempt <= 1
                        /\ effect[w].state \notin {"expired", "requeued"}
  /\ \A w \in Writes : diary[w] # <<>> => written[w][1] = 1

\* Pending effects are somebody's.
PendingInv ==
  \A w \in Writes : effect[w].state = "pending" =>
    \/ w \in orphaned
    \/ \E c \in Callers : /\ call[c].pc \in {"writing", "answered"}
                          /\ call[c].write = w

\* The inductive invariant.
IInv ==
  /\ Types
  /\ CallInv /\ WritersInv /\ EffectInv /\ DiaryInv
  /\ PendingInv /\ ReturnedIsVerified

-----------------------------------------------------------------------------
(* What the invariant implies. *)

LEMMA AttemptParts ==
  ASSUME IInv, NEW w \in Writes
  PROVE  /\ effect[w] \in Effects
         /\ effect[w].attempt \in 0..MaxAttempt
         /\ effect[w].state # "absent" => effect[w].attempt \in 1..MaxAttempt
BY WriteAssumption DEF IInv, Types, EffectInv, Effects

LEMMA ImpliesTypeOK ==
  ASSUME IInv
  PROVE  TypeOK
<1>1. claim # None <=> \E c \in Callers : call[c].pc = "marking"
  BY WriteAssumption DEF IInv, Types, CallInv, CallHolds
<1>2. written \in [Writes -> [1..MaxAttempt -> 0..MaxCalls]]
  <2>1. ASSUME NEW w \in Writes, NEW a \in 1..MaxAttempt
        PROVE  written[w][a] \in 0..MaxCalls
    BY WriteAssumption DEF IInv, Types, EffectInv
  <2>2. ASSUME NEW w \in Writes
        PROVE  written[w] \in [1..MaxAttempt -> 0..MaxCalls]
    <3>1. written[w] \in [1..MaxAttempt -> {0, 1}]
      BY DEF IInv, Types
    <3> QED
      BY <2>1, <3>1
  <2> QED
    BY <2>2 DEF IInv, Types
<1>3. \A w \in Writes : \E n \in 0..MaxCalls : diary[w] \in [1..n -> Bodies]
  <2> SUFFICES ASSUME NEW w \in Writes
               PROVE  \E n \in 0..MaxCalls : diary[w] \in [1..n -> Bodies]
    OBVIOUS
  <2>1. CASE diary[w] = <<>>
    <3>1. diary[w] \in [1..0 -> Bodies] /\ 0 \in 0..MaxCalls
      BY <2>1, WriteAssumption
    <3> QED
      BY <3>1
  <2>2. CASE diary[w] # <<>>
    <3>1. PICK b \in Bodies : diary[w] = <<b>>
      BY <2>2 DEF IInv, Types, Entries
    <3>2. 1 \in 0..MaxCalls
      BY <2>2, WriteAssumption DEF IInv, Types, EffectInv, DiaryInv
    <3>3. diary[w] \in [1..1 -> Bodies]
      BY <3>1
    <3> QED
      BY <3>2, <3>3
  <2> QED
    BY <2>1, <2>2
<1> QED
  BY <1>1, <1>2, <1>3 DEF IInv, Types, TypeOK

LEMMA ImpliesProperties ==
  ASSUME IInv
  PROVE  DiaryOnce /\ OneWriterPerAttempt /\ PendingHasAnOwner
<1>1. DiaryOnce
  <2>1. \A w \in Diaries : diary[w] \in Entries
    BY WriteAssumption DEF IInv, Types
  <2>2. Len(<<>>) = 0 /\ \A b \in Bodies : Len(<<b>>) = 1
    OBVIOUS
  <2>3. ASSUME NEW w \in Diaries
        PROVE  Len(diary[w]) <= 1
    <3>1. diary[w] = <<>> \/ \E b \in Bodies : diary[w] = <<b>>
      BY <2>1 DEF Entries
    <3>2. CASE diary[w] = <<>>
      BY <2>2, <3>2
    <3>3. CASE \E b \in Bodies : diary[w] = <<b>>
      BY <2>2, <3>3
    <3> QED
      BY <3>1, <3>2, <3>3
  <2> QED
    BY <2>3 DEF DiaryOnce
<1>2. OneWriterPerAttempt
  <2>1. ASSUME NEW w \in Writes, NEW a \in 1..MaxAttempt
        PROVE  written[w][a] <= 1
    <3>1. written[w] \in [1..MaxAttempt -> {0, 1}]
      BY DEF IInv, Types
    <3>2. written[w][a] \in {0, 1}
      BY <3>1
    <3> QED
      BY <3>2
  <2> QED
    BY <2>1 DEF OneWriterPerAttempt
<1>3. PendingHasAnOwner
  BY ImpliesTypeOK DEF IInv, PendingInv, PendingHasAnOwner
<1> QED
  BY <1>1, <1>2, <1>3

LEMMA IdleParts ==
  /\ Idle \in Calls /\ Idle.pc = "idle"
  /\ (CHOOSE w \in Writes : TRUE) \in Writes
<1>1. (CHOOSE w \in Writes : TRUE) \in Writes
  BY WriteAssumption
<1> QED
  BY <1>1, WriteAssumption DEF Idle, Calls

LEMMA InitIInv == Init => IInv
<1> SUFFICES ASSUME Init PROVE IInv
  OBVIOUS
<1>1. Types
  BY IdleParts, WriteAssumption
  DEF Init, Types, NoEffect, Effects, EffectState, Entries
<1>2. CallInv /\ WritersInv
  BY IdleParts, WriteAssumption DEF Init, CallInv, CallHolds, WritersInv
<1>3. EffectInv /\ DiaryInv /\ PendingInv /\ ReturnedIsVerified
  BY WriteAssumption
  DEF Init, NoEffect, EffectInv, DiaryInv, PendingInv, ReturnedIsVerified,
      Claimable
<1> QED
  BY <1>1, <1>2, <1>3 DEF IInv

-----------------------------------------------------------------------------
(* What a step may do to an effect. *)

\* A verified effect stays as it is, the content and the attempts already made
\* stay, and an attempt that was left is not open again.
Follows(e, f) ==
  /\ f.state # "absent"
  /\ f.state = "verified" <=> f.receipt # None
  /\ e.attempt <= f.attempt /\ f.attempt >= 1
  /\ f.body # None
  /\ e.state # "absent" => f.body = e.body
  /\ e.state = "verified" => f = e
  /\ f.state \in Claimable =>
       e.attempt < f.attempt \/ e.state \in Claimable

\* Only the caller that holds the claim lock ends what it has claimed.
ClaimKept(e, f) ==
  e.state \in Claimable \cup {"failed"} => f.state \in Claimable \cup {"failed"}

LEMMA EffectStep ==
  ASSUME IInv, NEW w \in Writes, NEW f \in Effects, Follows(effect[w], f),
         w \in Diaries => f.attempt <= 1 /\ f.state \notin {"expired", "requeued"},
         effect' = [effect EXCEPT ![w] = f],
         UNCHANGED <<written, diary, returned, made>>
  PROVE  /\ EffectInv' /\ DiaryInv' /\ ReturnedIsVerified'
         /\ effect' \in [Writes -> Effects]
         /\ \A x \in Writes :
              /\ effect'[x].state = "absent" <=> effect'[x].body = None
              /\ effect'[x].state = "verified" <=> effect'[x].receipt # None
<1>1. effect \in [Writes -> Effects] /\ effect'[w] = f
  BY DEF IInv, Types
<1>2. \A x \in Writes \ {w} : effect'[x] = effect[x]
  BY <1>1
<1>3. f.attempt \in 0..MaxAttempt /\ effect[w].attempt \in 0..MaxAttempt
  BY AttemptParts DEF Effects
<1>4. EffectInv'
  <2>1. SUFFICES ASSUME NEW x \in Writes
                 PROVE  /\ effect'[x].state = "absent" <=> effect'[x].attempt = 0
                        /\ \A a \in 1..MaxAttempt :
                             /\ a > effect'[x].attempt => written[x][a] = 0
                             /\ written[x][a] # 0 => made >= 1
                        /\ effect'[x].state \in Claimable =>
                             written[x][effect'[x].attempt] = 0
    BY DEF EffectInv
  <2>2. CASE x = w
    BY <1>1, <1>3, <2>2, AttemptParts, WriteAssumption
    DEF IInv, EffectInv, Follows
  <2>3. CASE x # w
    BY <1>2, <2>3 DEF IInv, EffectInv
  <2> QED
    BY <2>2, <2>3
<1>5. DiaryInv'
  BY <1>1, <1>2, WriteAssumption DEF IInv, DiaryInv
<1>6. ReturnedIsVerified'
  BY <1>1, <1>2 DEF IInv, ReturnedIsVerified, Follows
<1> QED
  BY <1>1, <1>2, <1>4, <1>5, <1>6 DEF IInv, Types, Follows

\* A call that stays where it is holds what it did.
LEMMA CallKeeps ==
  ASSUME IInv, NEW d \in Callers,
         call'[d] = call[d], claim' = d <=> claim = d,
         UNCHANGED written,
         \A w \in Writes :
           \/ effect'[w] = effect[w]
           \/ /\ Follows(effect[w], effect'[w]) /\ effect'[w] \in Effects
              /\ claim = d => ClaimKept(effect[w], effect'[w]),
         made' \in Nat, made' >= made
  PROVE  CallHolds(d)'
<1> DEFINE w == call[d].write
<1>1. w \in Writes /\ call[d] \in Calls
  BY DEF IInv, Types, Calls
<1>2. CallHolds(d)
  BY DEF IInv, CallInv
<1>3. effect[w].attempt \in 0..MaxAttempt
  BY <1>1, AttemptParts
<1>4. made \in Nat /\ made' >= made
  BY WriteAssumption DEF IInv, Types
<1>5. CASE effect'[w] = effect[w]
  BY <1>1, <1>2, <1>4, <1>5 DEF CallHolds
<1>6. CASE effect'[w] # effect[w]
  <2>1. /\ Follows(effect[w], effect'[w])
        /\ claim = d => ClaimKept(effect[w], effect'[w])
        /\ effect'[w].attempt \in 0..MaxAttempt
    BY <1>1, <1>6 DEF Effects
  <2>2. call[d].pc = "marking" => effect'[w].state \in Claimable \cup {"failed"}
    BY <1>2, <2>1 DEF CallHolds, ClaimKept
  <2>3. call[d].pc = "writing" =>
          /\ call[d].attempt \in 1..effect'[w].attempt
          /\ effect'[w].state \in Claimable => call[d].attempt < effect'[w].attempt
    BY <1>2, <1>3, <2>1 DEF CallHolds, Follows
  <2>4. call[d].pc = "opening" => effect'[w].state = "verified"
    BY <1>2, <2>1 DEF CallHolds, Follows
  <2> QED
    BY <1>2, <1>4, <2>2, <2>3, <2>4 DEF CallHolds
<1> QED
  BY <1>5, <1>6

-----------------------------------------------------------------------------
(* What a step may do to a call. *)

LEMMA CallStep ==
  ASSUME IInv, NEW c \in Callers, NEW s \in Calls,
         call' = [call EXCEPT ![c] = s]
  PROVE  /\ call' \in [Callers -> Calls]
         /\ call'[c] = s
         /\ \A d \in Callers \ {c} : call'[d] = call[d]
BY DEF IInv, Types

\* The step that only moves a call on.
LEMMA StepParts ==
  ASSUME IInv, NEW c \in Callers,
         NEW pc \in {"claiming", "marking", "opening"}, Step(c, pc)
  PROVE  \E s \in Calls :
           /\ call' = [call EXCEPT ![c] = s]
           /\ s.pc = pc /\ s.write = call[c].write /\ s.body = call[c].body
<1> DEFINE s == [call[c] EXCEPT !.pc = pc]
<1>1. call[c] \in Calls /\ call \in [Callers -> Calls]
  BY DEF IInv, Types
<1>2. s \in Calls /\ s.pc = pc /\ s.write = call[c].write /\ s.body = call[c].body
  BY <1>1 DEF Calls
<1>3. call' = [call EXCEPT ![c] = s]
  BY DEF Step
<1> QED
  BY <1>2, <1>3

\* The others' calls hold on, and the caller's own does.
LEMMA CallInvStep ==
  ASSUME IInv, NEW c \in Callers, NEW s \in Calls,
         call' = [call EXCEPT ![c] = s], CallHolds(c)',
         \A d \in Callers \ {c} : claim' = d <=> claim = d,
         UNCHANGED written,
         \A w \in Writes :
           \/ effect'[w] = effect[w]
           \/ /\ Follows(effect[w], effect'[w]) /\ effect'[w] \in Effects
              /\ \A d \in Callers \ {c} :
                   claim = d => ClaimKept(effect[w], effect'[w]),
         made' \in Nat, made' >= made
  PROVE  CallInv'
<1>1. ASSUME NEW d \in Callers \ {c}
      PROVE  CallHolds(d)'
  BY CallStep, CallKeeps
<1> QED
  BY <1>1 DEF CallInv

\* A caller that is not about to write is in nobody's way.
LEMMA WritersStep ==
  ASSUME IInv, NEW c \in Callers, NEW s \in Calls,
         call' = [call EXCEPT ![c] = s], s.pc # "writing"
  PROVE  WritersInv'
BY CallStep DEF IInv, WritersInv

\* The owner of a pending effect gives it up only for another.
LEMMA PendingStep ==
  ASSUME IInv, NEW c \in Callers, NEW s \in Calls,
         call' = [call EXCEPT ![c] = s],
         orphaned \subseteq orphaned',
         \A w \in Writes :
           effect'[w].state = "pending" =>
             \/ effect[w].state = "pending" /\ w # call[c].write
             \/ w \in orphaned'
             \/ s.pc \in {"writing", "answered"} /\ s.write = w
             \/ /\ effect[w].state = "pending"
                /\ call[c].pc \notin {"writing", "answered"}
  PROVE  PendingInv'
<1>1. call'[c] = s /\ \A d \in Callers \ {c} : call'[d] = call[d]
  BY CallStep
<1>2. SUFFICES ASSUME NEW w \in Writes, effect'[w].state = "pending"
               PROVE  \/ w \in orphaned'
                      \/ \E d \in Callers :
                           /\ call'[d].pc \in {"writing", "answered"}
                           /\ call'[d].write = w
  BY DEF PendingInv
<1>3. CASE w \in orphaned'
  BY <1>3
<1>4. CASE s.pc \in {"writing", "answered"} /\ s.write = w
  BY <1>1, <1>4
<1>5. CASE /\ effect[w].state = "pending"
           /\ w # call[c].write \/ call[c].pc \notin {"writing", "answered"}
  <2>1. \/ w \in orphaned
        \/ \E d \in Callers : /\ call[d].pc \in {"writing", "answered"}
                              /\ call[d].write = w
    BY <1>5 DEF IInv, PendingInv
  <2> QED
    BY <1>1, <1>5, <2>1
<1> QED
  BY <1>2, <1>3, <1>4, <1>5

\* Steps of a caller that write nothing.
LEMMA CallerSteps ==
  ASSUME IInv, NEW c \in Callers, NEW s \in Calls,
         call' = [call EXCEPT ![c] = s], s.pc # "writing", CallHolds(c)',
         UNCHANGED <<effect, written, diary, returned>>,
         claim' \in Callers \cup {None},
         \A d \in Callers \ {c} : claim' = d <=> claim = d,
         made' \in 0..MaxCalls, made' >= made,
         orphaned \subseteq orphaned', orphaned' \subseteq Writes,
         \/ effect[call[c].write].state # "pending"
         \/ call[c].write \in orphaned'
         \/ call[c].pc \notin {"writing", "answered"}
  PROVE  IInv'
<1>1. made' \in Nat /\ made \in Nat
  BY WriteAssumption DEF IInv, Types
<1>2. CallInv'
  <2>1. \A w \in Writes : effect'[w] = effect[w]
    OBVIOUS
  <2> QED
    BY <1>1, <2>1, CallInvStep
<1>3. WritersInv'
  BY WritersStep
<1>4. PendingInv'
  <2>1. \A w \in Writes :
          effect'[w].state = "pending" =>
            \/ effect[w].state = "pending" /\ w # call[c].write
            \/ w \in orphaned'
            \/ s.pc \in {"writing", "answered"} /\ s.write = w
            \/ /\ effect[w].state = "pending"
               /\ call[c].pc \notin {"writing", "answered"}
    OBVIOUS
  <2> QED
    BY <2>1, PendingStep
<1>5. EffectInv' /\ DiaryInv' /\ ReturnedIsVerified'
  BY <1>1 DEF IInv, EffectInv, DiaryInv, ReturnedIsVerified
<1>6. Types'
  BY CallStep DEF IInv, Types
<1> QED
  BY <1>2, <1>3, <1>4, <1>5, <1>6 DEF IInv

\* Steps of a caller that write an effect.
LEMMA EffectSteps ==
  ASSUME IInv, NEW c \in Callers, NEW s \in Calls,
         call' = [call EXCEPT ![c] = s], s.pc # "writing", CallHolds(c)',
         NEW w \in Writes, NEW f \in Effects, w = call[c].write,
         effect' = [effect EXCEPT ![w] = f], Follows(effect[w], f),
         f.state # "pending",
         w \in Diaries => f.attempt <= 1 /\ f.state \notin {"expired", "requeued"},
         ClaimKept(effect[w], f),
         UNCHANGED <<claim, written, diary, returned, orphaned, made>>
  PROVE  IInv'
<1>1. made \in Nat
  BY WriteAssumption DEF IInv, Types
<1>2. effect'[w] = f /\ \A x \in Writes \ {w} : effect'[x] = effect[x]
  BY DEF IInv, Types
<1>3. CallInv'
  <2>1. ASSUME NEW x \in Writes
        PROVE  \/ effect'[x] = effect[x]
               \/ /\ Follows(effect[x], effect'[x]) /\ effect'[x] \in Effects
                  /\ \A d \in Callers \ {c} :
                       claim = d => ClaimKept(effect[x], effect'[x])
    BY <1>2
  <2>2. made' \in Nat /\ made' >= made /\ claim' = claim /\ UNCHANGED written
    BY <1>1
  <2> QED
    BY <2>1, <2>2, CallInvStep
<1>4. WritersInv'
  BY WritersStep
<1>5. PendingInv'
  <2>1. ASSUME NEW x \in Writes, effect'[x].state = "pending"
        PROVE  effect[x].state = "pending" /\ x # call[c].write
    BY <1>2, <2>1
  <2>2. orphaned \subseteq orphaned'
    OBVIOUS
  <2> QED
    BY <2>1, <2>2, PendingStep
<1>6. /\ EffectInv' /\ DiaryInv' /\ ReturnedIsVerified'
      /\ effect' \in [Writes -> Effects]
      /\ \A x \in Writes :
           /\ effect'[x].state = "absent" <=> effect'[x].body = None
           /\ effect'[x].state = "verified" <=> effect'[x].receipt # None
  BY EffectStep
<1>7. Types'
  BY <1>6, CallStep DEF IInv, Types
<1> QED
  BY <1>3, <1>4, <1>5, <1>6, <1>7 DEF IInv

-----------------------------------------------------------------------------
(* The steps of a caller. *)

LEMMA CallFacts ==
  ASSUME IInv, NEW c \in Callers
  PROVE  /\ call[c] \in Calls /\ call[c].write \in Writes
         /\ CallHolds(c)
         /\ effect[call[c].write] \in Effects
         /\ made \in 0..MaxCalls /\ claim \in Callers \cup {None}
BY DEF IInv, Types, CallInv, Calls

LEMMA EnterStep ==
  ASSUME IInv, NEW c \in Callers, NEW w \in Writes, NEW b \in Bodies,
         NEW pc \in {"beginning", "opening"}, Enter(c, w, b, pc),
         pc = "opening" => w \in Diaries /\ effect[w].state = "verified"
  PROVE  IInv'
<1> DEFINE s == [Idle EXCEPT !.pc = pc, !.write = w, !.body = b]
<1>1. /\ s \in Calls /\ s.pc = pc /\ s.write = w /\ s.body = b
  BY IdleParts DEF Calls
<1>2. /\ call' = [call EXCEPT ![c] = s]
      /\ call[c].pc = "idle" /\ made < MaxCalls /\ made' = made + 1
      /\ UNCHANGED <<effect, claim, written, diary, returned, orphaned>>
  BY DEF Enter
<1> HIDE DEF s
<1>3. made' \in 0..MaxCalls /\ made' >= made /\ made' >= 1
  BY <1>2, CallFacts, WriteAssumption
<1>4. call'[c] = s
  BY <1>1, <1>2, CallStep
<1>5. CallHolds(c)'
  BY <1>1, <1>2, <1>3, <1>4, CallFacts DEF CallHolds
<1>6. orphaned \subseteq orphaned' /\ orphaned' \subseteq Writes
  BY <1>2 DEF IInv, Types
<1> QED
  BY <1>1, <1>2, <1>3, <1>5, <1>6, CallFacts, CallerSteps

LEMMA SubmitStep ==
  ASSUME IInv, NEW c \in Callers, NEW w \in Writes \ Diaries, Submit(c, w)
  PROVE  IInv'
BY EnterStep DEF Submit

LEMMA SynthesizeStep ==
  ASSUME IInv, NEW c \in Callers, NEW w \in Diaries, Synthesize(c, w)
  PROVE  IInv'
<1>1. w \in Writes
  BY WriteAssumption
<1>2. CASE effect[w].state = "absent"
  BY <1>1, <1>2, EnterStep DEF Synthesize
<1>3. CASE effect[w].state = "verified" /\ Enter(c, w, effect[w].body, "opening")
  <2>1. effect[w].body \in Bodies
    BY <1>1, <1>3 DEF IInv, Types, Effects
  <2> QED
    BY <1>1, <1>3, <2>1, EnterStep
<1> QED
  BY <1>2, <1>3 DEF Synthesize

\* A call returns, perhaps by its death.
LEMMA ReturnStep ==
  ASSUME IInv, NEW c \in Callers, Return(c),
         UNCHANGED <<effect, written, diary, returned, made>>,
         claim' = IF claim = c THEN None ELSE claim,
         orphaned \subseteq orphaned', orphaned' \subseteq Writes,
         \/ effect[call[c].write].state # "pending"
         \/ call[c].write \in orphaned'
         \/ call[c].pc \notin {"writing", "answered"}
  PROVE  IInv'
<1>1. call' = [call EXCEPT ![c] = Idle] /\ Idle \in Calls /\ Idle.pc = "idle"
  BY IdleParts DEF Return
<1>2. call'[c] = Idle
  BY <1>1, CallStep
<1>3. claim' # c /\ claim' \in Callers \cup {None}
  BY CallFacts, WriteAssumption
<1>4. CallHolds(c)'
  BY <1>1, <1>2, <1>3 DEF CallHolds
<1>5. \A d \in Callers \ {c} : claim' = d <=> claim = d
  BY WriteAssumption
<1>6. made' \in 0..MaxCalls /\ made' >= made
  BY CallFacts, WriteAssumption
<1> QED
  BY <1>1, <1>3, <1>4, <1>5, <1>6, CallerSteps

\* A call goes on, with or without the claim lock.
LEMMA MoveStep ==
  ASSUME IInv, NEW c \in Callers, NEW pc \in {"claiming", "marking", "opening"},
         Step(c, pc), call[c].pc # "idle",
         UNCHANGED <<effect, written, diary, returned, orphaned, made>>,
         claim' \in Callers \cup {None},
         pc = "marking" <=> claim' = c,
         \A d \in Callers \ {c} : claim' = d <=> claim = d,
         pc = "marking" => effect[call[c].write].state \in Claimable,
         pc = "opening" => /\ call[c].write \in Diaries
                           /\ effect[call[c].write].state = "verified",
         \/ effect[call[c].write].state # "pending"
         \/ call[c].pc \notin {"writing", "answered"}
  PROVE  IInv'
<1>1. PICK s \in Calls :
        /\ call' = [call EXCEPT ![c] = s]
        /\ s.pc = pc /\ s.write = call[c].write /\ s.body = call[c].body
  BY StepParts
<1>2. call'[c] = s
  BY <1>1, CallStep
<1>3. CallHolds(c)'
  BY <1>1, <1>2, CallFacts DEF CallHolds
<1>4. made' \in 0..MaxCalls /\ made' >= made
  BY CallFacts, WriteAssumption
<1>5. orphaned \subseteq orphaned' /\ orphaned' \subseteq Writes
  BY DEF IInv, Types
<1> QED
  BY <1>1, <1>3, <1>4, <1>5, CallerSteps

\* The end of a handoff that writes nothing.
LEMMA ConcludeStep ==
  ASSUME IInv, NEW c \in Callers, Conclude(c, effect[call[c].write].state),
         call[c].pc \in {"claiming", "answered"},
         \/ effect[call[c].write].state # "pending"
         \/ call[c].pc = "claiming",
         UNCHANGED <<effect, claim, written, diary, returned, orphaned, made>>
  PROVE  IInv'
<1>1. claim # c /\ claim \in Callers \cup {None}
  BY CallFacts DEF CallHolds
<1>2. CASE /\ call[c].write \in Diaries /\ effect[call[c].write].state = "verified"
           /\ Step(c, "opening")
  BY <1>1, <1>2, MoveStep
<1>3. CASE Return(c)
  <2>1. orphaned \subseteq orphaned' /\ orphaned' \subseteq Writes
    BY DEF IInv, Types
  <2>2. claim' = IF claim = c THEN None ELSE claim
    BY <1>1
  <2> QED
    BY <1>3, <2>1, <2>2, ReturnStep
<1> QED
  BY <1>2, <1>3 DEF Conclude

LEMMA BeginStep ==
  ASSUME IInv, NEW c \in Callers, Begin(c)
  PROVE  IInv'
<1> DEFINE w == call[c].write
           e == effect[w]
<1>1. /\ call[c].pc = "beginning" /\ claim # c
      /\ UNCHANGED <<claim, written, diary, returned, orphaned, made>>
  BY CallFacts DEF Begin, CallHolds
<1>2. CASE e.state = "absent"
  <2> DEFINE f == [NoEffect EXCEPT !.state = "intent", !.body = call[c].body,
                                   !.attempt = 1]
  <2>1. call[c].body \in Bodies
    BY <1>1, CallFacts DEF CallHolds
  <2>2. /\ f \in Effects /\ f.state = "intent" /\ f.body = call[c].body
        /\ f.attempt = 1 /\ f.receipt = None
    <3>1. 1 \in 0..MaxAttempt /\ "intent" \in EffectState
      BY WriteAssumption DEF EffectState
    <3>2. NoEffect \in Effects
      BY WriteAssumption DEF NoEffect, Effects
    <3>3. f \in Effects
      BY <2>1, <3>1, <3>2 DEF Effects
    <3> QED
      BY <3>3 DEF NoEffect
  <2>3. effect' = [effect EXCEPT ![w] = f] /\ Step(c, "claiming")
    BY <1>2 DEF Begin
  <2> HIDE DEF f
  <2>4. PICK s \in Calls :
          /\ call' = [call EXCEPT ![c] = s]
          /\ s.pc = "claiming" /\ s.write = w /\ s.body = call[c].body
    BY <2>3, StepParts
  <2>5. e.attempt = 0
    BY <1>2, CallFacts DEF IInv, EffectInv
  <2>6. Follows(e, f) /\ ClaimKept(e, f)
    BY <1>2, <2>1, <2>2, <2>5, WriteAssumption
    DEF Follows, ClaimKept, Claimable
  <2>7. call'[c] = s
    BY <2>4, CallStep
  <2>8. CallHolds(c)'
    BY <1>1, <2>1, <2>4, <2>7, CallFacts DEF CallHolds
  <2>9. f.attempt <= 1 /\ f.state \notin {"expired", "requeued"}
           /\ f.state # "pending" /\ s.pc # "writing"
    BY <2>2, <2>4
  <2> QED
    BY <1>1, <2>2, <2>3, <2>4, <2>6, <2>8, <2>9, CallFacts, EffectSteps
<1>3. CASE Step(c, "claiming") /\ UNCHANGED effect
  BY <1>1, <1>3, CallFacts, MoveStep
<1>4. CASE Return(c) /\ UNCHANGED effect
  <2>1. orphaned \subseteq orphaned' /\ orphaned' \subseteq Writes
    BY <1>1 DEF IInv, Types
  <2>2. claim' = IF claim = c THEN None ELSE claim
    BY <1>1
  <2> QED
    BY <1>1, <1>4, <2>1, <2>2, ReturnStep
<1> QED
  BY <1>2, <1>3, <1>4 DEF Begin

LEMMA TakeClaimStep ==
  ASSUME IInv, NEW c \in Callers, TakeClaim(c)
  PROVE  IInv'
<1>1. /\ call[c].pc = "claiming" /\ claim = None /\ c # None
      /\ UNCHANGED <<effect, written, diary, returned, orphaned, made>>
  BY WriteAssumption DEF TakeClaim
<1>2. CASE /\ Mine(c).state \in Claimable /\ Step(c, "marking") /\ claim' = c
  <2>1. \A d \in Callers \ {c} : claim' = d <=> claim = d
    BY <1>1, <1>2, WriteAssumption
  <2> QED
    BY <1>1, <1>2, <2>1, MoveStep DEF Mine
<1>3. CASE Conclude(c, Mine(c).state) /\ UNCHANGED claim
  BY <1>1, <1>3, ConcludeStep DEF Mine
<1> QED
  BY <1>2, <1>3 DEF TakeClaim

\* The claim ends where the attempt is no longer open.
LEMMA MarkPendingStep ==
  ASSUME IInv, NEW c \in Callers, MarkPending(c)
  PROVE  IInv'
<1> DEFINE w == call[c].write
           e == effect[w]
<1>1. /\ call[c].pc = "marking" /\ claim = c /\ c # None
      /\ e.state \in Claimable \cup {"failed"}
      /\ w \in Writes /\ e \in Effects /\ call[c] \in Calls
      /\ claim' = None
      /\ UNCHANGED <<written, diary, returned, orphaned, made>>
  BY CallFacts, WriteAssumption DEF MarkPending, CallHolds
<1>2. CASE e.state \in Claimable
  <2> DEFINE f == Pended(e)
             s == [call[c] EXCEPT !.pc = "writing", !.attempt = e.attempt]
  <2>1. /\ f \in Effects /\ f.state = "pending" /\ f.body = e.body
        /\ f.attempt = e.attempt /\ f.receipt = e.receipt
    BY <1>1 DEF Pended, Effects, EffectState
  <2>2. /\ s \in Calls /\ s.pc = "writing" /\ s.attempt = e.attempt
        /\ s.write = w /\ s.body = call[c].body
    BY <1>1 DEF Calls, Effects
  <2>3. effect' = [effect EXCEPT ![w] = f] /\ call' = [call EXCEPT ![c] = s]
    <3>1. Mine(c).state \in Pendable \cup {"pending"}
      BY <1>2 DEF Mine, Claimable, Pendable
    <3> QED
      BY <3>1 DEF MarkPending, Mine
  <2> HIDE DEF f, s
  <2>4. e.attempt \in 1..MaxAttempt /\ written[w][e.attempt] = 0
    BY <1>1, <1>2, AttemptParts DEF IInv, EffectInv, Claimable
  <2>5. Follows(e, f)
    <3>1. e.body # None /\ e.receipt = None
      BY <1>1, <1>2 DEF IInv, Types, Claimable
    <3> QED
      BY <1>2, <2>1, <2>4, <3>1 DEF Follows, Claimable
  <2>6. /\ effect'[w] = f /\ call'[c] = s
        /\ \A x \in Writes \ {w} : effect'[x] = effect[x]
        /\ \A d \in Callers \ {c} : call'[d] = call[d]
    BY <1>1, <2>2, <2>3, CallStep DEF IInv, Types
  <2>7. CallHolds(c)'
    BY <1>1, <2>1, <2>2, <2>4, <2>6, CallFacts DEF CallHolds, Claimable
  <2>8. CallInv'
    <3>1. ASSUME NEW x \in Writes
          PROVE  \/ effect'[x] = effect[x]
                 \/ /\ Follows(effect[x], effect'[x]) /\ effect'[x] \in Effects
                    /\ \A d \in Callers \ {c} :
                         claim = d => ClaimKept(effect[x], effect'[x])
      BY <1>1, <2>1, <2>5, <2>6
    <3>2. \A d \in Callers \ {c} : claim' = d <=> claim = d
      BY <1>1, WriteAssumption
    <3>3. made' \in Nat /\ made' >= made
      BY <1>1, CallFacts, WriteAssumption
    <3> QED
      BY <1>1, <2>2, <2>3, <2>7, <3>1, <3>2, <3>3, CallInvStep
  <2>9. WritersInv'
    <3>1. ASSUME NEW d \in Callers \ {c}, call[d].pc = "writing",
                 call[d].write = w
          PROVE  call[d].attempt # e.attempt
      <4>1. call[d].attempt \in 1..e.attempt /\ call[d].attempt < e.attempt
        BY <1>2, <3>1, CallFacts DEF CallHolds
      <4> QED
        BY <2>4, <4>1
    <3> QED
      BY <2>2, <2>6, <3>1 DEF IInv, WritersInv
  <2>10. /\ EffectInv' /\ DiaryInv' /\ ReturnedIsVerified'
         /\ effect' \in [Writes -> Effects]
         /\ \A x \in Writes :
              /\ effect'[x].state = "absent" <=> effect'[x].body = None
              /\ effect'[x].state = "verified" <=> effect'[x].receipt # None
    <3>1. w \in Diaries =>
            f.attempt <= 1 /\ f.state \notin {"expired", "requeued"}
      BY <2>1 DEF IInv, DiaryInv
    <3> QED
      BY <1>1, <2>1, <2>3, <2>5, <3>1, EffectStep
  <2>11. PendingInv'
    <3>1. ASSUME NEW x \in Writes, effect'[x].state = "pending"
          PROVE  \/ effect[x].state = "pending" /\ x # call[c].write
                 \/ s.pc \in {"writing", "answered"} /\ s.write = x
      BY <2>2, <2>6, <3>1
    <3>2. orphaned \subseteq orphaned'
      BY <1>1
    <3> QED
      BY <2>2, <2>3, <3>1, <3>2, PendingStep
  <2>12. Types'
    BY <1>1, <2>2, <2>3, <2>10, CallStep DEF IInv, Types
  <2> QED
    BY <2>8, <2>9, <2>10, <2>11, <2>12 DEF IInv
<1>3. CASE e.state = "failed"
  <2>1. Return(c) /\ UNCHANGED effect
    BY <1>3 DEF MarkPending, Mine, Pendable
  <2>2. orphaned \subseteq orphaned' /\ orphaned' \subseteq Writes
    BY <1>1 DEF IInv, Types
  <2>3. claim' = IF claim = c THEN None ELSE claim
    BY <1>1
  <2> QED
    BY <1>1, <2>1, <2>2, <2>3, ReturnStep
<1> QED
  BY <1>1, <1>2, <1>3

\* The writer is called, for an attempt that nobody else is at.
LEMMA CalledStep ==
  ASSUME IInv, NEW c \in Callers, call[c].pc = "writing", Called(c),
         NEW s \in Calls, call' = [call EXCEPT ![c] = s],
         s.pc = "answered", s.write = call[c].write, s.body = call[c].body,
         s.answer = "receipt" => s.receipt # None,
         \/ UNCHANGED diary
         \/ /\ call[c].write \in Diaries
            /\ diary' = [diary EXCEPT ![call[c].write] =
                           Append(@, call[c].body)],
         UNCHANGED <<effect, claim, returned, orphaned, made>>
  PROVE  IInv'
<1> DEFINE w == call[c].write
           a == call[c].attempt
<1>1. /\ w \in Writes /\ call[c].body \in Bodies /\ made \in 1..MaxCalls
      /\ a \in 1..effect[w].attempt /\ a \in 1..MaxAttempt
      /\ effect[w].state \in Claimable => a < effect[w].attempt
      /\ written[w][a] = 0
      /\ effect[w].attempt \in 0..MaxAttempt /\ claim # c
  BY CallFacts, AttemptParts, WriteAssumption DEF CallHolds
<1>2. /\ written' = [written EXCEPT ![w][a] = @ + 1]
      /\ written \in [Writes -> [1..MaxAttempt -> {0, 1}]]
  BY DEF Called, IInv, Types
<1>3. /\ written' \in [Writes -> [1..MaxAttempt -> {0, 1}]]
      /\ written'[w][a] = 1
      /\ \A x \in Writes, b \in 1..MaxAttempt :
           x # w \/ b # a => written'[x][b] = written[x][b]
  <2> DEFINE row == [written[w] EXCEPT ![a] = 1]
  <2>1. written[w] \in [1..MaxAttempt -> {0, 1}]
    BY <1>1, <1>2
  <2>2. /\ row \in [1..MaxAttempt -> {0, 1}] /\ row[a] = 1
        /\ \A b \in 1..MaxAttempt : b # a => row[b] = written[w][b]
    BY <1>1, <2>1
  <2>3. written' = [written EXCEPT ![w] = row]
    <3>1. written[w][a] + 1 = 1
      BY <1>1
    <3> QED
      BY <1>2, <3>1
  <2> HIDE DEF row
  <2>4. written'[w] = row /\ \A x \in Writes \ {w} : written'[x] = written[x]
    BY <1>1, <1>2, <2>3
  <2> QED
    BY <1>1, <1>2, <2>2, <2>3, <2>4
<1>4. call'[c] = s /\ \A d \in Callers \ {c} : call'[d] = call[d]
  BY CallStep
<1>5. CallInv'
  <2>1. CallHolds(c)'
    BY <1>1, <1>4, CallFacts DEF CallHolds
  <2>2. ASSUME NEW d \in Callers \ {c}
        PROVE  CallHolds(d)'
    <3>1. call[d].pc = "writing" =>
            call[d].write # w \/ call[d].attempt # a
      BY DEF IInv, WritersInv
    <3>2. call[d].pc = "writing" => call[d].attempt \in 1..MaxAttempt
      <4>1. effect[call[d].write].attempt \in 0..MaxAttempt
        BY CallFacts, AttemptParts
      <4> QED
        BY <4>1, CallFacts, WriteAssumption DEF CallHolds
    <3> QED
      BY <1>3, <1>4, <3>1, <3>2, CallFacts DEF CallHolds
  <2> QED
    BY <2>1, <2>2 DEF CallInv
<1>6. WritersInv'
  BY WritersStep
<1>7. EffectInv'
  <2> SUFFICES ASSUME NEW x \in Writes
               PROVE  /\ effect[x].state = "absent" <=> effect[x].attempt = 0
                      /\ \A b \in 1..MaxAttempt :
                           /\ b > effect[x].attempt => written'[x][b] = 0
                           /\ written'[x][b] # 0 => made >= 1
                      /\ effect[x].state \in Claimable =>
                           written'[x][effect[x].attempt] = 0
    BY DEF EffectInv
  <2>1. effect[x].state \in Claimable => effect[x].attempt \in 1..MaxAttempt
    BY AttemptParts DEF Claimable
  <2> QED
    BY <1>1, <1>3, <2>1 DEF IInv, EffectInv
<1>8. DiaryInv' /\ ReturnedIsVerified' /\ diary' \in [Writes -> Entries]
  <2>1. diary \in [Writes -> Entries] /\ 1 \in 1..MaxAttempt
    BY WriteAssumption DEF IInv, Types
  <2>2. \A x \in Writes : written[x][1] = 1 => written'[x][1] = 1
    BY <1>1, <1>3, <2>1
  <2>3. CASE UNCHANGED diary
    BY <2>1, <2>2, <2>3 DEF IInv, DiaryInv, ReturnedIsVerified
  <2>4. CASE /\ w \in Diaries
             /\ diary' = [diary EXCEPT ![w] = Append(@, call[c].body)]
    <3>1. a = 1 /\ diary[w] = <<>>
      BY <1>1, <2>4 DEF IInv, DiaryInv
    <3>2. Append(<<>>, call[c].body) = <<call[c].body>>
      OBVIOUS
    <3>3. diary' = [diary EXCEPT ![w] = <<call[c].body>>]
      BY <2>1, <2>4, <3>1, <3>2, <1>1
    <3>4. diary' \in [Writes -> Entries]
      BY <1>1, <2>1, <3>3 DEF Entries
    <3>5. DiaryInv'
      BY <1>1, <1>3, <2>1, <2>2, <3>1, <3>3 DEF IInv, DiaryInv
    <3>6. \A p \in returned : p[1] # w /\ p[1] \in Writes
      <4>1. \A b \in Bodies : <<>> # <<b>>
        OBVIOUS
      <4>2. \A p \in returned : p[1] \in Writes /\ p[2] \in Bodies
        BY WriteAssumption DEF IInv, Types
      <4> QED
        BY <3>1, <4>1, <4>2 DEF IInv, ReturnedIsVerified
    <3> QED
      BY <2>1, <3>3, <3>4, <3>5, <3>6 DEF IInv, ReturnedIsVerified
  <2> QED
    BY <2>3, <2>4
<1>9. PendingInv'
  <2>1. ASSUME NEW x \in Writes, effect'[x].state = "pending"
        PROVE  \/ effect[x].state = "pending" /\ x # call[c].write
               \/ s.pc \in {"writing", "answered"} /\ s.write = x
    BY <2>1
  <2>2. orphaned \subseteq orphaned'
    OBVIOUS
  <2> QED
    BY <2>1, <2>2, PendingStep
<1>10. Types'
  BY <1>3, <1>8, CallStep DEF IInv, Types
<1> QED
  BY <1>5, <1>6, <1>7, <1>8, <1>9, <1>10 DEF IInv

\* The caller's record once its writer has answered.
LEMMA AnswerParts ==
  ASSUME IInv, NEW c \in Callers, NEW answer \in Answers,
         NEW receipt \in Receipts \cup {Own, None}, Answer(c, answer, receipt)
  PROVE  \E s \in Calls :
           /\ call' = [call EXCEPT ![c] = s]
           /\ s.pc = "answered" /\ s.write = call[c].write
           /\ s.body = call[c].body
           /\ s.answer = answer /\ s.receipt = receipt
<1> DEFINE s == [call[c] EXCEPT !.pc = "answered", !.answer = answer,
                                !.receipt = receipt]
<1>1. call[c] \in Calls
  BY CallFacts
<1>2. /\ s \in Calls /\ s.pc = "answered" /\ s.write = call[c].write
      /\ s.body = call[c].body /\ s.answer = answer /\ s.receipt = receipt
  BY <1>1 DEF Calls
<1>3. call' = [call EXCEPT ![c] = s]
  BY DEF Answer
<1> QED
  BY <1>2, <1>3

LEMMA HostWritesStep ==
  ASSUME IInv, NEW c \in Callers, HostWrites(c)
  PROVE  IInv'
<1>1. /\ call[c].pc = "writing" /\ Called(c)
      /\ UNCHANGED <<effect, claim, diary, returned, orphaned, made>>
  BY DEF HostWrites
<1>2. PICK answer \in Answers, receipt \in Receipts \cup {Own, None} :
        Answer(c, answer, receipt) /\ (answer = "receipt" => receipt # None)
  BY WriteAssumption DEF HostWrites, Answers
<1>3. PICK s \in Calls :
        /\ call' = [call EXCEPT ![c] = s]
        /\ s.pc = "answered" /\ s.write = call[c].write
        /\ s.body = call[c].body
        /\ s.answer = answer /\ s.receipt = receipt
  BY <1>2, AnswerParts
<1> QED
  BY <1>1, <1>2, <1>3, CalledStep

LEMMA DiaryWritesStep ==
  ASSUME IInv, NEW c \in Callers, DiaryWrites(c)
  PROVE  IInv'
<1>1. /\ call[c].pc = "writing" /\ Called(c) /\ call[c].write \in Diaries
      /\ \/ UNCHANGED diary
         \/ diary' = [diary EXCEPT ![call[c].write] = Append(@, call[c].body)]
      /\ UNCHANGED <<effect, claim, returned, orphaned, made>>
  BY DEF DiaryWrites
<1>2. PICK answer \in Answers, receipt \in Receipts \cup {Own, None} :
        Answer(c, answer, receipt) /\ (answer = "receipt" => receipt # None)
  BY WriteAssumption DEF DiaryWrites, Answers
<1>3. PICK s \in Calls :
        /\ call' = [call EXCEPT ![c] = s]
        /\ s.pc = "answered" /\ s.write = call[c].write
        /\ s.body = call[c].body
        /\ s.answer = answer /\ s.receipt = receipt
  BY <1>2, AnswerParts
<1> QED
  BY <1>1, <1>2, <1>3, CalledStep

\* A verify in any state that takes one follows the effect.
LEMMA VerifiedFollows ==
  ASSUME IInv, NEW w \in Writes, effect[w].state \in Unverified,
         NEW r \in Receipts \cup {Own}
  PROVE  LET f == Verified(effect[w], r) IN
         /\ f \in Effects /\ f.state = "verified" /\ f.attempt = effect[w].attempt
         /\ Follows(effect[w], f) /\ ClaimKept(effect[w], f)
<1> DEFINE e == effect[w]
           f == Verified(e, r)
<1>1. e \in Effects /\ e.attempt \in 1..MaxAttempt /\ e.body # None
  BY AttemptParts DEF Unverified, IInv, Types
<1>2. /\ f \in Effects /\ f.state = "verified" /\ f.attempt = e.attempt
      /\ f.body = e.body /\ f.receipt = r
  BY <1>1 DEF Verified, Effects, EffectState
<1> HIDE DEF f
<1>3. r # None
  BY WriteAssumption
<1>4. Follows(e, f) /\ ClaimKept(e, f)
  BY <1>1, <1>2, <1>3 DEF Follows, ClaimKept, Unverified, Claimable
<1> QED
  BY <1>2, <1>4 DEF f

\* So does any other state of the same attempt that is not open to a claim.
LEMMA LeftFollows ==
  ASSUME IInv, NEW w \in Writes, NEW f \in Effects,
         effect[w].state \notin {"absent", "verified"},
         f.state \in {"executed_unverified", "failed", "expired"},
         effect[w].state \in Claimable => f.state = "failed",
         effect[w].state # "failed",
         f.body = effect[w].body, f.attempt = effect[w].attempt,
         f.receipt = effect[w].receipt
  PROVE  Follows(effect[w], f) /\ ClaimKept(effect[w], f)
<1>1. effect[w].attempt \in 1..MaxAttempt /\ effect[w].body # None
      /\ effect[w].receipt = None
  BY AttemptParts DEF IInv, Types
<1> QED
  BY <1>1 DEF Follows, ClaimKept, Claimable

\* The answer is judged.
LEMMA SettleStep ==
  ASSUME IInv, NEW c \in Callers, Settle(c)
  PROVE  IInv'
<1> DEFINE w == call[c].write
           e == effect[w]
<1>1. /\ call[c].pc = "answered" /\ claim # c /\ w \in Writes
      /\ e \in Effects /\ call[c] \in Calls
      /\ UNCHANGED <<claim, written, diary, returned, orphaned, made>>
  BY CallFacts DEF Settle, CallHolds
<1>2. /\ Idle \in Calls /\ Idle.pc = "idle"
      /\ Return(c) => call' = [call EXCEPT ![c] = Idle]
      /\ Return(c) => CallHolds(c)'
  <2>1. Idle \in Calls /\ Idle.pc = "idle"
    BY IdleParts
  <2>2. Return(c) => call' = [call EXCEPT ![c] = Idle]
    BY DEF Return
  <2>3. Return(c) => call'[c] = Idle
    BY <2>1, <2>2, CallStep
  <2>4. Return(c) => CallHolds(c)'
    BY <1>1, <2>1, <2>3 DEF CallHolds
  <2> QED
    BY <2>1, <2>2, <2>4
<1>3. CASE /\ call[c].answer = "receipt" /\ e.state \in Unverified
           /\ effect' = [effect EXCEPT ![w] = Verified(e, call[c].receipt)]
           /\ Conclude(c, "verified")
  <2> DEFINE f == Verified(e, call[c].receipt)
  <2>1. call[c].receipt \in Receipts \cup {Own}
    BY <1>1, <1>3, CallFacts DEF CallHolds, Calls
  <2>2. /\ f \in Effects /\ f.state = "verified" /\ f.attempt = e.attempt
        /\ Follows(e, f) /\ ClaimKept(e, f)
    BY <1>1, <1>3, <2>1, VerifiedFollows
  <2>3. effect' = [effect EXCEPT ![w] = f]
    BY <1>3
  <2> HIDE DEF f
  <2>4. /\ f.state # "pending"
        /\ w \in Diaries =>
             f.attempt <= 1 /\ f.state \notin {"expired", "requeued"}
    BY <1>1, <2>2 DEF IInv, DiaryInv
  <2>5. CASE w \in Diaries /\ Step(c, "opening")
    <3>1. PICK s \in Calls :
            /\ call' = [call EXCEPT ![c] = s]
            /\ s.pc = "opening" /\ s.write = w /\ s.body = call[c].body
      BY <2>5, StepParts
    <3>2. call'[c] = s /\ effect'[w] = f
      BY <1>1, <2>3, <3>1, CallStep DEF IInv, Types
    <3>3. CallHolds(c)'
      BY <1>1, <2>2, <2>5, <3>1, <3>2, CallFacts DEF CallHolds
    <3>4. s.pc # "writing"
      BY <3>1
    <3> QED
      BY <1>1, <2>2, <2>3, <2>4, <3>1, <3>3, <3>4, EffectSteps
  <2>6. CASE Return(c)
    BY <1>1, <1>2, <2>2, <2>3, <2>4, <2>6, EffectSteps
  <2> QED
    BY <1>3, <2>5, <2>6 DEF Conclude
<1>4. CASE /\ call[c].answer = "receipt"
           /\ e.state = "verified" /\ Conclude(c, "verified")
           /\ UNCHANGED effect
  BY <1>1, <1>4, ConcludeStep
<1>5. CASE /\ e.state \in {"pending", "executed_unverified"}
           /\ effect' = [effect EXCEPT ![w] = QueueAccepted(e)]
           /\ Return(c)
  <2> DEFINE f == QueueAccepted(e)
  <2>1. /\ f \in Effects /\ f.state = "executed_unverified"
        /\ f.attempt = e.attempt /\ f.body = e.body /\ f.receipt = e.receipt
    BY <1>1 DEF QueueAccepted, Effects, EffectState
  <2>2. effect' = [effect EXCEPT ![w] = f]
    BY <1>5
  <2> HIDE DEF f
  <2>3. Follows(e, f) /\ ClaimKept(e, f)
    BY <1>1, <1>5, <2>1, LeftFollows DEF Claimable
  <2>4. /\ f.state # "pending"
        /\ w \in Diaries =>
             f.attempt <= 1 /\ f.state \notin {"expired", "requeued"}
    BY <1>1, <2>1 DEF IInv, DiaryInv
  <2> QED
    BY <1>1, <1>2, <1>5, <2>1, <2>2, <2>3, <2>4, EffectSteps
<1>6. CASE Refuse(c) /\ Return(c)
  <2>1. CASE e.state \in Failable
    <3> DEFINE f == Failed(e)
    <3>1. /\ f \in Effects /\ f.state = "failed"
          /\ f.attempt = e.attempt /\ f.body = e.body /\ f.receipt = e.receipt
      BY <1>1 DEF Failed, Effects, EffectState
    <3>2. effect' = [effect EXCEPT ![w] = f]
      BY <1>6, <2>1 DEF Refuse, Mine
    <3> HIDE DEF f
    <3>3. Follows(e, f) /\ ClaimKept(e, f)
      BY <1>1, <2>1, <3>1, LeftFollows DEF Failable
    <3>4. /\ f.state # "pending"
          /\ w \in Diaries =>
               f.attempt <= 1 /\ f.state \notin {"expired", "requeued"}
      BY <1>1, <3>1 DEF IInv, DiaryInv
    <3> QED
      BY <1>1, <1>2, <1>6, <3>1, <3>2, <3>3, <3>4, EffectSteps
  <2>2. CASE e.state \notin Failable
    <3>1. UNCHANGED effect /\ e.state # "pending"
      BY <1>6, <2>2 DEF Refuse, Mine, Failable
    <3>2. orphaned \subseteq orphaned' /\ orphaned' \subseteq Writes
      BY <1>1 DEF IInv, Types
    <3>3. claim' = IF claim = c THEN None ELSE claim
      BY <1>1
    <3> QED
      BY <1>1, <1>6, <3>1, <3>2, <3>3, ReturnStep
  <2> QED
    BY <2>1, <2>2
<1> QED
  BY <1>3, <1>4, <1>5, <1>6 DEF Settle, Mine

\* What is opened is the verified entry, if the diary holds it alone.
LEMMA OpenStep ==
  ASSUME IInv, NEW c \in Callers, Open(c)
  PROVE  IInv'
<1> DEFINE w == call[c].write
<1>1. /\ call[c].pc = "opening" /\ w \in Diaries
      /\ effect[w].state = "verified" /\ claim # c
      /\ call' = [call EXCEPT ![c] = Idle]
      /\ UNCHANGED <<effect, claim, written, diary, orphaned, made>>
      /\ returned' = returned \cup
           {<<w, b>> : b \in {x \in Bodies : /\ diary[w] = <<x>>
                                             /\ x = effect[w].body}}
  BY CallFacts DEF Open, CallHolds, Return, Mine
<1>2. Idle \in Calls /\ Idle.pc = "idle"
  BY IdleParts
<1>3. call'[c] = Idle /\ \A d \in Callers \ {c} : call'[d] = call[d]
  BY <1>1, <1>2, CallStep
<1>4. \A p \in returned' :
        \/ p \in returned
        \/ \E b \in Bodies : /\ p = <<w, b>>
                             /\ diary[w] = <<b>> /\ effect[w].body = b
  BY <1>1
<1>5. ReturnedIsVerified' /\ returned' \subseteq Diaries \X Bodies
  <2>1. ASSUME NEW p \in returned'
        PROVE  /\ p \in Diaries \X Bodies
               /\ effect[p[1]].state = "verified" /\ effect[p[1]].body = p[2]
               /\ diary[p[1]] = <<p[2]>>
    <3>1. CASE p \in returned
      BY <3>1 DEF IInv, Types, ReturnedIsVerified
    <3>2. CASE \E b \in Bodies : /\ p = <<w, b>>
                                 /\ diary[w] = <<b>> /\ effect[w].body = b
      <4>1. PICK b \in Bodies : p = <<w, b>> /\ diary[w] = <<b>>
                                /\ effect[w].body = b
        BY <3>2
      <4>2. p[1] = w /\ p[2] = b /\ p \in Diaries \X Bodies
        BY <1>1, <4>1
      <4> QED
        BY <1>1, <4>1, <4>2
    <3> QED
      BY <1>4, <3>1, <3>2
  <2>2. UNCHANGED <<effect, diary>>
    BY <1>1
  <2> QED
    BY <2>1, <2>2 DEF ReturnedIsVerified
<1>6. CallInv'
  <2>1. made' \in Nat /\ made' >= made /\ claim' = claim
        /\ \A x \in Writes : effect'[x] = effect[x]
    BY <1>1, CallFacts, WriteAssumption
  <2>2. CallHolds(c)'
    BY <1>1, <1>2, <1>3 DEF CallHolds
  <2> QED
    BY <1>1, <1>2, <2>1, <2>2, CallInvStep
<1>7. WritersInv'
  BY <1>1, <1>2, WritersStep
<1>8. PendingInv'
  BY <1>1, <1>3 DEF IInv, PendingInv
<1>9. EffectInv' /\ DiaryInv'
  BY <1>1 DEF IInv, EffectInv, DiaryInv
<1>10. Types'
  BY <1>1, <1>2, <1>5, CallStep DEF IInv, Types
<1> QED
  BY <1>5, <1>6, <1>7, <1>8, <1>9, <1>10 DEF IInv

LEMMA DieStep ==
  ASSUME IInv, NEW c \in Callers, Die(c)
  PROVE  IInv'
<1>1. /\ Return(c) /\ UNCHANGED <<effect, written, diary, returned, made>>
      /\ claim' = IF claim = c THEN None ELSE claim
      /\ orphaned' = IF call[c].pc \in {"writing", "answered"}
                       THEN orphaned \cup {call[c].write} ELSE orphaned
  BY DEF Die
<1>2. orphaned \subseteq orphaned' /\ orphaned' \subseteq Writes
  BY <1>1, CallFacts DEF IInv, Types
<1>3. \/ call[c].write \in orphaned'
      \/ call[c].pc \notin {"writing", "answered"}
  BY <1>1
<1> QED
  BY <1>1, <1>2, <1>3, ReturnStep

-----------------------------------------------------------------------------
(* The steps of the host. *)

\* A step that changes one effect and nothing else.
LEMMA HostStep ==
  ASSUME IInv, NEW w \in Writes, NEW f \in Effects, Follows(effect[w], f),
         ClaimKept(effect[w], f), f.state # "pending",
         w \in Diaries => f.attempt <= 1 /\ f.state \notin {"expired", "requeued"},
         effect' = [effect EXCEPT ![w] = f],
         UNCHANGED <<claim, call, written, diary, returned, orphaned, made>>
  PROVE  IInv'
<1>1. effect'[w] = f /\ \A x \in Writes \ {w} : effect'[x] = effect[x]
  BY DEF IInv, Types
<1>2. /\ EffectInv' /\ DiaryInv' /\ ReturnedIsVerified'
      /\ effect' \in [Writes -> Effects]
      /\ \A x \in Writes :
           /\ effect'[x].state = "absent" <=> effect'[x].body = None
           /\ effect'[x].state = "verified" <=> effect'[x].receipt # None
  BY EffectStep
<1>3. made' \in Nat /\ made' >= made
  BY WriteAssumption DEF IInv, Types
<1>4. CallInv'
  <2>1. ASSUME NEW d \in Callers
        PROVE  CallHolds(d)'
    <3>1. ASSUME NEW x \in Writes
          PROVE  \/ effect'[x] = effect[x]
                 \/ /\ Follows(effect[x], effect'[x]) /\ effect'[x] \in Effects
                    /\ claim = d => ClaimKept(effect[x], effect'[x])
      BY <1>1
    <3> QED
      BY <1>3, <3>1, CallKeeps
  <2> QED
    BY <2>1 DEF CallInv
<1>5. WritersInv'
  BY DEF IInv, WritersInv
<1>6. PendingInv'
  BY <1>1 DEF IInv, PendingInv
<1>7. Types'
  BY <1>2 DEF IInv, Types
<1> QED
  BY <1>2, <1>4, <1>5, <1>6, <1>7 DEF IInv

LEMMA ReconcileStep ==
  ASSUME IInv, NEW w \in Writes, Reconcile(w)
  PROVE  IInv'
<1>1. PICK r \in Receipts :
        /\ effect[w].state \in Unverified
        /\ effect' = [effect EXCEPT ![w] = Verified(effect[w], r)]
        /\ UNCHANGED <<claim, call, written, diary, returned, orphaned, made>>
  BY DEF Reconcile
<1> DEFINE f == Verified(effect[w], r)
<1>2. /\ f \in Effects /\ f.state = "verified" /\ f.attempt = effect[w].attempt
      /\ Follows(effect[w], f) /\ ClaimKept(effect[w], f)
  BY <1>1, VerifiedFollows
<1>3. effect' = [effect EXCEPT ![w] = f]
  BY <1>1
<1> HIDE DEF f
<1>4. /\ f.state # "pending"
      /\ w \in Diaries =>
           f.attempt <= 1 /\ f.state \notin {"expired", "requeued"}
  BY <1>2 DEF IInv, DiaryInv
<1> QED
  BY <1>1, <1>2, <1>3, <1>4, HostStep

LEMMA ExpireStep ==
  ASSUME IInv, NEW w \in Writes, Expire(w)
  PROVE  IInv'
<1> DEFINE e == effect[w]
           f == [e EXCEPT !.state = "expired"]
<1>1. /\ w \notin Diaries /\ e.state \in Unverified /\ e \in Effects
      /\ UNCHANGED <<claim, call, written, diary, returned, orphaned, made>>
  BY AttemptParts DEF Expire
<1>2. /\ f \in Effects /\ f.state = "expired" /\ f.attempt = e.attempt
      /\ f.body = e.body /\ f.receipt = e.receipt
  BY <1>1 DEF Effects, EffectState
<1>3. effect' = [effect EXCEPT ![w] = f]
  BY DEF Expire
<1> HIDE DEF f
<1>4. Follows(e, f) /\ ClaimKept(e, f)
  BY <1>1, <1>2, LeftFollows DEF Unverified, Claimable
<1>5. f.state # "pending"
  BY <1>2
<1> QED
  BY <1>1, <1>2, <1>3, <1>4, <1>5, HostStep

LEMMA RequeueStep ==
  ASSUME IInv, NEW w \in Writes, Requeue(w)
  PROVE  IInv'
<1> DEFINE e == effect[w]
           f == [e EXCEPT !.state = "requeued", !.attempt = e.attempt + 1]
<1>1. /\ e.state = "expired" /\ e.attempt < MaxAttempt /\ e \in Effects
      /\ e.attempt \in 1..MaxAttempt /\ e.body # None /\ e.receipt = None
      /\ w \notin Diaries
      /\ UNCHANGED <<claim, call, written, diary, returned, orphaned, made>>
  BY AttemptParts DEF Requeue, IInv, Types, DiaryInv
<1>2. /\ f \in Effects /\ f.state = "requeued" /\ f.attempt = e.attempt + 1
      /\ f.body = e.body /\ f.receipt = e.receipt
  <2>1. e.attempt + 1 \in 0..MaxAttempt
    BY <1>1, WriteAssumption
  <2> QED
    BY <1>1, <2>1 DEF Effects, EffectState
<1>3. effect' = [effect EXCEPT ![w] = f]
  BY DEF Requeue
<1> HIDE DEF f
<1>4. Follows(e, f) /\ ClaimKept(e, f)
  BY <1>1, <1>2 DEF Follows, ClaimKept, Claimable
<1>5. f.state # "pending"
  BY <1>2
<1> QED
  BY <1>1, <1>2, <1>3, <1>4, <1>5, HostStep

-----------------------------------------------------------------------------

LEMMA NextIInv == IInv /\ [Next]_writerVars => IInv'
<1> SUFFICES ASSUME IInv, [Next]_writerVars PROVE IInv'
  OBVIOUS
<1>1. ASSUME NEW c \in Callers,
             \/ \E w \in Diaries : Synthesize(c, w)
             \/ \E w \in Writes \ Diaries : Submit(c, w)
      PROVE  IInv'
  BY <1>1, SynthesizeStep, SubmitStep
<1>2. ASSUME NEW c \in Callers, Begin(c) \/ TakeClaim(c) \/ MarkPending(c)
      PROVE  IInv'
  BY <1>2, BeginStep, TakeClaimStep, MarkPendingStep
<1>3. ASSUME NEW c \in Callers,
             HostWrites(c) \/ DiaryWrites(c) \/ Settle(c) \/ Open(c) \/ Die(c)
      PROVE  IInv'
  BY <1>3, HostWritesStep, DiaryWritesStep, SettleStep, OpenStep, DieStep
<1>4. ASSUME NEW w \in Writes, Reconcile(w) \/ Expire(w) \/ Requeue(w)
      PROVE  IInv'
  BY <1>4, ReconcileStep, ExpireStep, RequeueStep
<1>5. CASE UNCHANGED writerVars
  BY <1>5 DEF writerVars, IInv, Types, CallInv, CallHolds, WritersInv,
              EffectInv, DiaryInv, PendingInv, ReturnedIsVerified
<1> QED
  BY <1>1, <1>2, <1>3, <1>4, <1>5 DEF Next

LEMMA InductiveInvariant == Spec => []IInv
BY InitIInv, NextIInv, PTL DEF Spec

\* The diary holds one row at most under an idempotency key, that is for a day
\* with its evidence references and title hint, whoever asks for it: two callers,
\* a caller after a crash, a replay (_service/diary.py).
THEOREM DiaryWrittenOnce == Spec => []DiaryOnce
<1>1. IInv => DiaryOnce
  BY ImpliesProperties
<1> QED
  BY <1>1, InductiveInvariant, PTL

\* No attempt of a memory write has its writer called twice: the claim lock and
\* the ledger's states serialise the handoffs (writer.py).
THEOREM WriterCalledOnce == Spec => []OneWriterPerAttempt
<1>1. IInv => OneWriterPerAttempt
  BY ImpliesProperties
<1> QED
  BY <1>1, InductiveInvariant, PTL

\* A pending effect has a caller at work on it, or one that died at work: every
\* answer, a refused receipt too, leads to a state that says so (writer.py).
\* The property includes the module's type invariant.
THEOREM NoAnswerIsLost == Spec => []PendingHasAnOwner
<1>1. IInv => PendingHasAnOwner
  BY ImpliesProperties
<1> QED
  BY <1>1, InductiveInvariant, PTL

\* synthesize_diary returns only the entry that a verified effect vouches for,
\* and that entry stays the diary's (_service/diary.py).
THEOREM OnlyVerifiedReturned == Spec => []ReturnedIsVerified
<1>1. IInv => ReturnedIsVerified
  BY DEF IInv
<1> QED
  BY <1>1, InductiveInvariant, PTL

-----------------------------------------------------------------------------
(* The refinement.  A write is found by its key, so it is its own; its       *)
(* evidence is the receipt of the content it was claimed with.               *)

Evidence(e) == IF e.receipt = None THEN None
                                   ELSE [body |-> e.body, id |-> e.receipt]

PromiseOf(w, e) == [status  |-> Outcome(e.state),
                    key     |-> IF e.state = "absent" THEN None ELSE w,
                    body    |-> e.body,
                    receipt |-> Evidence(e)]

promised == [w \in Writes |-> PromiseOf(w, effect[w])]

Contract == INSTANCE EffectContract WITH
  promise <- promised, Effects <- Writes, Keys <- Writes,
  Receipts <- [body : Bodies, id : Receipts \cup {Own}], NoValue <- None

ContractSpec == Contract!Spec

\* What the contract lets become of an open effect.
Continues(e, f) ==
  /\ Outcome(e.state) = "open" /\ f.body = e.body
  /\ \/ Outcome(f.state) = "open" /\ f.receipt = e.receipt
     \/ f.state = "failed" /\ f.receipt = e.receipt
     \/ f.state = "verified" /\ f.receipt # None

\* A step that changes one effect changes one promise.
LEMMA OneEffectIsOnePromise ==
  ASSUME IInv, NEW w \in Writes, NEW f,
         effect' = [effect EXCEPT ![w] = f]
  PROVE  promised' = [promised EXCEPT ![w] = PromiseOf(w, f)]
BY DEF IInv, Types, promised

\* A step that continues an effect confirms or abandons a promise, or hides.
LEMMA ContinuingKeepsContract ==
  ASSUME IInv, NEW w \in Writes, NEW f \in Effects,
         Continues(effect[w], f), effect' = [effect EXCEPT ![w] = f]
  PROVE  Contract!Next \/ UNCHANGED promised
<1> DEFINE e == effect[w]
           p == PromiseOf(w, e)
<1>1. /\ e \in Effects /\ e.receipt = None
      /\ e.state \notin Settled \cup {"absent"}
  BY AttemptParts DEF Continues, Outcome, Settled, IInv, Types
<1>2. promised[w] = p /\ promised' = [promised EXCEPT ![w] = PromiseOf(w, f)]
  BY OneEffectIsOnePromise DEF promised
<1>3. p = [status |-> "open", key |-> w, body |-> e.body, receipt |-> None]
  BY <1>1 DEF PromiseOf, Evidence, Outcome
<1>4. CASE Outcome(f.state) = "open" /\ f.receipt = e.receipt
  <2>1. PromiseOf(w, f) = p
    BY <1>1, <1>3, <1>4 DEF Continues, PromiseOf, Evidence, Outcome, Settled
  <2> QED
    BY <1>2, <2>1 DEF promised
<1>5. CASE f.state = "failed" /\ f.receipt = e.receipt
  <2>1. PromiseOf(w, f) = [p EXCEPT !.status = "failed"]
    BY <1>1, <1>3, <1>5
    DEF Continues, PromiseOf, Evidence, Outcome, Settled
  <2>2. Contract!Abandon(w)
    BY <1>2, <1>3, <2>1 DEF Contract!Abandon
  <2> QED
    BY <2>2 DEF Contract!Next
<1>6. CASE f.state = "verified" /\ f.receipt # None
  <2> DEFINE r == [body |-> e.body, id |-> f.receipt]
  <2>1. PromiseOf(w, f) = [status |-> "verified", key |-> p.key,
                           body |-> r.body, receipt |-> r]
    BY <1>1, <1>3, <1>6
    DEF Continues, PromiseOf, Evidence, Outcome, Settled
  <2>2. r \in [body : Bodies, id : Receipts \cup {Own}]
    BY <1>1, <1>6 DEF Effects, IInv, Types
  <2>3. Contract!Confirm(w, r)
    BY <1>2, <1>3, <2>1 DEF Contract!Confirm
  <2> QED
    BY <2>2, <2>3 DEF Contract!Next
<1> QED
  BY <1>4, <1>5, <1>6 DEF Continues

\* A new intent is a new promise, under a key that is its own.
LEMMA BeginKeepsContract ==
  ASSUME IInv, NEW c \in Callers, Begin(c)
  PROVE  Contract!Next \/ UNCHANGED promised
<1> DEFINE w == call[c].write
           b == call[c].body
           f == [NoEffect EXCEPT !.state = "intent", !.body = b, !.attempt = 1]
<1>1. CASE UNCHANGED effect
  BY <1>1 DEF promised
<1>2. CASE effect[w].state = "absent" /\ effect' = [effect EXCEPT ![w] = f]
  <2>1. w \in Writes /\ b \in Bodies
    BY CallFacts DEF Begin, CallHolds
  <2>2. promised' = [promised EXCEPT ![w] = PromiseOf(w, f)]
    BY <1>2, <2>1, OneEffectIsOnePromise
  <2>3. PromiseOf(w, f) = [status |-> "open", key |-> w, body |-> b,
                           receipt |-> None]
    BY DEF PromiseOf, NoEffect, Evidence, Outcome, Settled
  <2>4. promised[w].status = "absent"
    BY <1>2, <2>1 DEF promised, PromiseOf, Outcome, Settled
  <2>5. \A x \in Writes : promised[x].key # w
    <3>1. \A x \in Writes : promised[x].key = None \/ promised[x].key = x
      BY DEF promised, PromiseOf
    <3>2. promised[w].key = None
      BY <1>2, <2>1 DEF promised, PromiseOf
    <3> QED
      BY <2>1, <3>1, <3>2, WriteAssumption
  <2>6. Contract!Promise(w, w, b)
    BY <2>2, <2>3, <2>4, <2>5 DEF Contract!Promise
  <2> QED
    BY <2>1, <2>6 DEF Contract!Next
<1> QED
  BY <1>1, <1>2 DEF Begin

LEMMA MarkPendingKeepsContract ==
  ASSUME IInv, NEW c \in Callers, MarkPending(c)
  PROVE  Contract!Next \/ UNCHANGED promised
<1> DEFINE w == call[c].write
           e == effect[w]
           f == Pended(e)
<1>1. w \in Writes /\ e \in Effects
  BY CallFacts, AttemptParts
<1>2. CASE UNCHANGED effect
  BY <1>2 DEF promised
<1>3. CASE /\ e.state \in Pendable \cup {"pending"}
           /\ effect' = [effect EXCEPT ![w] = f]
  <2>1. /\ f \in Effects /\ f.state = "pending" /\ f.body = e.body
        /\ f.receipt = e.receipt
    BY <1>1 DEF Pended, Effects, EffectState
  <2>2. Continues(e, f)
    BY <1>3, <2>1 DEF Continues, Outcome, Settled, Pendable
  <2> QED
    BY <1>1, <1>3, <2>1, <2>2, ContinuingKeepsContract
<1> QED
  BY <1>2, <1>3 DEF MarkPending, Mine

\* Every way an answer is settled.
LEMMA SettleKeepsContract ==
  ASSUME IInv, NEW c \in Callers, Settle(c)
  PROVE  Contract!Next \/ UNCHANGED promised
<1> DEFINE w == call[c].write
           e == effect[w]
           r == call[c].receipt
<1>1. w \in Writes /\ e \in Effects
  BY CallFacts, AttemptParts
<1>2. CASE UNCHANGED effect
  BY <1>2 DEF promised
<1>3. CASE /\ call[c].answer = "receipt" /\ e.state \in Unverified
           /\ effect' = [effect EXCEPT ![w] = Verified(e, r)]
  <2> DEFINE f == Verified(e, r)
  <2>1. r \in Receipts \cup {Own} /\ r # None
    BY <1>3, CallFacts DEF CallHolds, Calls, Settle
  <2>2. /\ f \in Effects /\ f.state = "verified" /\ f.body = e.body
        /\ f.receipt = r
    BY <1>1, <2>1 DEF Verified, Effects, EffectState
  <2>3. Continues(e, f)
    BY <1>3, <2>1, <2>2 DEF Continues, Outcome, Settled, Unverified
  <2> QED
    BY <1>1, <1>3, <2>2, <2>3, ContinuingKeepsContract
<1>4. CASE /\ e.state \in {"pending", "executed_unverified"}
           /\ effect' = [effect EXCEPT ![w] = QueueAccepted(e)]
  <2> DEFINE f == QueueAccepted(e)
  <2>1. /\ f \in Effects /\ f.state = "executed_unverified"
        /\ f.body = e.body /\ f.receipt = e.receipt
    BY <1>1 DEF QueueAccepted, Effects, EffectState
  <2>2. Continues(e, f)
    BY <1>4, <2>1 DEF Continues, Outcome, Settled
  <2> QED
    BY <1>1, <1>4, <2>1, <2>2, ContinuingKeepsContract
<1>5. CASE e.state \in Failable /\ effect' = [effect EXCEPT ![w] = Failed(e)]
  <2> DEFINE f == Failed(e)
  <2>1. /\ f \in Effects /\ f.state = "failed" /\ f.body = e.body
        /\ f.receipt = e.receipt
    BY <1>1 DEF Failed, Effects, EffectState
  <2>2. Continues(e, f)
    BY <1>5, <2>1 DEF Continues, Outcome, Settled, Failable
  <2> QED
    BY <1>1, <1>5, <2>1, <2>2, ContinuingKeepsContract
<1> QED
  BY <1>2, <1>3, <1>4, <1>5 DEF Settle, Refuse, Mine

\* What the host does meanwhile.
LEMMA HostKeepsContract ==
  ASSUME IInv, NEW w \in Writes, Reconcile(w) \/ Expire(w) \/ Requeue(w)
  PROVE  Contract!Next \/ UNCHANGED promised
<1> DEFINE e == effect[w]
<1>1. e \in Effects
  BY AttemptParts
<1>2. CASE Reconcile(w)
  <2>1. PICK r \in Receipts : /\ e.state \in Unverified
                              /\ effect' = [effect EXCEPT ![w] = Verified(e, r)]
    BY <1>2 DEF Reconcile
  <2> DEFINE f == Verified(e, r)
  <2>2. /\ f \in Effects /\ f.state = "verified" /\ f.body = e.body
        /\ f.receipt = r /\ r # None
    BY <1>1, WriteAssumption DEF Verified, Effects, EffectState
  <2>3. Continues(e, f)
    BY <2>1, <2>2 DEF Continues, Outcome, Settled, Unverified
  <2> QED
    BY <2>1, <2>2, <2>3, ContinuingKeepsContract
<1>3. CASE Expire(w)
  <2> DEFINE f == [e EXCEPT !.state = "expired"]
  <2>1. /\ f \in Effects /\ f.state = "expired" /\ f.body = e.body
        /\ f.receipt = e.receipt
    BY <1>1 DEF Effects, EffectState
  <2>2. Continues(e, f) /\ effect' = [effect EXCEPT ![w] = f]
    BY <1>3, <2>1 DEF Expire, Continues, Outcome, Settled, Unverified
  <2> QED
    BY <2>1, <2>2, ContinuingKeepsContract
<1>4. CASE Requeue(w)
  <2> DEFINE f == [e EXCEPT !.state = "requeued", !.attempt = e.attempt + 1]
  <2>1. e.attempt + 1 \in 0..MaxAttempt
    BY <1>1, <1>4, WriteAssumption DEF Requeue, Effects
  <2>2. /\ f \in Effects /\ f.state = "requeued" /\ f.body = e.body
        /\ f.receipt = e.receipt
    BY <1>1, <2>1 DEF Effects, EffectState
  <2>3. Continues(e, f) /\ effect' = [effect EXCEPT ![w] = f]
    BY <1>4, <2>2 DEF Requeue, Continues, Outcome, Settled
  <2> QED
    BY <2>2, <2>3, ContinuingKeepsContract
<1> QED
  BY <1>2, <1>3, <1>4

\* Callers and host use the ledger as its contract says, wherever a caller
\* dies: a write has one content under its key, is verified only by a receipt
\* for this content, and what is verified or failed stays so, through every
\* expiry, requeue and late answer (writer.py, effects.py).
THEOREM WritesKeepContract == Spec => ContractSpec
<1>1. Init => Contract!Init
  BY DEF Init, Contract!Init, Contract!Nothing, promised, PromiseOf, Evidence,
         Outcome, Settled, NoEffect
<1>2. ASSUME IInv, Next
      PROVE  Contract!Next \/ UNCHANGED promised
  <2>1. ASSUME UNCHANGED effect PROVE UNCHANGED promised
    BY <2>1 DEF promised
  <2>2. ASSUME NEW c \in Callers,
               \/ \E w \in Diaries : Synthesize(c, w)
               \/ \E w \in Writes \ Diaries : Submit(c, w)
               \/ TakeClaim(c) \/ HostWrites(c) \/ DiaryWrites(c)
               \/ Open(c) \/ Die(c)
        PROVE  UNCHANGED effect
    BY <2>2 DEF Synthesize, Submit, Enter, TakeClaim, HostWrites, DiaryWrites,
                Open, Die
  <2> QED
    BY <1>2, <2>1, <2>2, BeginKeepsContract, MarkPendingKeepsContract,
       SettleKeepsContract, HostKeepsContract DEF Next
<1>3. IInv /\ [Next]_writerVars => [Contract!Next]_promised
  BY <1>2 DEF writerVars, promised
<1> QED
  BY <1>1, <1>3, InductiveInvariant, PTL DEF Spec, ContractSpec, Contract!Spec
=============================================================================
