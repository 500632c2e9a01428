------------------------- MODULE EffectLedger_proofs -------------------------
(***************************************************************************)
(* Proofs about EffectLedger, for any effects, keys, contents and bounds.  *)
(*                                                                         *)
(* Every mutator ends in one Append, so the argument is made once: an      *)
(* append leaves the records alone or stores the row it was given, and it  *)
(* stores it only if a replay accepts it.  Each mutator then owes no more  *)
(* than the facts about the row it builds.                                 *)
(***************************************************************************)
EXTENDS EffectLedger, TLAPS

\* An expired attempt is really over.  This holds while no clock runs ahead of
\* the ledger's, and is what makes a later deadline larger than the one a
\* requeue replaces: NeverPoisoned is not inductive without it.
LapsedIsOver ==
  \A e \in Effects : records[e].state = "expired" => records[e].expires < clock

\* The inductive invariant.
IInv ==
  /\ TypeOK
  /\ OneEffectPerKey
  /\ ~ SkewedClocks => LapsedIsOver /\ NeverPoisoned

-----------------------------------------------------------------------------
(* What an append does. *)

\* An append stores the row it is given, or stores nothing.
LEMMA AppendStoresRow ==
  ASSUME TypeOK, NEW e \in Effects, NEW op, NEW row, Append(e, op, row)
  PROVE  /\ file' \in FileState
         /\ \/ records' = records
            \/ Accepted(e, op, row) /\ records' = [records EXCEPT ![e] = row]
BY DEF Append, TypeOK, FileState

\* An append of a well-formed row keeps the type invariant.
LEMMA AppendKeepsType ==
  ASSUME TypeOK, NEW e \in Effects, NEW op, NEW row \in Record,
         WellFormed(row), Append(e, op, row), clock' = clock
  PROVE  TypeOK'
<1>1. file' \in FileState
  BY AppendStoresRow
<1>2. CASE records' = records
  BY <1>1, <1>2 DEF TypeOK, WellFormed
<1>3. CASE records' = [records EXCEPT ![e] = row]
  BY <1>1, <1>3 DEF TypeOK, WellFormed
<1> QED
  BY <1>2, <1>3, AppendStoresRow

\* An append gives no effect a key that another effect holds.
LEMMA AppendKeepsKeys ==
  ASSUME TypeOK, OneEffectPerKey, NEW e \in Effects, NEW op, NEW row,
         Append(e, op, row)
  PROVE  OneEffectPerKey'
<1>1. CASE records' = records
  BY <1>1 DEF OneEffectPerKey
<1>2. CASE Accepted(e, op, row) /\ records' = [records EXCEPT ![e] = row]
  BY <1>2 DEF OneEffectPerKey, Accepted, TypeOK
<1> QED
  BY <1>1, <1>2, AppendStoresRow

\* An append of a row the replay accepts never poisons the file.
LEMMA AppendKeepsReplayable ==
  ASSUME TypeOK, NeverPoisoned, NEW e \in Effects, NEW op, NEW row,
         Append(e, op, row), Accepted(e, op, row)
  PROVE  NeverPoisoned'
BY DEF Append, NeverPoisoned

-----------------------------------------------------------------------------
(* What the mutators build. *)

\* The row each mutator appends for e, with the operation it is marked with.
Builds(e, op, row) ==
  /\ Append(e, op, row)
  /\ row \in Record
  /\ WellFormed(row)
  /\ clock' = clock
  /\ row.state = "expired" /\ ~ SkewedClocks => row.expires < clock

\* Every mutator appends one well-formed row.
LEMMA MutatorsBuildRows ==
  ASSUME TypeOK, NEW e \in Effects, Mutate(e)
  PROVE  \E op, row : Builds(e, op, row)
<1> USE BoundsAssumption DEF TypeOK, Time
<1>1. ASSUME NEW k \in Keys, NEW b \in Bodies, NEW x \in Time,
             BeginIntent(e, k, b, x)
      PROVE  \E op, row : Builds(e, op, row)
  <2> DEFINE row == [state |-> "intent", key |-> k, body |-> b,
                     created |-> clock, expires |-> x, attempt |-> 1,
                     receipt |-> NoValue, reason |-> NoValue]
  <2>1. Append(e, "begin_intent", row) /\ clock' = clock /\ x > clock
    BY <1>1 DEF BeginIntent
  <2>2. row \in Record /\ WellFormed(row)
    BY <2>1, NullAssumption DEF Record, WellFormed, EffectState
  <2>3. Builds(e, "begin_intent", row)
    BY <2>1, <2>2 DEF Builds
  <2> QED
    BY <2>3
<1>2. CASE MarkPending(e)
  <2> DEFINE row == [records[e] EXCEPT !.state = "pending"]
  <2>1. Append(e, "mark_pending", row) /\ clock' = clock
    BY <1>2 DEF MarkPending
  <2>2. row \in Record /\ WellFormed(row)
    BY <1>2 DEF MarkPending, Record, WellFormed, EffectState, Pendable
  <2>3. Builds(e, "mark_pending", row)
    BY <2>1, <2>2 DEF Builds
  <2> QED
    BY <2>3
<1>3. CASE MarkQueueAccepted(e)
  <2> DEFINE row == [records[e] EXCEPT !.state = "executed_unverified"]
  <2>1. Append(e, "mark_queue_accepted", row) /\ clock' = clock
    BY <1>3 DEF MarkQueueAccepted
  <2>2. row \in Record /\ WellFormed(row)
    BY <1>3 DEF MarkQueueAccepted, Record, WellFormed, EffectState
  <2>3. Builds(e, "mark_queue_accepted", row)
    BY <2>1, <2>2 DEF Builds
  <2> QED
    BY <2>3
<1>4. ASSUME NEW r \in Receipts, Verify(e, r)
      PROVE  \E op, row : Builds(e, op, row)
  <2> DEFINE row == [records[e] EXCEPT !.state = "verified", !.receipt = r]
  <2>1. Append(e, "verify", row) /\ clock' = clock
    BY <1>4 DEF Verify
  <2>2. row \in Record /\ WellFormed(row)
    BY <1>4, NullAssumption
       DEF Verify, Record, WellFormed, EffectState, Unverified
  <2>3. Builds(e, "verify", row)
    BY <2>1, <2>2 DEF Builds
  <2> QED
    BY <2>3
<1>5. ASSUME NEW why \in Reasons, Fail(e, why)
      PROVE  \E op, row : Builds(e, op, row)
  <2> DEFINE row == [records[e] EXCEPT !.state = "failed", !.reason = why]
  <2>1. Append(e, "fail", row) /\ clock' = clock
    BY <1>5 DEF Fail
  <2>2. row \in Record /\ WellFormed(row)
    BY <1>5, NullAssumption
       DEF Fail, Record, WellFormed, EffectState, Failable
  <2>3. Builds(e, "fail", row)
    BY <2>1, <2>2 DEF Builds
  <2> QED
    BY <2>3
<1>6. ASSUME NEW now \in Time, Expire(e, now)
      PROVE  \E op, row : Builds(e, op, row)
  <2> DEFINE row == [records[e] EXCEPT !.state = "expired",
                                       !.reason = "expired"]
  <2>1. Append(e, "expire", row) /\ clock' = clock
    BY <1>6 DEF Expire
  <2>2. row \in Record /\ WellFormed(row)
    BY <1>6, NullAssumption
       DEF Expire, Record, WellFormed, EffectState, Unverified
  <2>3. ~ SkewedClocks => row.expires < clock
    BY <1>6 DEF Expire, Record
  <2>4. Builds(e, "expire", row)
    BY <2>1, <2>2, <2>3 DEF Builds
  <2> QED
    BY <2>4
<1>7. ASSUME NEW x \in Time, Requeue(e, x)
      PROVE  \E op, row : Builds(e, op, row)
  <2> DEFINE row == [records[e] EXCEPT !.state = "requeued", !.expires = x,
                                       !.attempt = @ + 1,
                                       !.reason = NoValue]
  <2>1. Append(e, "requeue", row) /\ clock' = clock
    BY <1>7 DEF Requeue
  <2>2. row \in Record /\ WellFormed(row)
    <3>1. records[e] \in Record /\ WellFormed(records[e])
      OBVIOUS
    <3>2. /\ x > records[e].created
          /\ records[e].state = "expired"
          /\ records[e].attempt + 1 \in 1..MaxAttempt
      BY <1>7, <3>1 DEF Requeue, Record
    <3>3. row \in Record
      <4>1. records[e].attempt + 1 \in 0..MaxAttempt
        BY <3>2
      <4> QED
        BY <3>1, <4>1 DEF Record, EffectState
    <3>4. records[e].key # NoValue /\ records[e].receipt = NoValue
      BY <3>1, <3>2 DEF WellFormed
    <3>5. WellFormed(row)
      BY <3>1, <3>2, <3>4 DEF WellFormed, Record
    <3> QED
      BY <3>3, <3>5
  <2>3. Builds(e, "requeue", row)
    BY <2>1, <2>2 DEF Builds
  <2> QED
    BY <2>3
<1> QED
  BY <1>1, <1>2, <1>3, <1>4, <1>5, <1>6, <1>7 DEF Mutate

\* While no clock runs ahead, every row a mutator appends is one a replay
\* accepts: the requeue's is the row that needs LapsedIsOver.
LEMMA MutatorsKeepReplayable ==
  ASSUME IInv, ~ SkewedClocks, NEW e \in Effects, Mutate(e)
  PROVE  NeverPoisoned'
<1> USE BoundsAssumption DEF IInv, TypeOK, Time
<1>1. ASSUME NEW k \in Keys, NEW b \in Bodies, NEW x \in Time,
             BeginIntent(e, k, b, x)
      PROVE  NeverPoisoned'
  BY <1>1, AppendKeepsReplayable DEF BeginIntent, Accepted
<1>2. CASE MarkPending(e)
  BY <1>2, AppendKeepsReplayable
     DEF MarkPending, Accepted, Identity, ValidTransition, Edge, Pendable,
         OneEffectPerKey, Record, WellFormed
<1>3. CASE MarkQueueAccepted(e)
  BY <1>3, AppendKeepsReplayable
     DEF MarkQueueAccepted, Accepted, Identity, ValidTransition, Edge,
         OneEffectPerKey, Record, WellFormed
<1>4. ASSUME NEW r \in Receipts, Verify(e, r)
      PROVE  NeverPoisoned'
  BY <1>4, AppendKeepsReplayable
     DEF Verify, Accepted, Identity, ValidTransition, Edge, Unverified,
         OneEffectPerKey, Record, WellFormed
<1>5. ASSUME NEW why \in Reasons, Fail(e, why)
      PROVE  NeverPoisoned'
  BY <1>5, AppendKeepsReplayable
     DEF Fail, Accepted, Identity, ValidTransition, Edge, Failable, Pendable,
         Unverified, OneEffectPerKey, Record, WellFormed
<1>6. ASSUME NEW now \in Time, Expire(e, now)
      PROVE  NeverPoisoned'
  BY <1>6, AppendKeepsReplayable
     DEF Expire, Accepted, Identity, ValidTransition, Edge, Unverified,
         OneEffectPerKey, Record, WellFormed
<1>7. ASSUME NEW x \in Time, Requeue(e, x)
      PROVE  NeverPoisoned'
  <2>1. x > records[e].expires
    BY <1>7 DEF Requeue, LapsedIsOver, Record
  <2> QED
    BY <1>7, <2>1, AppendKeepsReplayable
       DEF Requeue, Accepted, Identity, ValidTransition, OneEffectPerKey,
           Record, WellFormed
<1> QED
  BY <1>1, <1>2, <1>3, <1>4, <1>5, <1>6, <1>7 DEF Mutate

-----------------------------------------------------------------------------
(* The theorems. *)

\* The inductive invariant holds of every reachable state.
THEOREM InductiveInvariant == Spec => []IInv
<1>1. Init => IInv
  BY BoundsAssumption
     DEF Init, IInv, TypeOK, OneEffectPerKey, LapsedIsOver, NeverPoisoned,
         AbsentRecord, Record, WellFormed, Time, FileState
<1>2. IInv /\ [Next]_vars => IInv'
  <2> SUFFICES ASSUME IInv, [Next]_vars PROVE IInv'
    OBVIOUS
  <2>1. CASE Tick
    BY <2>1, BoundsAssumption
       DEF Tick, IInv, TypeOK, OneEffectPerKey, LapsedIsOver, NeverPoisoned,
           WellFormed, Time, Record
  <2>2. ASSUME NEW e \in Effects, Mutate(e) PROVE IInv'
    <3>1. PICK op, row : Builds(e, op, row)
      BY <2>2, MutatorsBuildRows DEF IInv
    <3>2. TypeOK' /\ OneEffectPerKey'
      BY <3>1, AppendKeepsType, AppendKeepsKeys DEF Builds, IInv
    <3>3. ~ SkewedClocks => LapsedIsOver'
      BY <3>1, AppendStoresRow DEF Builds, IInv, LapsedIsOver, TypeOK
    <3>4. ~ SkewedClocks => NeverPoisoned'
      BY <2>2, MutatorsKeepReplayable
    <3> QED
      BY <3>2, <3>3, <3>4 DEF IInv
  <2>3. CASE UNCHANGED vars
    BY <2>3 DEF vars, IInv, TypeOK, OneEffectPerKey, LapsedIsOver,
                NeverPoisoned, WellFormed
  <2> QED
    BY <2>1, <2>2, <2>3 DEF Next
<1> QED
  BY <1>1, <1>2, PTL DEF Spec

\* Every record is one EffectRecord would accept.
THEOREM TypeCorrect == Spec => []TypeOK
<1>1. IInv => TypeOK
  BY DEF IInv
<1> QED
  BY <1>1, InductiveInvariant, PTL

\* begin_intent never gives two effects one idempotency key.
THEOREM KeysAreUnique == Spec => []OneEffectPerKey
<1>1. IInv => OneEffectPerKey
  BY DEF IInv
<1> QED
  BY <1>1, InductiveInvariant, PTL

\* Without skew the ledger stays replayable, whatever crashes leave behind.
THEOREM ReplayNeverPoisoned == ~ SkewedClocks => (Spec => []NeverPoisoned)
<1>1. ASSUME ~ SkewedClocks PROVE IInv => NeverPoisoned
  BY <1>1 DEF IInv
<1>2. ASSUME ~ SkewedClocks PROVE Spec => []NeverPoisoned
  BY <1>1, <1>2, InductiveInvariant, PTL
<1> QED
  BY <1>2

\* Without skew a retry opens only after the attempt it replaces is over.
THEOREM RetriesDoNotOverlap == ~ SkewedClocks => (Spec => AttemptsDoNotOverlap)
<1> DEFINE Apart ==
      \A e \in Effects :
        records[e].attempt \in 1..(records'[e].attempt - 1)
          => /\ records[e].expires < clock
             /\ records'[e].expires > records[e].expires
<1>1. ASSUME ~ SkewedClocks PROVE IInv /\ [Next]_vars => [Apart]_vars
  <2> SUFFICES ASSUME IInv, [Next]_vars PROVE Apart \/ UNCHANGED vars
    OBVIOUS
  <2>1. CASE records' = records
    BY <2>1 DEF IInv, TypeOK, Record
  <2>2. ASSUME NEW f \in Effects, Mutate(f), records' # records PROVE Apart
    <3>1. PICK op, row : /\ Builds(f, op, row)
      BY <2>2, MutatorsBuildRows DEF IInv
    <3>2. Accepted(f, op, row) /\ records' = [records EXCEPT ![f] = row]
      BY <2>2, <3>1, AppendStoresRow DEF Builds, IInv
    <3>3. \A e \in Effects : e # f => records'[e] = records[e]
      BY <3>2 DEF IInv, TypeOK
    <3>4. records'[f] = row
      BY <3>2 DEF IInv, TypeOK
    <3>5. records[f] \in Record /\ row \in Record /\ WellFormed(records[f])
      BY <3>1 DEF Builds, IInv, TypeOK
    <3>6. records[f].attempt \in 1..(row.attempt - 1)
            => /\ records[f].expires < clock
               /\ row.expires > records[f].expires
      <4> SUFFICES ASSUME records[f].attempt \in 1..(row.attempt - 1)
          PROVE  /\ records[f].expires < clock
                 /\ row.expires > records[f].expires
        OBVIOUS
      <4>1. records[f].attempt # row.attempt
        BY <3>5 DEF Record
      <4>2. records[f].state = "absent" => row.attempt = 1
        BY <3>2 DEF Accepted
      <4>3. records[f].state # "absent"
        BY <3>5, <4>2 DEF Record
      <4>4. records[f].state = "expired" /\ row.expires > records[f].expires
        BY <3>2, <4>1, <4>3 DEF Accepted, ValidTransition
      <4> QED
        BY <1>1, <4>4 DEF IInv, LapsedIsOver
    <3>7. \A e \in Effects : e # f =>
            ~ records[e].attempt \in 1..(records'[e].attempt - 1)
      BY <3>3 DEF IInv, TypeOK, Record
    <3> QED
      BY <3>4, <3>6, <3>7
  <2> QED
    BY <2>1, <2>2 DEF Next, Tick, vars
<1>2. ASSUME ~ SkewedClocks PROVE Spec => AttemptsDoNotOverlap
  BY <1>1, <1>2, InductiveInvariant, PTL DEF Spec, AttemptsDoNotOverlap
<1> QED
  BY <1>2

-----------------------------------------------------------------------------
(* The refinement. *)

\* A stored row changes what the contract sees of one effect at most.
LEMMA StoredRowIsOnePromise ==
  ASSUME TypeOK, NEW e \in Effects, NEW row,
         records' = [records EXCEPT ![e] = row]
  PROVE  promised' = [promised EXCEPT ![e] = Promised(row)]
BY DEF TypeOK, promised

\* A mutator keeps, makes, confirms or abandons one promise.
LEMMA MutatorsKeepContract ==
  ASSUME TypeOK, NEW e \in Effects, Mutate(e)
  PROVE  Contract!Next \/ UNCHANGED promised
<1> USE DEF TypeOK
<1> DEFINE Goal == Contract!Next \/ UNCHANGED promised
<1>0. ASSUME records' = records PROVE Goal
  BY <1>0 DEF promised
<1>1. ASSUME NEW k \in Keys, NEW b \in Bodies, NEW x \in Time,
             BeginIntent(e, k, b, x)
      PROVE  Goal
  <2> DEFINE row == [state |-> "intent", key |-> k, body |-> b,
                     created |-> clock, expires |-> x, attempt |-> 1,
                     receipt |-> NoValue, reason |-> NoValue]
  <2>1. CASE records' = [records EXCEPT ![e] = row]
    <3>1. Promised(row) = [status |-> "open", key |-> k, body |-> b,
                           receipt |-> NoValue]
      BY DEF Promised, Outcome, Settled
    <3>2. Contract!Promise(e, k, b)
      BY <1>1, <2>1, <3>1, StoredRowIsOnePromise
         DEF Contract!Promise, BeginIntent, promised, Promised, Outcome
    <3> QED
      BY <3>2 DEF Contract!Next
  <2> QED
    BY <1>0, <1>1, <2>1, AppendStoresRow DEF BeginIntent
<1>2. ASSUME NEW op, NEW row, Append(e, op, row),
             Promised(row) = Promised(records[e])
      PROVE  Goal
  <2>1. CASE records' = [records EXCEPT ![e] = row]
    BY <1>2, <2>1 DEF promised
  <2> QED
    BY <1>0, <1>2, <2>1, AppendStoresRow
<1>3. CASE MarkPending(e)
  BY <1>2, <1>3 DEF MarkPending, Promised, Outcome, Settled, Pendable, Record
<1>4. CASE MarkQueueAccepted(e)
  BY <1>2, <1>4 DEF MarkQueueAccepted, Promised, Outcome, Settled, Record
<1>5. ASSUME NEW now \in Time, Expire(e, now) PROVE Goal
  BY <1>2, <1>5 DEF Expire, Promised, Outcome, Settled, Unverified, Record
<1>6. ASSUME NEW x \in Time, Requeue(e, x) PROVE Goal
  BY <1>2, <1>6 DEF Requeue, Promised, Outcome, Settled, Record
<1>7. ASSUME NEW r \in Receipts, Verify(e, r) PROVE Goal
  <2> DEFINE row == [records[e] EXCEPT !.state = "verified", !.receipt = r]
  <2>1. CASE records' = [records EXCEPT ![e] = row]
    <3>1. Promised(row) = [status |-> "verified", key |-> records[e].key,
                           body |-> records[e].body, receipt |-> r]
      BY DEF Promised, Outcome, Settled, Record
    <3>2. Contract!Confirm(e, r)
      BY <1>7, <2>1, <3>1, StoredRowIsOnePromise
         DEF Contract!Confirm, Verify, promised, Promised, Outcome,
             Unverified, Settled
    <3> QED
      BY <3>2 DEF Contract!Next, Receipts
  <2> QED
    BY <1>0, <1>7, <2>1, AppendStoresRow DEF Verify
<1>8. ASSUME NEW why \in Reasons, Fail(e, why) PROVE Goal
  <2> DEFINE row == [records[e] EXCEPT !.state = "failed", !.reason = why]
  <2>1. CASE records' = [records EXCEPT ![e] = row]
    <3>1. Promised(row) = [Promised(records[e]) EXCEPT !.status = "failed"]
      BY DEF Promised, Outcome, Settled, Record
    <3>2. Contract!Abandon(e)
      BY <1>8, <2>1, <3>1, StoredRowIsOnePromise
         DEF Contract!Abandon, Fail, promised, Promised, Outcome, Failable,
             Settled
    <3> QED
      BY <3>2 DEF Contract!Next
  <2> QED
    BY <1>0, <1>8, <2>1, AppendStoresRow DEF Fail
<1> QED
  BY <1>1, <1>3, <1>4, <1>5, <1>6, <1>7, <1>8 DEF Mutate

\* The ledger implements the contract: callers see a promise settled once, by
\* evidence about its own content.
THEOREM LedgerImplementsContract == Spec => ContractSpec
<1>1. Init => Contract!Init
  BY DEF Init, Contract!Init, Contract!Nothing, promised, Promised, Outcome,
         Settled, AbsentRecord
<1>2. IInv /\ [Next]_vars
        => [Contract!Next]_promised
  BY MutatorsKeepContract DEF Next, Tick, vars, IInv, promised
<1> QED
  BY <1>1, <1>2, InductiveInvariant, PTL DEF Spec, ContractSpec, Contract!Spec
=============================================================================
