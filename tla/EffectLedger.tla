---------------------------- MODULE EffectLedger ----------------------------
(***************************************************************************)
(* EffectLedger (moonbite_plugin/effects.py) over its append-only file     *)
(* effects.jsonl (JsonlLedger, moonbite_plugin/runtime_core.py).           *)
(*                                                                         *)
(* Every mutator holds effects.mutation.lock, replays the whole file,      *)
(* decides, and appends one row.  The replay is kept here as its result,   *)
(* records, updated row by row; file says whether another replay would     *)
(* succeed.  A call that raises, or that finds its work already done,      *)
(* changes nothing and is a stuttering step.                               *)
(***************************************************************************)
EXTENDS EffectStates, FiniteSets

CONSTANTS
  Effects,      \* effect identifiers
  Keys,         \* idempotency keys
  Bodies,       \* the immutable content: kind, source, epoch, sha256, length
  ReceiptIds,   \* receipt identifiers
  Reasons,      \* (reason, retryable) pairs of fail
  NoValue,      \* the null of a record field
  MaxTime,      \* bound: the last instant a run reaches
  MaxAttempt,   \* bound: the last attempt a requeue opens
  MayCrash,     \* the process may die inside an append
  SkewedClocks  \* the wall clock may step back, and a caller's may run ahead

ASSUME BoundsAssumption == MaxTime \in Nat /\ MaxAttempt \in Nat \ {0}
ASSUME SwitchAssumption == MayCrash \in BOOLEAN /\ SkewedClocks \in BOOLEAN

VARIABLES
  clock,    \* the ledger's clock
  records,  \* _replay(): the current record of every effect
  file      \* what a further replay of the file finds

vars == <<clock, records, file>>

Time     == 0..MaxTime
Receipts == [id : ReceiptIds, body : Bodies]

ASSUME NullAssumption ==
  NoValue \notin Keys \cup Receipts \cup Reasons \cup {"expired"}

\* EffectRecord.
Record == [state   : EffectState \cup {"absent"},
           key     : Keys \cup {NoValue},
           body    : Bodies \cup {NoValue},
           created : Time,
           expires : Time,
           attempt : 0..MaxAttempt,
           receipt : Receipts \cup {NoValue},
           reason  : Reasons \cup {"expired", NoValue}]

AbsentRecord == [state |-> "absent", key |-> NoValue, body |-> NoValue,
                 created |-> 0, expires |-> 0, attempt |-> 0,
                 receipt |-> NoValue, reason |-> NoValue]

\* clean: every row replays.  unterminated: so it does, but the last row has
\* lost its newline.  torn: the last row is cut short.  garbled: two rows
\* share a line.  poisoned: a row breaks the transition table.
FileState == {"clean", "unterminated", "torn", "garbled", "poisoned"}

Readable == file \in {"clean", "unterminated"}

\* EffectRecord.__post_init__ and _validate_identity: what state and fields say
\* of each other.
WellFormed(r) ==
  /\ r.state = "absent" <=> r.key = NoValue
  /\ r.state = "verified" <=> r.receipt # NoValue
  /\ r.state \in {"failed", "expired"} <=> r.reason # NoValue
  /\ r.state # "absent" => r.expires > r.created /\ r.attempt > 0

TypeOK ==
  /\ clock \in Time
  /\ records \in [Effects -> Record]
  /\ file \in FileState
  /\ \A e \in Effects : WellFormed(records[e])

Init ==
  /\ clock = 0
  /\ records = [e \in Effects |-> AbsentRecord]
  /\ file = "clean"

-----------------------------------------------------------------------------
(* _fold_effect_row: the row a replay accepts next. *)

Identity(r) == <<r.key, r.body, r.created>>

Accepted(e, op, row) ==
  /\ IF records[e].state = "absent"
       THEN op = "begin_intent" /\ row.state = "intent" /\ row.attempt = 1
       ELSE /\ Identity(row) = Identity(records[e])
            /\ ValidTransition(records[e], op, row)
  /\ \A f \in Effects \ {e} : records[f].key # row.key

\* _append and JsonlLedger._append_unlocked: the row and its newline, written
\* by a loop the process may die in.
Append(e, op, row) ==
  \/ /\ file = "clean" /\ Accepted(e, op, row)
     /\ records' = [records EXCEPT ![e] = row]
     /\ file' \in IF MayCrash THEN {"clean", "unterminated"} ELSE {"clean"}
  \/ /\ file = "clean" /\ ~ Accepted(e, op, row)
     /\ file' = "poisoned"
     /\ UNCHANGED records
  \/ /\ file = "unterminated"
     /\ file' = "garbled"
     /\ UNCHANGED records
  \/ /\ MayCrash
     /\ file' = "torn"
     /\ UNCHANGED records

-----------------------------------------------------------------------------
(* The mutators. *)

\* Bug: the lookup by key misses settled effects, and so does the replay.
BeginIntentForgetsSettled(e, k, b, expires) ==
  /\ Readable
  /\ expires > clock
  /\ \A f \in Effects : records[f].state \notin Settled => records[f].key # k
  /\ records[e].state = "absent"
  /\ file' = file
  /\ records' = [records EXCEPT ![e] =
       [state |-> "intent", key |-> k, body |-> b, created |-> clock,
        expires |-> expires, attempt |-> 1, receipt |-> NoValue,
        reason |-> NoValue]]
  /\ UNCHANGED clock

\* A key the ledger already holds returns or rejects, and appends nothing.
BeginIntent(e, k, b, expires) ==
  /\ Readable
  /\ expires > clock
  /\ \A f \in Effects : records[f].key # k
  /\ records[e].state = "absent"
  /\ Append(e, "begin_intent",
       [state |-> "intent", key |-> k, body |-> b, created |-> clock,
        expires |-> expires, attempt |-> 1, receipt |-> NoValue,
        reason |-> NoValue])
  /\ UNCHANGED clock

MarkPending(e) ==
  /\ Readable
  /\ records[e].state \in Pendable
  /\ Append(e, "mark_pending", [records[e] EXCEPT !.state = "pending"])
  /\ UNCHANGED clock

MarkQueueAccepted(e) ==
  /\ Readable
  /\ records[e].state = "pending"
  /\ Append(e, "mark_queue_accepted",
       [records[e] EXCEPT !.state = "executed_unverified"])
  /\ UNCHANGED clock

\* Bug: the receipt's content is not compared with the intent's.
VerifyAnyContent(e, r) ==
  /\ Readable
  /\ records[e].state \in Unverified
  /\ Append(e, "verify",
       [records[e] EXCEPT !.state = "verified", !.receipt = r])
  /\ UNCHANGED clock

Verify(e, r) ==
  /\ Readable
  /\ records[e].state \in Unverified
  /\ r.body = records[e].body
  /\ Append(e, "verify",
       [records[e] EXCEPT !.state = "verified", !.receipt = r])
  /\ UNCHANGED clock

Fail(e, why) ==
  /\ Readable
  /\ records[e].state \in Failable
  /\ Append(e, "fail", [records[e] EXCEPT !.state = "failed", !.reason = why])
  /\ UNCHANGED clock

\* Bug: expire drops its deadline check, so that a live attempt can lapse.
ExpireEarly(e, now) ==
  /\ Readable
  /\ now <= clock
  /\ records[e].state \in Unverified
  /\ Append(e, "expire",
       [records[e] EXCEPT !.state = "expired", !.reason = "expired"])
  /\ UNCHANGED clock

\* now is the caller's: the instant its run began, or one of its own clock.
Expire(e, now) ==
  /\ Readable
  /\ SkewedClocks \/ now <= clock
  /\ records[e].state \in Unverified
  /\ records[e].expires < now
  /\ Append(e, "expire",
       [records[e] EXCEPT !.state = "expired", !.reason = "expired"])
  /\ UNCHANGED clock

\* Bug: a requeue carries the reason of the expiry into the new attempt.
RequeueKeepsReason(e, expires) ==
  /\ Readable
  /\ expires > clock /\ expires > records[e].created
  /\ records[e].state = "expired"
  /\ records[e].attempt < MaxAttempt
  /\ Append(e, "requeue",
       [records[e] EXCEPT !.state = "requeued", !.expires = expires,
                          !.attempt = @ + 1])
  /\ UNCHANGED clock

\* Bug: a requeue does not look at the clock.
RequeueInThePast(e, expires) ==
  /\ Readable
  /\ expires > records[e].created
  /\ records[e].state = "expired"
  /\ records[e].attempt < MaxAttempt
  /\ Append(e, "requeue",
       [records[e] EXCEPT !.state = "requeued", !.expires = expires,
                          !.attempt = @ + 1, !.reason = NoValue])
  /\ UNCHANGED clock

\* The new deadline is compared with the clock and with created_at, and not
\* with the deadline it replaces.
Requeue(e, expires) ==
  /\ Readable
  /\ expires > clock /\ expires > records[e].created
  /\ records[e].state = "expired"
  /\ records[e].attempt < MaxAttempt
  /\ Append(e, "requeue",
       [records[e] EXCEPT !.state = "requeued", !.expires = expires,
                          !.attempt = @ + 1, !.reason = NoValue])
  /\ UNCHANGED clock

-----------------------------------------------------------------------------
\* Time moves on; the wall clock may be set back.
Tick ==
  /\ \E t \in Time : /\ t # clock
                     /\ SkewedClocks \/ t = clock + 1
                     /\ clock' = t
  /\ UNCHANGED <<records, file>>

Mutate(e) ==
  \/ \E k \in Keys, b \in Bodies, x \in Time : BeginIntent(e, k, b, x)
  \/ MarkPending(e)
  \/ MarkQueueAccepted(e)
  \/ \E r \in Receipts : Verify(e, r)
  \/ \E why \in Reasons : Fail(e, why)
  \/ \E now \in Time : Expire(e, now)
  \/ \E x \in Time : Requeue(e, x)

Next == Tick \/ \E e \in Effects : Mutate(e)

Spec == Init /\ [][Next]_vars

-----------------------------------------------------------------------------
(* Correctness. *)

\* The ledger never writes a row its own replay refuses: after such a row
\* every reader and every mutator raises StateError for good.
NeverPoisoned == file # "poisoned"

\* An idempotency key names one effect (begin_intent looks it up under the
\* mutation lock, the replay refuses a second holder).
OneEffectPerKey ==
  \A e, f \in Effects :
    e # f /\ records[e].key # NoValue => records[e].key # records[f].key

\* A retry opens only after the lifetime it replaces is over, and with a later
\* deadline: a receipt of the old attempt cannot be due in the new one.
AttemptsDoNotOverlap ==
  [][\A e \in Effects :
       records[e].attempt \in 1..(records'[e].attempt - 1)
         => /\ records[e].expires < clock
            /\ records'[e].expires > records[e].expires]_vars

\* Callers see a promise settled once, by evidence about its own content.
Promised(r) == [status |-> Outcome(r.state), key |-> r.key, body |-> r.body,
                receipt |-> r.receipt]

promised == [e \in Effects |-> Promised(records[e])]

Contract == INSTANCE EffectContract WITH promise <- promised

ContractSpec == Contract!Spec
=============================================================================
