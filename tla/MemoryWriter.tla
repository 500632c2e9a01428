----------------------------- MODULE MemoryWriter -----------------------------
(***************************************************************************)
(* The receipt-backed memory writer (_memory_orchestration/writer.py) and  *)
(* the use case that writes the diary with it (_service/diary.py).         *)
(*                                                                         *)
(* A write has an effect of its own, found by its idempotency key.  It is  *)
(* claimed (read as open, then marked pending) under the claim lock, but   *)
(* the writer runs outside every lock: the host may reconcile, expire or   *)
(* requeue the effect before the writer answers, and the process may die   *)
(* at any step.  The mutators of the effect ledger are atomic here; their  *)
(* file is the subject of EffectLedger.                                    *)
(***************************************************************************)
EXTENDS EffectStates, Sequences, FiniteSets

CONSTANTS
  Callers,
  Writes,     \* idempotency keys
  Diaries,    \* those of synthesize_diary, by day, evidence references and title
              \* hint; the host submits the others
  Bodies,     \* contents: a diary's is a model's draft
  Receipts,   \* receipt identifiers of the host
  MaxAttempt, \* bound: the last attempt a requeue opens
  MaxCalls,   \* bound: how many calls a run makes
  None

\* The receipt of the local diary writer is named after its entry.
Own == "own"

ASSUME WriteAssumption ==
  /\ Writes # {} /\ Diaries \subseteq Writes
  /\ None \notin Callers \cup Writes \cup Bodies \cup Receipts \cup {Own}
  /\ MaxAttempt \in Nat \ {0} /\ MaxCalls \in Nat

VARIABLES
  effect,    \* the effect of each write
  claim,     \* who holds the claim lock
  call,      \* the state of each caller
  written,   \* the attempts each write's writer was called for
  diary,     \* the entries the diary holds of each write
  returned,  \* the entries synthesize_diary has returned
  orphaned,  \* writes whose caller died between its claim and its answer
  made       \* calls made

writerVars == <<effect, claim, call, written, diary, returned, orphaned, made>>

Effects == [state : EffectState \cup {"absent"}, body : Bodies \cup {None},
            attempt : 0..MaxAttempt,
            receipt : Receipts \cup {Own, None}]
NoEffect == [state |-> "absent", body |-> None, attempt |-> 0,
             receipt |-> None]

\* WriterRequest, and how far the call has come; "answer" is what the writer
\* gave: its receipt, whether that matches, or a queue acceptance.
Answers == {"receipt", "mismatch", "accepted", "raised"}
Calls == [pc : {"idle", "beginning", "claiming", "marking", "writing",
                "answered", "opening"},
          write : Writes, body : Bodies \cup {None}, attempt : 0..MaxAttempt,
          answer : Answers \cup {"none"},
          receipt : Receipts \cup {Own, None}]
Idle == [pc |-> "idle", write |-> CHOOSE w \in Writes : TRUE, body |-> None,
         attempt |-> 0, answer |-> "none", receipt |-> None]

TypeOK ==
  /\ effect \in [Writes -> Effects]
  /\ \A w \in Writes :
       /\ effect[w].state = "absent" <=> effect[w].body = None
       /\ effect[w].state = "verified" <=> effect[w].receipt # None
  /\ claim \in Callers \cup {None}
  /\ call \in [Callers -> Calls]
  /\ claim # None <=> \E c \in Callers : call[c].pc = "marking"
  /\ written \in [Writes -> [1..MaxAttempt -> 0..MaxCalls]]
  /\ \A w \in Writes : \E n \in 0..MaxCalls : diary[w] \in [1..n -> Bodies]
  /\ returned \subseteq Diaries \X Bodies
  /\ orphaned \subseteq Writes
  /\ made \in 0..MaxCalls

Init ==
  /\ effect = [w \in Writes |-> NoEffect]
  /\ claim = None
  /\ call = [c \in Callers |-> Idle]
  /\ written = [w \in Writes |-> [a \in 1..MaxAttempt |-> 0]]
  /\ diary = [w \in Writes |-> <<>>]
  /\ returned = {}
  /\ orphaned = {}
  /\ made = 0

-----------------------------------------------------------------------------
(* The mutators of the effect ledger, as the next state of an effect; a      *)
(* mutator that raises has none.                                             *)

Pended(e) == [e EXCEPT !.state = "pending"]
QueueAccepted(e) == [e EXCEPT !.state = "executed_unverified"]

Verified(e, r) == [e EXCEPT !.state = "verified", !.receipt = r]
Failed(e) == [e EXCEPT !.state = "failed"]

-----------------------------------------------------------------------------
(* The calls. *)

Step(c, pc) == call' = [call EXCEPT ![c].pc = pc]
Return(c) == call' = [call EXCEPT ![c] = Idle]
Mine(c) == effect[call[c].write]

Enter(c, w, b, pc) ==
  /\ call[c].pc = "idle" /\ made < MaxCalls
  /\ call' = [call EXCEPT ![c] =
                [Idle EXCEPT !.pc = pc, !.write = w, !.body = b]]
  /\ made' = made + 1
  /\ UNCHANGED <<effect, claim, written, diary, returned, orphaned>>

\* Bug: a diary whose effect awaits its receipt is opened as a replay.
SynthesizePending(c, w) ==
  IF effect[w].state \in {"absent"}
    THEN \E b \in Bodies : Enter(c, w, b, "beginning")
    ELSE /\ effect[w].state \in {"pending", "executed_unverified", "verified"}
         /\ Enter(c, w, effect[w].body, "opening")

\* synthesize_diary: what is verified is opened, what has an effect in any
\* other state is refused, and a new diary is drafted by the model.
Synthesize(c, w) ==
  IF effect[w].state = "absent"
    THEN \E b \in Bodies : Enter(c, w, b, "beginning")
    ELSE /\ effect[w].state = "verified"
         /\ Enter(c, w, effect[w].body, "opening")

\* submit_memory_write, for a write of the host.
Submit(c, w) == \E b \in Bodies : Enter(c, w, b, "beginning")

\* begin_intent: the key's effect, if its content is this one.
Begin(c) ==
  /\ call[c].pc = "beginning"
  /\ LET w == call[c].write IN
     \/ /\ effect[w].state = "absent"
        /\ effect' = [effect EXCEPT ![w] =
             [NoEffect EXCEPT !.state = "intent", !.body = call[c].body,
                              !.attempt = 1]]
        /\ Step(c, "claiming")
     \/ /\ effect[w].state # "absent"
        /\ IF effect[w].body = call[c].body THEN Step(c, "claiming")
                                            ELSE Return(c)
        /\ UNCHANGED effect
  /\ UNCHANGED <<claim, written, diary, returned, orphaned, made>>

\* The end of a handoff: the host has its record, the diary is opened if its
\* effect is verified and refused if not.
Conclude(c, state) ==
  IF call[c].write \in Diaries /\ state = "verified"
    THEN Step(c, "opening")
    ELSE Return(c)

Claimable == {"intent", "requeued"}

\* Bug: the claim is not serialised, mark_pending being idempotent.
TakeClaimFreely(c) ==
  /\ call[c].pc = "claiming"
  /\ IF Mine(c).state \in Claimable
       THEN Step(c, "marking") /\ UNCHANGED claim
       ELSE Conclude(c, Mine(c).state) /\ UNCHANGED claim
  /\ UNCHANGED <<effect, written, diary, returned, orphaned, made>>

\* Bug: a pending effect is handed off again.
TakeClaimAgain(c) ==
  /\ call[c].pc = "claiming" /\ claim = None
  /\ IF Mine(c).state \in Claimable \cup {"pending"}
       THEN Step(c, "marking") /\ claim' = c
       ELSE Conclude(c, Mine(c).state) /\ UNCHANGED claim
  /\ UNCHANGED <<effect, written, diary, returned, orphaned, made>>

\* handoff, under the claim lock: the effect is read ...
TakeClaim(c) ==
  /\ call[c].pc = "claiming" /\ claim = None
  /\ IF Mine(c).state \in Claimable
       THEN Step(c, "marking") /\ claim' = c
       ELSE Conclude(c, Mine(c).state) /\ UNCHANGED claim
  /\ UNCHANGED <<effect, written, diary, returned, orphaned, made>>

\* ... and marked pending, by a call that accepts a pending effect too.
MarkPending(c) ==
  /\ call[c].pc = "marking"
  /\ IF Mine(c).state \in Pendable \cup {"pending"}
       THEN /\ effect' = [effect EXCEPT ![call[c].write] = Pended(@)]
            /\ call' = [call EXCEPT ![c].pc = "writing",
                                    ![c].attempt = Mine(c).attempt]
       ELSE Return(c) /\ UNCHANGED effect
  /\ claim' = IF claim = c THEN None ELSE claim
  /\ UNCHANGED <<written, diary, returned, orphaned, made>>

Called(c) == written' = [written EXCEPT ![call[c].write][call[c].attempt] = @ + 1]
Answer(c, answer, receipt) ==
  call' = [call EXCEPT ![c].pc = "answered", ![c].answer = answer,
                       ![c].receipt = receipt]

\* The host's writer: a receipt, of this content or of another, an acceptance
\* that promises one, or an exception.
HostWrites(c) ==
  /\ call[c].pc = "writing" /\ call[c].write \notin Diaries
  /\ Called(c)
  /\ \/ \E a \in {"receipt", "mismatch"}, r \in Receipts : Answer(c, a, r)
     \/ \E a \in {"accepted", "raised"} : Answer(c, a, None)
  /\ UNCHANGED <<effect, claim, diary, returned, orphaned, made>>

\* local_writer appends the entry and answers with its receipt; the append may
\* raise before or after the row is in the file.
DiaryWrites(c) ==
  /\ call[c].pc = "writing" /\ call[c].write \in Diaries
  /\ Called(c)
  /\ \/ /\ diary' = [diary EXCEPT ![call[c].write] = Append(@, call[c].body)]
        /\ \/ Answer(c, "receipt", Own)
           \/ Answer(c, "raised", None)
     \/ Answer(c, "raised", None) /\ UNCHANGED diary
  /\ UNCHANGED <<effect, claim, returned, orphaned, made>>

\* fail, by the handoff: a state that takes no failure makes it raise.
Refuse(c) ==
  IF Mine(c).state \in Failable
    THEN effect' = [effect EXCEPT ![call[c].write] = Failed(@)]
    ELSE UNCHANGED effect

\* Bug: a receipt that verify refuses is dropped.
SettleQuietly(c) ==
  LET e == Mine(c) IN
  /\ call[c].pc = "answered"
  /\ \/ /\ call[c].answer = "receipt" /\ e.state \in Unverified
        /\ effect' = [effect EXCEPT ![call[c].write] =
                        Verified(e, call[c].receipt)]
        /\ Conclude(c, "verified")
     \/ /\ call[c].answer \in {"receipt", "mismatch"}
        /\ call[c].answer = "mismatch" \/ e.state \notin Unverified
        /\ Return(c) /\ UNCHANGED effect
     \/ /\ call[c].answer \in {"accepted", "raised"}
        /\ Return(c) /\ Refuse(c)
  /\ UNCHANGED <<claim, written, diary, returned, orphaned, made>>

\* The answer goes to the ledger: verify, mark_queue_accepted or fail, and fail
\* again if one of the first two raises.
Settle(c) ==
  LET e == Mine(c) IN
  /\ call[c].pc = "answered"
  /\ \/ /\ call[c].answer = "receipt" /\ e.state \in Unverified
        /\ effect' = [effect EXCEPT ![call[c].write] =
                        Verified(e, call[c].receipt)]
        /\ Conclude(c, "verified")
     \/ /\ call[c].answer = "receipt"
        /\ e.state = "verified" /\ e.receipt = call[c].receipt
        /\ Conclude(c, "verified") /\ UNCHANGED effect
     \/ /\ call[c].answer = "accepted"
        /\ e.state \in {"pending", "executed_unverified"}
        /\ effect' = [effect EXCEPT ![call[c].write] = QueueAccepted(e)]
        /\ Return(c)
     \/ /\ \/ call[c].answer \in {"raised", "mismatch"}
           \/ /\ call[c].answer = "receipt" /\ e.state \notin Unverified
              /\ e.state # "verified" \/ e.receipt # call[c].receipt
           \/ call[c].answer = "accepted"
              /\ e.state \notin {"pending", "executed_unverified"}
        /\ Refuse(c) /\ Return(c)
  /\ UNCHANGED <<claim, written, diary, returned, orphaned, made>>

\* open_verified_entry: the one entry of that name and content, or an error.
Open(c) ==
  /\ call[c].pc = "opening"
  /\ returned' = returned \cup
       {<<call[c].write, b>> : b \in
          {x \in Bodies : /\ diary[call[c].write] = <<x>>
                          /\ x = Mine(c).body}}
  /\ Return(c)
  /\ UNCHANGED <<effect, claim, written, diary, orphaned, made>>

\* The process of a call dies.
Die(c) ==
  /\ call[c].pc # "idle"
  /\ Return(c)
  /\ claim' = IF claim = c THEN None ELSE claim
  /\ orphaned' = IF call[c].pc \in {"writing", "answered"}
                   THEN orphaned \cup {call[c].write} ELSE orphaned
  /\ UNCHANGED <<effect, written, diary, returned, made>>

-----------------------------------------------------------------------------
(* The host, meanwhile. *)

\* reconcile_memory_write, with a receipt of the effect's content.
Reconcile(w) ==
  \E r \in Receipts :
    /\ effect[w].state \in Unverified
    /\ effect' = [effect EXCEPT ![w] = Verified(@, r)]
    /\ UNCHANGED <<claim, call, written, diary, returned, orphaned, made>>

\* The deadline of an attempt passes and the owner of the ledger says so; for
\* a diary nobody does.
Expire(w) ==
  /\ w \notin Diaries /\ effect[w].state \in Unverified
  /\ effect' = [effect EXCEPT ![w].state = "expired"]
  /\ UNCHANGED <<claim, call, written, diary, returned, orphaned, made>>

Requeue(w) ==
  /\ effect[w].state = "expired" /\ effect[w].attempt < MaxAttempt
  /\ effect' = [effect EXCEPT ![w].state = "requeued", ![w].attempt = @ + 1]
  /\ UNCHANGED <<claim, call, written, diary, returned, orphaned, made>>

Next ==
  \/ \E c \in Callers :
       \/ \E w \in Diaries : Synthesize(c, w)
       \/ \E w \in Writes \ Diaries : Submit(c, w)
       \/ Begin(c) \/ TakeClaim(c) \/ MarkPending(c)
       \/ HostWrites(c) \/ DiaryWrites(c) \/ Settle(c) \/ Open(c) \/ Die(c)
  \/ \E w \in Writes : Reconcile(w) \/ Expire(w) \/ Requeue(w)

Spec == Init /\ [][Next]_writerVars

-----------------------------------------------------------------------------
(* Properties. *)

\* A diary entry is written once under its idempotency key, whoever asks for it
\* at once, again or after a crash: append_diary would take a second row under
\* the same entry_id, and every read of the diary would then raise.
DiaryOnce == \A w \in Diaries : Len(diary[w]) <= 1

\* The writer is called once per attempt at most: the claim is exclusive.
OneWriterPerAttempt ==
  \A w \in Writes : \A a \in 1..MaxAttempt : written[w][a] <= 1

\* An answer of the writer never leaves its effect pending: only an attempt
\* whose caller is at work, or died at work, is.
PendingHasAnOwner ==
  /\ TypeOK
  /\ \A w \in Writes : effect[w].state = "pending" =>
       \/ w \in orphaned
       \/ \E c \in Callers : /\ call[c].pc \in {"writing", "answered"}
                             /\ call[c].write = w

\* synthesize_diary returns an entry only once its effect is verified, and
\* only the entry of that content.
ReturnedIsVerified ==
  \A p \in returned : /\ effect[p[1]].state = "verified"
                      /\ effect[p[1]].body = p[2]
                      /\ diary[p[1]] = <<p[2]>>

=============================================================================
