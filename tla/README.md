# Moonbite in TLA+

Specifications of Moonbite (`src/`), a companion runtime that lives inside a
host agent: it decides when to contact somebody (Heartbeat), what to do on its
own (Autonomy), what to remember and what to show, and it keeps all of this in
append-only JSONL files and small JSON files below one directory.  Several
processes of one host work on that directory at the same time: scheduled ticks,
hook callbacks of sessions, command line calls and the host's own reports about
what became of an effect.  None of them is trusted to finish what it began.

## 1. The system

| Component | State it keeps | Operations | What makes it correct |
|---|---|---|---|
| JSONL files and locks (`runtime_core.py`) | one file, one lock file per ledger | append, rows, get_or_append, record_audit_terminal, file locks | an append is a row or nothing; a terminal is written once per occurrence |
| Effect ledger (`effects.py`) | `effects.jsonl`: intent to outcome of every outward effect | begin_intent, mark_pending, mark_queue_accepted, verify, fail, expire, requeue, lookups | the file always replays; one effect per idempotency key; an effect is confirmed once, by evidence about the promised content; retries do not overlap |
| Heartbeat (`heartbeat.py`, `_heartbeat/`) | effect plan, marker per effect, terminal audit | run, reconcile_heartbeat_delivery, reconcile_heartbeat_wake | a sink is called at most once per effect; intents before calls; terminals that are true; settled work is reported |
| Cadence (`_heartbeat/cadence*.py`) | contacts, silence backoff, quotas, anchors, markers | record contacts and silences, gates, snooze, resume | a recent contact is never forgotten; a silence streak is earned, and broken by a contact |
| Controls (`control.py`) | `controls.jsonl`: put, clear, consume, expire | put, clear, consume, expire, resolve, evaluate_gate | one winner per feature; a consumed control never comes back |
| Autonomy (`autonomy.py`, `_autonomy/`) | run audit, controls, effects | run_once, reconcile, fail | one provider call per occurrence; terminal equals ledger; `play_next` is consumed for verified work |
| Session lifecycle (`session.py`) | `session_lifecycle.jsonl` | hooks of the host, ends, child stop, shutdown, finalize, abandon | one open turn; a turn ends once and in one way; two accounts of an end agree |
| Conversation checkpoints (`_conversation/`) | `conversation_bridge.jsonl`: cycles of a conversation | observe, request_checkpoint, reconcile | cycles follow the session; a requested checkpoint is frozen; none is asked for over an unanswered message |
| Panel (`panel.py`) | `panel.json` with an outbox of bus events | set_field, consume, rollover, migrate, afterglow | a projection reaches the bus once and is never lost; once-consumption; no day is reopened |
| Memory exposure (`_memory_orchestration/`) | `memory_orchestration.jsonl` | retrieve, choose, select, open, expose, use, consume | caps and cooldowns; what is quoted is what was opened |
| Memory writer and diary (`_memory_orchestration/writer.py`, `_service/diary.py`) | an effect per write, a claim lock | begin, claim, call, settle; synthesize_diary | one writer per attempt; one diary row per idempotency key; an entry returned is verified |
| Memory store and maintenance (`memory.py`, `maintenance.py`) | cards, proposals, history, approvals | add_card, propose, classify, approve, apply; cached views | every read goes on computing; nothing sensitive unapproved; no stale cache |
| Incidents, observations, plugin, configuration | none | decisions, projections, wiring, validation | see section 9 |

**How they interact.** All effects of all components go through the effect
ledger, and every mutator of it decides and appends under one lock.  A
component's own files have locks of their own, so one operation of Heartbeat or
Autonomy is a *sequence* of separately atomic writes, and any other actor can
come between two of them: the host settles effects through the reconcile calls
without holding the lock that serializes runs.  The conversation bridge reads
three files of which it writes one; memory calls read a source and record it
under locks taken one after the other; hooks and receipts come late, twice, out
of order or never.  That, and death between two writes, is where this code is
hard; `PROJECT.json` lists the places as hazards, each with the properties that
would catch it.

## 2. Modules

| Module | Models | Composed from |
|---|---|---|
| `EffectStates` | the states of an effect and the transition table of the replay | |
| `EffectContract` | what callers may rely on, in three actions | |
| `EffectLedger` | the ledger over its file, with crashes and clocks | `EffectStates`; refines `EffectContract` |
| `Heartbeat` | an occurrence from Judge to terminal, with the host's reconcile calls | `EffectStates` |
| `Cadence` | contacts and silence backoff, over bounded maps | |
| `Autonomy` | occurrences of Autonomy with the controls that admit them and the host's calls | `EffectStates` |
| `SessionLifecycle` | the turns of a session under the host's hooks | |
| `ConversationBridge` | the checkpoint bridge beside the session store and the effect ledger | `SessionLifecycle`, `EffectStates` |
| `Panel` | the daily values of several owners, and their projections on the bus | |
| `MemoryExposure` | overlapping calls that plan, open and show memory | |
| `MemoryWriter` | the receipt-backed writer and the diary on top of it | `EffectStates` |
| `MemoryMaintenance` | cards, proposals, approvals and the views readers cache | |
| `*_proofs` | theorems about every module above but the first two; those about `Cadence` are in `Heartbeat_proofs`, those about `SessionLifecycle` in `ConversationBridge_proofs` | the module, `TLAPS` |
| `MC*` | symmetry sets and constant functions for TLC | the module |

In every module one action is one call that is atomic in the code (it holds its
lock from its first read to its write), or one such stretch of a longer call.
Calls that raise, or find their work done, change nothing and are stuttering.
The type invariant, where the run does not list it by itself, is the first
conjunct of a property named below.

### EffectLedger

`records` is the result of `_replay()`; `file` says whether another replay
would succeed.  Each action is one mutator of `class EffectLedger` under
`effects.mutation.lock`: its guard is the code's checks, and `Append` is the
write.  Calls that raise or find their work done change nothing and are
stuttering.  The point of the module is that *the mutator and the replay check
different things*: the mutators do not consult the transition table, the replay
does (`_fold_effect_row`), so `Append` asks `Accepted` and the file becomes
`poisoned` when the answer is no.  `_append_unlocked` writes in a loop and may
die in it: after a row without its newline the file still replays
(`unterminated`), but the next row lands on the same line (`garbled`); a shorter
prefix is `torn`.  `expire` takes its caller's `now`; `SkewedClocks` lets it run
ahead of the ledger's clock, and lets that clock step back.

### Heartbeat

Four durable things and who writes them:

| Variable | Code | Written by |
|---|---|---|
| `ledger`, `reason` | `effects.jsonl` | runs and reconcile calls |
| `plan` | effect plan in the cadence file | runs, once (`ensure_effect_plan`) |
| `marker` | `effect_terminals` in the cadence file | runs and reconcile calls (`record_effect_terminal`) |
| `audit` | canonical terminal of the occurrence | runs (`_finish`), reconcile calls (`record_settled_occurrence_terminal`) |

`run[r]` is the program counter of one `run` call with its local variables:
`seen` and `due` are the markers and the clock it read at the start, `todo` the
effects still to handle.  `host[e]` is the same for a reconcile call: it writes
ledger, marker and terminal in three steps.  One action is one write, or one
read whose result is used after somebody else may have written.  `Lapse` is time:
the effects of an occurrence are past their deadline.  `RunCrashes` and
`HostCrashes` kill a call between two writes.

`OptionalIntent` says what kind of sink the host has bound: one whose third
parameter has a default can be called with and without the intent, and `invoke`
does both if the first call raises `TypeError` or `ValueError`.

The effect ledger appears in `Heartbeat` and `Autonomy` as its state machine
alone; that every row it appends replays is what `EffectLedger` is about.

### Autonomy

An explicit occurrence (a source event with its epoch) has one effect, found
again by `_find_by_occurrence`.  All of `run_once` happens under
`autonomy_execution`, so there is one `run` at a time; `host[o]` is a reconcile
or fail call, which takes no lock.  The protocol differs from Heartbeat's: a run
first settles every effect that is past its expiry, of any occurrence
(`SettleExpired`, `ReportExpired`); work that was started is never started
again but left to the host (`Resume`); an intent that is refused keeps its
occurrence open, except where the refusal is an `active_chat` fact that is no
Boolean (`DeclineIntent`); and a `play_next` control is consumed once an
effect is verified, if it is the one the effect is bound to.  The binding is not
stored with the effect: it is the first control an audit row of the effect
names (`bound`, `bound_control_id`), whoever writes that row.  `control` has a
slot per source and feature, by priority; every actor reads the gate at its
start and acts on it until its end.  `under` and `consumed` record, for the
properties alone, which control an effect was started under and which were
consumed for it.

### Cadence

`contacts`, `overflow`, `watermark`, `backoff` and `processed` are the fields of
the state file under the names of the code; every operation loads, prunes,
changes and saves it under one lock, so each is one action: `Record` (private
messages and verified visible deliveries), `Silence`, `Snooze`, `Resume`.
`Contact` and `End` are the world: a message is sent, a silent run completes;
when the cadence hears of it, and how often, is another matter.  Full maps are
where it is hard: a contact that finds the map full leaves only the instant
until which *some* contact is recent (`Spill`), and the list that recognises
repeated receipts forgets the oldest (`Process`).  `heard` records, for a
property alone, which contacts were recent when they were recorded.

### SessionLifecycle and ConversationBridge

`turn[t]` is what a replay of `session_lifecycle.jsonl` says of a turn: unknown,
open, completed, or the reason it was abandoned for.  The actions are the
methods of `SessionLifecycleStore` that hooks and host ends reach.  Several
append two rows, the terminal of a turn and the callback; they check everything
before the first, and each has a disjunct in which the process dies in between
(`DiesBetweenRows`).

`ConversationBridge` extends it.  A hook that recorded its callback hands a
receipt over after the session's lock is released: `receipts` are on their way
and may be lost, repeated (`RepeatHook`, with a snapshot of the session as it is
by then) and overtaken.  `cycles` is the replay of the bridge's file, `Observe`
what a receipt does to it.  `request_checkpoint` has three steps, for it touches
two files: the gate (`AllowCheckpoint`), the effect (`BeginCheckpoint`) and the
row (`RecordRequest`); it holds the bridge's lock throughout, which is why
`request` is one variable, and may die between any two.  `HostSettles` moves the
effect through the ledger, `Reconcile` records what became of it.

### Panel

`fields`, `outbox`, `epoch` and `ownerEpoch` are the file, which is replaced
atomically; `bus` is a bag, so that an event emitted twice shows.  `busy` is the
projection that the holder of `panel.lock` is delivering: it has been written
with the field (`WriteWith`), is emitted unless the bus has it (`Emit`), and is
removed by a second write (`Compact`).  `DeliveryFails` is death or a refusal in
between, `Conflict` the exception for an event the bus holds with another
content.  Observation times are given by the source, may run ahead by `Skew`,
and an event may be written late; an event in `Restamped` has a new time in
every call.  `BackUp` and `Migrate` are the two writes of `migrate_v1`.

### MemoryExposure, MemoryWriter, MemoryMaintenance

`MemoryExposure`: `ledger` has a record per source and turn; `call[c]` is a call
of `expose_query` with what it read earlier.  It retrieves, considers candidates
one by one against their cooldown, then for each of its plan selects, reads,
opens (outside the lock: the content may have changed, the source may have
expired) and exposes, each under the lock but not all under one.

`MemoryWriter`: `effect[w]` is the effect of a write under its idempotency key.
A call begins or finds it, takes the claim lock (`claim`), marks it pending, and
calls the writer outside every lock; then it settles what the host may have
settled already.  `synthesize_diary` is the same protocol with a local writer
that appends to `diary`.  A diary entry is identified by its day, its sorted
evidence references and its title hint; the same day with other references or
another hint is another entry, which the diary holds and reads as well.  The
append has no duplicate check of its own, so that the protocol is all that keeps
an identity to one row; a second one under the same `entry_id` would make every
read of the diary raise.  `written`, `returned` and `orphaned` are kept for the
properties.

`MemoryMaintenance`: three append-only files of the store (`cards`, `history`,
`proposals`) and the approvals of the facade.  A proposal is stored first and
classified afterwards, by the first call that registers it (`Register`);
`announced` records, for a property alone, which proposals a call was told
await approval.  A merge or a distill names the cards it is about, those its new
card is related to, and the status that card is born with.  `Computable` is
every check by which a read of the memory raises; the mutators check less, or
earlier.  A reader without a lock takes the signature and the files in three
steps and caches what it made of them.

## 3. What the runs show

| Run | Question | Answer |
|---|---|---|
| `EffectLedger` | two effects contend for two keys over expiries and a retry, and the process may die inside any append: is the file ever poisoned by its own rows, do attempts overlap, is the ledger what callers take it for? | no (`NeverPoisoned`), no (`AttemptsDoNotOverlap`), yes (`ContractSpec`, `OneEffectPerKey`) |
| `Heartbeat` | two runs of one occurrence, the host in between, two crashes: is a sink called twice, or before all intents are durable; does a terminal or a marker claim what the ledger does not have? | no (`AtMostOneCall`, `IntentsBeforeCalls`), no (`ClaimsAreTrue`, `MarkersFollowLedger`) |
| `HeartbeatQueue` | two occurrences run by two processes: are both ever undecided at once? | never (`OnePendingOccurrence`) |
| `HeartbeatProgress` | does a settled occurrence get its terminal, whatever call was cut short? | yes (`SettledIsReported`), under the fairness of section 6 |
| `Autonomy` | an occurrence under two controls, host reports right, wrong, late and repeated, one crash: one provider call, true terminals, controls consumed for verified work, and does work that lapses get a terminal? | yes to all (`LapsedIsReported` under the fairness of section 6) |
| `Conversation` | two turns under every order of hooks and ends, receipts late, twice or never, one death: is one turn open at most, does a turn end once, do its accounts agree, does the bridge follow, are checkpoints frozen and asked for only over answered messages? | yes to all |
| `Panel` | writes, consumptions, rollovers and a migration with a bus that fails in between: is a projection emitted twice or lost, a consumed value offered again, a day or value set back, an owner touched by another's rollover? | no to all |
| `MemoryExposure` | calls that overlap: is the cap exceeded, does the prompt quote what was not opened, is a cooldown broken? | no; no; only by a call that had planned before the last exposure (`OnlyOverlapsBreakCooldown`) |
| `MemoryWriter` | two callers and a host that settles meanwhile: is a diary entry written twice under its key, a writer called twice in an attempt, an effect left pending by nobody, an unverified entry returned? | no to all |
| `MemoryMaintenance` | interleaved proposals that may die half way: does every read go on computing, is anything applied unapproved that the adapter classified as sensitive or a proposer was told awaits approval, is a cache stale, does anything superseded come back? | yes; no to the rest |
| `Cadence` | contacts and silences late, twice and out of order, every map full: is a recent contact forgotten, does a streak outlive a contact or exceed its silences? | no to all |
| `UnreadableBridge` | do the rows the bridge wrote always replay? | no, a finding (section 4) |

What the true terminals leave out is on purpose: in both engines *failed* may be
recorded for an effect the ledger has verified, when the host settles it before
the run's own write (`AnswerAccepted` looks again, `ProviderAccepts` does not).
Recovery then reports a conflict and changes nothing; the ledger stays the
owner of the truth.  In Autonomy it may also be recorded over an effect that
is still open: when the effect cannot be looked up (`Check`), or when an
`active_chat` fact over an unexecuted intent is no Boolean (`DeclineIntent`).
Later runs of the occurrence then stop at `Check`, and the effect itself ends by
the host or by its expiry.

`PROJECT.json` names for every property of a passing run a mutation of one
definition that breaks it (the operators marked "Bug:" in the modules).

## 4. Where code and documents disagree

`UnreadableBridge` is the one finding that is run.  The bridge documents that
every public read replays its file, but a `checkpoint_requested` row is refused
if *another* checkpoint is active in the effect ledger when the file is read,
not when the row was written.  A first checkpoint expires, a second cycle asks
for its own, the host requeues the first: every read of that conversation now
raises until that effect is settled.

The others are stated in the modules, each with the line it contradicts, and
come out by checking the definition named here under the configuration given.

| Definition | Configuration | What happens |
|---|---|---|
| `EffectLedger!NeverPoisoned` | `EffectLedger.cfg` with `SkewedClocks = TRUE` | `expire` is given a `now` ahead of the ledger's clock; the requeue that follows has a deadline the replay refuses, and the file does not replay any more.  Keys stay unique and the contract holds all the same, as the theorems show |
| `Heartbeat!EarlyReceiptSettlesNothing` | `Heartbeat.cfg` | a receipt for one of two effects meets a run that still has the older marker, and the failed terminal it records is the occurrence's |
| `Heartbeat!AtMostOneCall` | `Heartbeat.cfg` with `OptionalIntent = TRUE` | a sink whose intent parameter is optional raises `TypeError` from its own body and is called again without it |
| `Heartbeat!NoCallAfterTerminal` | `Heartbeat.cfg`, only where the first run left no plan | a duplicate that looked for the terminal before the lock was free judges again and may call |
| `Autonomy!ConsumedByItsOwnEffect` | `Autonomy.cfg` | a control put after an effect was started is bound to it by the host's report, and consumed |
| `ConversationBridge!RetriesAreSafe` | `Conversation.cfg` | the receipt of a settled turn is lost; repeated after the next message, it carries a snapshot with an open turn and is refused |
| `Panel!DailyEndsWithItsDay` | `Panel.cfg` | an owner's snapshot shows the daily values of its last day until it writes or rolls over |

Besides, a contact that the cadence's map does not hold, because it was full or
the window is over, is new each time it is delivered, and ends the silence
backoff again, silences later than the contact included (`Record` in `Cadence`);
no document says otherwise.

## 5. Bounds

No run uses a state constraint: `MaxTime`, `MaxAttempt`, `MaxCalls`,
`MaxCrashes` and their like are guards, named in the modules.  Deadlock is
checked in `Cadence`, whose operator can always snooze or resume; elsewhere
a run ends when its bounds are used up or all work has its terminal.

* `EffectLedger`: two effects and two keys (a clash needs two of each), two
  contents (a receipt for the wrong one), times 0..3 and two attempts: create,
  expire, requeue and expire again fit.
* `Heartbeat`: one occurrence has all its interleavings with two runs (the
  holder of the lock and the one that looked too early), two effects and two
  crashes, so that recovery itself is interrupted.  Two occurrences are needed
  only for the global queue, where one kind of effect and no crash keep the
  space small.  Occurrences share nothing else.
* `Autonomy`: one occurrence, two control slots and two puts (a control and its
  replacement, or one that overrides the other), one crash.
* `Conversation`: two turns (one to supersede or follow the other, in cycles of
  their own), one receipt on its way at a time (it can be overtaken by any other
  step, and lost or repeated), a window of one instant that passes or does not,
  one death between two rows.
* `Panel`: one field that two events and a version 1 file compete for, and one
  of another owner that is consumed once, over two days with a clock one
  instant ahead; a value lives longer than a day, so that both ends occur.
* `MemoryExposure`: two overlapping calls in each of two turns, three sources (a
  brief one, a newer one that expires, one the policy refuses), a cap and a
  budget below their number, two contents.
* `MemoryWriter`: a diary entry and a host's write, two callers, two attempts and four
  calls: begin, die, begin again and collide.
* `MemoryMaintenance`: two cards that are added and one that proposals make, two
  requests, two callers, four calls and one cached read.  An added card has one
  relation or predecessor at most (`MaxLinks`), a merge or a distill names two
  cards at most besides its own, as evidence or relations (`MaxNamed`); those that
  rows relate to are the two added ones, and cards are born live.  This is enough
  for two successors of one card and for a card superseded under a proposal.  The
  theorems hold for any of these, so also where any card may be added and related
  to, and born historical or archived.
* `Cadence`: maps of one entry, so that the second contact spills and the third
  meets a marker; a receipt list of one, so that a repeated receipt may have
  been forgotten; three minutes with a window of two.

## 6. Fairness

`HeartbeatProgress` assumes weak fairness of `Continue(r)`, a sink answers and a
call that has begun goes on unless it crashes (the code waits for nothing else:
every lock is held for one write, `heartbeat_execution` is only tried), and of
`Enter` for every occurrence, the host runs an occurrence again while it has no
terminal, which is what its scheduler does with a non-terminal result.  Nothing
is assumed of the host's reports.

`Autonomy` assumes weak fairness of `Continue` for the same reason, and strong
fairness of `Begin` for an occurrence without a terminal: ticks of
others may hold the lock when it is tried, but ticks are far apart compared with
runs, so one of them finds it free.

The other components promise nothing in the end: a diary entry that died half way, an
intent that never became pending and a requeued Heartbeat effect have no step in
the code that resumes them (hazards without a property in `PROJECT.json`).

## 7. What is proved

All for every value of the constants, so for any number of effects, occurrences,
runs, turns, messages and crashes.  The named assumptions of the modules are all
that is assumed; TLC evaluates them in every run.

**`EffectLedger_proofs`.**  `TypeCorrect` and `KeysAreUnique`, whatever the
clocks do; `ReplayNeverPoisoned` and `RetriesDoNotOverlap`, when there is one
clock; `LedgerImplementsContract`, the refinement.  Unique keys are inductive by
themselves, because `begin_intent` looks the key up under the lock.
`NeverPoisoned` is not: that a requeue is accepted by the replay needs its
deadline to exceed the previous one, while the mutator compares it with the
clock.  The missing link is `LapsedIsOver`, a record in state expired has a
deadline the clock has already passed; it holds because `expire` compares with
`now`, and breaks exactly when `now` may run ahead.

**`Heartbeat_proofs`.**  `ClaimsAreAlwaysTrue`, `IntentsAlwaysFirst`,
`PendingIsAlwaysSerialized`, `MarkersAlwaysFollow`, and `CalledAtMostOnce` for
sinks that take their intent.  None of the invariants is inductive: they are
about files that a run writes on the strength of what it read before.  `IInv`
adds what the run that holds the lock knows at each point (`Holds`: in
*prepare* nothing was called yet; in *execute* what it has still to do is an
untouched intent, and every pending effect is of its own occurrence; what it is
about to mark or report is true), that only this run is beyond its entry
(`LockInv`), that the host's open reports are true (`HostInv`), and that nothing
is done for an effect before it is planned (`PlanFirst`).  The argument has two
halves.  What the files say survives every step under which the ledger only
*advances*: settled and requeued effects stay as they are
(`AdvancingKeepsFiles`).  And the host, which does not take the lock, only
settles what is unverified, which `Holds` never relies on
(`ReportKeepsInvariant`).

`RowsAlwaysFollowTable` uses the same invariant: no run and no report of the
host ever asks the ledger for a row that its replay would refuse.  This also
justifies the one action of the model that writes without looking, `Requeue`.

The `Cadence` theorems at its end, `ContactsAlwaysRecent`,
`StreakAlwaysFollowsContacts` and `StreakAlwaysEarned`, hold for maps of any
capacity.  That a channel is *recent* is not inductive, since the contact that
makes it so may age sooner than another one; `ContactsAreHeld` says of each
contact that the map holds it or the overflow marker outlives it.  For the
streak the invariant counts the instants at which silences completed that come
after every contact; a silence adds one only if it is later than all it has
counted, which is why forgetting a receipt does no harm.

**`ConversationBridge_proofs`.**  `AtMostOneOpenTurn`, `EndsAlwaysAgree`,
`OutcomesStayFinal` of the session; `BridgeAlwaysFollowsSession`,
`CheckpointsStayFrozen`, `IntentsStayAnswered` of the bridge.  `SessionInv` is
inductive under the session's callbacks alone.  The bridge needs in addition
that a receipt on its way says something true of the session, now and later
(`ReceiptsAreTrue`, since an outcome is final), and that what the gate of a
checkpoint saw still holds while the request is open (`RequestHolds`, since
whoever would change the cycle needs the lock).  That cycles are at most two per
turn is a counting argument (`CyclesAreBounded`): none is empty and no two share
an event.

**`Autonomy_proofs`.**  `ProviderCalledOnce`, `TerminalsAlwaysTrue`,
`OnlyVerifiedConsumes`.  Between the ledger's mutators a run and the host's calls
interleave freely, and each writes down later what it learned before.  That this
is still true then is the invariant (`RunInv`, `HostInv`), and it is kept because
the ledger only *advances*: what is settled stays settled with its reason, and
what was pended is never an intent again.  The provider is called only from the
step that ends the intent, so once.  That a row is never contradicted needs, of
a `skipped` one, that its effect has not begun.

**`MemoryWriter_proofs`.**  `DiaryWrittenOnce`, `WriterCalledOnce`,
`NoAnswerIsLost`, `OnlyVerifiedReturned`.  The claim lock is released before the
writer runs, so it does not by itself keep two writers apart.  The invariant
says of an attempt that is open to a caller (its effect is an intent, or
requeued) that no writer was called for it nor is any about to be
(`EffectInv`, `CallHolds`, `WritersInv`); ending that needs the lock, and only a
requeue, which counts the attempt on, brings it back.  A diary entry's effect is
never requeued, so it has one attempt, and the diary one row of it.  `WritesKeepContract` is a
second refinement of `EffectContract`, by the ledger's user this time: caller
and host, whatever they interleave, give a write one content, verify it by a
receipt for this content only, and leave alone what is settled.

**`MemoryMaintenance_proofs`.**  `ViewsAlwaysCompute`, `SensitiveNeedsApproval`,
`CacheNeverStale`, `NothingComesBack`.  The files only *grow*: a card that is
known keeps its row, and at most one card comes with a step.
`SensitiveNeedsApproval` covers what the adapter classifies as sensitive, and
what a proposer was told awaits approval.  It does not cover a proposer's own
`approval_required` before it is registered: the store keeps no classification
with the proposal, so if that call dies, or is overtaken by another proposer of
the same request, the other's classification stands; the overtaken call raises,
and no document says that its wish survives it.  That the views go
on computing needs that an event is about cards that were there and free when it
was appended, which the lock and the checks of `apply` give.  The cache's
signature counts what has grown: if it is still current after the reader has
computed, nothing was appended in between (`ReaderInv`, `CacheInv`).

**`Panel_proofs`.**  `BusHoldsOne`, `NothingUntold`, `ConsumedStaysGone`,
`DaysGoForward`, `RolloverIsOwn`.  Of a projection, either the bus or the outbox
always knows (`Told`): it enters the outbox in the write that changes the field,
leaves it only when the bus has it, and the bus forgets nothing.  What is told
to be consumed is still in its field as consumed, or its event is of a day its
owner has left (`GoneInv`).  `ConsumedStaysGone` has a hypothesis of its own,
`Stamped`: a daily consume-once event is given its time by its source, and not
anew by the clock in every call.  It is needed.  With such an event in
`Restamped` TLC finds the run `SetField`, `Consume`, a day passes, `Rollover`,
`SetField`: the same event offers its value again, on another day.  No document
promises otherwise, so the run `Panel` keeps to sources that stamp; its other
restamped events are covered by the other theorems, which do not assume it.

**`MemoryExposure_proofs`.**  `CapAlwaysHolds`, `PromptQuotesTheShown`,
`CooldownsAlwaysKept`.  What was opened keeps its content and what was shown
keeps its instant, whatever overlaps (`Grows`), so what a call has read of an
exposure outside every lock is still true when it acts on it (`CallHolds`).  A
cooldown it found over when it planned was over then, hence only a call that had
planned before the source was shown can break it.  The cap alone may be used up
meanwhile, and is counted again under the lock.

**Assumptions.**  They are what the code fixes or what naming requires: names
that stand for "none" name nothing else, slots are ordered, policies are positive
numbers, there is at least one turn or occurrence.  `CalledAtMostOnce` assumes
sinks that take their intent, `ReplayNeverPoisoned` and `RetriesDoNotOverlap` one
clock, `ConsumedStaysGone` sources that stamp; each hypothesis is one without
which TLC finds the property violated.

**Only model-checked**: the two liveness properties, `SettledIsReported` and
`LapsedIsReported`.  They rest on fairness, hence on `ENABLED`, which the prover
does not handle.

## 8. Plan

Done: the modules of section 2, and the proofs of section 7, which cover every
invariant, action property and refinement that a passing run checks.  Left, most
important first.

1. Proofs: `Autonomy` and the bridge as users of `EffectContract`, as
   `MemoryWriter` is; terminals of `Heartbeat` and `Autonomy` that stay what they
   are; that an approved memory proposal is applied once.
2. `Cadence`: anchors, judge times and the manual cooldown; the eviction of
   effect markers, with the recovery that then asks the ledger.
3. `Controls` proper: a file of rows, with the race of `expire`.
4. `Panel`: values that never expire, and the activity afterglow.
5. Incidents as operators checked against a reference definition.

## 9. What is not modelled

* Heartbeat plans written before closed plans existed (`_legacy` paths), the
  neutral probe that runs without a lock because it writes nothing, and I/O
  errors that raise without ending the process: a crash at the same place
  leaves the same files.  Cadence gates appear there as their verdict
  (`Decline`), as do provider limits and weights in Autonomy.
* Cadence: manual cooldown, anchors, judge times, the private replies of
  `observe_private_reply`, eviction of effect markers and migrations of its file.
* Panel: values that never expire and the activity afterglow.
* Memory: maintenance evidence that names diary entries instead of cards; search,
  recall, ranking, rendering and external stores, which change
  nothing durable.
* Incidents (`incidents.py`): a decision over a list of events and a cursor that
  nothing in `src/` stores.
* Read-only projections (`observer.py`, `observations.py`, lock-free views of
  ledgers): they change nothing durable.  Where they cache, they are modelled.
* Configuration, doctor, scenarios: sequential code over static input.  Service
  and plugin: wiring; what the host may call is the environment of the modules.
