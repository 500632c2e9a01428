-------------------------------- MODULE Cadence --------------------------------
(***************************************************************************)
(* The contacts and the silence backoff of HeartbeatCadence                *)
(* (moonbite_plugin/heartbeat.py, _heartbeat/cadence.py).                  *)
(*                                                                         *)
(* One JSON file under one lock: every operation loads it, changes it and  *)
(* saves it, so that each is atomic here.  What is hard is what reaches    *)
(* it: private messages, verified deliveries and settled silences come     *)
(* late, twice and out of order, and the maps that tell them apart are     *)
(* bounded.                                                                *)
(*                                                                         *)
(* Times are minutes since some moment; Never stands for null.             *)
(***************************************************************************)
EXTENDS Integers, Sequences, FiniteSets

CONSTANTS
  Private,     \* source identifiers of private messages
  Visible,     \* effect identifiers of verified visible deliveries
  Receipts,    \* identifiers of silence receipts
  Window,      \* recent_contact_window
  FirstMinutes, RepeatMinutes, MaxMinutes,   \* the silence_backoff policy
  ContactMax,  \* PRIVATE_CONTACT_MAX and VISIBLE_CONTACT_MAX
  ReceiptMax, StreakMax,   \* SILENCE_BACKOFF_RECEIPT_MAX bounds them both
  Snoozes,     \* bound: the minutes an operator snoozes for
  MaxTime      \* bound: the last minute

\* _normalise_silence_policy, _duration and the bounds of cadence_codec.
ASSUME PolicyAssumption ==
  /\ {FirstMinutes, RepeatMinutes, MaxMinutes} \subseteq Nat \ {0}
  /\ FirstMinutes <= RepeatMinutes /\ RepeatMinutes <= MaxMinutes
  /\ Window \in Nat \ {0}
ASSUME BoundAssumption ==
  /\ ContactMax \in Nat \ {0} /\ {ReceiptMax, StreakMax} \subseteq Nat \ {0}
  /\ Snoozes \subseteq Nat \ {0} /\ MaxTime \in Nat \ {0}
ASSUME SourceAssumption ==
  /\ Private \cap Visible = {}
  /\ IsFiniteSet(Private) /\ IsFiniteSet(Visible) /\ IsFiniteSet(Receipts)

VARIABLES
  now,
  sent,       \* when each contact was observed
  ended,      \* when each silent run completed, and whether it counts
  contacts,   \* private_contacts and verified_visible_contacts
  overflow,   \* private_contact_overflow_until and its visible twin
  watermark,  \* last_private_contact_at, last_verified_visible_contact_at
  backoff,    \* automatic_cooldown_until, streak, last_completed_at
  processed,  \* silence_backoff_processed_receipts, oldest first
  heard       \* the contacts that were recorded as recent (history)

cadenceVars == <<now, sent, ended, contacts, overflow, watermark, backoff,
                 processed, heard>>
contactVars == <<contacts, overflow, watermark, heard>>

Never == 0
Sources == Private \cup Visible
Channels == {"private", "visible"}
Channel(s) == IF s \in Private THEN "private" ELSE "visible"
Of(c) == IF c = "private" THEN Private ELSE Visible

Times == 1..MaxTime
Later(a, b) == IF a > b THEN a ELSE b
NoBackoff == [until |-> Never, streak |-> 0, last |-> Never]
NotEnded == [at |-> Never, eligible |-> FALSE]

CadenceTypeOK ==
  /\ now \in Times
  /\ sent \in [Sources -> Times \cup {Never}]
  /\ ended \in [Receipts -> [at : Times \cup {Never}, eligible : BOOLEAN]]
  /\ contacts \in [Sources -> Times \cup {Never}]
  /\ \A c \in Channels :
       Cardinality({s \in Of(c) : contacts[s] # Never}) <= ContactMax
  /\ overflow \in [Channels -> Nat]
  /\ watermark \in [Channels -> Times \cup {Never}]
  /\ backoff \in [until : Nat, streak : 0..StreakMax,
                  last : Times \cup {Never}]
  /\ processed \in Seq(Receipts) /\ Len(processed) <= ReceiptMax
  /\ heard \subseteq Sources

CadenceInit ==
  /\ now = 1
  /\ sent = [s \in Sources |-> Never]
  /\ ended = [r \in Receipts |-> NotEnded]
  /\ contacts = [s \in Sources |-> Never]
  /\ overflow = [c \in Channels |-> Never]
  /\ watermark = [c \in Channels |-> Never]
  /\ backoff = NoBackoff
  /\ processed = <<>>
  /\ heard = {}

-----------------------------------------------------------------------------
(* What the state says. *)

\* recent_from_state.
Recent(c) ==
  \/ \E s \in Of(c) : contacts[s] # Never /\ contacts[s] + Window > now
  \/ overflow[c] > now

\* prune_contact_state: what an operation that saves the state first removes.
Pruned ==
  [s \in Sources |-> IF contacts[s] + Window > now THEN contacts[s] ELSE Never]
PrunedOverflow ==
  [c \in Channels |-> IF overflow[c] > now THEN overflow[c] ELSE Never]

-----------------------------------------------------------------------------
(* The world: time passes, the user writes, a delivery is verified, a        *)
(* heartbeat ends in silence.                                                *)

Tick ==
  /\ now < MaxTime
  /\ now' = now + 1
  /\ UNCHANGED <<sent, ended, contactVars, backoff, processed>>

Contact(s) ==
  /\ sent[s] = Never
  /\ sent' = [sent EXCEPT ![s] = now]
  /\ UNCHANGED <<now, ended, contactVars, backoff, processed>>

\* A silence counts if the run was a routine one that the judge approved, that
\* woke, asked for no delivery, and that nobody forced.
End(r) ==
  /\ ended[r] = NotEnded
  /\ \E eligible \in BOOLEAN :
       ended' = [ended EXCEPT ![r] = [at |-> now, eligible |-> eligible]]
  /\ UNCHANGED <<now, sent, contactVars, backoff, processed>>

-----------------------------------------------------------------------------
(* record_private_contact and record_verified_visible_contact, which may be  *)
(* called with one contact any number of times.                              *)

\* Seen in the window already: only the pruning is saved.
Repeated(s) ==
  /\ Pruned[s] # Never
  /\ contacts' = Pruned /\ overflow' = PrunedOverflow
  /\ UNCHANGED <<watermark, backoff, heard>>

Stale(s) ==
  /\ sent[s] + Window <= now
  /\ contacts' = Pruned /\ overflow' = PrunedOverflow
  /\ UNCHANGED heard

Full(c) == Cardinality({s \in Of(c) : Pruned[s] # Never}) >= ContactMax

\* Bug: the marker is that of the last contact to arrive.
SpillLast(s) ==
  LET c == Channel(s) IN
  /\ sent[s] + Window > now /\ Full(c)
  /\ contacts' = Pruned
  /\ overflow' = [PrunedOverflow EXCEPT ![c] = sent[s] + Window]
  /\ heard' = heard \cup {s}

\* No room: one expiry stands for all the contacts that found none.
Spill(s) ==
  LET c == Channel(s) IN
  /\ sent[s] + Window > now /\ Full(c)
  /\ contacts' = Pruned
  /\ overflow' = [PrunedOverflow EXCEPT ![c] = Later(@, sent[s] + Window)]
  /\ heard' = heard \cup {s}

Keep(s) ==
  /\ sent[s] + Window > now /\ ~ Full(Channel(s))
  /\ contacts' = [Pruned EXCEPT ![s] = sent[s]]
  /\ overflow' = PrunedOverflow
  /\ heard' = heard \cup {s}

\* Bug: a contact that is not recent any more leaves the backoff alone.
RecordRecentOnly(s) ==
  /\ sent[s] # Never /\ sent[s] <= now
  /\ \/ Repeated(s)
     \/ /\ Pruned[s] = Never
        /\ Stale(s) \/ Spill(s) \/ Keep(s)
        /\ watermark' = [watermark EXCEPT ![Channel(s)] = Later(@, sent[s])]
        /\ backoff' = IF sent[s] + Window > now THEN NoBackoff ELSE backoff
  /\ UNCHANGED <<now, sent, ended, processed>>

\* Any contact that is new ends the backoff, and moves the watermark if it is
\* the latest.
Record(s) ==
  /\ sent[s] # Never /\ sent[s] <= now
  /\ \/ Repeated(s)
     \/ /\ Pruned[s] = Never
        /\ Stale(s) \/ Spill(s) \/ Keep(s)
        /\ watermark' = [watermark EXCEPT ![Channel(s)] = Later(@, sent[s])]
        /\ backoff' = NoBackoff
  /\ UNCHANGED <<now, sent, ended, processed>>

-----------------------------------------------------------------------------
(* apply_silence_backoff *)

Process(r) ==
  processed' = LET all == Append(processed, r) IN
               SubSeq(all, Later(1, Len(all) - ReceiptMax + 1), Len(all))

Counted(streak, at) ==
  LET minutes == IF streak = 1 THEN FirstMinutes ELSE RepeatMinutes
      expiry == at + (IF minutes < MaxMinutes THEN minutes ELSE MaxMinutes)
  IN  [until |-> IF expiry <= backoff.until THEN backoff.until
                 ELSE IF expiry > now THEN expiry ELSE Never,
       streak |-> streak, last |-> at]

\* A silence later than the last one that counted lengthens the streak, and
\* the cooldown unless a longer one is running.
ApplySilence(r) ==
  LET streak == IF backoff.streak < StreakMax THEN backoff.streak + 1
                ELSE StreakMax
  IN backoff' = Counted(streak, ended[r].at)

AfterContact(r) == \E c \in Channels : ended[r].at <= watermark[c]

\* Bug: the identifiers alone tell repeated receipts.
CountsUnordered(r) == ~ AfterContact(r) /\ ended[r].eligible

Counts(r) ==
  ~ AfterContact(r) /\ ended[r].eligible /\ ended[r].at > backoff.last

\* A receipt that is unsettled, or whose terminals are not all known, is left
\* for a later call, as is one from the future.
Silence(r) ==
  /\ ended[r] # NotEnded
  /\ contacts' = Pruned /\ overflow' = PrunedOverflow
  /\ \/ UNCHANGED <<processed, backoff>>
     \/ /\ ended[r].at <= now
        /\ \A i \in DOMAIN processed : processed[i] # r
        /\ Process(r)
        /\ IF Counts(r) THEN ApplySilence(r) ELSE UNCHANGED backoff
  /\ UNCHANGED <<now, sent, ended, watermark, heard>>

-----------------------------------------------------------------------------
(* The operator. *)

\* snooze(manual=False).  The manual cooldown is a field of its own, which
\* nothing here reads.
Snooze ==
  /\ \E minutes \in Snoozes :
       backoff' = [backoff EXCEPT !.until = now + minutes]
  /\ UNCHANGED <<now, sent, ended, contactVars, processed>>

Resume ==
  /\ backoff' = NoBackoff
  /\ UNCHANGED <<now, sent, ended, contactVars, processed>>

CadenceNext ==
  \/ Tick \/ Snooze \/ Resume
  \/ \E s \in Sources : Contact(s) \/ Record(s)
  \/ \E r \in Receipts : End(r) \/ Silence(r)

CadenceSpec == CadenceInit /\ [][CadenceNext]_cadenceVars

-----------------------------------------------------------------------------
(* Properties. *)

\* A contact recorded in its window is seen as recent until the window closes,
\* however many contacts come and in whatever order: neither the bound of the
\* maps nor the single marker of their overflow forgets one.
ContactsStayRecent ==
  \A s \in heard : sent[s] + Window > now => Recent(Channel(s))

\* No streak outlives a contact: what it counts came after every contact known.
StreakFollowsContacts ==
  /\ CadenceTypeOK
  /\ backoff.streak > 0 =>
       \A c \in Channels : watermark[c] < backoff.last

\* A streak is never longer than the silences that earn it, however often, how
\* late and in whatever order their receipts come, and although the map forgets
\* the oldest of them.
StreakIsEarned ==
  backoff.streak <=
    Cardinality({ended[r].at : r \in {q \in Receipts :
                   /\ ended[q].eligible
                   /\ ended[q].at <= backoff.last
                   /\ \A c \in Channels : watermark[c] < ended[q].at}})

=============================================================================
