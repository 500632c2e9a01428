---------------------------- MODULE MemoryExposure ----------------------------
(***************************************************************************)
(* What a session has been shown of its memory: the exposure ledger        *)
(* (memory_orchestration.jsonl), the policy that plans exposures and the   *)
(* calls of MemoryOrchestrator.expose_query that record them.              *)
(*                                                                         *)
(* Every append replays the ledger under the mutation lock, yet a call     *)
(* plans from earlier reads and opens its sources outside the lock, so two *)
(* calls of one session (of one turn, even) overlap.  A call that raises   *)
(* leaves what it recorded and gives the prompt nothing.                   *)
(***************************************************************************)
EXTENDS Integers, Sequences, FiniteSets

CONSTANTS
  Callers,     \* threads that call expose_query for the session
  Turns,       \* turn_index of the session's turns
  Sources,
  Brief,       \* sources of a self-brief class
  Denied,      \* sources whose class the continuity policy refuses
  Described,   \* sources whose candidates carry a content descriptor
  SourceTime,  \* [Sources -> source_event_time]
  ExpiresAt,   \* [Sources -> expires_at]
  Contents,
  Replies,
  Quoted,      \* bound: the sources that replies are recorded to use
  MaxPerSession, \* the exposure cap
  ResultBudget,
  Cooldown,
  MaxTime,     \* bound: the last instant a run reaches
  MaxCalls,    \* bound: how many calls a run makes
  Original,    \* the content a descriptor names
  None

ASSUME SourceAssumption ==
  /\ Brief \cup Denied \cup Described \cup Quoted \subseteq Sources
  /\ SourceTime \in [Sources -> Nat] /\ ExpiresAt \in [Sources -> Nat]
  /\ Original \in Contents /\ None \notin Contents \cup Replies
ASSUME PolicyAssumption ==
  /\ MaxPerSession \in Nat \ {0} /\ ResultBudget \in Nat \ {0}
  /\ Turns \subseteq Nat /\ Turns # {} /\ Cooldown \in Nat /\ MaxTime \in Nat
  /\ MaxCalls \in Nat

VARIABLES
  clock,
  ledger, \* the replayed ledger: a record per exposure of a source in a turn
  call,   \* the state of each caller
  made    \* calls made

exposureVars == <<clock, ledger, call, made>>

Exposures == Turns \X Sources
NoTime == -1
Instants == 0..MaxTime

\* EXPOSURE_STATES and _EXPOSURE_TRANSITIONS.
ExposureStates == {"selected", "opened", "exposed", "used", "consumed",
                   "failed_to_open"}
Succeeded == {"exposed", "used", "consumed"}
Transitions == {<<"none", "selected">>, <<"selected", "opened">>,
                <<"selected", "failed_to_open">>, <<"opened", "exposed">>,
                <<"exposed", "used">>, <<"used", "consumed">>}

\* An exposure as ExposureRecord holds it, with the instants at which its
\* source was found to be cool and at which it was exposed.
ExposureRecords == [state : ExposureStates \cup {"none"},
                    content : Contents \cup {None},
                    reply : Replies \cup {None},
                    planned : Instants \cup {NoTime},
                    at : Instants \cup {NoTime}]
Unselected == [state |-> "none", content |-> None, reply |-> None,
               planned |-> NoTime, at |-> NoTime]

\* The calls: what remains to consider and to expose, what the call last read
\* of the exposure it opens, and what it will hand to the prompt.
Calls == [pc : {"idle", "choosing", "selecting", "reading", "opening",
                "exposing"},
          turn : Turns, pool : SUBSET Sources, room : 0..ResultBudget,
          plan : UNION {[1..n -> Sources \X Instants] : n \in 0..ResultBudget},
          stale : ExposureStates \cup {"none"},
          expected : Contents \cup {None}, got : Contents \cup {None},
          given : SUBSET (Sources \X Contents)]
Idle == [pc |-> "idle", turn |-> CHOOSE t \in Turns : TRUE, pool |-> {},
         room |-> 0, plan |-> <<>>, stale |-> "none", expected |-> None,
         got |-> None, given |-> {}]

TypeOK ==
  /\ clock \in Instants
  /\ ledger \in [Exposures -> ExposureRecords]
  /\ \A e \in Exposures :
       /\ ledger[e].state \in Succeeded \cup {"opened"} =>
            ledger[e].content # None
       /\ ledger[e].reply # None => ledger[e].state \in {"used", "consumed"}
       /\ ledger[e].state = "consumed" => ledger[e].reply # None
  /\ call \in [Callers -> Calls]
  /\ made \in 0..MaxCalls

Init ==
  /\ clock = 0
  /\ ledger = [e \in Exposures |-> Unselected]
  /\ call = [c \in Callers |-> Idle]
  /\ made = 0

-----------------------------------------------------------------------------
(* The plan: SourceRegistry.retrieve and ExposurePolicy.choose. *)

Prior == {e \in Exposures : ledger[e].state \in Succeeded}
Count == Cardinality(Prior)

\* On the first turn the sources that brief; later those newer than anything
\* shown; failing either, whatever was retrieved.
Pool(turn, incoming) ==
  LET brief == incoming \cap Brief
      delta == {s \in incoming :
                  \A e \in Prior : SourceTime[s] > SourceTime[e[2]]}
      wanted == IF turn = 0 THEN brief ELSE delta
  IN  IF wanted # {} THEN wanted ELSE incoming

Smaller(m, n) == IF m < n THEN m ELSE n

\* The retriever offers what it likes, in an order it likes: an order is which
\* candidate of the pool is considered next.
Retrieve(c) ==
  \E turn \in Turns, incoming \in SUBSET Sources :
    /\ call[c].pc = "idle" /\ made < MaxCalls
    /\ Count < MaxPerSession
    /\ call' = [call EXCEPT ![c] =
         [Idle EXCEPT !.pc = "choosing", !.turn = turn,
                      !.pool = Pool(turn, incoming),
                      !.room = Smaller(MaxPerSession - Count, ResultBudget)]]
    /\ made' = made + 1
    /\ UNCHANGED <<clock, ledger>>

Exposed(s) == {e \in Exposures : e[2] = s /\ ledger[e].at # NoTime}
Cool(s) == \A e \in Exposed(s) : clock - ledger[e].at >= Cooldown

\* Bug: every candidate is taken for cool.
ConsiderWarm(c) ==
  \E s \in call[c].pool :
    /\ call[c].pc = "choosing" /\ call[c].room > 0
    /\ s \notin Denied
    /\ call' = [call EXCEPT ![c].pool = @ \ {s}, ![c].room = @ - 1,
                            ![c].plan = Append(@, <<s, clock>>)]
    /\ UNCHANGED <<clock, ledger, made>>

\* One candidate of the pool, whose cooldown last_exposure_at decides.
Consider(c) ==
  \E s \in call[c].pool :
    /\ call[c].pc = "choosing" /\ call[c].room > 0
    /\ s \notin Denied
    /\ call' = [call EXCEPT
         ![c].pool = @ \ {s},
         ![c].room = IF Cool(s) THEN @ - 1 ELSE @,
         ![c].plan = IF Cool(s) THEN Append(@, <<s, clock>>) ELSE @]
    /\ UNCHANGED <<clock, ledger, made>>

\* A class the policy does not authorise ends the call.
Deny(c) ==
  /\ call[c].pc = "choosing" /\ call[c].room > 0
  /\ call[c].pool \cap Denied # {}
  /\ call' = [call EXCEPT ![c] = Idle]
  /\ UNCHANGED <<clock, ledger, made>>

Plan(c) ==
  /\ call[c].pc = "choosing"
  /\ call[c].room = 0 \/ call[c].pool = {}
  /\ call' = [call EXCEPT ![c].pc = "selecting"]
  /\ UNCHANGED <<clock, ledger, made>>

-----------------------------------------------------------------------------
(* The exposures: MemoryOrchestrator.expose_candidates and open_selected. *)

Source(c) == Head(call[c].plan)[1]
Exposure(c) == <<call[c].turn, Source(c)>>
Current(c) == ledger[Exposure(c)]

\* A caller's call has raised, the process that made it included.
Raise(c) == call' = [call EXCEPT ![c] = Idle]

Descriptor(s) == IF s \in Described THEN Original ELSE None

\* record_selected: a selection of the turn is found again, if its content is
\* what the candidate describes.
Select(c) ==
  /\ call[c].pc = "selecting" /\ call[c].plan # <<>>
  /\ IF Current(c).state = "none"
       THEN /\ ledger' = [ledger EXCEPT ![Exposure(c)].state = "selected",
                            ![Exposure(c)].content = Descriptor(Source(c))]
            /\ call' = [call EXCEPT ![c].pc = "reading"]
       ELSE /\ IF Current(c).content \in {None, Descriptor(Source(c))}
                 THEN call' = [call EXCEPT ![c].pc = "reading"]
                 ELSE Raise(c)
            /\ UNCHANGED ledger
  /\ UNCHANGED <<clock, made>>

\* open_selected takes the candidate it opens from the exposure as it reads it.
Read(c) ==
  /\ call[c].pc = "reading"
  /\ IF Current(c).state = "failed_to_open"
       THEN Raise(c)
       ELSE call' = [call EXCEPT ![c].pc = "opening",
                                 ![c].stale = Current(c).state,
                                 ![c].expected = Current(c).content]
  /\ UNCHANGED <<clock, ledger, made>>

\* record_open_failed, whether it records, repeats or refuses: the call is over.
FailOpen(c) ==
  /\ Raise(c)
  /\ ledger' = IF call[c].stale = "selected" /\ Current(c).state = "selected"
                 THEN [ledger EXCEPT ![Exposure(c)].state = "failed_to_open"]
                 ELSE ledger

\* The opener finds nothing, the source has expired or is not as described.
OpenMissing(c) ==
  /\ call[c].pc = "opening"
  /\ FailOpen(c)
  /\ UNCHANGED <<clock, made>>

Fresh(s) == clock < ExpiresAt[s]

Opened(c, content) ==
  /\ ledger' = [ledger EXCEPT ![Exposure(c)].state = "opened",
                              ![Exposure(c)].content = content]
  /\ call' = [call EXCEPT ![c].pc = "exposing", ![c].got = content]

\* Bug: a repeated opening is not compared with the first.
OpenAgain(c) ==
  \E content \in Contents :
    /\ call[c].pc = "opening" /\ Fresh(Source(c))
    /\ call[c].expected \in {None, content}
    /\ \/ Current(c).state = "selected" /\ Opened(c, content)
       \/ /\ Current(c).state \in Succeeded \cup {"opened"}
          /\ call' = [call EXCEPT ![c].pc = "exposing", ![c].got = content]
          /\ UNCHANGED ledger
    /\ UNCHANGED <<clock, made>>

\* exact_open returns a content and record_opened records it, unless another
\* call of the turn has opened the source otherwise, or failed to.
Open(c) ==
  \E content \in Contents :
    /\ call[c].pc = "opening" /\ Fresh(Source(c))
    /\ call[c].expected \in {None, content}
    /\ \/ /\ Current(c).state = "selected"
          /\ Opened(c, content)
       \/ /\ Current(c).state \in Succeeded \cup {"opened"}
          /\ IF Current(c).content = content
               THEN call' = [call EXCEPT ![c].pc = "exposing",
                                         ![c].got = content]
               ELSE Raise(c)
          /\ UNCHANGED ledger
       \/ /\ Current(c).state = "failed_to_open"
          /\ FailOpen(c)
    /\ UNCHANGED <<clock, made>>

\* The exposure is done: its material is part of what the call returns.
Add(c) ==
  call' = [call EXCEPT ![c].pc = "selecting", ![c].plan = Tail(@),
                       ![c].given = @ \cup {<<Source(c), call[c].got>>}]

Record(c) ==
  /\ ledger' = [ledger EXCEPT ![Exposure(c)].state = "exposed",
                              ![Exposure(c)].planned = Head(call[c].plan)[2],
                              ![Exposure(c)].at = clock]
  /\ Add(c)

\* Bug: the cap is the plan's, which was made before other calls' exposures.
ExposePlanned(c) ==
  /\ call[c].pc = "exposing"
  /\ \/ Current(c).state \in Succeeded /\ Add(c) /\ UNCHANGED ledger
     \/ Current(c).state = "opened" /\ Record(c)
  /\ UNCHANGED <<clock, made>>

\* record_exposed counts the session's exposures again, under the lock.
Expose(c) ==
  /\ call[c].pc = "exposing"
  /\ \/ Current(c).state \in Succeeded /\ Add(c) /\ UNCHANGED ledger
     \/ Current(c).state = "opened" /\ Count < MaxPerSession /\ Record(c)
     \/ Current(c).state = "opened" /\ Count >= MaxPerSession
        /\ Raise(c) /\ UNCHANGED ledger
  /\ UNCHANGED <<clock, made>>

\* The plan is done: memory_prompt_context quotes what was exposed.
Give(c) ==
  /\ call[c].pc = "selecting" /\ call[c].plan = <<>>
  /\ call' = [call EXCEPT ![c] = Idle]
  /\ UNCHANGED <<clock, ledger, made>>

\* The opener raises something else, or the process dies.
Interrupt(c) ==
  /\ call[c].pc = "opening" \/ call[c].pc = "exposing"
  /\ Raise(c)
  /\ UNCHANGED <<clock, ledger, made>>

-----------------------------------------------------------------------------
(* The replies. *)

\* record_used; the evidence of the reply may come later.
Use(e) ==
  \E r \in Replies \cup {None} :
    /\ ledger[e].state = "exposed" /\ e[2] \in Quoted
    /\ ledger' = [ledger EXCEPT ![e].state = "used", ![e].reply = r]
    /\ UNCHANGED <<clock, call, made>>

\* record_consumed.
Consume(e) ==
  \E r \in Replies :
    /\ ledger[e].state = "used" /\ ledger[e].reply \in {None, r}
    /\ ledger' = [ledger EXCEPT ![e].state = "consumed", ![e].reply = r]
    /\ UNCHANGED <<clock, call, made>>

Tick ==
  /\ clock < MaxTime
  /\ clock' = clock + 1
  /\ UNCHANGED <<ledger, call, made>>

Next ==
  \/ \E c \in Callers :
       \/ Retrieve(c) \/ Consider(c) \/ Deny(c) \/ Plan(c)
       \/ Select(c) \/ Read(c) \/ OpenMissing(c) \/ Open(c) \/ Expose(c)
       \/ Give(c) \/ Interrupt(c)
  \/ \E e \in Exposures : Use(e) \/ Consume(e)
  \/ Tick

Spec == Init /\ [][Next]_exposureVars

-----------------------------------------------------------------------------
(* Properties. *)

\* However many calls plan at once, the session is never shown more than its
\* cap: record_exposed counts under the lock.
CapHolds == Count <= MaxPerSession

\* What a call hands to the prompt is what the ledger says was shown, to the
\* content: another call of the turn may have opened the source first.
MaterialMatches ==
  /\ TypeOK
  /\ \A c \in Callers : \A g \in call[c].given :
       LET e == <<call[c].turn, g[1]>>
       IN  ledger[e].state \in Succeeded /\ ledger[e].content = g[2]

\* A source is shown again within its cooldown only by a call that had planned
\* it before it was last shown.
OnlyOverlapsBreakCooldown ==
  \A s \in Sources : \A d, e \in Exposed(s) :
    \/ d = e
    \/ ledger[d].at > ledger[e].at
    \/ ledger[e].at - ledger[d].at >= Cooldown
    \/ ledger[e].planned <= ledger[d].at

=============================================================================
