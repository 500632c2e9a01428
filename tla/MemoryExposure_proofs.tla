------------------------- MODULE MemoryExposure_proofs -------------------------
(***************************************************************************)
(* Proofs about MemoryExposure, for any callers, turns and sources, any    *)
(* cap, budget and cooldown, and any number of calls.                      *)
(*                                                                         *)
(* What was opened keeps its content and what was shown keeps its instant, *)
(* whatever overlaps (Grows).  So what a call has read of an exposure, and *)
(* what it found of a cooldown when it planned, is still true when it acts *)
(* on it (CallHolds); only the cap may be exhausted meanwhile, and is      *)
(* counted again under the lock.                                           *)
(***************************************************************************)
EXTENDS MemoryExposure, FiniteSetTheorems, TLAPS

Known == Succeeded \cup {"opened"}

Stages == {"idle", "choosing", "selecting", "reading", "opening", "exposing"}
CallTypes == [pc : Stages,
              turn : Turns, pool : SUBSET Sources, room : 0..ResultBudget,
              plan : Seq(Sources \X Instants),
              stale : ExposureStates \cup {"none"},
              expected : Contents \cup {None}, got : Contents \cup {None},
              given : SUBSET (Sources \X Contents)]

\* The types, but for the length of a plan.
Types ==
  /\ clock \in Instants
  /\ ledger \in [Exposures -> ExposureRecords]
  /\ call \in [Callers -> CallTypes]
  /\ made \in 0..MaxCalls

\* A record has what its state promises.
WellFormed(r) ==
  /\ r.state \in Known => r.content # None
  /\ r.reply # None => r.state \in {"used", "consumed"}
  /\ r.state = "consumed" => r.reply # None
  /\ r.at # NoTime <=> r.state \in Succeeded
  /\ r.state \in Succeeded => r.planned <= r.at /\ r.at <= clock

LedgerInv == \A e \in Exposures : WellFormed(ledger[e])

\* What was shown is counted, up to the cap.
CapInv == IsFiniteSet(Prior) /\ CapHolds

\* Source s was cool at t, but for what has been shown since.
WasCool(s, t) ==
  /\ t <= clock
  /\ \A d \in Exposed(s) : t - ledger[d].at >= Cooldown \/ t <= ledger[d].at

\* What a call holds of its plan, and of what it is going to hand on.
PlanHolds(plan, room) ==
  /\ Len(plan) + room <= ResultBudget
  /\ \A i \in 1..Len(plan) : WasCool(plan[i][1], plan[i][2])
GivenHolds(turn, given) ==
  \A g \in given : /\ ledger[<<turn, g[1]>>].state \in Succeeded
                   /\ ledger[<<turn, g[1]>>].content = g[2]

\* What a call knows between two of its steps.
CallHolds(c) ==
  /\ PlanHolds(call[c].plan, call[c].room)
  /\ GivenHolds(call[c].turn, call[c].given)
  /\ call[c].pc \in {"reading", "opening", "exposing"} => call[c].plan # <<>>
  /\ call[c].pc = "exposing" =>
       Current(c).state \in Known /\ Current(c).content = call[c].got

CallInv == \A c \in Callers : CallHolds(c)

\* The inductive invariant.
IInv ==
  /\ Types
  /\ LedgerInv /\ CapInv /\ OnlyOverlapsBreakCooldown
  /\ CallInv

\* What no step undoes.
Grows ==
  /\ clock' >= clock
  /\ \A e \in Exposures :
       /\ ledger[e].state \in Known =>
            ledger'[e].state \in Known /\ ledger'[e].content = ledger[e].content
       /\ ledger[e].state \in Succeeded =>
            ledger'[e].state \in Succeeded /\ ledger'[e].at = ledger[e].at
       /\ ledger'[e].at = ledger[e].at \/ ledger'[e].at = clock

\* A step of the ledger that shows nothing new.
Quiet ==
  /\ clock \in Instants /\ clock' \in Instants /\ clock' >= clock
  /\ ledger' \in [Exposures -> ExposureRecords]
  /\ \A e \in Exposures :
       /\ ledger'[e].at = ledger[e].at /\ ledger'[e].planned = ledger[e].planned
       /\ (ledger'[e].state \in Succeeded) = (ledger[e].state \in Succeeded)
       /\ ledger[e].state \in Known =>
            ledger'[e].state \in Known /\ ledger'[e].content = ledger[e].content
       /\ ledger'[e].state \in Known => ledger'[e].content # None
       /\ ledger'[e].reply # None => ledger'[e].state \in {"used", "consumed"}
       /\ ledger'[e].state = "consumed" => ledger'[e].reply # None

\* What a step leaves of the ledger.
Kept ==
  Grows /\ LedgerInv' /\ CapInv' /\ OnlyOverlapsBreakCooldown'

-----------------------------------------------------------------------------
(* Types. *)

LEMMA TimeParts ==
  /\ Instants \subseteq Nat /\ NoTime = -1 /\ NoTime \notin Instants
  /\ Cooldown \in Nat /\ ResultBudget \in Nat /\ MaxPerSession \in Nat
BY PolicyAssumption DEF Instants, NoTime

LEMMA RecordParts ==
  ASSUME NEW r \in ExposureRecords
  PROVE  /\ r.state \in ExposureStates \cup {"none"}
         /\ r.content \in Contents \cup {None} /\ r.reply \in Replies \cup {None}
         /\ r.planned \in Instants \cup {NoTime} /\ r.at \in Instants \cup {NoTime}
         /\ r.planned \in Int /\ r.at \in Int
<1>1. /\ r.state \in ExposureStates \cup {"none"}
      /\ r.content \in Contents \cup {None} /\ r.reply \in Replies \cup {None}
      /\ r.planned \in Instants \cup {NoTime} /\ r.at \in Instants \cup {NoTime}
  BY DEF ExposureRecords
<1>2. Instants \cup {NoTime} \subseteq Int
  BY TimeParts
<1> QED
  BY <1>1, <1>2

LEMMA HeldParts ==
  ASSUME Types, NEW e \in Exposures
  PROVE  /\ ledger[e] \in ExposureRecords
         /\ ledger[e].planned \in Int /\ ledger[e].at \in Int
BY RecordParts DEF Types

LEMMA IdleParts == Idle \in CallTypes
<1>1. (CHOOSE t \in Turns : TRUE) \in Turns
  BY PolicyAssumption
<1>2. <<>> \in Seq(Sources \X Instants)
  OBVIOUS
<1>3. 0 \in 0..ResultBudget
  BY TimeParts
<1> QED
  BY <1>1, <1>2, <1>3 DEF Idle, CallTypes, Stages

LEMMA AppendParts ==
  ASSUME NEW S, NEW p \in Seq(S), NEW x \in S
  PROVE  /\ Len(p) \in Nat /\ Len(Append(p, x)) = Len(p) + 1
         /\ Append(p, x)[Len(p) + 1] = x
         /\ \A i \in 1..Len(p) : Append(p, x)[i] = p[i]
OBVIOUS

LEMMA TailParts ==
  ASSUME NEW S, NEW p \in Seq(S), p # <<>>
  PROVE  /\ Tail(p) \in Seq(S) /\ Len(p) \in Nat /\ Len(Tail(p)) = Len(p) - 1
         /\ \A i \in 1..Len(Tail(p)) : i + 1 \in 1..Len(p) /\ Tail(p)[i] = p[i + 1]
         /\ 1 \in 1..Len(p) /\ Head(p) = p[1]
OBVIOUS

\* The type invariant bounds a plan by the budget.
LEMMA ImpliesTypeOK ==
  ASSUME IInv
  PROVE  TypeOK
<1>1. ASSUME NEW c \in Callers
      PROVE  call[c] \in Calls
  <2> DEFINE s == call[c]
  <2>1. /\ s \in CallTypes /\ s.plan \in Seq(Sources \X Instants)
        /\ s.room \in 0..ResultBudget /\ Len(s.plan) + s.room <= ResultBudget
    BY DEF IInv, Types, CallTypes, CallInv, CallHolds, PlanHolds
  <2>2. Len(s.plan) \in 0..ResultBudget
    BY <2>1, TimeParts
  <2>3. s.plan \in [1..Len(s.plan) -> Sources \X Instants]
    BY <2>1
  <2>4. s.plan \in UNION {[1..n -> Sources \X Instants] : n \in 0..ResultBudget}
    BY <2>2, <2>3
  <2> HIDE DEF s
  <2>5. s \in Calls
    BY <2>1, <2>4 DEF Calls, CallTypes, Stages
  <2> QED
    BY <2>5 DEF s
<1>2. call \in [Callers -> Calls]
  BY <1>1 DEF IInv, Types
<1>3. ASSUME NEW e \in Exposures
      PROVE  /\ ledger[e].state \in Succeeded \cup {"opened"} =>
                  ledger[e].content # None
             /\ ledger[e].reply # None => ledger[e].state \in {"used", "consumed"}
             /\ ledger[e].state = "consumed" => ledger[e].reply # None
  BY DEF IInv, LedgerInv, WellFormed, Known
<1> QED
  BY <1>2, <1>3 DEF TypeOK, IInv, Types

LEMMA ImpliesMaterialMatches ==
  ASSUME IInv
  PROVE  MaterialMatches
BY ImpliesTypeOK DEF MaterialMatches, IInv, CallInv, CallHolds, GivenHolds

-----------------------------------------------------------------------------
(* Steps of the ledger. *)

LEMMA QuietKeeps ==
  ASSUME IInv, Quiet
  PROVE  Kept
<1>1. Grows
  BY DEF Quiet, Grows
<1>2. LedgerInv'
  <2> SUFFICES ASSUME NEW e \in Exposures
               PROVE  WellFormed(ledger[e])'
    BY DEF LedgerInv
  <2>1. WellFormed(ledger[e])
    BY DEF IInv, LedgerInv
  <2>2. ledger[e].at \in Int /\ clock \in Int /\ clock' \in Int
    BY HeldParts, TimeParts DEF IInv, Quiet
  <2> QED
    BY <2>1, <2>2 DEF WellFormed, Quiet
<1>3. Prior' = Prior
  BY DEF Prior, Quiet
<1>4. CapInv'
  BY <1>3 DEF CapInv, CapHolds, Count, IInv
<1>5. OnlyOverlapsBreakCooldown'
  BY DEF OnlyOverlapsBreakCooldown, Exposed, Quiet, IInv
<1> QED
  BY <1>1, <1>2, <1>4, <1>5 DEF Kept

\* What was opened is shown, if the plan found it cool and the cap admits it.
LEMMA RecordingKeeps ==
  ASSUME IInv, NEW e \in Exposures, NEW t \in Instants,
         ledger[e].state = "opened", WasCool(e[2], t), Count < MaxPerSession,
         ledger' \in [Exposures -> ExposureRecords], clock' = clock,
         ledger'[e].state = "exposed", ledger'[e].content = ledger[e].content,
         ledger'[e].reply = ledger[e].reply,
         ledger'[e].planned = t, ledger'[e].at = clock,
         \A x \in Exposures \ {e} : ledger'[x] = ledger[x]
  PROVE  Kept
<1>1. /\ WellFormed(ledger[e]) /\ ledger[e].at = NoTime
      /\ clock \in Nat /\ t \in Nat /\ t <= clock /\ clock # NoTime
  BY TimeParts DEF IInv, LedgerInv, WellFormed, Types, WasCool, Succeeded
<1>2. Grows
  BY <1>1 DEF Grows, Known, Succeeded
<1>3. LedgerInv'
  <2> SUFFICES ASSUME NEW x \in Exposures
               PROVE  WellFormed(ledger[x])'
    BY DEF LedgerInv
  <2>1. CASE x = e
    BY <1>1, <2>1 DEF WellFormed, Known, Succeeded
  <2>2. CASE x # e
    BY <2>2 DEF WellFormed, IInv, LedgerInv
  <2> QED
    BY <2>1, <2>2
<1>4. CapInv'
  <2>1. Prior' = Prior \cup {e}
    BY DEF Prior, Succeeded
  <2>2. IsFiniteSet(Prior) /\ Cardinality(Prior) \in Nat
    BY FS_CardinalityType DEF IInv, CapInv
  <2>3. IsFiniteSet(Prior') /\ Cardinality(Prior') <= Cardinality(Prior) + 1
    <3>1. IsFiniteSet(Prior \cup {e})
      BY <2>2, FS_AddElement
    <3>2. Cardinality(Prior \cup {e}) =
            IF e \in Prior THEN Cardinality(Prior) ELSE Cardinality(Prior) + 1
      BY <2>2, FS_AddElement
    <3> QED
      BY <2>1, <2>2, <3>1, <3>2
  <2>4. Cardinality(Prior') \in Nat
    BY <2>3, FS_CardinalityType
  <2>5. Cardinality(Prior') <= MaxPerSession
    BY <2>2, <2>3, <2>4, TimeParts DEF Count
  <2> QED
    BY <2>3, <2>5 DEF CapInv, CapHolds, Count
<1>5. OnlyOverlapsBreakCooldown'
  <2> SUFFICES ASSUME NEW s \in Sources, NEW d \in Exposed(s)',
                      NEW f \in Exposed(s)', d # f
               PROVE  \/ ledger'[d].at > ledger'[f].at
                      \/ ledger'[f].at - ledger'[d].at >= Cooldown
                      \/ ledger'[f].planned <= ledger'[d].at
    BY DEF OnlyOverlapsBreakCooldown
  <2>1. d \in Exposures /\ f \in Exposures /\ d[2] = s /\ f[2] = s
    BY DEF Exposed
  <2>2. CASE d # e /\ f # e
    BY <2>1, <2>2 DEF OnlyOverlapsBreakCooldown, Exposed, IInv
  <2>3. CASE f = e
    <3>1. ledger'[d] = ledger[d] /\ d \in Exposed(e[2])
      BY <2>1, <2>3 DEF Exposed
    <3>2. t - ledger[d].at >= Cooldown \/ t <= ledger[d].at
      BY <3>1 DEF WasCool
    <3>3. ledger[d].at \in Int
      BY <2>1, HeldParts DEF IInv
    <3> QED
      BY <1>1, <2>3, <3>1, <3>2, <3>3, TimeParts
  <2>4. CASE d = e
    <3>1. ledger'[f] = ledger[f] /\ ledger[f].at # NoTime
      BY <2>1, <2>4 DEF Exposed
    <3>2. ledger[f].planned <= ledger[f].at /\ ledger[f].at <= clock
      BY <2>1, <3>1 DEF IInv, LedgerInv, WellFormed
    <3>3. ledger[f].planned \in Int /\ ledger[f].at \in Int
      BY <2>1, HeldParts DEF IInv
    <3> QED
      BY <1>1, <2>4, <3>1, <3>2, <3>3
  <2> QED
    BY <2>2, <2>3, <2>4
<1> QED
  BY <1>2, <1>3, <1>4, <1>5 DEF Kept

\* What was cool stays so, but for what is shown.
LEMMA CoolnessLasts ==
  ASSUME Types, Types', LedgerInv, Grows, NEW s, NEW t \in Int, WasCool(s, t)
  PROVE  WasCool(s, t)'
<1>1. clock \in Int /\ clock' \in Int /\ clock' >= clock
  BY TimeParts DEF Types, Grows
<1>2. ASSUME NEW d \in Exposed(s)'
      PROVE  t - ledger'[d].at >= Cooldown \/ t <= ledger'[d].at
  <2>1. d \in Exposures /\ d[2] = s
    BY DEF Exposed
  <2>2. CASE ledger'[d].at = ledger[d].at
    <3>1. d \in Exposed(s)
      BY <2>1, <2>2 DEF Exposed
    <3> QED
      BY <2>2, <3>1 DEF WasCool
  <2>3. CASE ledger'[d].at = clock
    BY <2>3 DEF WasCool
  <2> QED
    BY <2>1, <2>2, <2>3 DEF Grows
<1> QED
  BY <1>1, <1>2 DEF WasCool

\* A plan stays cool and what is to be handed on stays shown.
LEMMA PlanLasts ==
  ASSUME Types, Types', LedgerInv, Grows
  PROVE  \A plan \in Seq(Sources \X Instants), room \in 0..ResultBudget :
           PlanHolds(plan, room) => PlanHolds(plan, room)'
<1> SUFFICES ASSUME NEW plan \in Seq(Sources \X Instants),
                    NEW room \in 0..ResultBudget,
                    PlanHolds(plan, room), NEW i \in 1..Len(plan)
             PROVE  WasCool(plan[i][1], plan[i][2])'
  BY DEF PlanHolds
<1>1. plan[i] \in Sources \X Instants
  OBVIOUS
<1>2. plan[i][2] \in Instants
  BY <1>1
<1>3. plan[i][2] \in Int
  <2>1. \A t \in Instants : t \in Int
    BY TimeParts
  <2> QED
    BY <1>2, <2>1
<1>4. WasCool(plan[i][1], plan[i][2])
  BY DEF PlanHolds
<1> QED
  BY <1>3, <1>4, CoolnessLasts

LEMMA GivenLasts ==
  ASSUME Types, Grows
  PROVE  \A turn \in Turns, given \in SUBSET (Sources \X Contents) :
           GivenHolds(turn, given) => GivenHolds(turn, given)'
<1> SUFFICES ASSUME NEW turn \in Turns,
                    NEW given \in SUBSET (Sources \X Contents),
                    GivenHolds(turn, given), NEW g \in given
             PROVE  /\ ledger'[<<turn, g[1]>>].state \in Succeeded
                    /\ ledger'[<<turn, g[1]>>].content = g[2]
  BY DEF GivenHolds
<1>1. <<turn, g[1]>> \in Exposures
  BY DEF Exposures
<1>2. /\ ledger[<<turn, g[1]>>].state \in Succeeded
      /\ ledger[<<turn, g[1]>>].content = g[2]
  BY DEF GivenHolds
<1> QED
  BY <1>1, <1>2 DEF Grows, Known

-----------------------------------------------------------------------------
(* Steps of the calls. *)

\* The parts of a call and of the exposure it is about.
LEMMA CallParts ==
  ASSUME Types, CallInv, NEW c \in Callers
  PROVE  /\ call[c] \in CallTypes /\ CallHolds(c)
         /\ call[c].turn \in Turns /\ call[c].room \in 0..ResultBudget
         /\ call[c].pool \in SUBSET Sources
         /\ call[c].plan \in Seq(Sources \X Instants)
         /\ call[c].given \in SUBSET (Sources \X Contents)
         /\ call[c].got \in Contents \cup {None}
         /\ call[c].plan # <<>> =>
              /\ Head(call[c].plan) \in Sources \X Instants
              /\ Source(c) \in Sources /\ Exposure(c) \in Exposures
              /\ Head(call[c].plan)[2] \in Instants
<1>1. call[c] \in CallTypes /\ CallHolds(c)
  BY DEF Types, CallInv
<1>2. /\ call[c].turn \in Turns /\ call[c].room \in 0..ResultBudget
      /\ call[c].pool \in SUBSET Sources
      /\ call[c].plan \in Seq(Sources \X Instants)
      /\ call[c].given \in SUBSET (Sources \X Contents)
      /\ call[c].got \in Contents \cup {None}
  BY <1>1 DEF CallTypes
<1>3. ASSUME call[c].plan # <<>>
      PROVE  /\ Head(call[c].plan) \in Sources \X Instants
             /\ Source(c) \in Sources /\ Exposure(c) \in Exposures
             /\ Head(call[c].plan)[2] \in Instants
  <2>1. Head(call[c].plan) \in Sources \X Instants
    BY <1>2, <1>3
  <2>2. Head(call[c].plan)[1] \in Sources /\ Head(call[c].plan)[2] \in Instants
    BY <2>1
  <2> QED
    BY <1>2, <2>1, <2>2 DEF Source, Exposure, Exposures
<1> QED
  BY <1>1, <1>2, <1>3

\* A call that goes on with the same plan, and hands on the same.
LEMMA GoingOn ==
  ASSUME IInv, Types', Grows, NEW c \in Callers,
         call'[c].turn = call[c].turn, call'[c].room = call[c].room,
         call'[c].plan = call[c].plan, call'[c].given = call[c].given,
         call'[c].pc \in {"reading", "opening", "exposing"} =>
           call[c].plan # <<>>,
         call'[c].pc = "exposing" =>
           /\ ledger'[Exposure(c)].state \in Known
           /\ ledger'[Exposure(c)].content = call'[c].got
  PROVE  CallHolds(c)'
<1>1. /\ call[c].plan \in Seq(Sources \X Instants)
      /\ call[c].given \in SUBSET (Sources \X Contents)
      /\ call[c].turn \in Turns /\ CallHolds(c)
      /\ call[c].room \in 0..ResultBudget
  BY CallParts DEF IInv
<1>2. PlanHolds(call[c].plan, call[c].room)'
  <2>1. PlanHolds(call[c].plan, call[c].room)
    BY <1>1 DEF CallHolds
  <2>2. \A plan \in Seq(Sources \X Instants), room \in 0..ResultBudget :
          PlanHolds(plan, room) => PlanHolds(plan, room)'
    BY PlanLasts DEF IInv
  <2> QED
    BY <1>1, <2>1, <2>2
<1>3. GivenHolds(call[c].turn, call[c].given)'
  <2>1. GivenHolds(call[c].turn, call[c].given)
    BY <1>1 DEF CallHolds
  <2>2. \A turn \in Turns, given \in SUBSET (Sources \X Contents) :
          GivenHolds(turn, given) => GivenHolds(turn, given)'
    BY GivenLasts DEF IInv
  <2> QED
    BY <1>1, <2>1, <2>2
<1>4. Exposure(c)' = Exposure(c)
  BY DEF Exposure, Source
<1> QED
  BY <1>2, <1>3, <1>4 DEF CallHolds, Current

\* A call that does not move knows what it knew.
LEMMA OthersHold ==
  ASSUME IInv, Types', Grows, NEW c \in Callers, call'[c] = call[c]
  PROVE  CallHolds(c)'
<1>1. /\ CallHolds(c)
      /\ call[c].plan # <<>> => Exposure(c) \in Exposures
  BY CallParts DEF IInv
<1>2. call[c].pc = "exposing" =>
        /\ ledger'[Exposure(c)].state \in Known
        /\ ledger'[Exposure(c)].content = call[c].got
  BY <1>1 DEF CallHolds, Current, Grows
<1> QED
  BY <1>1, <1>2, GoingOn DEF CallHolds

\* What the call of c, the only one that moves, owes.
CallMoves(c) ==
  /\ call' \in [Callers -> CallTypes] /\ made' \in 0..MaxCalls
  /\ \A d \in Callers \ {c} : call'[d] = call[d]
  /\ CallHolds(c)'

LEMMA CallMovesKeep ==
  ASSUME IInv, Kept, NEW c \in Callers, CallMoves(c),
         clock' \in Instants, ledger' \in [Exposures -> ExposureRecords]
  PROVE  IInv'
<1>1. Types'
  BY DEF Types, CallMoves
<1>2. ASSUME NEW d \in Callers
      PROVE  CallHolds(d)'
  <2>1. CASE d = c
    BY <2>1 DEF CallMoves
  <2>2. CASE d # c
    BY <1>1, <2>2, OthersHold DEF CallMoves, IInv, Kept
  <2> QED
    BY <2>1, <2>2
<1> QED
  BY <1>1, <1>2 DEF IInv, CallInv, Kept

LEMMA CallsStayKeep ==
  ASSUME IInv, Kept, UNCHANGED <<call, made>>,
         clock' \in Instants, ledger' \in [Exposures -> ExposureRecords]
  PROVE  IInv'
<1>1. Types'
  BY DEF Types, IInv
<1>2. ASSUME NEW d \in Callers
      PROVE  CallHolds(d)'
  BY <1>1, OthersHold DEF IInv, Kept
<1> QED
  BY <1>1, <1>2 DEF IInv, CallInv, Kept

\* A ledger that stays as it is, is a quiet one.
LEMMA SameLedgerIsQuiet ==
  ASSUME IInv, UNCHANGED <<clock, ledger>>
  PROVE  Kept
<1>1. clock \in Int
  BY TimeParts DEF IInv, Types
<1>2. Quiet
  BY <1>1 DEF Quiet, IInv, LedgerInv, WellFormed, Types
<1> QED
  BY <1>2, QuietKeeps

\* A call that ends forgets.
LEMMA RaiseMoves ==
  ASSUME IInv, NEW c \in Callers, Raise(c), made' = made
  PROVE  CallMoves(c)
<1>1. /\ call'[c] = Idle /\ call' \in [Callers -> CallTypes]
      /\ \A d \in Callers \ {c} : call'[d] = call[d]
  BY IdleParts DEF Raise, IInv, Types
<1>2. /\ Idle.plan = <<>> /\ Len(<<>>) = 0 /\ Idle.room = 0 /\ Idle.given = {}
      /\ Idle.pc = "idle"
  BY DEF Idle
<1>3. CallHolds(c)'
  <2>1. PlanHolds(<<>>, 0)' /\ GivenHolds(Idle.turn, {})'
    BY TimeParts DEF PlanHolds, GivenHolds
  <2>2. /\ PlanHolds(call[c].plan, call[c].room)'
        /\ GivenHolds(call[c].turn, call[c].given)'
    BY <1>1, <1>2, <2>1
  <2> QED
    BY <1>1, <1>2, <2>2 DEF CallHolds
<1> QED
  BY <1>1, <1>3 DEF CallMoves, IInv, Types

\* A step of one call that leaves the ledger and the clock.
LEMMA CallOnly ==
  ASSUME IInv, NEW c \in Callers, UNCHANGED <<clock, ledger>>,
         call' \in [Callers -> CallTypes], made' \in 0..MaxCalls,
         \A d \in Callers \ {c} : call'[d] = call[d], CallHolds(c)'
  PROVE  IInv'
BY SameLedgerIsQuiet, CallMovesKeep DEF CallMoves, IInv, Types

-----------------------------------------------------------------------------
(* The actions. *)

LEMMA RetrieveKeeps ==
  ASSUME IInv, NEW c \in Callers, Retrieve(c)
  PROVE  IInv'
<1>1. PICK turn \in Turns, incoming \in SUBSET Sources :
        /\ made < MaxCalls /\ Count < MaxPerSession
        /\ call' = [call EXCEPT ![c] =
             [Idle EXCEPT !.pc = "choosing", !.turn = turn,
                          !.pool = Pool(turn, incoming),
                          !.room = Smaller(MaxPerSession - Count, ResultBudget)]]
        /\ made' = made + 1 /\ UNCHANGED <<clock, ledger>>
  BY DEF Retrieve
<1> DEFINE room == Smaller(MaxPerSession - Count, ResultBudget)
           s == [Idle EXCEPT !.pc = "choosing", !.turn = turn,
                             !.pool = Pool(turn, incoming), !.room = room]
<1>2. room \in 0..ResultBudget
  <2>1. Count \in Nat
    BY FS_CardinalityType DEF IInv, CapInv, Count
  <2> QED
    BY <1>1, <2>1, TimeParts DEF Smaller
<1>3. Pool(turn, incoming) \in SUBSET Sources
  BY SourceAssumption DEF Pool
<1>4. /\ s \in CallTypes /\ s.plan = <<>> /\ s.given = {} /\ s.room = room
      /\ s.pc = "choosing"
  <2>1. Idle \in CallTypes
    BY IdleParts
  <2> HIDE DEF room
  <2>2. s.plan = <<>> /\ s.given = {} /\ s.room = room /\ s.pc = "choosing"
    BY DEF Idle
  <2>3. s \in CallTypes
    BY <1>2, <1>3, <2>1 DEF CallTypes, Stages
  <2> QED
    BY <2>2, <2>3
<1>5. /\ call' \in [Callers -> CallTypes] /\ call'[c] = s
      /\ \A d \in Callers \ {c} : call'[d] = call[d]
      /\ made' \in 0..MaxCalls
  <2> HIDE DEF s
  <2>1. call' = [call EXCEPT ![c] = s]
    BY <1>1 DEF s, room
  <2>2. made' \in 0..MaxCalls
    BY <1>1, PolicyAssumption DEF IInv, Types
  <2> QED
    BY <1>4, <2>1, <2>2 DEF IInv, Types
<1> HIDE DEF s, room
<1>6. /\ \A n \in 0..ResultBudget : PlanHolds(<<>>, n)'
      /\ \A t : GivenHolds(t, {})'
  BY TimeParts DEF PlanHolds, GivenHolds
<1>7. /\ PlanHolds(call[c].plan, call[c].room)'
      /\ GivenHolds(call[c].turn, call[c].given)'
      /\ call'[c].pc = "choosing"
  <2>1. call'[c].plan = <<>> /\ call'[c].room = room /\ call'[c].given = {}
    BY <1>4, <1>5
  <2> QED
    BY <1>2, <1>4, <1>5, <1>6, <2>1
<1> QED
  BY <1>1, <1>5, <1>7, CallOnly DEF CallHolds

LEMMA ConsiderKeeps ==
  ASSUME IInv, NEW c \in Callers, Consider(c)
  PROVE  IInv'
<1>1. PICK s \in call[c].pool :
        /\ call[c].pc = "choosing" /\ call[c].room > 0
        /\ call' = [call EXCEPT
             ![c].pool = @ \ {s},
             ![c].room = IF Cool(s) THEN @ - 1 ELSE @,
             ![c].plan = IF Cool(s) THEN Append(@, <<s, clock>>) ELSE @]
        /\ UNCHANGED <<clock, ledger, made>>
  BY DEF Consider
<1> DEFINE old == call[c]
           new == call'[c]
<1>2. /\ old \in CallTypes /\ old.pool \in SUBSET Sources /\ s \in Sources
      /\ old.room \in 1..ResultBudget /\ old.plan \in Seq(Sources \X Instants)
      /\ clock \in Instants /\ <<s, clock>> \in Sources \X Instants
      /\ PlanHolds(old.plan, old.room) /\ GivenHolds(old.turn, old.given)
  BY <1>1, CallParts, TimeParts DEF IInv, Types, CallHolds
<1>3. /\ call' = [call EXCEPT ![c] =
           [call[c] EXCEPT !.pool = @ \ {s},
                           !.room = IF Cool(s) THEN @ - 1 ELSE @,
                           !.plan = IF Cool(s) THEN Append(@, <<s, clock>>)
                                    ELSE @]]
      /\ call \in [Callers -> CallTypes]
  BY <1>1 DEF IInv, Types
<1>4. /\ new.pc = "choosing" /\ new.turn = old.turn /\ new.given = old.given
      /\ new.room = IF Cool(s) THEN old.room - 1 ELSE old.room
      /\ new.plan = IF Cool(s) THEN Append(old.plan, <<s, clock>>) ELSE old.plan
      /\ \A d \in Callers \ {c} : call'[d] = call[d]
  BY <1>1, <1>3 DEF CallTypes
<1>5. call' \in [Callers -> CallTypes]
  <2>1. Append(old.plan, <<s, clock>>) \in Seq(Sources \X Instants)
    BY <1>2
  <2>2. old.room - 1 \in 0..ResultBudget /\ old.room \in 0..ResultBudget
    BY <1>2, TimeParts
  <2>3. [old EXCEPT !.pool = @ \ {s},
                    !.room = IF Cool(s) THEN @ - 1 ELSE @,
                    !.plan = IF Cool(s) THEN Append(@, <<s, clock>>) ELSE @]
          \in CallTypes
    BY <1>2, <2>1, <2>2 DEF CallTypes
  <2> QED
    BY <1>3, <2>3
<1>6. PlanHolds(call[c].plan, call[c].room)'
  <2>1. \A x, t : WasCool(x, t)' <=> WasCool(x, t)
    BY <1>1 DEF WasCool, Exposed, Exposures
  <2>2. CASE Cool(s)
    <3>1. WasCool(s, clock)
      BY <1>2, <2>2, TimeParts DEF WasCool, Cool
    <3>2. /\ Len(new.plan) = Len(old.plan) + 1 /\ Len(old.plan) \in Nat
          /\ new.plan[Len(old.plan) + 1] = <<s, clock>>
          /\ \A i \in 1..Len(old.plan) : new.plan[i] = old.plan[i]
      <4>1. new.plan = Append(old.plan, <<s, clock>>)
        BY <1>4, <2>2
      <4>2. old.plan \in Seq(Sources \X Instants)
        BY <1>2
      <4> HIDE DEF new, old
      <4> QED
        BY <1>2, <4>1, <4>2, AppendParts
    <3>3. Len(new.plan) + new.room <= ResultBudget
      <4>1. Len(old.plan) + old.room <= ResultBudget
        BY <1>2 DEF PlanHolds
      <4>2. new.room = old.room - 1 /\ old.room \in Int
        BY <1>2, <1>4, <2>2
      <4> HIDE DEF new, old
      <4> QED
        BY <3>2, <4>1, <4>2, TimeParts
    <3>4. ASSUME NEW i \in 1..Len(new.plan)
          PROVE  WasCool(new.plan[i][1], new.plan[i][2])
      <4>1. CASE i = Len(old.plan) + 1
        BY <3>1, <3>2, <4>1
      <4>2. CASE i # Len(old.plan) + 1
        <5>1. i \in 1..Len(old.plan)
          BY <3>2, <4>2
        <5> QED
          BY <3>2, <5>1 DEF PlanHolds, CallHolds, IInv, CallInv
      <4> QED
        BY <4>1, <4>2
    <3> QED
      BY <2>1, <3>3, <3>4 DEF PlanHolds
  <2>3. CASE ~ Cool(s)
    BY <1>2, <1>4, <2>1, <2>3 DEF PlanHolds
  <2> QED
    BY <2>2, <2>3
<1>7. GivenHolds(call[c].turn, call[c].given)'
  BY <1>1, <1>2, <1>4 DEF GivenHolds
<1> QED
  BY <1>1, <1>4, <1>5, <1>6, <1>7, CallOnly DEF CallHolds, IInv, Types

\* A call that ends leaves what it recorded.
LEMMA EndingKeeps ==
  ASSUME IInv, NEW c \in Callers, Raise(c), UNCHANGED <<clock, ledger, made>>
  PROVE  IInv'
BY RaiseMoves, CallOnly DEF CallMoves

\* A call that goes on at another stage, the ledger being as it was.
LEMMA StageOnly ==
  ASSUME IInv, NEW c \in Callers, UNCHANGED <<clock, ledger, made>>,
         call' \in [Callers -> CallTypes],
         \A d \in Callers \ {c} : call'[d] = call[d],
         call'[c].turn = call[c].turn, call'[c].room = call[c].room,
         call'[c].plan = call[c].plan, call'[c].given = call[c].given,
         call'[c].pc \in {"reading", "opening", "exposing"} =>
           call[c].plan # <<>>,
         call'[c].pc = "exposing" =>
           Current(c).state \in Known /\ Current(c).content = call'[c].got
  PROVE  IInv'
<1>1. Kept /\ Types'
  BY SameLedgerIsQuiet DEF IInv, Types
<1>2. CallHolds(c)'
  BY <1>1, GoingOn DEF Kept, Current
<1> QED
  BY <1>2, CallOnly DEF IInv, Types

LEMMA PlanKeeps ==
  ASSUME IInv, NEW c \in Callers, Plan(c)
  PROVE  IInv'
<1>1. /\ call' = [call EXCEPT ![c] = [call[c] EXCEPT !.pc = "selecting"]]
      /\ UNCHANGED <<clock, ledger, made>> /\ call[c] \in CallTypes
      /\ call \in [Callers -> CallTypes]
  BY DEF Plan, IInv, Types
<1>2. [call[c] EXCEPT !.pc = "selecting"] \in CallTypes
  BY <1>1 DEF CallTypes, Stages
<1>3. /\ call' \in [Callers -> CallTypes]
      /\ \A d \in Callers \ {c} : call'[d] = call[d]
      /\ call'[c] = [call[c] EXCEPT !.pc = "selecting"]
  BY <1>1, <1>2
<1> QED
  BY <1>1, <1>3, StageOnly DEF CallTypes

LEMMA ReadKeeps ==
  ASSUME IInv, NEW c \in Callers, Read(c)
  PROVE  IInv'
<1> DEFINE new == [call[c] EXCEPT !.pc = "opening",
                                  !.stale = Current(c).state,
                                  !.expected = Current(c).content]
<1>1. /\ call[c].pc = "reading" /\ call[c].plan # <<>>
      /\ UNCHANGED <<clock, ledger, made>>
      /\ Exposure(c) \in Exposures /\ call[c] \in CallTypes
  BY CallParts DEF Read, IInv, CallHolds
<1>2. CASE Raise(c)
  BY <1>1, <1>2, EndingKeeps
<1>3. CASE call' = [call EXCEPT ![c] = new]
  <2>1. /\ Current(c).state \in ExposureStates \cup {"none"}
        /\ Current(c).content \in Contents \cup {None}
    BY <1>1, HeldParts, RecordParts DEF Current, IInv
  <2>2. new \in CallTypes
    BY <1>1, <2>1 DEF CallTypes, Stages
  <2>3. /\ new.turn = call[c].turn /\ new.room = call[c].room
        /\ new.plan = call[c].plan /\ new.given = call[c].given
        /\ new.pc = "opening"
    BY <1>1 DEF CallTypes
  <2> HIDE DEF new
  <2>4. /\ call' \in [Callers -> CallTypes] /\ call'[c] = new
        /\ \A d \in Callers \ {c} : call'[d] = call[d]
    BY <1>3, <2>2 DEF IInv, Types
  <2> QED
    BY <1>1, <2>3, <2>4, StageOnly
<1> QED
  BY <1>2, <1>3 DEF Read

\* A step of one exposure that shows nothing.
LEMMA QuietAt ==
  ASSUME IInv, NEW e \in Exposures, clock' = clock,
         ledger' \in [Exposures -> ExposureRecords],
         \A x \in Exposures \ {e} : ledger'[x] = ledger[x],
         ledger'[e].at = ledger[e].at, ledger'[e].planned = ledger[e].planned,
         (ledger'[e].state \in Succeeded) = (ledger[e].state \in Succeeded),
         ledger[e].state \in Known =>
           ledger'[e].state \in Known /\ ledger'[e].content = ledger[e].content,
         ledger'[e].state \in Known => ledger'[e].content # None,
         ledger'[e].reply # None => ledger'[e].state \in {"used", "consumed"},
         ledger'[e].state = "consumed" => ledger'[e].reply # None
  PROVE  Kept
<1>1. clock \in Instants /\ clock' \in Instants /\ clock' >= clock
  BY TimeParts DEF IInv, Types
<1>2. ASSUME NEW x \in Exposures, x # e
      PROVE  ledger'[x] = ledger[x] /\ WellFormed(ledger[x])
  BY <1>2 DEF IInv, LedgerInv
<1>3. Quiet
  BY <1>1, <1>2 DEF Quiet, WellFormed
<1> QED
  BY <1>3, QuietKeeps

LEMMA SelectKeeps ==
  ASSUME IInv, NEW c \in Callers, Select(c)
  PROVE  IInv'
<1> DEFINE e == Exposure(c)
           new == [call[c] EXCEPT !.pc = "reading"]
<1>1. /\ call[c].pc = "selecting" /\ call[c].plan # <<>>
      /\ UNCHANGED <<clock, made>>
      /\ e \in Exposures /\ call[c] \in CallTypes
      /\ ledger[e] \in ExposureRecords
      /\ call \in [Callers -> CallTypes] /\ made \in 0..MaxCalls
      /\ ledger \in [Exposures -> ExposureRecords]
  BY CallParts DEF Select, IInv, Types
<1>2. /\ new \in CallTypes /\ new.pc = "reading"
      /\ new.turn = call[c].turn /\ new.room = call[c].room
      /\ new.plan = call[c].plan /\ new.given = call[c].given
  BY <1>1 DEF CallTypes, Stages
<1>3. CASE Raise(c) /\ UNCHANGED ledger
  BY <1>1, <1>3, EndingKeeps
<1>4. ASSUME call' = [call EXCEPT ![c].pc = "reading"]
      PROVE  /\ call' \in [Callers -> CallTypes] /\ call'[c] = new
             /\ \A d \in Callers \ {c} : call'[d] = call[d]
  BY <1>1, <1>2, <1>4
<1> HIDE DEF new
<1>5. CASE call' = [call EXCEPT ![c].pc = "reading"] /\ UNCHANGED ledger
  BY <1>1, <1>2, <1>4, <1>5, StageOnly
<1>6. CASE /\ ledger[e].state = "none"
           /\ ledger' = [ledger EXCEPT ![e].state = "selected",
                                       ![e].content = Descriptor(Source(c))]
           /\ call' = [call EXCEPT ![c].pc = "reading"]
  <2>1. Descriptor(Source(c)) \in Contents \cup {None}
    BY SourceAssumption DEF Descriptor
  <2> DEFINE r == [ledger[e] EXCEPT !.state = "selected",
                                    !.content = Descriptor(Source(c))]
  <2>2. /\ r \in ExposureRecords /\ r.state = "selected"
        /\ r.at = ledger[e].at /\ r.planned = ledger[e].planned
        /\ r.reply = ledger[e].reply
    BY <1>1, <2>1 DEF ExposureRecords, ExposureStates
  <2>3. /\ ledger' \in [Exposures -> ExposureRecords] /\ ledger'[e] = r
        /\ \A x \in Exposures \ {e} : ledger'[x] = ledger[x]
    BY <1>1, <1>6, <2>2
  <2>4. WellFormed(ledger[e])
    BY <1>1 DEF IInv, LedgerInv
  <2> HIDE DEF r, e
  <2>5. ledger[e].reply = None
    BY <1>6, <2>4 DEF WellFormed
  <2>6. Kept
    BY <1>1, <1>6, <2>2, <2>3, <2>5, QuietAt DEF Succeeded, Known
  <2>7. Types' /\ Grows
    BY <1>1, <1>4, <1>6, <2>3, <2>6 DEF Types, IInv, Kept
  <2>8. CallHolds(c)'
    BY <1>1, <1>2, <1>4, <1>6, <2>7, GoingOn
  <2> QED
    BY <1>1, <1>4, <1>6, <2>3, <2>6, <2>7, <2>8, CallMovesKeep
    DEF CallMoves, Types
<1> QED
  BY <1>3, <1>5, <1>6 DEF Select, Current

\* A failed opening ends the call, whatever it found.
LEMMA FailOpenKeeps ==
  ASSUME IInv, NEW c \in Callers, call[c].pc = "opening", FailOpen(c),
         UNCHANGED <<clock, made>>
  PROVE  IInv'
<1> DEFINE e == Exposure(c)
<1>1. /\ call[c].plan # <<>> /\ e \in Exposures
      /\ ledger[e] \in ExposureRecords /\ WellFormed(ledger[e])
      /\ ledger \in [Exposures -> ExposureRecords]
  BY CallParts DEF IInv, Types, CallHolds, LedgerInv
<1>2. CASE UNCHANGED ledger
  BY <1>2, EndingKeeps DEF FailOpen
<1>3. CASE /\ ledger[e].state = "selected"
           /\ ledger' = [ledger EXCEPT ![e].state = "failed_to_open"]
  <2> DEFINE r == [ledger[e] EXCEPT !.state = "failed_to_open"]
  <2>1. /\ r \in ExposureRecords /\ r.state = "failed_to_open"
        /\ r.at = ledger[e].at /\ r.planned = ledger[e].planned
        /\ r.reply = ledger[e].reply
    BY <1>1 DEF ExposureRecords, ExposureStates
  <2>2. /\ ledger' \in [Exposures -> ExposureRecords] /\ ledger'[e] = r
        /\ \A x \in Exposures \ {e} : ledger'[x] = ledger[x]
    BY <1>1, <1>3, <2>1
  <2> HIDE DEF r, e
  <2>3. ledger[e].reply = None
    BY <1>1, <1>3 DEF WellFormed
  <2>4. Kept
    BY <1>1, <1>3, <2>1, <2>2, <2>3, QuietAt DEF Succeeded, Known
  <2>5. CallMoves(c)
    BY RaiseMoves DEF FailOpen
  <2> QED
    BY <2>2, <2>4, <2>5, CallMovesKeep DEF IInv, Types
<1> QED
  BY <1>2, <1>3 DEF FailOpen, Current

LEMMA OpenKeeps ==
  ASSUME IInv, NEW c \in Callers, Open(c)
  PROVE  IInv'
<1> DEFINE e == Exposure(c)
<1>1. PICK content \in Contents :
        /\ call[c].pc = "opening" /\ UNCHANGED <<clock, made>>
        /\ \/ Current(c).state = "selected" /\ Opened(c, content)
           \/ /\ Current(c).state \in Succeeded \cup {"opened"}
              /\ IF Current(c).content = content
                   THEN call' = [call EXCEPT ![c].pc = "exposing",
                                             ![c].got = content]
                   ELSE Raise(c)
              /\ UNCHANGED ledger
           \/ Current(c).state = "failed_to_open" /\ FailOpen(c)
  BY DEF Open
<1> DEFINE new == [call[c] EXCEPT !.pc = "exposing", !.got = content]
<1>2. /\ call[c].plan # <<>> /\ e \in Exposures
      /\ ledger[e] \in ExposureRecords /\ WellFormed(ledger[e])
      /\ ledger \in [Exposures -> ExposureRecords]
      /\ call \in [Callers -> CallTypes] /\ call[c] \in CallTypes
      /\ made \in 0..MaxCalls /\ clock \in Instants
  BY <1>1, CallParts DEF IInv, Types, CallHolds, LedgerInv
<1>3. /\ new \in CallTypes /\ new.pc = "exposing" /\ new.got = content
      /\ new.turn = call[c].turn /\ new.room = call[c].room
      /\ new.plan = call[c].plan /\ new.given = call[c].given
  BY <1>2 DEF CallTypes, Stages
<1>4. ASSUME call' = [call EXCEPT ![c].pc = "exposing", ![c].got = content]
      PROVE  /\ call' \in [Callers -> CallTypes] /\ call'[c] = new
             /\ \A d \in Callers \ {c} : call'[d] = call[d]
  <2>1. call' = [call EXCEPT ![c] = new]
    BY <1>2, <1>4
  <2> HIDE DEF new
  <2> QED
    BY <1>2, <1>3, <2>1
<1> HIDE DEF new
<1>5. CASE FailOpen(c)
  BY <1>1, <1>5, FailOpenKeeps
<1>6. CASE Raise(c) /\ UNCHANGED ledger
  BY <1>1, <1>6, EndingKeeps
<1>7. CASE /\ Current(c).state \in Succeeded \cup {"opened"}
           /\ Current(c).content = content
           /\ call' = [call EXCEPT ![c].pc = "exposing", ![c].got = content]
           /\ UNCHANGED ledger
  BY <1>1, <1>2, <1>3, <1>4, <1>7, StageOnly DEF Known
<1>8. CASE Current(c).state = "selected" /\ Opened(c, content)
  <2> DEFINE r == [ledger[e] EXCEPT !.state = "opened", !.content = content]
  <2>1. /\ r \in ExposureRecords /\ r.state = "opened" /\ r.content = content
        /\ r.at = ledger[e].at /\ r.planned = ledger[e].planned
        /\ r.reply = ledger[e].reply
    BY <1>2 DEF ExposureRecords, ExposureStates
  <2>2. ledger' = [ledger EXCEPT ![e] = r]
    BY <1>2, <1>8 DEF Opened
  <2> HIDE DEF r
  <2>3. /\ ledger' \in [Exposures -> ExposureRecords] /\ ledger'[e] = r
        /\ \A x \in Exposures \ {e} : ledger'[x] = ledger[x]
    BY <1>2, <2>1, <2>2
  <2>4. ledger[e].state = "selected"
    BY <1>8 DEF Current
  <2> HIDE DEF e
  <2>5. ledger[e].reply = None /\ content # None
    BY <1>2, <2>4, SourceAssumption DEF WellFormed
  <2>6. Kept
    BY <1>1, <1>2, <2>1, <2>3, <2>4, <2>5, QuietAt DEF Succeeded, Known
  <2>7. /\ call' \in [Callers -> CallTypes] /\ call'[c] = new
        /\ \A d \in Callers \ {c} : call'[d] = call[d]
    BY <1>4, <1>8 DEF Opened
  <2>8. Types' /\ Grows
    BY <1>1, <1>2, <2>3, <2>6, <2>7 DEF Types, Kept
  <2>9. /\ ledger'[Exposure(c)].state \in Known
        /\ ledger'[Exposure(c)].content = call'[c].got
    BY <1>3, <2>1, <2>3, <2>7 DEF Known, e
  <2>10. CallHolds(c)'
    BY <1>2, <1>3, <2>7, <2>8, <2>9, GoingOn
  <2> QED
    BY <1>1, <1>2, <2>3, <2>6, <2>7, <2>8, <2>10, CallMovesKeep
    DEF CallMoves, Types
<1> QED
  BY <1>1, <1>5, <1>6, <1>7, <1>8

\* What is left of a plan is as good as the plan.
LEMMA TailHolds ==
  ASSUME NEW plan \in Seq(Sources \X Instants), NEW room \in 0..ResultBudget,
         plan # <<>>, PlanHolds(plan, room)
  PROVE  PlanHolds(Tail(plan), room)
<1>1. /\ Len(plan) \in Nat /\ Len(Tail(plan)) = Len(plan) - 1
      /\ \A i \in 1..Len(Tail(plan)) :
           i + 1 \in 1..Len(plan) /\ Tail(plan)[i] = plan[i + 1]
  BY TailParts
<1>2. Len(Tail(plan)) + room <= ResultBudget
  BY <1>1, TimeParts DEF PlanHolds
<1> QED
  BY <1>1, <1>2 DEF PlanHolds

\* A call that has exposed its next source hands it on.
LEMMA AddMoves ==
  ASSUME IInv, NEW c \in Callers, call[c].pc = "exposing", Add(c),
         made' = made
  PROVE  /\ call' \in [Callers -> CallTypes]
         /\ \A d \in Callers \ {c} : call'[d] = call[d]
         /\ call'[c].pc = "selecting" /\ call'[c].plan = Tail(call[c].plan)
         /\ call'[c].turn = call[c].turn /\ call'[c].room = call[c].room
         /\ call'[c].given = call[c].given \cup {<<Source(c), call[c].got>>}
         /\ call[c].got \in Contents
<1> DEFINE new == [call[c] EXCEPT !.pc = "selecting", !.plan = Tail(@),
                     !.given = @ \cup {<<Source(c), call[c].got>>}]
<1>1. /\ call[c].plan # <<>> /\ Exposure(c) \in Exposures
      /\ Source(c) \in Sources
      /\ call[c].plan \in Seq(Sources \X Instants)
      /\ call[c].given \in SUBSET (Sources \X Contents)
      /\ call[c].got \in Contents \cup {None}
      /\ call \in [Callers -> CallTypes] /\ call[c] \in CallTypes
      /\ Current(c).state \in Known /\ Current(c).content = call[c].got
  BY CallParts DEF IInv, Types, CallHolds
<1>2. call[c].got \in Contents
  BY <1>1 DEF IInv, LedgerInv, WellFormed, Current
<1>3. Tail(call[c].plan) \in Seq(Sources \X Instants)
  BY <1>1
<1>4. call[c].given \cup {<<Source(c), call[c].got>>}
        \in SUBSET (Sources \X Contents)
  BY <1>1, <1>2
<1>5. /\ new \in CallTypes
      /\ new.pc = "selecting" /\ new.plan = Tail(call[c].plan)
      /\ new.turn = call[c].turn /\ new.room = call[c].room
      /\ new.given = call[c].given \cup {<<Source(c), call[c].got>>}
  BY <1>1, <1>3, <1>4 DEF CallTypes, Stages
<1>6. call' = [call EXCEPT ![c] = new]
  BY <1>1 DEF Add
<1> HIDE DEF new
<1> QED
  BY <1>1, <1>2, <1>5, <1>6

LEMMA AddHolds ==
  ASSUME IInv, Types', Grows, NEW c \in Callers, call[c].pc = "exposing",
         Add(c), made' = made,
         ledger'[Exposure(c)].state \in Succeeded,
         ledger'[Exposure(c)].content = call[c].got
  PROVE  CallHolds(c)'
<1>1. /\ call[c].plan # <<>> /\ call[c].turn \in Turns
      /\ call[c].plan \in Seq(Sources \X Instants)
      /\ call[c].given \in SUBSET (Sources \X Contents)
      /\ call[c].room \in 0..ResultBudget
      /\ PlanHolds(call[c].plan, call[c].room)
      /\ GivenHolds(call[c].turn, call[c].given)
      /\ Exposure(c) = <<call[c].turn, Source(c)>>
  BY CallParts DEF IInv, CallHolds, Exposure
<1>2. /\ call'[c].pc = "selecting" /\ call'[c].plan = Tail(call[c].plan)
      /\ call'[c].turn = call[c].turn /\ call'[c].room = call[c].room
      /\ call'[c].given = call[c].given \cup {<<Source(c), call[c].got>>}
  BY AddMoves
<1>3. PlanHolds(call[c].plan, call[c].room)'
  <2>1. \A plan \in Seq(Sources \X Instants), room \in 0..ResultBudget :
          plan # <<>> /\ PlanHolds(plan, room)
            => PlanHolds(Tail(plan), room)'
    <3> SUFFICES ASSUME NEW plan \in Seq(Sources \X Instants),
                        NEW room \in 0..ResultBudget,
                        plan # <<>>, PlanHolds(plan, room)
                 PROVE  PlanHolds(Tail(plan), room)'
      OBVIOUS
    <3>1. PlanHolds(Tail(plan), room) /\ Tail(plan) \in Seq(Sources \X Instants)
      BY TailHolds, TailParts
    <3> QED
      BY <3>1, PlanLasts DEF IInv
  <2> QED
    BY <1>1, <1>2, <2>1
<1>4. GivenHolds(call[c].turn, call[c].given)'
  <2>1. \A turn \in Turns, given \in SUBSET (Sources \X Contents) :
          GivenHolds(turn, given) => GivenHolds(turn, given)'
    BY GivenLasts DEF IInv
  <2>2. \A g \in call[c].given :
          /\ ledger'[<<call[c].turn, g[1]>>].state \in Succeeded
          /\ ledger'[<<call[c].turn, g[1]>>].content = g[2]
    BY <1>1, <2>1 DEF GivenHolds
  <2>3. ASSUME NEW g \in call'[c].given
        PROVE  /\ ledger'[<<call'[c].turn, g[1]>>].state \in Succeeded
               /\ ledger'[<<call'[c].turn, g[1]>>].content = g[2]
    <3>1. CASE g \in call[c].given
      BY <1>2, <2>2, <3>1
    <3>2. CASE g = <<Source(c), call[c].got>>
      <4>1. g[1] = Source(c) /\ g[2] = call[c].got
        BY <3>2
      <4> QED
        BY <1>1, <1>2, <4>1
    <3> QED
      BY <1>2, <3>1, <3>2
  <2> QED
    BY <2>3 DEF GivenHolds
<1> QED
  BY <1>2, <1>3, <1>4 DEF CallHolds

LEMMA ExposeKeeps ==
  ASSUME IInv, NEW c \in Callers, Expose(c)
  PROVE  IInv'
<1> DEFINE e == Exposure(c)
           t == Head(call[c].plan)[2]
<1>1. /\ call[c].pc = "exposing" /\ UNCHANGED <<clock, made>>
      /\ call[c].plan # <<>> /\ e \in Exposures /\ t \in Instants
      /\ ledger[e] \in ExposureRecords /\ WellFormed(ledger[e])
      /\ ledger \in [Exposures -> ExposureRecords] /\ made \in 0..MaxCalls
      /\ clock \in Instants
      /\ ledger[e].content = call[c].got
  BY CallParts DEF Expose, IInv, Types, CallHolds, LedgerInv, Current
<1>2. CASE Raise(c) /\ UNCHANGED ledger
  BY <1>1, <1>2, EndingKeeps
<1>3. CASE Current(c).state \in Succeeded /\ Add(c) /\ UNCHANGED ledger
  <2>1. Kept /\ Grows
    BY <1>1, <1>3, SameLedgerIsQuiet DEF Kept
  <2>2. /\ call' \in [Callers -> CallTypes]
        /\ \A d \in Callers \ {c} : call'[d] = call[d]
    BY <1>1, <1>3, AddMoves
  <2>3. Types'
    BY <1>1, <1>3, <2>2 DEF Types
  <2>4. CallHolds(c)'
    BY <1>1, <1>3, <2>1, <2>3, AddHolds DEF Current
  <2> QED
    BY <1>1, <1>3, <2>1, <2>2, <2>4, CallMovesKeep DEF CallMoves
<1>4. CASE Current(c).state = "opened" /\ Count < MaxPerSession /\ Record(c)
  <2> DEFINE r == [ledger[e] EXCEPT !.state = "exposed", !.planned = t,
                                    !.at = clock]
  <2>1. /\ r \in ExposureRecords /\ r.state = "exposed" /\ r.at = clock
        /\ r.planned = t /\ r.content = ledger[e].content
        /\ r.reply = ledger[e].reply
    BY <1>1 DEF ExposureRecords, ExposureStates
  <2>2. ledger' = [ledger EXCEPT ![e] = r]
    BY <1>1, <1>4 DEF Record
  <2> HIDE DEF r
  <2>3. /\ ledger' \in [Exposures -> ExposureRecords] /\ ledger'[e] = r
        /\ \A x \in Exposures \ {e} : ledger'[x] = ledger[x]
    BY <1>1, <2>1, <2>2
  <2>4. WasCool(e[2], t)
    <3>1. /\ PlanHolds(call[c].plan, call[c].room)
          /\ call[c].plan \in Seq(Sources \X Instants)
      BY CallParts DEF IInv, CallHolds
    <3>2. 1 \in 1..Len(call[c].plan) /\ Head(call[c].plan) = call[c].plan[1]
      BY <1>1, <3>1, TailParts
    <3>3. e[2] = call[c].plan[1][1] /\ t = call[c].plan[1][2]
      BY <3>2 DEF Exposure, Source
    <3> QED
      BY <3>1, <3>2, <3>3 DEF PlanHolds
  <2> HIDE DEF e, t
  <2>5. ledger[e].state = "opened" /\ clock' = clock
    BY <1>1, <1>4 DEF Current, e
  <2>6. Kept /\ Grows
    BY <1>1, <1>4, <2>1, <2>3, <2>4, <2>5, RecordingKeeps DEF Kept
  <2>7. /\ call' \in [Callers -> CallTypes] /\ Add(c)
        /\ \A d \in Callers \ {c} : call'[d] = call[d]
    BY <1>1, <1>4, AddMoves DEF Record
  <2>8. Types'
    BY <1>1, <2>3, <2>7 DEF Types
  <2>9. /\ ledger'[Exposure(c)].state \in Succeeded
        /\ ledger'[Exposure(c)].content = call[c].got
    BY <1>1, <2>1, <2>3 DEF Succeeded, e
  <2>10. CallHolds(c)'
    BY <1>1, <2>6, <2>7, <2>8, <2>9, AddHolds
  <2> QED
    BY <1>1, <2>3, <2>6, <2>7, <2>10, CallMovesKeep DEF CallMoves
<1> QED
  BY <1>2, <1>3, <1>4 DEF Expose

\* The replies change neither what was shown nor when.
LEMMA ReplyKeeps ==
  ASSUME IInv, NEW e \in Exposures, Use(e) \/ Consume(e)
  PROVE  IInv'
<1>1. /\ UNCHANGED <<clock, call, made>>
      /\ ledger[e] \in ExposureRecords /\ WellFormed(ledger[e])
      /\ ledger \in [Exposures -> ExposureRecords] /\ clock \in Instants
  BY DEF Use, Consume, IInv, Types, LedgerInv
<1>2. PICK state \in {"used", "consumed"}, r \in Replies \cup {None} :
        /\ ledger[e].state \in {"exposed", "used"}
        /\ state = "consumed" => r # None
        /\ ledger' = [ledger EXCEPT ![e].state = state, ![e].reply = r]
  <2>1. CASE Use(e)
    BY <2>1 DEF Use
  <2>2. CASE Consume(e)
    BY <2>2, SourceAssumption DEF Consume
  <2> QED
    BY <2>1, <2>2
<1> DEFINE new == [ledger[e] EXCEPT !.state = state, !.reply = r]
<1>3. /\ new \in ExposureRecords /\ new.state = state /\ new.reply = r
      /\ new.at = ledger[e].at /\ new.planned = ledger[e].planned
      /\ new.content = ledger[e].content
  BY <1>1 DEF ExposureRecords, ExposureStates
<1>4. ledger' = [ledger EXCEPT ![e] = new]
  BY <1>1, <1>2
<1> HIDE DEF new
<1>5. /\ ledger' \in [Exposures -> ExposureRecords] /\ ledger'[e] = new
      /\ \A x \in Exposures \ {e} : ledger'[x] = ledger[x]
  BY <1>1, <1>3, <1>4
<1>6. Kept
  BY <1>1, <1>2, <1>3, <1>5, QuietAt DEF Succeeded, Known, WellFormed
<1> QED
  BY <1>1, <1>5, <1>6, CallsStayKeep

LEMMA TickKeeps ==
  ASSUME IInv, Tick
  PROVE  IInv'
<1>1. clock \in Instants /\ clock' \in Instants /\ clock' >= clock
  BY PolicyAssumption DEF Tick, IInv, Types, Instants
<1>2. UNCHANGED <<ledger, call, made>>
  BY DEF Tick
<1>3. Quiet
  BY <1>1, <1>2 DEF Quiet, IInv, LedgerInv, WellFormed, Types
<1> QED
  BY <1>1, <1>2, <1>3, QuietKeeps, CallsStayKeep DEF IInv, Types

-----------------------------------------------------------------------------
(* The invariant. *)

LEMMA InitIInv == Init => IInv
<1> SUFFICES ASSUME Init
             PROVE  IInv
  OBVIOUS
<1>1. /\ Unselected \in ExposureRecords /\ WellFormed(Unselected)
      /\ Unselected.at = NoTime /\ Unselected.state \notin Succeeded
  BY TimeParts DEF Unselected, ExposureRecords, WellFormed, Known, Succeeded
<1>2. \A e \in Exposures : ledger[e] = Unselected
  BY DEF Init
<1>3. Types
  BY <1>1, IdleParts, PolicyAssumption DEF Init, Types, Instants
<1>4. LedgerInv
  BY <1>1, <1>2 DEF LedgerInv
<1>5. Prior = {}
  BY <1>1, <1>2 DEF Prior
<1>6. CapInv
  BY <1>5, FS_EmptySet, TimeParts DEF CapInv, CapHolds, Count
<1>7. OnlyOverlapsBreakCooldown
  BY <1>1, <1>2 DEF OnlyOverlapsBreakCooldown, Exposed
<1>8. CallInv
  <2>1. /\ Idle.plan = <<>> /\ Idle.room = 0 /\ Idle.given = {}
        /\ Idle.pc = "idle"
    BY DEF Idle
  <2>2. PlanHolds(<<>>, 0) /\ GivenHolds(Idle.turn, {})
    BY TimeParts DEF PlanHolds, GivenHolds
  <2> QED
    BY <2>1, <2>2 DEF Init, CallInv, CallHolds
<1> QED
  BY <1>3, <1>4, <1>6, <1>7, <1>8 DEF IInv

LEMMA NextIInv == IInv /\ [Next]_exposureVars => IInv'
<1> SUFFICES ASSUME IInv, [Next]_exposureVars
             PROVE  IInv'
  OBVIOUS
<1>1. CASE UNCHANGED exposureVars
  BY <1>1, SameLedgerIsQuiet, CallsStayKeep DEF exposureVars, IInv, Types
<1>2. ASSUME NEW c \in Callers, Deny(c) \/ Give(c) \/ Interrupt(c)
      PROVE  IInv'
  BY <1>2, EndingKeeps DEF Deny, Give, Interrupt, Raise
<1>3. ASSUME NEW c \in Callers, OpenMissing(c)
      PROVE  IInv'
  BY <1>3, FailOpenKeeps DEF OpenMissing
<1>4. ASSUME NEW c \in Callers,
             \/ Retrieve(c) \/ Consider(c) \/ Deny(c) \/ Plan(c)
             \/ Select(c) \/ Read(c) \/ OpenMissing(c) \/ Open(c) \/ Expose(c)
             \/ Give(c) \/ Interrupt(c)
      PROVE  IInv'
  BY <1>2, <1>3, <1>4, RetrieveKeeps, ConsiderKeeps, PlanKeeps, SelectKeeps,
     ReadKeeps, OpenKeeps, ExposeKeeps
<1> QED
  BY <1>1, <1>4, ReplyKeeps, TickKeeps DEF Next

LEMMA InductiveInvariant == Spec => []IInv
BY InitIInv, NextIInv, PTL DEF Spec

\* However many calls plan at once, the session is never shown more than its
\* cap (record_exposed).
THEOREM CapAlwaysHolds == Spec => []CapHolds
<1>1. IInv => CapHolds
  BY DEF IInv, CapInv
<1> QED
  BY <1>1, InductiveInvariant, PTL

\* What a call hands to the prompt is what the ledger says was shown, to the
\* content, though the source was opened outside every lock (open_selected).
\* The property includes the module's type invariant.
THEOREM PromptQuotesTheShown == Spec => []MaterialMatches
<1>1. IInv => MaterialMatches
  BY ImpliesMaterialMatches
<1> QED
  BY <1>1, InductiveInvariant, PTL

\* A source is shown again within its cooldown only by a call that had planned
\* it before it was last shown (ExposurePolicy.choose, record_exposed).
THEOREM CooldownsAlwaysKept == Spec => []OnlyOverlapsBreakCooldown
<1>1. IInv => OnlyOverlapsBreakCooldown
  BY DEF IInv
<1> QED
  BY <1>1, InductiveInvariant, PTL

=============================================================================
