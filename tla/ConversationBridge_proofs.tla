----------------------- MODULE ConversationBridge_proofs -----------------------
(***************************************************************************)
(* Proofs about ConversationBridge and the session store below it, for any *)
(* turns, hooks, windows and bounds.                                       *)
(*                                                                         *)
(* The session store is treated first and by itself: SessionInv is         *)
(* inductive under its callbacks, and what its turns have come to is       *)
(* final.  The bridge adds what its receipts and its open request promise. *)
(***************************************************************************)
EXTENDS ConversationBridge, FiniteSetTheorems, TLAPS

-----------------------------------------------------------------------------
(* The session store. *)

\* OneOpenTurn without the cardinality, which is inductive.
OpenIsUnique ==
  /\ \A t, u \in Turns : turn[t] = "open" /\ turn[u] = "open" => t = u
  /\ finalized => \A t \in Turns : turn[t] # "open"

\* EndsAgree over the turns, for which turn and ended are functions.
SessionInv ==
  /\ SessionTypeOK
  /\ OpenIsUnique
  /\ \A t \in Turns : ended[t] # "none" =>
       \/ turn[t] \in AbandonReasons /\ Compatible(turn[t], ended[t])
       \/ turn[t] = "completed" /\ ended[t] # "host_turn_interrupted"

\* Every callback the store records.
Callback ==
  \/ SessionStep
  \/ \E t \in Turns : RecordPost(t) \/ \E hooks \in HookSets : RecordPre(t, hooks)

\* What a callback may do to what the store has recorded.
KeepsHistory ==
  \A t \in Turns :
    /\ turn[t] \notin {"unknown", "open"} => turn'[t] = turn[t]
    /\ preAt[t] # NoTime => preAt'[t] # NoTime
    /\ turn'[t] = "open" => preAt'[t] # NoTime \/ turn[t] = "open"

\* A callback keeps the invariant and the history.
LEMMA CallbackKeepsSession ==
  ASSUME SessionInv, Callback
  PROVE  SessionInv' /\ KeepsHistory
<1> USE HooksAssumption, ReasonsAssumption, BoundsAssumption
    DEF SessionInv, SessionTypeOK, OpenIsUnique, KeepsHistory, Time, NoTime,
        session
<1> DEFINE Goal == SessionInv' /\ KeepsHistory
<1>1. CASE Tick
  BY <1>1 DEF Tick
<1>2. ASSUME NEW g \in Gates, NEW hooks \in HookSets, RecordGate(g, hooks)
      PROVE  Goal
  BY <1>2 DEF RecordGate
<1>3. CASE RecordFinalize
  BY <1>3 DEF RecordFinalize, MayFinalize, OpenTurns
<1>4. CASE HostFinalize
  <2>1. \A u \in Turns : turn'[u] = IF turn[u] = "open"
                                      THEN "host_session_finalized" ELSE turn[u]
    BY <1>4 DEF HostFinalize
  <2>2. SessionTypeOK'
    <3>1. "host_session_finalized" \in Outcomes
      BY DEF Outcomes, AbandonReasons
    <3>2. turn' \in [Turns -> Outcomes]
      BY <1>4, <3>1 DEF HostFinalize
    <3>3. /\ finalized' = TRUE \/ finalized' = finalized
          /\ crashes' = crashes \/ DiesBetweenRows
      BY <1>4 DEF HostFinalize
    <3>4. UNCHANGED <<clock, supported, gates, preAt, postAt, ended, stopped>>
      BY <1>4 DEF HostFinalize
    <3>5. crashes' \in 0..MaxCrashes
      BY <3>3 DEF DiesBetweenRows
    <3>6. finalized' \in BOOLEAN
      BY <3>3
    <3> QED
      BY <3>2, <3>4, <3>5, <3>6
  <2>3. OpenIsUnique' /\ KeepsHistory
    BY <1>4, <2>1 DEF HostFinalize
  <2>4. \A u \in Turns : ended'[u] = ended[u]
    BY <1>4 DEF HostFinalize
  <2> QED
    BY <2>1, <2>2, <2>3, <2>4 DEF AbandonReasons, ChildReasons
<1>5. ASSUME NEW t \in Turns, AbandonOpenTurn(t) \/ HostShutdown(t)
      PROVE  Goal
  BY <1>5 DEF AbandonOpenTurn, HostShutdown, Abandoned, Outcomes,
              AbandonReasons, Compatible
<1>6. ASSUME NEW t \in Turns, NEW why \in HostReasons, HostTurnEnd(t, why)
      PROVE  Goal
  <2>1. /\ why \in AbandonReasons /\ why \notin {"open", "completed", "unknown"}
        /\ "completed" \notin AbandonReasons /\ "open" \notin AbandonReasons
        /\ "unknown" \notin AbandonReasons /\ AbandonReasons \subseteq Outcomes
    BY DEF AbandonReasons, ChildReasons, Outcomes
  <2>2. SessionTypeOK'
    BY <1>6, <2>1 DEF HostTurnEnd, DiesBetweenRows
  <2>3. OpenIsUnique' /\ KeepsHistory
    BY <1>6, <2>1 DEF HostTurnEnd
  <2>4. \A u \in Turns : u # t => ended'[u] = ended[u] /\ turn'[u] = turn[u]
    BY <1>6 DEF HostTurnEnd
  <2>5. ended'[t] # "none" =>
          \/ turn'[t] \in AbandonReasons /\ Compatible(turn'[t], ended'[t])
          \/ turn'[t] = "completed" /\ ended'[t] # "host_turn_interrupted"
    <3>1. ended'[t] # "none" => ended'[t] = why
      BY <1>6 DEF HostTurnEnd
    <3>2. CASE turn[t] = "open"
      BY <1>6, <2>1, <3>1, <3>2 DEF HostTurnEnd, Compatible
    <3>3. CASE turn[t] = "completed"
      BY <1>6, <2>1, <3>1, <3>3 DEF HostTurnEnd, EndsAfterSettling
    <3>4. CASE turn[t] \in AbandonReasons
      BY <1>6, <2>1, <3>1, <3>4 DEF HostTurnEnd
    <3> QED
      BY <1>6, <3>2, <3>3, <3>4 DEF HostTurnEnd, Outcomes
  <2> QED
    BY <2>2, <2>3, <2>4, <2>5
<1>7. ASSUME NEW t \in Turns, NEW why \in ChildReasons, HostChildStop(t, why)
      PROVE  Goal
  BY <1>7 DEF HostChildStop, DiesBetweenRows, Outcomes, AbandonReasons,
              ChildReasons, Compatible
<1>8. ASSUME NEW t \in Turns, RecordPost(t) PROVE Goal
  BY <1>8 DEF RecordPost, Outcomes, AbandonReasons, ChildReasons
<1>9. ASSUME NEW t \in Turns, NEW hooks \in HookSets, RecordPre(t, hooks)
      PROVE  Goal
  <2> DEFINE superseded(u) == IF turn[u] = "open" THEN "superseded_by_new_pre"
                                                  ELSE turn[u]
  <2>1. /\ "superseded_by_new_pre" \in AbandonReasons
        /\ "completed" \notin AbandonReasons /\ "open" \notin AbandonReasons
        /\ AbandonReasons \subseteq Outcomes
        /\ turn[t] = "unknown" /\ ~ finalized
    BY <1>9 DEF AbandonReasons, ChildReasons, Outcomes, RecordPre, PreAllowed
  <2>2. \/ /\ turn' = [u \in Turns |-> IF u = t THEN "open" ELSE superseded(u)]
           /\ preAt' = [preAt EXCEPT ![t] = clock] /\ UNCHANGED crashes
        \/ /\ turn' = [u \in Turns |-> superseded(u)]
           /\ UNCHANGED preAt /\ DiesBetweenRows
    BY <1>9 DEF RecordPre, OpenTurns
  <2>3. UNCHANGED <<clock, gates, postAt, ended, stopped, finalized>>
    BY <1>9 DEF RecordPre
  <2>4. supported' \subseteq Hooks
    BY <1>9 DEF RecordPre, PreHooks
  <2>5. turn' \in [Turns -> Outcomes] /\ preAt' \in [Turns -> Time \cup {NoTime}]
    BY <2>1, <2>2 DEF Outcomes
  <2>6. SessionTypeOK'
    BY <2>2, <2>3, <2>4, <2>5 DEF DiesBetweenRows
  <2>7. \A u \in Turns : u # t =>
          turn'[u] = superseded(u) /\ preAt'[u] = preAt[u]
    BY <2>2
  <2>8. \/ turn'[t] = "open" /\ preAt'[t] = clock
        \/ turn'[t] = "unknown" /\ preAt'[t] = preAt[t]
    BY <2>1, <2>2
  <2>9. OpenIsUnique' /\ KeepsHistory
    BY <2>1, <2>3, <2>7, <2>8
  <2>10. \A u \in Turns : ended[u] # "none" => turn[u] \notin {"open", "unknown"}
    BY <2>1 DEF AbandonReasons, ChildReasons
  <2> QED
    BY <2>1, <2>3, <2>6, <2>7, <2>9, <2>10
<1> QED
  BY <1>1, <1>2, <1>3, <1>4, <1>5, <1>6, <1>7, <1>8, <1>9
     DEF Callback, SessionStep

-----------------------------------------------------------------------------
(* The bridge. *)

\* A receipt speaks of a callback the store recorded, and one that proves a
\* turn settled is right for good, as outcomes are final.
ReceiptsAreTrue ==
  \A r \in receipts :
    /\ r.hook = "pre_llm_call" => preAt[r.turn] # NoTime
    /\ r.hook = "post_llm_call" /\ r.proven => turn[r.turn] = "completed"

\* What BridgeFollowsSession says beside the types.
CyclesFollowTurns ==
  \A i \in DOMAIN cycles :
    /\ \A t \in cycles[i].dirty : t \in Private /\ preAt[t] # NoTime
    /\ \A t \in cycles[i].settled : turn[t] = "completed"
    /\ \A j \in DOMAIN cycles \ {i} :
         /\ cycles[i].dirty \cap cycles[j].dirty = {}
         /\ cycles[i].settled \cap cycles[j].settled = {}

\* Every cycle was begun by an event, which is why there are finitely many.
CyclesHaveEvents ==
  \A i \in DOMAIN cycles : cycles[i].dirty \cup cycles[i].settled # {}

\* What a request found when it read the gate still holds while it is under
\* way: it has the bridge's lock, and only the bridge changes cycles.
RequestHolds ==
  /\ \A i \in DOMAIN cycles : cycles[i].requested => effect[i] # "absent"
  /\ request # "idle" =>
       /\ cycles # <<>>
       /\ Current.dirty # {} /\ Answered(Current) /\ ~ Current.requested
  /\ request = "begun" => effect[Len(cycles)] # "absent"

BridgeTypes ==
  /\ receipts \subseteq Receipt
  /\ cycles \in Seq(Cycle)
  /\ effect \in [1..MaxCycles -> EffectState \cup {"absent"}]
  /\ request \in {"idle", "allowed", "begun"}

\* The inductive invariant.
IInv ==
  /\ SessionInv
  /\ BridgeTypes
  /\ ReceiptsAreTrue
  /\ CyclesFollowTurns
  /\ CyclesHaveEvents
  /\ RequestHolds

\* A cycle for every message and every answer is enough: no two cycles share
\* either, and none is empty.
LEMMA CyclesAreBounded ==
  ASSUME BridgeTypes, CyclesFollowTurns, CyclesHaveEvents
  PROVE  Len(cycles) <= MaxCycles
<1> DEFINE Both == Turns \X {1, 2}
           N == Len(cycles)
           Event(i, p) ==
             \/ p[2] = 1 /\ p[1] \in cycles[i].dirty
             \/ p[2] = 2 /\ p[1] \in cycles[i].settled
           first == [i \in 1..N |-> CHOOSE p \in Both : Event(i, p)]
<1>1. N \in Nat /\ DOMAIN cycles = 1..N
  BY DEF BridgeTypes
<1>2. \A i \in 1..N : \E p \in Both : Event(i, p)
  <2> SUFFICES ASSUME NEW i \in 1..N PROVE \E p \in Both : Event(i, p)
    OBVIOUS
  <2>1. cycles[i] \in Cycle
    BY <1>1 DEF BridgeTypes
  <2>2. cycles[i].dirty \subseteq Turns /\ cycles[i].settled \subseteq Turns
    BY <2>1 DEF Cycle
  <2>3. ASSUME NEW t \in cycles[i].dirty PROVE \E p \in Both : Event(i, p)
    <3>1. <<t, 1>> \in Both /\ Event(i, <<t, 1>>)
      BY <2>2, <2>3
    <3> QED
      BY <3>1
  <2>4. ASSUME NEW t \in cycles[i].settled PROVE \E p \in Both : Event(i, p)
    <3>1. <<t, 2>> \in Both /\ Event(i, <<t, 2>>)
      BY <2>2, <2>4
    <3> QED
      BY <3>1
  <2> QED
    BY <1>1, <2>3, <2>4 DEF CyclesHaveEvents
<1>3. \A i \in 1..N : first[i] \in Both /\ Event(i, first[i])
  BY <1>2
<1>4. \A i, j \in 1..N : first[i] = first[j] => i = j
  <2> SUFFICES ASSUME NEW i \in 1..N, NEW j \in 1..N, first[i] = first[j], i # j
               PROVE  FALSE
    OBVIOUS
  <2>1. Event(i, first[i]) /\ Event(j, first[i])
    BY <1>3
  <2> HIDE DEF first
  <2> QED
    BY <1>1, <2>1 DEF CyclesFollowTurns
<1>5. first \in [1..N -> Both]
  BY <1>3
<1>6. first \in Injection(1..N, Both)
  <2> HIDE DEF first, Both
  <2> QED
    BY <1>4, <1>5 DEF Injection, IsInjective
<1>7. IsFiniteSet(Both) /\ Cardinality(Both) = Cardinality(Turns) * 2
  <2>1. IsFiniteSet({1, 2}) /\ Cardinality({1, 2}) = 2
    <3>1. IsFiniteSet({1}) /\ Cardinality({1}) = 1 /\ {1, 2} = {1} \cup {2}
      BY FS_Singleton
    <3> QED
      BY <3>1, FS_AddElement
  <2> QED
    BY <2>1, TurnsAssumption, FS_Product
<1>8. N <= Cardinality(Both)
  <2> HIDE DEF first, Both
  <2>1. Cardinality(1..N) <= Cardinality(Both)
    BY <1>6, <1>7, FS_Injection
  <2>2. Cardinality(1..N) = N
    <3>1. 1 \in Int /\ N \in Int /\ N >= 0
      BY <1>1
    <3>2. Cardinality(1..N) = IF 1 > N THEN 0 ELSE N - 1 + 1
      <4> HIDE DEF N
      <4> QED
        BY <3>1, FS_Interval
    <3> QED
      BY <3>1, <3>2
  <2> QED
    BY <2>1, <2>2
<1> QED
  BY <1>1, <1>7, <1>8, TurnsAssumption, FS_CardinalityType DEF MaxCycles

\* Nothing the store may do unsays a receipt, or an event of a cycle.
LEMMA HistoryKeepsEvents ==
  ASSUME BridgeTypes, PrivateAssumption, KeepsHistory, UNCHANGED cycles
  PROVE  /\ CyclesFollowTurns => CyclesFollowTurns'
         /\ CyclesHaveEvents => CyclesHaveEvents'
         /\ ReceiptsAreTrue =>
              \A r \in receipts :
                /\ r.hook = "pre_llm_call" => preAt'[r.turn] # NoTime
                /\ r.hook = "post_llm_call" /\ r.proven
                     => turn'[r.turn] = "completed"
<1>1. \A i \in DOMAIN cycles : cycles[i].dirty \subseteq Turns
                                 /\ cycles[i].settled \subseteq Turns
  <2>1. \A i \in DOMAIN cycles : cycles[i] \in Cycle
    BY DEF BridgeTypes
  <2> QED
    BY <2>1 DEF Cycle
<1>2. CyclesFollowTurns => CyclesFollowTurns'
  BY <1>1 DEF CyclesFollowTurns, KeepsHistory
<1>3. CyclesHaveEvents => CyclesHaveEvents'
  BY DEF CyclesHaveEvents
<1>4. \A r \in receipts : r.turn \in Turns
  BY DEF BridgeTypes, Receipt
<1> QED
  BY <1>2, <1>3, <1>4 DEF ReceiptsAreTrue, KeepsHistory

\* What a receipt changes in the cycles: c is the cycle it extends or begins.
LEMMA PutCycleKeepsCycles ==
  ASSUME IInv, request = "idle", NEW c \in Cycle, PutCycle(c),
         UNCHANGED <<session, effect, request>>,
         c.dirty \cup c.settled # {}, ~ c.requested,
         \A t \in c.dirty : t \in Private /\ preAt[t] # NoTime,
         \A t \in c.settled : turn[t] = "completed",
         \A i \in DOMAIN cycles : ~ (Joins /\ i = Len(cycles)) =>
           /\ cycles[i].dirty \cap c.dirty = {}
           /\ cycles[i].settled \cap c.settled = {}
  PROVE  /\ cycles' \in Seq(Cycle)
         /\ CyclesFollowTurns' /\ CyclesHaveEvents' /\ RequestHolds'
<1> DEFINE k == IF Joins THEN Len(cycles) ELSE Len(cycles) + 1
<1>1. cycles \in Seq(Cycle) /\ Len(cycles) \in Nat
        /\ DOMAIN cycles = 1..Len(cycles)
  BY DEF IInv, BridgeTypes
<1>2. Joins => Len(cycles) > 0
  BY <1>1 DEF Joins
<1>3. /\ cycles' \in Seq(Cycle)
      /\ DOMAIN cycles' = DOMAIN cycles \cup {k} /\ cycles'[k] = c
      /\ \A i \in DOMAIN cycles : i # k => cycles'[i] = cycles[i]
  <2>1. CASE Joins
    BY <1>1, <1>2, <2>1 DEF PutCycle
  <2>2. CASE ~ Joins
    BY <1>1, <2>2 DEF PutCycle
  <2> QED
    BY <2>1, <2>2
<1>4. \A i \in DOMAIN cycles : i # k =>
        /\ cycles[i].dirty \cap c.dirty = {}
        /\ cycles[i].settled \cap c.settled = {}
  BY <1>1
<1>5. UNCHANGED <<turn, preAt>>
  BY DEF session
<1> HIDE DEF k
<1>6. CyclesFollowTurns'
  BY <1>3, <1>4, <1>5 DEF IInv, CyclesFollowTurns
<1>7. CyclesHaveEvents'
  BY <1>3 DEF IInv, CyclesHaveEvents
<1>8. RequestHolds'
  BY <1>3 DEF IInv, RequestHolds
<1> QED
  BY <1>3, <1>6, <1>7, <1>8

\* A receipt is consumed once and for what the store recorded.
LEMMA ObserveKeepsInvariant ==
  ASSUME IInv, NEW r \in receipts, Observe(r)
  PROVE  IInv'
<1>1. /\ request = "idle" /\ receipts' = receipts \ {r}
      /\ UNCHANGED <<clock, session, crashes, effect, request>>
  BY DEF Observe
<1>2. /\ SessionInv' /\ receipts' \subseteq Receipt /\ ReceiptsAreTrue'
      /\ effect' \in [1..MaxCycles -> EffectState \cup {"absent"}]
      /\ request' \in {"idle", "allowed", "begun"}
  BY <1>1 DEF IInv, SessionInv, SessionTypeOK, OpenIsUnique, session,
              BridgeTypes, ReceiptsAreTrue
<1>3. CASE UNCHANGED cycles
  BY <1>1, <1>2, <1>3 DEF IInv, BridgeTypes, CyclesFollowTurns,
     CyclesHaveEvents, RequestHolds, Current, Answered, session
<1>4. /\ Target \in Cycle /\ ~ Target.requested
      /\ Joins => Target = cycles[Len(cycles)] /\ Len(cycles) \in DOMAIN cycles
      /\ ~ Joins => Target = NewCycle
  <2>1. NewCycle \in Cycle /\ ~ NewCycle.requested
    BY DEF NewCycle, Cycle
  <2>2. cycles # <<>> => Len(cycles) \in DOMAIN cycles /\ Current \in Cycle
    BY DEF IInv, BridgeTypes, Current
  <2> QED
    BY <2>1, <2>2 DEF Target, Joins, Current
<1>5. /\ \A t \in Target.dirty : t \in Private /\ preAt[t] # NoTime
      /\ \A t \in Target.settled : turn[t] = "completed"
      /\ \A i \in DOMAIN cycles : ~ (Joins /\ i = Len(cycles)) =>
           /\ cycles[i].dirty \cap Target.dirty = {}
           /\ cycles[i].settled \cap Target.settled = {}
  <2>1. CASE Joins
    BY <1>4, <2>1 DEF IInv, CyclesFollowTurns
  <2>2. CASE ~ Joins
    BY <1>4, <2>2 DEF NewCycle
  <2> QED
    BY <2>1, <2>2
<1>6. r.turn \in Turns
  BY DEF IInv, BridgeTypes, Receipt
<1>7. /\ preAt[r.turn] \in Time \cup {NoTime}
      /\ postAt[r.turn] \in Time \cup {NoTime}
  BY <1>6 DEF IInv, SessionInv, SessionTypeOK
<1>8. CASE ~ Seen(r) /\ MarksDirty(r)
             /\ PutCycle([Target EXCEPT !.dirty = @ \cup {r.turn},
                                        !.private = preAt[r.turn]])
  <2> DEFINE c == [Target EXCEPT !.dirty = @ \cup {r.turn},
                                 !.private = preAt[r.turn]]
  <2>1. /\ c \in Cycle /\ c.dirty = Target.dirty \cup {r.turn}
        /\ c.settled = Target.settled /\ ~ c.requested
    BY <1>4, <1>6, <1>7 DEF Cycle
  <2>2. r.turn \in Private /\ preAt[r.turn] # NoTime
    BY <1>8 DEF IInv, ReceiptsAreTrue, MarksDirty
  <2>3. \A i \in DOMAIN cycles : r.turn \notin cycles[i].dirty
    BY <1>8 DEF Seen, MarksDirty
  <2> HIDE DEF c
  <2>4. /\ cycles' \in Seq(Cycle)
        /\ CyclesFollowTurns' /\ CyclesHaveEvents' /\ RequestHolds'
    <3>1. /\ c.dirty \cup c.settled # {}
          /\ \A t \in c.dirty : t \in Private /\ preAt[t] # NoTime
          /\ \A t \in c.settled : turn[t] = "completed"
          /\ \A i \in DOMAIN cycles : ~ (Joins /\ i = Len(cycles)) =>
               /\ cycles[i].dirty \cap c.dirty = {}
               /\ cycles[i].settled \cap c.settled = {}
      BY <1>5, <2>1, <2>2, <2>3
    <3>2. PutCycle(c)
      BY <1>8 DEF c
    <3> QED
      BY <1>1, <2>1, <3>1, <3>2, PutCycleKeepsCycles
  <2> QED
    BY <1>2, <2>4 DEF IInv, BridgeTypes
<1>9. CASE Acceptable(r) /\ ~ Seen(r) /\ MarksSettled(r)
             /\ PutCycle([Target EXCEPT !.settled = @ \cup {r.turn},
                                        !.answered = postAt[r.turn]])
  <2> DEFINE c == [Target EXCEPT !.settled = @ \cup {r.turn},
                                 !.answered = postAt[r.turn]]
  <2>1. /\ c \in Cycle /\ c.settled = Target.settled \cup {r.turn}
        /\ c.dirty = Target.dirty /\ ~ c.requested
    BY <1>4, <1>6, <1>7 DEF Cycle
  <2>2. turn[r.turn] = "completed"
    BY <1>9 DEF IInv, ReceiptsAreTrue, MarksSettled, Acceptable
  <2>3. \A i \in DOMAIN cycles : r.turn \notin cycles[i].settled
    BY <1>9 DEF Seen, MarksSettled
  <2> HIDE DEF c
  <2>4. /\ cycles' \in Seq(Cycle)
        /\ CyclesFollowTurns' /\ CyclesHaveEvents' /\ RequestHolds'
    <3>1. /\ c.dirty \cup c.settled # {}
          /\ \A t \in c.dirty : t \in Private /\ preAt[t] # NoTime
          /\ \A t \in c.settled : turn[t] = "completed"
          /\ \A i \in DOMAIN cycles : ~ (Joins /\ i = Len(cycles)) =>
               /\ cycles[i].dirty \cap c.dirty = {}
               /\ cycles[i].settled \cap c.settled = {}
      BY <1>5, <2>1, <2>2, <2>3
    <3>2. PutCycle(c)
      BY <1>9 DEF c
    <3> QED
      BY <1>1, <2>1, <3>1, <3>2, PutCycleKeepsCycles
  <2> QED
    BY <1>2, <2>4 DEF IInv, BridgeTypes
<1> QED
  BY <1>3, <1>8, <1>9 DEF Observe

\* The store moves on and hands over at most one receipt, of what it recorded.
LEMMA HandOverKeepsInvariant ==
  ASSUME IInv, SessionInv', KeepsHistory,
         NEW r \in Receipt,
         receipts' = receipts \/ receipts' = receipts \cup {r},
         r.hook = "pre_llm_call" /\ r \in receipts' => preAt'[r.turn] # NoTime,
         r.hook = "post_llm_call" /\ r.proven => turn'[r.turn] = "completed",
         UNCHANGED <<cycles, effect, request>>
  PROVE  IInv'
<1>1. BridgeTypes'
  BY DEF IInv, BridgeTypes
<1>2. CyclesFollowTurns' /\ CyclesHaveEvents'
  BY PrivateAssumption, HistoryKeepsEvents DEF IInv
<1>3. \A q \in receipts :
        /\ q.hook = "pre_llm_call" => preAt'[q.turn] # NoTime
        /\ q.hook = "post_llm_call" /\ q.proven => turn'[q.turn] = "completed"
  BY PrivateAssumption, HistoryKeepsEvents DEF IInv
<1>4. ReceiptsAreTrue'
  BY <1>3 DEF ReceiptsAreTrue
<1>5. RequestHolds'
  BY DEF IInv, RequestHolds, Current, Answered
<1> QED
  BY <1>1, <1>2, <1>4, <1>5 DEF IInv

\* A step that leaves the session store alone keeps what the receipts say.
LEMMA BridgeStepKeepsSession ==
  ASSUME IInv, UNCHANGED <<clock, session>>, crashes' \in 0..MaxCrashes
  PROVE  /\ SessionInv'
         /\ receipts' \subseteq receipts => ReceiptsAreTrue'
         /\ UNCHANGED cycles => CyclesFollowTurns' /\ CyclesHaveEvents'
BY DEF IInv, SessionInv, SessionTypeOK, OpenIsUnique, session, ReceiptsAreTrue,
       CyclesFollowTurns, CyclesHaveEvents

\* The step that asks for, records or follows a checkpoint.
LEMMA CheckpointStepKeepsInvariant ==
  ASSUME IInv,
         \/ AllowCheckpoint \/ BeginCheckpoint \/ RecordRequest \/ RequesterDies
         \/ \E i \in DOMAIN cycles : Reconcile(i) \/ HostSettles(i)
  PROVE  IInv'
<1>1. /\ UNCHANGED <<clock, session, receipts>> /\ crashes' \in 0..MaxCrashes
      /\ crashes' = crashes \/ DiesBetweenRows
  BY BoundsAssumption
     DEF AllowCheckpoint, BeginCheckpoint, RecordRequest, RequesterDies,
         Reconcile, HostSettles, DiesBetweenRows, IInv, SessionInv,
         SessionTypeOK
<1>2. SessionInv' /\ ReceiptsAreTrue'
  BY <1>1, BridgeStepKeepsSession
<1>3. /\ cycles \in Seq(Cycle) /\ DOMAIN cycles = 1..Len(cycles)
      /\ Len(cycles) \in Nat /\ Len(cycles) <= MaxCycles /\ MaxCycles \in Nat
  <2>1. MaxCycles \in Nat
    BY TurnsAssumption, FS_CardinalityType DEF MaxCycles
  <2> QED
    BY <2>1, CyclesAreBounded DEF IInv, BridgeTypes
<1>4. CASE AllowCheckpoint
  <2>1. BridgeTypes' /\ RequestHolds'
    BY <1>1, <1>4 DEF AllowCheckpoint, CanCheckpoint, IInv, BridgeTypes,
       RequestHolds, Current, Answered
  <2> QED
    BY <1>1, <1>2, <1>4, <2>1, BridgeStepKeepsSession DEF AllowCheckpoint, IInv
<1>5. CASE BeginCheckpoint
  <2>1. Len(cycles) \in 1..MaxCycles
    BY <1>3, <1>5 DEF BeginCheckpoint, IInv, RequestHolds
  <2>2. /\ effect' \in [1..MaxCycles -> EffectState \cup {"absent"}]
        /\ \A i \in 1..MaxCycles : effect[i] # "absent" => effect'[i] # "absent"
        /\ effect'[Len(cycles)] # "absent"
    <3>1. effect' = [effect EXCEPT ![Len(cycles)] =
                       IF effect[Len(cycles)] = "absent" THEN "intent"
                       ELSE effect[Len(cycles)]]
      BY <1>5 DEF BeginCheckpoint
    <3>2. effect \in [1..MaxCycles -> EffectState \cup {"absent"}]
            /\ "intent" \in EffectState
      BY DEF IInv, BridgeTypes, EffectState
    <3> QED
      BY <2>1, <3>1, <3>2
  <2>3. UNCHANGED <<receipts, cycles>> /\ request = "allowed"
          /\ request' = "begun"
    BY <1>5 DEF BeginCheckpoint
  <2>4. BridgeTypes'
    BY <2>2, <2>3 DEF IInv, BridgeTypes
  <2>5. \A i \in DOMAIN cycles : i \in 1..MaxCycles
    BY <1>3
  <2>6. RequestHolds'
    BY <2>2, <2>3, <2>5 DEF IInv, RequestHolds, Current, Answered
  <2> QED
    BY <1>1, <1>2, <2>3, <2>4, <2>6, BridgeStepKeepsSession DEF IInv
<1>6. CASE RecordRequest
  <2>1. CASE UNCHANGED cycles
    <3>1. BridgeTypes' /\ RequestHolds'
      BY <1>1, <1>6, <2>1 DEF RecordRequest, IInv, BridgeTypes, RequestHolds,
         Current, Answered
    <3> QED
      BY <1>1, <1>2, <2>1, <3>1, BridgeStepKeepsSession DEF IInv
  <2>2. CASE cycles' = [cycles EXCEPT ![Len(cycles)].requested = TRUE]
    <3>1. Len(cycles) \in DOMAIN cycles
      BY <1>3, <1>6 DEF RecordRequest, IInv, RequestHolds
    <3>2. /\ cycles' \in Seq(Cycle) /\ DOMAIN cycles' = DOMAIN cycles
          /\ \A i \in DOMAIN cycles :
               /\ cycles'[i].dirty = cycles[i].dirty
               /\ cycles'[i].settled = cycles[i].settled
               /\ i # Len(cycles) => cycles'[i].requested = cycles[i].requested
      <4> DEFINE c == [cycles[Len(cycles)] EXCEPT !.requested = TRUE]
      <4>1. cycles[Len(cycles)] \in Cycle
        BY <1>3, <3>1
      <4>2. c \in Cycle /\ c.dirty = cycles[Len(cycles)].dirty
              /\ c.settled = cycles[Len(cycles)].settled
        BY <4>1 DEF Cycle
      <4>3. cycles' = [cycles EXCEPT ![Len(cycles)] = c]
        BY <2>2
      <4> HIDE DEF c
      <4> QED
        BY <1>3, <3>1, <4>2, <4>3
    <3>3. UNCHANGED <<effect, turn, preAt>> /\ request = "begun"
            /\ request' = "idle"
      BY <1>1, <1>6 DEF RecordRequest, session
    <3>4. BridgeTypes'
      BY <1>1, <3>2, <3>3 DEF IInv, BridgeTypes
    <3>5. CyclesFollowTurns' /\ CyclesHaveEvents'
      BY <3>2, <3>3 DEF IInv, CyclesFollowTurns, CyclesHaveEvents
    <3>6. RequestHolds'
      BY <3>2, <3>3 DEF IInv, RequestHolds
    <3> QED
      BY <1>2, <3>4, <3>5, <3>6 DEF IInv
  <2> QED
    BY <1>6, <2>1, <2>2 DEF RecordRequest
<1>7. CASE RequesterDies
  <2>1. BridgeTypes' /\ RequestHolds'
    BY <1>1, <1>7 DEF RequesterDies, IInv, BridgeTypes, RequestHolds
  <2> QED
    BY <1>1, <1>2, <1>7, <2>1, BridgeStepKeepsSession DEF RequesterDies, IInv
<1>8. ASSUME NEW i \in DOMAIN cycles, Reconcile(i) PROVE IInv'
  <2>1. /\ cycles' = [cycles EXCEPT ![i].seen = effect[i]]
        /\ request = "idle" /\ cycles[i].requested
        /\ UNCHANGED <<effect, request, turn, preAt>>
    BY <1>1, <1>8 DEF Reconcile, Reconcilable, Requested, session
  <2>2. effect[i] \in EffectState
    BY <1>3, <2>1 DEF IInv, BridgeTypes, RequestHolds
  <2>3. /\ cycles' \in Seq(Cycle) /\ DOMAIN cycles' = DOMAIN cycles
        /\ \A j \in DOMAIN cycles :
             /\ cycles'[j].dirty = cycles[j].dirty
             /\ cycles'[j].settled = cycles[j].settled
             /\ cycles'[j].requested = cycles[j].requested
    <3> DEFINE c == [cycles[i] EXCEPT !.seen = effect[i]]
    <3>1. cycles[i] \in Cycle
      BY <1>3
    <3>2. c \in Cycle /\ c.dirty = cycles[i].dirty
            /\ c.settled = cycles[i].settled /\ c.requested = cycles[i].requested
      BY <2>2, <3>1 DEF Cycle
    <3>3. cycles' = [cycles EXCEPT ![i] = c]
      BY <2>1
    <3> HIDE DEF c
    <3> QED
      BY <1>3, <3>2, <3>3
  <2>4. BridgeTypes'
    BY <1>1, <2>1, <2>3 DEF IInv, BridgeTypes
  <2>5. CyclesFollowTurns' /\ CyclesHaveEvents'
    BY <2>1, <2>3 DEF IInv, CyclesFollowTurns, CyclesHaveEvents
  <2>6. RequestHolds'
    BY <2>1, <2>3 DEF IInv, RequestHolds
  <2> QED
    BY <1>2, <2>4, <2>5, <2>6 DEF IInv
<1>9. ASSUME NEW i \in DOMAIN cycles, HostSettles(i) PROVE IInv'
  <2>1. PICK next \in EffectState : effect' = [effect EXCEPT ![i] = next]
    BY <1>9 DEF HostSettles
  <2>2. UNCHANGED <<cycles, request>>
    BY <1>9 DEF HostSettles
  <2>3. /\ effect' \in [1..MaxCycles -> EffectState \cup {"absent"}]
        /\ \A j \in 1..MaxCycles : effect[j] # "absent" => effect'[j] # "absent"
    BY <2>1 DEF IInv, BridgeTypes, EffectState
  <2>4. BridgeTypes'
    BY <1>1, <2>2, <2>3 DEF IInv, BridgeTypes
  <2>5. RequestHolds'
    BY <1>3, <2>2, <2>3 DEF IInv, RequestHolds, Current, Answered
  <2> QED
    BY <1>1, <1>2, <2>2, <2>4, <2>5, BridgeStepKeepsSession DEF IInv
<1> QED
  BY <1>4, <1>5, <1>6, <1>7, <1>8, <1>9

-----------------------------------------------------------------------------
(* The theorems. *)

\* A process that dies, between the two files or in a request, changes what is
\* under way and nothing that is stored.
LEMMA StepKeepsInvariant ==
  ASSUME IInv, [Next]_vars
  PROVE  IInv'
<1>1. CASE UNCHANGED vars
  BY <1>1 DEF vars, bridge, session, IInv, SessionInv, SessionTypeOK,
     OpenIsUnique, BridgeTypes, ReceiptsAreTrue, CyclesFollowTurns,
     CyclesHaveEvents, RequestHolds, Current, Answered
<1>2. CASE SessionHook
  <2>1. SessionInv' /\ KeepsHistory /\ UNCHANGED <<receipts, cycles, effect, request>>
    BY <1>2, CallbackKeepsSession DEF SessionHook, Callback, IInv, bridge
  <2>2. BridgeTypes' /\ ReceiptsAreTrue' /\ RequestHolds'
    BY <2>1, PrivateAssumption, HistoryKeepsEvents DEF IInv, BridgeTypes,
       ReceiptsAreTrue, RequestHolds, Current, Answered
  <2>3. CyclesFollowTurns' /\ CyclesHaveEvents'
    BY <2>1, PrivateAssumption, HistoryKeepsEvents DEF IInv
  <2> QED
    BY <2>1, <2>2, <2>3 DEF IInv
<1>3. ASSUME NEW t \in Turns, PreHook(t) PROVE IInv'
  <2> DEFINE r == [hook |-> "pre_llm_call", turn |-> t, proven |-> FALSE]
  <2>1. PICK hooks \in HookSets : RecordPre(t, hooks)
    BY <1>3 DEF PreHook
  <2>2. SessionInv' /\ KeepsHistory
    BY <2>1, CallbackKeepsSession DEF Callback, IInv
  <2>3. turn[t] = "unknown"
    BY <2>1 DEF RecordPre, PreAllowed
  <2>4. r \in Receipt /\ r.hook = "pre_llm_call" /\ r.turn = t
    BY DEF Receipt
  <2>5. /\ receipts' = receipts \/ receipts' = receipts \cup {r}
        /\ turn'[t] # "open" => receipts' = receipts
        /\ UNCHANGED <<cycles, effect, request>>
    BY <1>3 DEF PreHook, Receipts
  <2>6. turn'[t] = "open" => preAt'[t] # NoTime
    BY <2>2, <2>3 DEF KeepsHistory
  <2>7. r \in receipts' => preAt'[t] # NoTime
    <3>1. r \in receipts => preAt[t] # NoTime
      BY <2>4 DEF IInv, ReceiptsAreTrue
    <3>2. preAt[t] # NoTime => preAt'[t] # NoTime
      BY <2>2 DEF KeepsHistory
    <3> QED
      BY <2>5, <2>6, <3>1, <3>2
  <2> HIDE DEF r
  <2> QED
    BY <2>2, <2>4, <2>5, <2>7, HandOverKeepsInvariant
<1>4. ASSUME NEW t \in Turns, PostHook(t) PROVE IInv'
  <2> DEFINE r == [hook |-> "post_llm_call", turn |-> t,
                   proven |-> ProvenNow(t, turn')]
  <2>1. SessionInv' /\ KeepsHistory
    BY <1>4, CallbackKeepsSession DEF PostHook, Callback, IInv
  <2>2. ProvenNow(t, turn') \in BOOLEAN
          /\ (ProvenNow(t, turn') => turn'[t] = "completed")
    BY DEF ProvenNow
  <2>3. r \in Receipt /\ r.hook = "post_llm_call" /\ r.turn = t
          /\ r.proven = ProvenNow(t, turn')
    BY <2>2 DEF Receipt
  <2>4. receipts' = receipts \cup {r} /\ UNCHANGED <<cycles, effect, request>>
    BY <1>4 DEF PostHook, Receipts
  <2> HIDE DEF r
  <2> QED
    BY <2>1, <2>2, <2>3, <2>4, HandOverKeepsInvariant
<1>5. ASSUME NEW t \in Turns, NEW hook \in {"pre_llm_call", "post_llm_call"},
             RepeatHook(t, hook)
      PROVE  IInv'
  <2>1. UNCHANGED <<clock, session, crashes, cycles, effect, request>>
    BY <1>5 DEF RepeatHook
  <2>2. SessionInv' /\ KeepsHistory
    <3>1. SessionInv'
      BY <2>1, BridgeStepKeepsSession DEF IInv, SessionInv, SessionTypeOK
    <3> QED
      BY <2>1, <3>1 DEF KeepsHistory, session
  <2>3. CASE hook = "pre_llm_call" /\ preAt[t] # NoTime
               /\ receipts' = Receipts(t, hook, FALSE)
    <3> DEFINE r == [hook |-> hook, turn |-> t, proven |-> FALSE]
    <3>1. r \in Receipt /\ r.hook = "pre_llm_call" /\ r.turn = t
      BY <2>3 DEF Receipt
    <3>2. receipts' = receipts \cup {r} /\ preAt'[t] # NoTime
      BY <2>1, <2>3 DEF Receipts, session
    <3> HIDE DEF r
    <3> QED
      BY <2>1, <2>2, <3>1, <3>2, HandOverKeepsInvariant
  <2>4. CASE hook = "post_llm_call" /\ postAt[t] # NoTime
               /\ receipts' = Receipts(t, hook, ProvenNow(t, turn))
    <3> DEFINE r == [hook |-> hook, turn |-> t, proven |-> ProvenNow(t, turn)]
    <3>1. ProvenNow(t, turn) \in BOOLEAN
            /\ (ProvenNow(t, turn) => turn'[t] = "completed")
      BY <2>1 DEF ProvenNow, session
    <3>2. r \in Receipt /\ r.hook = "post_llm_call" /\ r.turn = t
            /\ r.proven = ProvenNow(t, turn)
      BY <2>4, <3>1 DEF Receipt
    <3>3. receipts' = receipts \cup {r}
      BY <2>4 DEF Receipts
    <3> HIDE DEF r
    <3> QED
      BY <2>1, <2>2, <3>1, <3>2, <3>3, HandOverKeepsInvariant
  <2> QED
    BY <1>5, <2>3, <2>4 DEF RepeatHook
<1>6. ASSUME NEW r \in receipts, LoseReceipt(r) PROVE IInv'
  <2>1. /\ UNCHANGED <<clock, session, cycles, effect, request>>
        /\ receipts' \subseteq receipts /\ crashes' \in 0..MaxCrashes
    BY <1>6, BoundsAssumption DEF LoseReceipt, DiesBetweenRows, IInv,
       SessionInv, SessionTypeOK
  <2>2. BridgeTypes' /\ RequestHolds'
    BY <2>1 DEF IInv, BridgeTypes, RequestHolds, Current, Answered
  <2> QED
    BY <2>1, <2>2, BridgeStepKeepsSession DEF IInv
<1> QED
  BY <1>1, <1>2, <1>3, <1>4, <1>5, <1>6, ObserveKeepsInvariant,
     CheckpointStepKeepsInvariant DEF Next

\* The invariant that carries the others holds of every reachable state.
LEMMA InductiveInvariant == Spec => []IInv
<1>1. Init => IInv
  <2> SUFFICES ASSUME Init PROVE IInv
    OBVIOUS
  <2> USE DEF Init, SessionInit
  <2>1. SessionInv
    <3>1. "unknown" \in Outcomes /\ 0 \in Time /\ 0 \in 0..MaxCrashes
      BY BoundsAssumption DEF Outcomes, Time
    <3>2. SessionTypeOK
      BY <3>1 DEF SessionTypeOK
    <3> QED
      BY <3>2 DEF SessionInv, OpenIsUnique
  <2>2. BridgeTypes
    BY DEF BridgeTypes
  <2>3. ReceiptsAreTrue /\ CyclesFollowTurns /\ CyclesHaveEvents /\ RequestHolds
    BY DEF ReceiptsAreTrue, CyclesFollowTurns, CyclesHaveEvents, RequestHolds
  <2> QED
    BY <2>1, <2>2, <2>3 DEF IInv
<1> QED
  BY <1>1, StepKeepsInvariant, PTL DEF Spec

\* The bridge's cycles agree with the session store, share no event, and are at
\* most two for each turn: whatever hooks are repeated, receipts lost and
\* processes stopped between the two files.
THEOREM BridgeAlwaysFollowsSession == Spec => []BridgeFollowsSession
<1>1. IInv => BridgeFollowsSession
  BY CyclesAreBounded DEF IInv, SessionInv, BridgeTypes, CyclesFollowTurns,
     BridgeFollowsSession, TypeOK
<1> QED
  BY <1>1, InductiveInvariant, PTL

\* At most one turn is open, and none of a finalized session.
THEOREM AtMostOneOpenTurn == Spec => []OneOpenTurn
<1>1. IInv => OneOpenTurn
  <2> SUFFICES ASSUME IInv PROVE OneOpenTurn
    OBVIOUS
  <2>1. finalized => OpenTurns = {}
    BY DEF IInv, SessionInv, OpenIsUnique, OpenTurns
  <2>2. CASE OpenTurns = {}
    BY <2>1, <2>2, FS_EmptySet DEF OneOpenTurn
  <2>3. ASSUME NEW t \in OpenTurns PROVE OneOpenTurn
    <3>1. OpenTurns = {t}
      BY <2>3 DEF IInv, SessionInv, OpenIsUnique, OpenTurns
    <3>2. Cardinality({t}) = 1
      BY FS_Singleton
    <3> QED
      BY <2>1, <3>1, <3>2 DEF OneOpenTurn
  <2> QED
    BY <2>2, <2>3
<1> QED
  BY <1>1, InductiveInvariant, PTL

\* Two accounts of one turn's end agree, though they are written by two calls
\* of which either may be cut short.
THEOREM EndsAlwaysAgree == Spec => []EndsAgree
<1>1. IInv => EndsAgree
  BY DEF IInv, SessionInv, EndsAgree
<1> QED
  BY <1>1, InductiveInvariant, PTL

\* Whoever reports it, and however often, a turn ends once.
THEOREM OutcomesStayFinal == Spec => OutcomesAreFinal
<1> DEFINE Final == \A t \in Turns :
             turn[t] \notin {"unknown", "open"} => turn'[t] = turn[t]
<1>1. IInv /\ [Next]_vars => [Final]_sessionVars
  <2> SUFFICES ASSUME IInv, Next PROVE Final \/ UNCHANGED sessionVars
    BY DEF vars, sessionVars
  <2>1. Callback => Final
    BY CallbackKeepsSession DEF IInv, KeepsHistory
  <2>2. Callback \/ UNCHANGED turn
    BY DEF Next, Callback, SessionHook, PreHook, PostHook, RepeatHook, Observe,
       LoseReceipt, AllowCheckpoint, BeginCheckpoint, RecordRequest,
       RequesterDies, Reconcile, HostSettles, session
  <2> QED
    BY <2>1, <2>2
<1> QED
  BY <1>1, InductiveInvariant, PTL DEF Spec, OutcomesAreFinal

\* A checkpoint that was asked for covers the same events ever after.
THEOREM CheckpointsStayFrozen == Spec => CheckpointsAreFrozen
<1> DEFINE Frozen == \A i \in Requested :
             cycles'[i].dirty = cycles[i].dirty
               /\ cycles'[i].settled = cycles[i].settled
<1>1. IInv /\ [Next]_vars => [Frozen]_vars
  <2> SUFFICES ASSUME IInv, Next PROVE Frozen
    OBVIOUS
  <2>1. cycles \in Seq(Cycle)
    BY DEF IInv, BridgeTypes
  <2>2. CASE UNCHANGED cycles
    BY <2>2
  <2>3. ASSUME NEW c, PutCycle(c) PROVE Frozen
    <3>1. CASE Joins
      BY <2>1, <2>3, <3>1 DEF PutCycle, Requested, Joins, Current
    <3>2. CASE ~ Joins
      BY <2>1, <2>3, <3>2 DEF PutCycle, Requested
    <3> QED
      BY <3>1, <3>2
  <2>4. ASSUME NEW k \in DOMAIN cycles, NEW x,
               \/ cycles' = [cycles EXCEPT ![k].requested = x]
               \/ cycles' = [cycles EXCEPT ![k].seen = x]
        PROVE  Frozen
    <3>1. cycles[k] \in Cycle
      BY <2>1
    <3>2. /\ \A j \in DOMAIN cycles : j # k => cycles'[j] = cycles[j]
          /\ cycles'[k].dirty = cycles[k].dirty
          /\ cycles'[k].settled = cycles[k].settled
      BY <2>1, <2>4, <3>1 DEF Cycle
    <3> QED
      BY <3>2 DEF Requested
  <2>5. CASE RecordRequest
    <3>1. Len(cycles) \in DOMAIN cycles
      BY <2>1, <2>5 DEF RecordRequest, IInv, RequestHolds
    <3>2. \/ cycles' = [cycles EXCEPT ![Len(cycles)].requested = TRUE]
          \/ UNCHANGED cycles
      BY <2>5 DEF RecordRequest
    <3> QED
      BY <2>2, <2>4, <3>1, <3>2
  <2>6. ASSUME NEW r \in receipts, Observe(r) PROVE Frozen
    BY <2>2, <2>3, <2>6 DEF Observe
  <2>7. ASSUME NEW i \in DOMAIN cycles, Reconcile(i) PROVE Frozen
    BY <2>4, <2>7 DEF Reconcile
  <2> QED
    BY <2>2, <2>5, <2>6, <2>7
       DEF Next, SessionHook, bridge, PreHook, PostHook, RepeatHook,
           LoseReceipt, AllowCheckpoint, BeginCheckpoint, RequesterDies,
           HostSettles
<1> QED
  BY <1>1, InductiveInvariant, PTL DEF Spec, CheckpointsAreFrozen

\* The gate is read before the effect is begun, and still holds then: whoever
\* would change the cycle needs the bridge's lock.
THEOREM IntentsStayAnswered == Spec => IntentsAreAnswered
<1> DEFINE Covered == \A i \in DOMAIN cycles :
             effect[i] = "absent" /\ effect'[i] # "absent"
               => cycles[i].dirty # {} /\ Answered(cycles[i])
<1>1. IInv /\ [Next]_vars => [Covered]_vars
  <2> SUFFICES ASSUME IInv, Next PROVE Covered
    OBVIOUS
  <2>1. CASE UNCHANGED effect
    BY <2>1
  <2>2. CASE BeginCheckpoint
    <3>1. \A i \in DOMAIN cycles : i # Len(cycles) => effect'[i] = effect[i]
      <4>1. \A i \in DOMAIN cycles : i \in 1..MaxCycles
        <5>1. MaxCycles \in Nat /\ Len(cycles) <= MaxCycles
          BY TurnsAssumption, FS_CardinalityType, CyclesAreBounded
             DEF MaxCycles, IInv
        <5> QED
          BY <5>1 DEF IInv, BridgeTypes
      <4> QED
        BY <2>2, <4>1 DEF BeginCheckpoint, IInv, BridgeTypes
    <3>2. Current.dirty # {} /\ Answered(Current)
      BY <2>2 DEF BeginCheckpoint, IInv, RequestHolds
    <3> QED
      BY <3>1, <3>2 DEF Current
  <2>3. ASSUME NEW k \in DOMAIN cycles, HostSettles(k) PROVE Covered
    <3>1. effect[k] # "absent"
      BY <2>3 DEF HostSettles, Edge, Pendable, Unverified
    <3>2. \A i \in DOMAIN cycles : i # k => effect'[i] = effect[i]
      <4>1. \A i \in DOMAIN cycles : i \in DOMAIN effect
        <5>1. MaxCycles \in Nat /\ Len(cycles) <= MaxCycles
          BY TurnsAssumption, FS_CardinalityType, CyclesAreBounded
             DEF MaxCycles, IInv
        <5> QED
          BY <5>1 DEF IInv, BridgeTypes
      <4> QED
        BY <2>3, <4>1 DEF HostSettles
    <3> QED
      BY <3>1, <3>2
  <2> QED
    BY <2>1, <2>2, <2>3
       DEF Next, SessionHook, bridge, PreHook, PostHook, RepeatHook, Observe,
           LoseReceipt, AllowCheckpoint, RecordRequest, RequesterDies, Reconcile
<1> QED
  BY <1>1, InductiveInvariant, PTL DEF Spec, IntentsAreAnswered

=============================================================================
