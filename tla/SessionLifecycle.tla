-------------------------- MODULE SessionLifecycle --------------------------
(***************************************************************************)
(* SessionLifecycleStore (moonbite_plugin/session.py): the turns of one    *)
(* session lifecycle over session_lifecycle.jsonl, driven by the hooks of  *)
(* the host (_service/session_lifecycle.py, hermes_adapter.py).            *)
(*                                                                         *)
(* Every mutator holds session_lifecycle.mutation.lock, replays the file,  *)
(* validates all it is about to write and appends one row or two.  The     *)
(* replay is kept here as its result.  The process may die between two     *)
(* appends: the first row then stands alone and the call is lost.  A call  *)
(* that raises, or finds its callback recorded, changes nothing.           *)
(***************************************************************************)
EXTENDS Integers, FiniteSets

CONSTANTS
  Turns,        \* turn identifiers of the host
  HostReasons,  \* terminal reasons the adapter derives from a turn end
  HookSets,     \* the capabilities a lifecycle may declare
  MaxTime,      \* bound: the last instant a run reaches
  MaxCrashes    \* bound: how many calls die between two appends

ASSUME TurnsAssumption == IsFiniteSet(Turns)
ASSUME BoundsAssumption == MaxTime \in Nat /\ MaxCrashes \in Nat

VARIABLES
  clock,      \* the adapter's clock
  supported,  \* supported_hooks of the first callback, {} before it
  gates,      \* recorded pre_gateway_dispatch and on_session_start
  turn,       \* outcome of every turn
  preAt,      \* observed_at of the pre_llm_call of a turn
  postAt,     \* observed_at of its settled post_llm_call
  ended,      \* terminal_reason of the on_session_end of a turn
  stopped,    \* terminal_reason of the lifecycle's subagent_stop
  finalized,
  crashes

session == <<supported, gates, turn, preAt, postAt, ended, stopped, finalized>>
sessionVars == <<clock, session, crashes>>

Gates == {"pre_gateway_dispatch", "on_session_start"}
Hooks == Gates \cup {"pre_llm_call", "post_llm_call", "on_session_end",
                     "on_session_finalize", "subagent_stop"}
ChildReasons == {"host_turn_failed", "host_turn_interrupted"}
AbandonReasons == HostReasons \cup ChildReasons \cup
  {"superseded_by_new_pre", "operator_repair", "host_shutdown",
   "host_session_finalized"}

ASSUME HooksAssumption == HookSets \subseteq SUBSET Hooks
ASSUME ReasonsAssumption ==
  HostReasons \subseteq {"host_turn_completed", "host_turn_failed",
                         "host_turn_incomplete", "host_turn_interrupted"}

Time == 0..MaxTime
NoTime == -1

\* An abandoned turn is known by the reason of its terminal.
Outcomes == {"unknown", "open", "completed"} \cup AbandonReasons

SessionTypeOK ==
  /\ clock \in Time
  /\ supported \subseteq Hooks
  /\ gates \subseteq Gates
  /\ turn \in [Turns -> Outcomes]
  /\ preAt \in [Turns -> Time \cup {NoTime}]
  /\ postAt \in [Turns -> Time \cup {NoTime}]
  /\ ended \in [Turns -> HostReasons \cup {"none"}]
  /\ stopped \in ChildReasons \cup {"none"}
  /\ finalized \in BOOLEAN
  /\ crashes \in 0..MaxCrashes

SessionInit ==
  /\ clock = 0
  /\ supported = {}
  /\ gates = {}
  /\ turn = [t \in Turns |-> "unknown"]
  /\ preAt = [t \in Turns |-> NoTime]
  /\ postAt = [t \in Turns |-> NoTime]
  /\ ended = [t \in Turns |-> "none"]
  /\ stopped = "none"
  /\ finalized = FALSE
  /\ crashes = 0

Known == supported # {}
OpenTurns == {t \in Turns : turn[t] = "open"}
UsedTurns == {t \in Turns : turn[t] # "unknown"}

\* A host that reports a failed and an incomplete end of one turn is taken to
\* have reported one end (_terminal_reasons_compatible).
Compatible(a, b) ==
  a = b \/ {a, b} = {"host_turn_failed", "host_turn_incomplete"}

Abandoned(t, why) == turn' = [turn EXCEPT ![t] = why]

\* The process dies after the first of two rows.
DiesBetweenRows == crashes < MaxCrashes /\ crashes' = crashes + 1

-----------------------------------------------------------------------------
(* record_hook. *)

\* Both gates come once and in order; the first callback of a lifecycle fixes
\* what it supports.
RecordGate(g, hooks) ==
  /\ ~ finalized
  /\ hooks = supported \/ ~ Known
  /\ g \in hooks \ gates
  /\ g = "on_session_start" /\ "pre_gateway_dispatch" \in hooks
       => "pre_gateway_dispatch" \in gates
  /\ supported' = hooks
  /\ gates' = gates \cup {g}
  /\ UNCHANGED <<clock, turn, preAt, postAt, ended, stopped, finalized, crashes>>

\* _validate_new_pre.
PreAllowed(t, hooks) ==
  /\ ~ finalized
  /\ "pre_llm_call" \in hooks
  /\ Gates \cap hooks \subseteq gates
  /\ turn[t] = "unknown"

\* pre_turn_context: a pre_llm_call that finds no lifecycle starts one that
\* promises no on_session_start.
PreHooks(hooks) == IF Known THEN supported ELSE hooks \ {"on_session_start"}

\* Bug: the open turn is left open.
RecordPreBeside(t, hooks) ==
  /\ hooks \in HookSets
  /\ PreAllowed(t, PreHooks(hooks))
  /\ supported' = PreHooks(hooks)
  /\ turn' = [turn EXCEPT ![t] = "open"]
  /\ preAt' = [preAt EXCEPT ![t] = clock]
  /\ UNCHANGED <<clock, gates, postAt, ended, stopped, finalized, crashes>>

\* A new turn supersedes the open one: its terminal row, then the new
\* callback, and the whole check before either.
RecordPre(t, hooks) ==
  /\ hooks \in HookSets
  /\ PreAllowed(t, PreHooks(hooks))
  /\ supported' = PreHooks(hooks)
  /\ LET closed == [u \in Turns |-> IF u \in OpenTurns
                                      THEN "superseded_by_new_pre"
                                      ELSE turn[u]]
     IN \/ /\ turn' = [closed EXCEPT ![t] = "open"]
           /\ preAt' = [preAt EXCEPT ![t] = clock]
           /\ UNCHANGED crashes
        \/ /\ OpenTurns # {} /\ DiesBetweenRows
           /\ turn' = closed
           /\ UNCHANGED preAt
  /\ UNCHANGED <<clock, gates, postAt, ended, stopped, finalized>>

\* A settled post_llm_call completes the turn it belongs to.
RecordPost(t) ==
  /\ ~ finalized
  /\ "post_llm_call" \in supported
  /\ turn[t] = "open"
  /\ turn' = [turn EXCEPT ![t] = "completed"]
  /\ postAt' = [postAt EXCEPT ![t] = clock]
  /\ UNCHANGED <<clock, supported, gates, preAt, ended, stopped, finalized,
                 crashes>>

\* _validate_finalize.
MayFinalize ==
  /\ ~ finalized
  /\ "on_session_finalize" \in supported
  /\ Gates \cap supported \subseteq gates
  /\ "pre_llm_call" \in supported => UsedTurns # {}

\* on_session_finalize with no definitive reason: a turn in flight refuses it.
RecordFinalize ==
  /\ MayFinalize
  /\ OpenTurns = {}
  /\ finalized' = TRUE
  /\ UNCHANGED <<clock, supported, gates, turn, preAt, postAt, ended, stopped,
                 crashes>>

-----------------------------------------------------------------------------
(* The host's evidence, and the operator's. *)

AbandonOpenTurn(t) ==
  /\ turn[t] = "open"
  /\ Abandoned(t, "operator_repair")
  /\ UNCHANGED <<clock, supported, gates, preAt, postAt, ended, stopped,
                 finalized, crashes>>

\* A settled turn may still end in one of these ways.
EndsAfterSettling ==
  {"host_turn_completed", "host_turn_failed", "host_turn_incomplete"}

\* Bug: a second account of how the turn ended is taken over the first.
HostTurnEndTrusted(t, why) ==
  /\ turn[t] # "unknown"
  /\ ended[t] = "none"
  /\ turn[t] = "completed" => why \in EndsAfterSettling
  /\ turn' = IF turn[t] = "completed" THEN turn ELSE [turn EXCEPT ![t] = why]
  /\ ended' = [ended EXCEPT ![t] = why]
  /\ UNCHANGED <<clock, supported, gates, preAt, postAt, stopped, finalized,
                 crashes>>

\* Bug: the end is not compared with the terminal the turn has.
HostTurnEndUnchecked(t, why) ==
  /\ turn[t] # "unknown" /\ ended[t] = "none"
  /\ "on_session_end" \in supported /\ ~ finalized
  /\ turn' = IF turn[t] = "open" THEN [turn EXCEPT ![t] = why] ELSE turn
  /\ ended' = [ended EXCEPT ![t] = why]
  /\ UNCHANGED <<clock, supported, gates, preAt, postAt, stopped, finalized,
                 crashes>>

\* record_host_turn_end: a turn still open is abandoned with the host's reason;
\* then the callback, where the lifecycle records it.
HostTurnEnd(t, why) ==
  LET recordsHook == "on_session_end" \in supported
  IN /\ turn[t] # "unknown"
     /\ ended[t] = "none"
     /\ turn[t] \in AbandonReasons => Compatible(turn[t], why) /\ recordsHook
     /\ turn[t] = "completed" => why \in EndsAfterSettling /\ recordsHook
     /\ recordsHook => ~ finalized
     /\ turn' = IF turn[t] = "open" THEN [turn EXCEPT ![t] = why] ELSE turn
     /\ \/ /\ ended' = IF recordsHook THEN [ended EXCEPT ![t] = why] ELSE ended
           /\ UNCHANGED crashes
        \/ /\ turn[t] = "open" /\ recordsHook /\ DiesBetweenRows
           /\ UNCHANGED ended
     /\ UNCHANGED <<clock, supported, gates, preAt, postAt, stopped, finalized>>

\* The turn a child's stop speaks of: the open one, or the only one.
StopsTurn(t) ==
  IF OpenTurns # {} THEN t \in OpenTurns ELSE UsedTurns = {t}

\* record_host_child_stop.
HostChildStop(t, why) ==
  LET recordsHook == "subagent_stop" \in supported
  IN /\ stopped = "none" /\ ~ finalized
     /\ StopsTurn(t)
     /\ \/ turn[t] = "open"
        \/ turn[t] \in AbandonReasons /\ Compatible(turn[t], why) /\ recordsHook
     /\ turn' = IF turn[t] = "open" THEN [turn EXCEPT ![t] = why] ELSE turn
     /\ \/ /\ stopped' = IF recordsHook THEN why ELSE stopped
           /\ UNCHANGED crashes
        \/ /\ turn[t] = "open" /\ recordsHook /\ DiesBetweenRows
           /\ UNCHANGED stopped
     /\ UNCHANGED <<clock, supported, gates, preAt, postAt, ended, finalized>>

\* record_host_shutdown, from a finalize or a turn end without identifiers.
HostShutdown(t) ==
  /\ turn[t] = "open"
  /\ Abandoned(t, "host_shutdown")
  /\ UNCHANGED <<clock, supported, gates, preAt, postAt, ended, stopped,
                 finalized, crashes>>

\* record_host_finalize, for a definitive reason: the terminal of the turn in
\* flight, then the callback.
HostFinalize ==
  /\ MayFinalize
  /\ turn' = [t \in Turns |-> IF turn[t] = "open" THEN "host_session_finalized"
                                                  ELSE turn[t]]
  /\ \/ finalized' = TRUE /\ UNCHANGED crashes
     \/ /\ OpenTurns # {} /\ DiesBetweenRows
        /\ UNCHANGED finalized
  /\ UNCHANGED <<clock, supported, gates, preAt, postAt, ended, stopped>>

Tick ==
  /\ clock < MaxTime
  /\ clock' = clock + 1
  /\ UNCHANGED <<session, crashes>>

\* The callbacks no later component looks at.
SessionStep ==
  \/ Tick
  \/ \E g \in Gates, hooks \in HookSets : RecordGate(g, hooks)
  \/ RecordFinalize
  \/ HostFinalize
  \/ \E t \in Turns : AbandonOpenTurn(t) \/ HostShutdown(t)
  \/ \E t \in Turns, why \in HostReasons : HostTurnEnd(t, why)
  \/ \E t \in Turns, why \in ChildReasons : HostChildStop(t, why)

-----------------------------------------------------------------------------
(* Correctness. *)

\* At most one turn is in flight, and none once the session is finalized:
\* nothing but the callbacks themselves tells the bridge that a chat is active.
OneOpenTurn ==
  /\ Cardinality(OpenTurns) <= 1
  /\ finalized => OpenTurns = {}

\* A turn ends once and in one way, whoever reports it: its post, a successor,
\* the host, a parent, a shutdown or the operator.
OutcomesAreFinal ==
  [][\A t \in Turns :
       turn[t] \notin {"unknown", "open"} => turn'[t] = turn[t]]_sessionVars

\* The host's account of an end agrees with the terminal the turn has, also
\* when a crash separated the two rows and another hook came in between.
EndsAgree ==
  \A t \in Turns : ended[t] # "none" =>
    \/ turn[t] \in AbandonReasons /\ Compatible(turn[t], ended[t])
    \/ turn[t] = "completed" /\ ended[t] # "host_turn_interrupted"
=============================================================================
