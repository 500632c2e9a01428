CONSTANTS
  Turns = {t1, t2}
  Private = {t1, t2}
  HostReasons = {"host_turn_incomplete", "host_turn_interrupted"}
  HookSets = {{"on_session_start", "pre_llm_call", "post_llm_call", "on_session_end", "on_session_finalize", "subagent_stop"}, {"pre_llm_call", "post_llm_call"}}
  MaxTime = 1
  MaxCrashes = 1
  QuietWindow = 1
  OverdueWindow = 1
  MaxInFlight = 1
SPECIFICATION Spec
SYMMETRY Symmetric
INVARIANTS OneOpenTurn EndsAgree BridgeFollowsSession
PROPERTIES OutcomesAreFinal CheckpointsAreFrozen IntentsAreAnswered
CHECK_DEADLOCK FALSE
