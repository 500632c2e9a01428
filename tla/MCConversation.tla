--------------------------- MODULE MCConversation ---------------------------
(***************************************************************************)
(* ConversationBridge with turns that are alike: all of them begin with a  *)
(* private message.                                                        *)
(***************************************************************************)
EXTENDS ConversationBridge, TLC

Symmetric == Permutations(Turns)
=============================================================================
