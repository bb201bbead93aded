---------------------------- MODULE MCChatSession ----------------------------
(***************************************************************************)
(* ChatSession for a body of up to five calls: two turns, a recall (which  *)
(* the client may repeat), a touch and a close by hand.                    *)
(***************************************************************************)
EXTENDS ChatSession

MCBody == {"hello", "reply", "context", "beat", "bye"}

MCDoes == [hello |-> "store", reply |-> "store", context |-> "recall",
           beat |-> "touch", bye |-> "close"]
=============================================================================
