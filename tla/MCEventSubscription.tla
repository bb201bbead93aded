-------------------------- MODULE MCEventSubscription --------------------------
(***************************************************************************)
(* EventSubscription with two agents and a tag: events that match, that    *)
(* have the wrong agent or no wanted tag, that are no event, and that are  *)
(* too large.                                                              *)
(***************************************************************************)
EXTENDS EventSubscription

CONSTANTS me, other, t
TwoAgents == {me, other}
OneTag == {t}
=============================================================================
