---------------------------- MODULE MCCostStorage ----------------------------
(***************************************************************************)
(* CostStorage for three cost records of two agents and two models, beside *)
(* one receipt.                                                            *)
(***************************************************************************)
EXTENDS CostStorage

Cost(id, agent, model, n) ==
  [id |-> id, request |-> "q", agent |-> agent, provider |-> "p", model |-> model,
   actual_cost |-> n]

MCCosts == {Cost("c1", "a1", "m1", 1), Cost("c2", "a2", "m1", 2), Cost("c3", "a1", "m2", 4)}

MCReceipts == {[action |-> "DENY", correlation |-> "r1"]}
=============================================================================
