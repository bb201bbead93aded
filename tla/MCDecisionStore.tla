--------------------------- MODULE MCDecisionStore ---------------------------
(***************************************************************************)
(* DecisionStore for four evaluations, three of them of the same request   *)
(* and so interchangeable.                                                 *)
(***************************************************************************)
EXTENDS DecisionStore

CONSTANTS e1, e2, e3, e4

MCEvaluations == {e1, e2, e3, e4}
MCCorrelationOf == [e \in MCEvaluations |-> IF e = e4 THEN "r2" ELSE "r1"]

Interchangeable == Permutations({e1, e2, e3})
=============================================================================
