--------------------------- MODULE MCCapabilityCache ---------------------------
(***************************************************************************)
(* CapabilityCache with a server that is upgraded from before the endpoint *)
(* to a first document without the value and a second one with it.         *)
(***************************************************************************)
EXTENDS CapabilityCache, TLC

CONSTANTS t1, t2, t3

ThreeTasks == {t1, t2, t3}
OnlySecond == {2}

\* The tasks are interchangeable: no property is about one of them.
Symmetry == Permutations(ThreeTasks)
=============================================================================
