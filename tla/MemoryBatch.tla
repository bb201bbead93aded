----------------------------- MODULE MemoryBatch -----------------------------
(***************************************************************************)
(* batch_recall and batch_forget as AsyncDakeraClient offers them: which   *)
(* memories a BatchMemoryFilter selects, and which answers a recall with a *)
(* limit may get.  The server is external; what is assumed of it is what   *)
(* the comments on the fields of BatchMemoryFilter and BatchRecallResponse *)
(* say, and nothing about the order of the memories.                       *)
(*                                                                         *)
(* A memory is a record with at least its tags and created, the Unix       *)
(* second the server stored it in.                                         *)
(***************************************************************************)
EXTENDS Integers, FiniteSets, FiniteSetsExt

Unset == -1   \* None in created_after or created_before

Filter(tags, after, before) ==
  [tags |-> tags, created_after |-> after, created_before |-> before]

\* Mutant: created_before excludes the second it names.
MatchesBefore(filter, m) ==
  /\ filter.tags \subseteq m.tags
  /\ filter.created_after # Unset => m.created >= filter.created_after
  /\ filter.created_before # Unset => m.created < filter.created_before

\* BatchMemoryFilter: all listed tags, both bounds inclusive
Matches(filter, m) ==
  /\ filter.tags \subseteq m.tags
  /\ filter.created_after # Unset => m.created >= filter.created_after
  /\ filter.created_before # Unset => m.created <= filter.created_before

Matching(memories, filter) == {m \in memories : Matches(filter, m)}

\* The sets of memories a batch_recall may be answered with: when more match
\* than the limit, any of them (`truncated` then says so).
Recalled(memories, filter, limit) ==
  LET found == Matching(memories, filter)
  IN  IF Cardinality(found) <= limit THEN {found} ELSE kSubset(limit, found)

\* Mutant: a dry run.
ForgottenDry(memories, filter) == memories

\* What a batch_forget leaves.
Forgotten(memories, filter) == memories \ Matching(memories, filter)
=============================================================================
