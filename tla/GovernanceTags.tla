---------------------------- MODULE GovernanceTags ----------------------------
(***************************************************************************)
(* How integrations/tealtiger.py tags the memories it stores in a          *)
(* namespace, costs and receipts side by side, and what it says of time.   *)
(* A tag "name:value" is a pair.  Time runs in ticks, TicksPerSecond to a  *)
(* Unix second: the server's timestamps and filters know seconds only.     *)
(***************************************************************************)
EXTENDS MemoryBatch

CONSTANT TicksPerSecond

ASSUME TicksAssumption == TicksPerSecond \in Nat \ {0}

VARIABLE memories   \* what the server stores in the namespace

Tag(name, value) == <<name, value>>
Governance == Tag("governance", "")
CostTag == Tag("cost", "")
DecisionTag == Tag("decision", "")

\* Mutant: costs are looked up by the namespace's tag alone.
GovernanceTagsShort == {Governance}

\* _GOVERNANCE_TAGS
GovernanceTags == {Governance, CostTag}

\* Mutant: the summary of an agent filters on an attribute that the stored
\* record does not carry.
CostTagsAnonymous(c) ==
  GovernanceTags \cup {Tag("model", c.model), Tag("provider", c.provider),
                       Tag("cost_id", c.id), Tag("request_id", c.request)}

CostTags(c) ==
  GovernanceTags \cup {Tag("model", c.model), Tag("provider", c.provider),
                       Tag("cost_id", c.id), Tag("request_id", c.request),
                       Tag("agent", c.agent)}

\* The tag policy_id, which no query names, is left out.
ReceiptTags(action, correlation) ==
  {Governance, DecisionTag, Tag("decision", action), Tag("correlation_id", correlation)}

\* int(dt.timestamp()): the fraction of a second is dropped.
ToUnix(tick) == IF tick = Unset THEN Unset ELSE tick \div TicksPerSecond

Memory(tags, content, tick) ==
  [tags |-> tags, created |-> ToUnix(tick), content |-> content, tick |-> tick]
=============================================================================
