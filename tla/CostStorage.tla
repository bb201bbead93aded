----------------------------- MODULE CostStorage -----------------------------
(***************************************************************************)
(* DakeraCostStorage of integrations/tealtiger.py: cost records are stored *)
(* as memories of one namespace, queried by filters and purged, while the  *)
(* same namespace holds the receipts of decisions.                         *)
(*                                                                         *)
(* A purge is a DELETE, which the request loop repeats when an answer was  *)
(* lost: the server may carry it out several times, the last of them after *)
(* the call has returned (RequestContract).  Costs are stored meanwhile,   *)
(* by a POST each, which is carried out at most once, at any time after it *)
(* was sent or never, whether the call returns or raises.                  *)
(***************************************************************************)
EXTENDS GovernanceTags

CONSTANTS
  Costs,         \* the cost records that come up, each for one call of store
  KeptReceipts,  \* the receipts stored in the namespace, [action, correlation]
  Purges,      \* the calls of delete_older_than and clear
  Limit,       \* the limit of the queries (1000)
  MaxClock,    \* bound: the last tick
  MaxCopies    \* bound: how often the server carries out one purge

\* The id of a record is its own; to the code an empty agent means all agents.
ASSUME CostsAssumption ==
  /\ \A c \in Costs :
       /\ DOMAIN c = {"id", "request", "agent", "provider", "model", "actual_cost"}
       /\ c.actual_cost \in Int /\ c.agent # ""
  /\ \A c, d \in Costs : c.id = d.id => c = d
ASSUME QueriesAssumption == IsFiniteSet(KeptReceipts) /\ Limit \in Nat \ {0}
ASSUME BoundsAssumption == MaxClock \in Nat /\ MaxCopies \in Nat

VARIABLES
  clock,
  stores,     \* stores[c]: the POST of c is "new", "sent" or carried out: "stored"
  purge       \* purge[p]: the state of the call p and what it removed

costVars == <<clock, memories, stores, purge>>

ReceiptMemories ==
  {Memory(ReceiptTags(r.action, r.correlation), r, 0) : r \in KeptReceipts}

CostInit ==
  /\ clock = 0
  /\ memories = ReceiptMemories
  /\ stores = [c \in Costs |-> "new"]
  /\ purge = [p \in Purges |->
       [phase |-> "new", before |-> Unset, since |-> 0, copies |-> 0, removed |-> {}]]

-----------------------------------------------------------------------------
(* Records and queries.                                                    *)

\* store; what becomes of the call when it has sent its POST changes nothing.
StoreCost(c) ==
  /\ stores[c] = "new"
  /\ stores' = [stores EXCEPT ![c] = "sent"]
  /\ UNCHANGED <<clock, memories, purge>>

\* The server stores the record.
CostStored(c) ==
  /\ stores[c] = "sent"
  /\ stores' = [stores EXCEPT ![c] = "stored"]
  /\ memories' = memories \cup {Memory(CostTags(c), c, clock)}
  /\ UNCHANGED <<clock, purge>>

\* The answers of get: the record, or nothing.
Get(id) ==
  Recalled(memories, Filter({CostTag, Tag("cost_id", id)}, Unset, Unset), 1)

GetByRequestId(request) ==
  Recalled(memories, Filter({CostTag, Tag("request_id", request)}, Unset, Unset), Limit)

GetByAgentId(agent, start, end) ==
  Recalled(memories, Filter({CostTag, Tag("agent", agent)}, ToUnix(start), ToUnix(end)), Limit)

GetByDateRange(start, end) ==
  Recalled(memories, Filter(GovernanceTags, ToUnix(start), ToUnix(end)), Limit)

CostOf(found) == SumFunction([m \in found |-> m.content.actual_cost])

ByKey(found, key) ==
  [k \in {m.content[key] : m \in found} |-> CostOf({m \in found : m.content[key] = k})]

AggregateSummary(found) ==
  [total_cost |-> CostOf(found),
   total_requests |-> Cardinality(found),
   by_model |-> ByKey(found, "model"),
   by_provider |-> ByKey(found, "provider"),
   by_agent |-> ByKey(found, "agent")]

\* The answers of get_summary; agent = "" is None.
GetSummary(start, end, agent) ==
  {AggregateSummary(found) :
     found \in IF agent = "" THEN GetByDateRange(start, end)
                             ELSE GetByAgentId(agent, start, end)}

\* delete_older_than(before), or clear when before is Unset
Purge(p, before) ==
  /\ purge[p].phase = "new"
  /\ purge' = [purge EXCEPT ![p].phase = "open", ![p].before = before, ![p].since = clock]
  /\ UNCHANGED <<clock, memories, stores>>

\* A copy of the DELETE of batch_forget reaches the server.
CarryOut(p) ==
  LET filter == Filter(GovernanceTags, Unset, ToUnix(purge[p].before))
  IN  /\ purge[p].phase # "new"
      /\ purge[p].copies < MaxCopies
      /\ memories' = Forgotten(memories, filter)
      /\ purge' = [purge EXCEPT ![p].copies = @ + 1,
                                ![p].removed = @ \cup Matching(memories, filter)]
      /\ UNCHANGED <<clock, stores>>

Purged(p) ==
  /\ purge[p].phase = "open"
  /\ purge[p].copies > 0
  /\ purge' = [purge EXCEPT ![p].phase = "closed"]
  /\ UNCHANGED <<clock, memories, stores>>

-----------------------------------------------------------------------------

Tick ==
  /\ clock < MaxClock
  /\ clock' = clock + 1
  /\ UNCHANGED <<memories, stores, purge>>

CostNext ==
  \/ Tick
  \/ \E c \in Costs : StoreCost(c) \/ CostStored(c)
  \/ \E p \in Purges, before \in 0..MaxClock \cup {Unset} : Purge(p, before)
  \/ \E p \in Purges : CarryOut(p)
  \/ \E p \in Purges : Purged(p)

CostSpec == CostInit /\ [][CostNext]_costVars

-----------------------------------------------------------------------------
(* Properties.                                                             *)

CostMemories == {m \in memories : CostTag \in m.tags}
Agents == {c.agent : c \in Costs}

\* The types of the variables.  A record is in the namespace only if its POST
\* was carried out, and a removed memory is gone for good.
CostTypeOK ==
  /\ clock \in 0..MaxClock
  /\ stores \in [Costs -> {"new", "sent", "stored"}]
  /\ \A m \in memories :
       /\ m.tick \in 0..clock /\ m.created = ToUnix(m.tick)
       /\ \/ m \in ReceiptMemories
          \/ m.content \in Costs /\ stores[m.content] = "stored"
  /\ \A p \in Purges :
       /\ purge[p].phase \in {"new", "open", "closed"}
       /\ purge[p].before \in 0..MaxClock \cup {Unset}
       /\ purge[p].since \in 0..clock
       /\ purge[p].copies \in 0..MaxCopies
       /\ purge[p].removed \cap memories = {}

\* The audit trail outlives the purges of the costs kept beside it: no receipt
\* is lost to delete_older_than or clear, however often they are carried out.
ReceiptsSurvive == ReceiptMemories \subseteq memories

\* delete_older_than(before_date) deletes what is older, and of what is not
\* at most the records of the second that before_date falls into: _to_unix
\* drops the fraction and created_before is inclusive.
PurgeWithinSecond ==
  \A p \in Purges :
    LET before == purge[p].before
    IN  /\ before # Unset =>
             \A m \in purge[p].removed : m.tick < before + TicksPerSecond
        /\ purge[p].phase = "closed" =>
             \A m \in CostMemories :
               m.tick >= purge[p].since \/ (before # Unset /\ m.tick >= before)

\* A stored cost is found by its id, its request, its agent and its time.
Found(m) ==
  /\ Get(m.content.id) = {{m}}
  /\ \A answer \in GetByRequestId(m.content.request) \cup GetByDateRange(m.tick, m.tick)
                   \cup GetByAgentId(m.content.agent, m.tick, m.tick) :
       m \in answer \/ Cardinality(answer) = Limit

\* The cost memories of a range of whole seconds, the last one included.
Within(start, end) ==
  {m \in CostMemories : start <= m.tick /\ m.tick < end + TicksPerSecond}

\* A summary's parts add up to its total.  Unless it has as many records as the
\* limit, it has left out none of its range, and agrees with the summaries that
\* are asked for one agent.
AddsUp(summary, start, end) ==
  /\ SumFunction(summary.by_model) = summary.total_cost
  /\ SumFunction(summary.by_provider) = summary.total_cost
  /\ summary.total_requests < Limit =>
       /\ summary.total_requests = Cardinality(Within(start, end))
       /\ summary.total_cost = CostOf(Within(start, end))
       /\ \A a \in Agents : \A own \in GetSummary(start, end, a) :
            own.total_cost = IF a \in DOMAIN summary.by_agent THEN summary.by_agent[a] ELSE 0

\* What the queries of the cost storage say of the same records is the same,
\* as far as no answer was cut at the limit.
ReadsAgree ==
  /\ \A m \in CostMemories : Found(m)
  /\ \A start, end \in {k \in 0..MaxClock : k % TicksPerSecond = 0} :
       \A summary \in GetSummary(start, end, "") : AddsUp(summary, start, end)
=============================================================================
