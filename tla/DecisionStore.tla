---------------------------- MODULE DecisionStore ----------------------------
(***************************************************************************)
(* DakeraDecisionStore and DakeraDelegationHelper of                       *)
(* integrations/tealtiger.py: concurrent evaluations of governance rules   *)
(* check whether their request is decided, decide, and store a receipt;    *)
(* receipts are linked into chains of delegation.                          *)
(*                                                                         *)
(* Storing a receipt is a POST, which the request loop does not repeat     *)
(* once it may have been carried out: the server carries it out at most    *)
(* once, at any time or never, whether the call returns or raises.         *)
(***************************************************************************)
EXTENDS GovernanceTags, Sequences, SequencesExt

CONSTANTS
  Evaluations,     \* the evaluations of governance rules
  CorrelationOf,   \* CorrelationOf[e]: the request that e evaluates
  EdgeLimit,       \* the limit of a query of the knowledge graph (100)
  MaxLinks         \* bound: the number of links

ASSUME LinksAssumption == EdgeLimit \in Nat /\ MaxLinks \in Nat

VARIABLES
  stage,      \* stage[e]: the evaluation is "new", "judging", "storing" its
              \* receipt, "decided", "failed" to store it, or "skipped"
  sent,       \* the receipts under way to the server
  seen,       \* history: the receipts for e's request when e checked
  links       \* the linked_by edges, from child to parent

decisionVars == <<memories, stage, sent, seen, links>>

DecisionInit ==
  /\ memories = {}
  /\ stage = [e \in Evaluations |-> "new"]
  /\ sent = {}
  /\ seen = [e \in Evaluations |-> {}]
  /\ links = {}

-----------------------------------------------------------------------------
(* Decisions.                                                              *)

\* Mutant: only the two verdicts are terminal.
TerminalVerdicts == {"ALLOW", "DENY"}

\* is_terminal: the actions after which a request is not evaluated again
Terminal == {"ALLOW", "DENY", "TIMED_OUT"}
\* "REQUIRE_APPROVAL" stands for every action that is not terminal.
Actions == {"ALLOW", "DENY", "TIMED_OUT", "REQUIRE_APPROVAL"}

\* The answers of the recall in lookup_receipt and is_terminal: one receipt
\* of the request, whichever the server puts first.
LookupReceipt(correlation) ==
  Recalled(memories,
           Filter({Governance, DecisionTag, Tag("correlation_id", correlation)}, Unset, Unset),
           1)

StoredReceipts == {m.content : m \in {n \in memories : DecisionTag \in n.tags}}

IsTerminal(found) == \E m \in found : m.content.action \in Terminal

\* The idempotency check before an evaluation.
Check(e) ==
  /\ stage[e] = "new"
  /\ \E found \in LookupReceipt(CorrelationOf[e]) :
       stage' = [stage EXCEPT ![e] = IF IsTerminal(found) THEN "skipped" ELSE "judging"]
  /\ seen' = [seen EXCEPT ![e] = {r \in StoredReceipts : r.correlation = CorrelationOf[e]}]
  /\ UNCHANGED <<memories, sent, links>>

Receipt(e, action) == [id |-> e, action |-> action, correlation |-> CorrelationOf[e]]

\* Mutant: the coroutine that stores is not awaited.
StoreReceiptUnawaited(e, action) ==
  /\ stage[e] = "judging"
  /\ stage' = [stage EXCEPT ![e] = "decided"]
  /\ sent' = sent \cup {Receipt(e, action)}
  /\ UNCHANGED <<memories, seen, links>>

\* store_receipt sends its POST.
StoreReceipt(e, action) ==
  /\ stage[e] = "judging"
  /\ stage' = [stage EXCEPT ![e] = "storing"]
  /\ sent' = sent \cup {Receipt(e, action)}
  /\ UNCHANGED <<memories, seen, links>>

\* The server stores a receipt.
ReceiptStored(receipt) ==
  /\ receipt \in sent
  /\ sent' = sent \ {receipt}
  /\ memories' = memories \cup
       {Memory(ReceiptTags(receipt.action, receipt.correlation), receipt, 0)}
  /\ UNCHANGED <<stage, seen, links>>

\* store_receipt returns the id of the memory, for which e stands.
ReceiptReturned(e) ==
  /\ stage[e] = "storing"
  /\ \E receipt \in StoredReceipts : receipt.id = e
  /\ stage' = [stage EXCEPT ![e] = "decided"]
  /\ UNCHANGED <<memories, sent, seen, links>>

\* store_receipt raises: the receipt may be stored, or be so later, or never.
ReceiptLost(e) ==
  /\ stage[e] = "storing"
  /\ stage' = [stage EXCEPT ![e] = "failed"]
  /\ UNCHANGED <<memories, sent, seen, links>>

-----------------------------------------------------------------------------
(* Delegation.                                                             *)

\* memory_link, when the server carries it out: the caller has both ids.
LinkDelegation(child, parent) ==
  /\ stage[child] = "decided" /\ stage[parent] = "decided"
  /\ child # parent
  /\ Cardinality(links) < MaxLinks
  /\ links' = links \cup {<<child, parent>>}
  /\ UNCHANGED <<memories, stage, sent, seen>>

Widen(ids) ==
  ids \cup {n \in Evaluations : \E m \in ids : <<m, n>> \in links \/ <<n, m>> \in links}

\* Layers(root)[k]: the receipts less than k edges from root, either way round.
Layers(root) ==
  LET one == Widen({root})  two == Widen(one)  three == Widen(two)
      four == Widen(three)  five == Widen(four)
  IN  <<{root}, one, two, three, four, five>>

\* The number of edges from root to n; 6 is out of the graph's reach.
Distances(root) ==
  LET layers == Layers(root)
  IN  [n \in Evaluations |-> Min({k - 1 : k \in {i \in 1..6 : n \in layers[i]}} \cup {6})]

Near(distance, edge) == Min({distance[edge[1]], distance[edge[2]]})

\* The edges that a query with this root asks for.
Asked(root, maxDepth) ==
  LET distance == Distances(root)
  IN  {edge \in links : Near(distance, edge) < maxDepth}

\* The answers of knowledge_query with a root: the edges up to maxDepth hops
\* out, in the order of a breadth-first traversal, up to the limit.
KnowledgeQuery(root, maxDepth) ==
  LET distance == Distances(root)
      outward(edges) ==
        \A i, j \in DOMAIN edges : i < j => Near(distance, edges[i]) <= Near(distance, edges[j])
  IN  {SubSeq(edges, 1, Min({Len(edges), EdgeLimit})) :
         edges \in {e \in SetToSeqs(Asked(root, maxDepth)) : outward(e)}}

\* Mutant: the root is not in `seen`.
VisitRootless(chain, n) == IF n \in ToSet(Tail(chain)) THEN chain ELSE Append(chain, n)

\* nid is appended unless it has been seen.
Visit(chain, n) == IF n \in ToSet(chain) THEN chain ELSE Append(chain, n)

Chain(root, edges) ==
  LET chain[i \in 0..Len(edges)] ==
        IF i = 0 THEN <<root>>
        ELSE Visit(Visit(chain[i - 1], edges[i][1]), edges[i][2])
  IN  chain[Len(edges)]

GetDelegationChain(root, maxDepth) ==
  {Chain(root, edges) : edges \in KnowledgeQuery(root, Min({maxDepth, 5}))}

-----------------------------------------------------------------------------

DecisionNext ==
  \/ \E e \in Evaluations : Check(e)
  \/ \E e \in Evaluations, action \in Actions : StoreReceipt(e, action)
  \/ \E receipt \in sent : ReceiptStored(receipt)
  \/ \E e \in Evaluations : ReceiptReturned(e) \/ ReceiptLost(e)
  \/ \E child, parent \in Evaluations : LinkDelegation(child, parent)

DecisionSpec == DecisionInit /\ [][DecisionNext]_decisionVars

-----------------------------------------------------------------------------
(* Properties.                                                             *)

\* The types of the variables.  A receipt that is stored or under way belongs
\* to an evaluation that is storing it, has, or failed to, and is its only one;
\* a decided evaluation has its receipt in the store.
DecisionTypeOK ==
  /\ stage \in [Evaluations ->
                 {"new", "judging", "storing", "decided", "failed", "skipped"}]
  /\ \A r \in sent \cup StoredReceipts :
       /\ r.id \in Evaluations /\ r.action \in Actions
       /\ stage[r.id] \in {"storing", "decided", "failed"}
  /\ sent \cap StoredReceipts = {}
  /\ \A r, m \in sent \cup StoredReceipts : r.id = m.id => r = m
  /\ \A e \in Evaluations : seen[e] \subseteq StoredReceipts
  /\ \A e \in Evaluations : stage[e] = "decided" => \E r \in StoredReceipts : r.id = e
  /\ links \subseteq Evaluations \X Evaluations

\* A request is evaluated though a terminal decision for it was stored only
\* if a pending one was stored as well, which the single receipt that
\* is_terminal looks at may be; and it is skipped only if one was stored.
EvaluatedOnce ==
  \A e \in Evaluations :
    LET terminal == {r \in seen[e] : r.action \in {"ALLOW", "DENY", "TIMED_OUT"}}
    IN  /\ stage[e] = "skipped" => terminal # {}
        /\ stage[e] \in {"judging", "storing", "decided", "failed"} =>
               terminal = {} \/ terminal # seen[e]

\* A delegation chain starts at its root, names a receipt once, and none before
\* one that is fewer hops from the root; and it names every receipt within its
\* depth, and no other, unless the server cut its answer at the limit.
ChainOutward ==
  \A root \in {e \in Evaluations : stage[e] = "decided"}, depth \in {1, 6} :
    LET distance == Distances(root)
        within == {n \in Evaluations : distance[n] <= Min({depth, 5})}
    IN \A chain \in GetDelegationChain(root, depth) :
      /\ chain[1] = root
      /\ IsInjective(chain)
      /\ \A i, j \in DOMAIN chain : i < j => distance[chain[i]] <= distance[chain[j]]
      /\ ToSet(chain) \subseteq within
      /\ Cardinality(Asked(root, Min({depth, 5}))) <= EdgeLimit => within \subseteq ToSet(chain)
=============================================================================
