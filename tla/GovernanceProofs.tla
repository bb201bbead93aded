--------------------------- MODULE GovernanceProofs ---------------------------
(***************************************************************************)
(* Proofs about the governance stores.  For any cost records, receipts,    *)
(* purges, limit and resolution of the clock: what purges may and must     *)
(* delete, and what the queries and summaries say of each other.  For any  *)
(* evaluations of any requests: what the idempotency check sees.  For any  *)
(* links between them, any depth and any limit of a query: what a          *)
(* delegation chain names, and in which order.                             *)
(***************************************************************************)
EXTENDS CostStorage, DecisionStore, FiniteSetTheorems, SequenceTheorems,
        WellFoundedInduction, TLAPS

-----------------------------------------------------------------------------
(* Tags and time.                                                          *)

\* A receipt is not tagged as a cost, a cost carries both tags of its kind.
LEMMA TagsTellApart ==
  /\ \A action, correlation : CostTag \notin ReceiptTags(action, correlation)
  /\ \A c : CostTag \in CostTags(c) /\ GovernanceTags \subseteq CostTags(c)
<1>1. \A action, correlation : CostTag \notin ReceiptTags(action, correlation)
  BY DEF CostTag, ReceiptTags, Governance, DecisionTag, Tag
<1>2. \A c : CostTag \in CostTags(c) /\ GovernanceTags \subseteq CostTags(c)
  BY DEF CostTags, GovernanceTags
<1>3. QED
  BY <1>1, <1>2

\* The second of an instant: never later than the instant, and less than a
\* second before it.
LEMMA Truncated ==
  ASSUME NEW t \in Nat
  PROVE  /\ ToUnix(t) \in Nat /\ ToUnix(t) # Unset
         /\ ToUnix(t) * TicksPerSecond \in Nat
         /\ ToUnix(t) * TicksPerSecond <= t
         /\ t < ToUnix(t) * TicksPerSecond + TicksPerSecond
<1> DEFINE q == t \div TicksPerSecond
           r == t % TicksPerSecond
<1>1. /\ TicksPerSecond \in Nat /\ TicksPerSecond > 0 /\ q \in Nat
      /\ r \in 0..(TicksPerSecond - 1) /\ t = TicksPerSecond * q + r
  BY TicksAssumption
<1>2. q * TicksPerSecond = TicksPerSecond * q /\ q * TicksPerSecond \in Nat
  BY <1>1
<1>3. ToUnix(t) = q /\ q # Unset
  BY <1>1 DEF ToUnix, Unset
<1> HIDE DEF q, r
<1>4. QED
  BY <1>1, <1>2, <1>3

\* Whole seconds that are in order are a second's ticks apart.
LEMMA SecondsApart ==
  ASSUME NEW a \in Nat, NEW b \in Nat, a < b
  PROVE  a * TicksPerSecond + TicksPerSecond <= b * TicksPerSecond
<1>1. PICK d \in Nat : b = a + 1 + d
  <2>1. b - a - 1 \in Nat /\ b = a + 1 + (b - a - 1)
    OBVIOUS
  <2>2. QED
    BY <2>1
<1>2. TicksPerSecond \in Nat
  BY TicksAssumption
<1>3. d * TicksPerSecond \in Nat
  BY <1>1, <1>2
<1>4. b * TicksPerSecond = a * TicksPerSecond + TicksPerSecond + d * TicksPerSecond
  BY <1>1, <1>2
<1>5. a * TicksPerSecond \in Nat
  BY <1>2
<1>6. QED
  BY <1>2, <1>3, <1>4, <1>5

\* What a comparison of two Unix seconds says of the instants.
LEMMA SecondsOrder ==
  ASSUME NEW t \in Nat, NEW b \in Nat
  PROVE  /\ ToUnix(t) <= ToUnix(b) => t < b + TicksPerSecond
         /\ ToUnix(t) > ToUnix(b) => t > b
<1> DEFINE x == ToUnix(t) * TicksPerSecond
           y == ToUnix(b) * TicksPerSecond
<1>1. TicksPerSecond \in Nat /\ TicksPerSecond > 0
  BY TicksAssumption
<1>2. /\ x \in Nat /\ x <= t /\ t < x + TicksPerSecond
      /\ y \in Nat /\ y <= b /\ b < y + TicksPerSecond
      /\ ToUnix(t) \in Nat /\ ToUnix(b) \in Nat
  BY Truncated
<1>3. ToUnix(t) = ToUnix(b) => x = y
  OBVIOUS
<1>4. ToUnix(t) < ToUnix(b) => x + TicksPerSecond <= y
  BY <1>2, SecondsApart
<1>5. ToUnix(b) < ToUnix(t) => y + TicksPerSecond <= x
  BY <1>2, SecondsApart
<1> HIDE DEF x, y
<1>6. ToUnix(t) <= ToUnix(b) => t < b + TicksPerSecond
  BY <1>1, <1>2, <1>3, <1>4
<1>7. ToUnix(t) > ToUnix(b) => t > b
  BY <1>1, <1>2, <1>5
<1>8. QED
  BY <1>6, <1>7

\* With a whole second the comparison of Unix seconds is one of instants, of
\* its first and of its last.
LEMMA WholeSecond ==
  ASSUME NEW t \in Nat, NEW k \in Nat, k % TicksPerSecond = 0
  PROVE  /\ ToUnix(t) >= ToUnix(k) <=> k <= t
         /\ ToUnix(t) <= ToUnix(k) <=> t < k + TicksPerSecond
<1> DEFINE x == ToUnix(t) * TicksPerSecond
           y == ToUnix(k) * TicksPerSecond
<1>1. TicksPerSecond \in Nat /\ TicksPerSecond > 0
  BY TicksAssumption
<1>2. /\ x \in Nat /\ x <= t /\ t < x + TicksPerSecond
      /\ ToUnix(t) \in Nat /\ ToUnix(k) \in Nat /\ ToUnix(k) # Unset
  BY Truncated
<1>3. y = k
  <2> DEFINE q == k \div TicksPerSecond
             rest == k % TicksPerSecond
  <2>1. q \in Nat /\ k = TicksPerSecond * q + rest /\ rest = 0
    BY <1>1
  <2>2. ToUnix(k) = q
    <3>1. k # Unset
      BY DEF Unset
    <3>2. QED
      BY <3>1 DEF ToUnix
  <2> HIDE DEF q, rest
  <2>3. q * TicksPerSecond = TicksPerSecond * q /\ TicksPerSecond * q \in Nat
    BY <1>1, <2>1
  <2>4. QED
    BY <2>1, <2>2, <2>3
<1>4. ToUnix(t) = ToUnix(k) => x = y
  OBVIOUS
<1>5. ToUnix(t) < ToUnix(k) => x + TicksPerSecond <= y
  BY <1>2, SecondsApart
<1>6. ToUnix(k) < ToUnix(t) => y + TicksPerSecond <= x
  BY <1>2, SecondsApart
<1> HIDE DEF x, y
<1>7. QED
  BY <1>1, <1>2, <1>3, <1>4, <1>5, <1>6

-----------------------------------------------------------------------------
(* The invariant of the cost storage.                                      *)

\* A memory that store made of a cost record, by now.
IsCost(m) == \E c \in Costs, t \in 0..clock : m = Memory(CostTags(c), c, t)

\* Each purge is a record of its five fields.
PurgeShape ==
  purge = [p \in Purges |->
             [phase |-> purge[p].phase, before |-> purge[p].before,
              since |-> purge[p].since, copies |-> purge[p].copies,
              removed |-> purge[p].removed]]

\* Everything stored is a receipt or a cost, and only costs are removed, whose
\* POST was carried out.
Kinds ==
  /\ \A m \in memories : m \in ReceiptMemories \/ IsCost(m)
  /\ \A p \in Purges : \A m \in purge[p].removed :
       IsCost(m) /\ stores[m.content] = "stored"

\* A purge that was carried out left nothing that it should delete: what is
\* there is not older than its date, or was stored after the call was made.
Effective ==
  \A p \in Purges :
    /\ purge[p].phase = "new" => purge[p].copies = 0 /\ purge[p].removed = {}
    /\ purge[p].phase = "closed" => purge[p].copies > 0
    /\ purge[p].copies > 0 =>
         \A m \in CostMemories :
           \/ m.tick >= purge[p].since
           \/ purge[p].before # Unset /\ m.tick >= purge[p].before

\* No purge removes what is a second younger than its date.
Careful ==
  \A p \in Purges :
    purge[p].before # Unset =>
      \A m \in purge[p].removed : m.tick < purge[p].before + TicksPerSecond

\* A cost record is stored once, and finitely many memories are.
StoredOnce ==
  /\ IsFiniteSet(memories)
  /\ \A m, n \in CostMemories : m.content = n.content => m = n

CostInv ==
  CostTypeOK /\ PurgeShape /\ Kinds /\ StoredOnce /\ ReceiptsSurvive /\ Effective /\ Careful

\* A function of finitely many arguments has finitely many values.
LEMMA FiniteValues ==
  ASSUME NEW S, IsFiniteSet(S), NEW f, DOMAIN f = S
  PROVE  IsFiniteSet({f[x] : x \in S})
<1> DEFINE T == {f[x] : x \in S}
           g == [x \in S |-> f[x]]
<1>1. g \in Surjection(S, T)
  BY DEF Surjection
<1> HIDE DEF g, T
<1>2. IsFiniteSet(T)
  BY <1>1, FS_Surjection
<1>3. QED
  BY <1>2 DEF T

\* The fields of a stored cost.
LEMMA CostFields ==
  ASSUME clock \in Nat, NEW m, IsCost(m)
  PROVE  /\ m.tick \in 0..clock /\ m.created = ToUnix(m.tick) /\ m.content \in Costs
         /\ GovernanceTags \subseteq m.tags /\ CostTag \in m.tags
<1>1. PICK c \in Costs, t \in 0..clock : m = Memory(CostTags(c), c, t)
  BY DEF IsCost
<1>2. m.tick = t /\ m.created = ToUnix(t) /\ m.content = c /\ m.tags = CostTags(c)
  BY <1>1 DEF Memory
<1>3. QED
  BY <1>2, TagsTellApart

\* A receipt keeps the fields it was stored with.
LEMMA ReceiptFields ==
  ASSUME NEW m \in ReceiptMemories
  PROVE  /\ m.tick = 0 /\ m.created = ToUnix(m.tick) /\ m.content \in KeptReceipts
         /\ CostTag \notin m.tags
<1>1. PICK r \in KeptReceipts : m = Memory(ReceiptTags(r.action, r.correlation), r, 0)
  BY DEF ReceiptMemories
<1>2. /\ m.tick = 0 /\ m.created = ToUnix(0) /\ m.content = r
      /\ m.tags = ReceiptTags(r.action, r.correlation)
  BY <1>1 DEF Memory
<1>3. QED
  BY <1>2, TagsTellApart

\* What a purge selects, as its filter.
Doomed(p) == Matching(memories, Filter(GovernanceTags, Unset, ToUnix(purge[p].before)))

\* A purge deletes costs only: all that are older than its date, none that is a
\* second younger.
LEMMA DoomedCosts ==
  ASSUME CostInv, NEW p \in Purges
  PROVE  /\ Doomed(p) \subseteq memories
         /\ \A m \in Doomed(p) : IsCost(m)
         /\ purge[p].before # Unset =>
              \A m \in Doomed(p) : m.tick < purge[p].before + TicksPerSecond
         /\ \A m \in CostMemories \ Doomed(p) :
              purge[p].before # Unset /\ m.tick >= purge[p].before
<1> DEFINE before == purge[p].before
<1>0. clock \in Nat /\ before \in Nat \cup {Unset} /\ MaxClock \in Nat
  BY BoundsAssumption DEF CostInv, CostTypeOK
<1>1. \A m : m \in Doomed(p) <=>
        /\ m \in memories
        /\ GovernanceTags \subseteq m.tags
        /\ ToUnix(before) # Unset => m.created <= ToUnix(before)
  BY DEF Doomed, Matching, Matches, Filter, Unset
<1>2. before # Unset => ToUnix(before) # Unset
  BY <1>0, Truncated
<1>3. before = Unset => ToUnix(before) = Unset
  BY DEF ToUnix
<1>4. \A m \in Doomed(p) : IsCost(m)
  <2> SUFFICES ASSUME NEW m \in Doomed(p), m \in ReceiptMemories PROVE FALSE
    BY <1>1 DEF CostInv, Kinds
  <2>1. CostTag \in m.tags
    BY <1>1 DEF GovernanceTags
  <2>2. QED
    BY <2>1, ReceiptFields
<1>5. \A m \in memories : m.tick \in Nat /\ m.created = ToUnix(m.tick)
  BY <1>0 DEF CostInv, CostTypeOK
<1>6. ASSUME before # Unset, NEW m \in Doomed(p)
      PROVE  m.tick < before + TicksPerSecond
  <2>1. ToUnix(m.tick) <= ToUnix(before) /\ m.tick \in Nat /\ before \in Nat
    BY <1>0, <1>1, <1>2, <1>5, <1>6
  <2> HIDE DEF before
  <2>2. QED
    BY <2>1, SecondsOrder
<1>7. ASSUME NEW m \in CostMemories \ Doomed(p)
      PROVE  before # Unset /\ m.tick >= before
  <2>1. m \in memories /\ CostTag \in m.tags
    BY DEF CostMemories
  <2>2. IsCost(m)
    BY <2>1, ReceiptFields DEF CostInv, Kinds
  <2>3. GovernanceTags \subseteq m.tags
    BY <1>0, <2>2, CostFields
  <2>4. before # Unset /\ ~(m.created <= ToUnix(before))
    BY <1>1, <1>3, <2>1, <2>3
  <2>5. m.tick \in Nat /\ before \in Nat /\ ~(ToUnix(m.tick) <= ToUnix(before))
    BY <1>0, <1>5, <2>1, <2>4
  <2> HIDE DEF before
  <2>6. ToUnix(m.tick) > ToUnix(before)
    BY <2>5, Truncated
  <2>7. QED
    BY <2>4, <2>5, <2>6, SecondsOrder
<1>8. QED
  BY <1>1, <1>4, <1>6, <1>7

\* A cost of now.
LEMMA NewCost ==
  ASSUME CostInv, NEW c \in Costs
  PROVE  LET m == Memory(CostTags(c), c, clock)
         IN  /\ IsCost(m)
             /\ m.tick = clock /\ m.created = ToUnix(clock) /\ m.content = c
<1>1. clock \in 0..clock
  BY BoundsAssumption DEF CostInv, CostTypeOK
<1>2. QED
  BY <1>1 DEF IsCost, Memory

\* A purge that is given a record is the only one that changes.
LEMMA PurgeUpdated ==
  ASSUME PurgeShape, NEW p \in Purges,
         NEW phase, NEW before, NEW since, NEW copies, NEW removed,
         purge' = [purge EXCEPT ![p] =
                     [phase |-> phase, before |-> before, since |-> since,
                      copies |-> copies, removed |-> removed]]
  PROVE  /\ PurgeShape'
         /\ purge'[p].phase = phase /\ purge'[p].before = before
         /\ purge'[p].since = since /\ purge'[p].copies = copies
         /\ purge'[p].removed = removed
         /\ \A q \in Purges \ {p} : purge'[q] = purge[q]
<1> DEFINE fields(q) == [phase |-> q.phase, before |-> q.before, since |-> q.since,
                         copies |-> q.copies, removed |-> q.removed]
<1>1. DOMAIN purge = Purges /\ \A q \in Purges : purge[q] = fields(purge[q])
  BY DEF PurgeShape
<1>2. /\ purge' = [q \in Purges |-> purge'[q]]
      /\ purge'[p] = [phase |-> phase, before |-> before, since |-> since,
                      copies |-> copies, removed |-> removed]
      /\ \A q \in Purges \ {p} : purge'[q] = purge[q]
  BY <1>1
<1>3. \A q \in Purges : purge'[q] = fields(purge'[q])
  BY <1>1, <1>2
<1>4. PurgeShape'
  BY <1>2, <1>3 DEF PurgeShape
<1>5. QED
  BY <1>2, <1>4

\* The record of a purge that is called.
LEMMA PurgeCalled ==
  ASSUME PurgeShape, NEW p \in Purges, NEW before, NEW since,
         purge' = [purge EXCEPT ![p].phase = "open", ![p].before = before,
                                ![p].since = since]
  PROVE  purge' = [purge EXCEPT ![p] =
                     [phase |-> "open", before |-> before, since |-> since,
                      copies |-> purge[p].copies, removed |-> purge[p].removed]]
<1>1. /\ DOMAIN purge = Purges
      /\ purge[p] = [phase |-> purge[p].phase, before |-> purge[p].before,
               since |-> purge[p].since, copies |-> purge[p].copies,
               removed |-> purge[p].removed]
  BY DEF PurgeShape
<1>2. purge' = [q \in Purges |-> purge'[q]] /\ \A q \in Purges \ {p} : purge'[q] = purge[q]
  BY <1>1
<1>3. purge'[p] = [phase |-> "open", before |-> before, since |-> since,
                   copies |-> purge[p].copies, removed |-> purge[p].removed]
  BY <1>1
<1>4. QED
  BY <1>1, <1>2, <1>3

\* The record of a purge that the server carries out once more.
LEMMA PurgeRepeated ==
  ASSUME PurgeShape, NEW p \in Purges, NEW found,
         purge' = [purge EXCEPT ![p].copies = @ + 1, ![p].removed = @ \cup found]
  PROVE  purge' = [purge EXCEPT ![p] =
                     [phase |-> purge[p].phase, before |-> purge[p].before,
                      since |-> purge[p].since, copies |-> purge[p].copies + 1,
                      removed |-> purge[p].removed \cup found]]
<1>1. /\ DOMAIN purge = Purges
      /\ purge[p] = [phase |-> purge[p].phase, before |-> purge[p].before,
               since |-> purge[p].since, copies |-> purge[p].copies,
               removed |-> purge[p].removed]
  BY DEF PurgeShape
<1>2. purge' = [q \in Purges |-> purge'[q]] /\ \A q \in Purges \ {p} : purge'[q] = purge[q]
  BY <1>1
<1>3. purge'[p] = [phase |-> purge[p].phase, before |-> purge[p].before,
                   since |-> purge[p].since, copies |-> purge[p].copies + 1,
                   removed |-> purge[p].removed \cup found]
  BY <1>1
<1>4. QED
  BY <1>1, <1>2, <1>3

\* Every action keeps the invariant.
LEMMA CostInvStep ==
  ASSUME CostInv, [CostNext]_costVars
  PROVE  CostInv'
<1>0. /\ clock \in Nat /\ clock <= MaxClock /\ MaxClock \in Nat /\ MaxCopies \in Nat
      /\ \A m : IsCost(m) /\ clock' \in Nat /\ clock' >= clock => IsCost(m)'
  BY BoundsAssumption DEF CostInv, CostTypeOK, IsCost
<1>1. CASE Tick
  <2>1. /\ clock' = clock + 1 /\ clock' \in 0..MaxClock
        /\ UNCHANGED <<memories, stores, purge>>
    BY <1>0, <1>1 DEF Tick
  <2>2. CostTypeOK'
    BY <1>0, <2>1 DEF CostInv, CostTypeOK
  <2>3. Kinds'
    BY <1>0, <2>1 DEF CostInv, Kinds
  <2>4. (PurgeShape /\ StoredOnce /\ ReceiptsSurvive /\ Effective /\ Careful)'
    BY <2>1 DEF CostInv, PurgeShape, StoredOnce, ReceiptsSurvive, Effective, Careful,
                CostMemories
  <2>5. QED
    BY <2>2, <2>3, <2>4 DEF CostInv
<1>2. ASSUME NEW c \in Costs, StoreCost(c)
      PROVE  CostInv'
  <2>1. /\ stores[c] = "new" /\ stores' = [stores EXCEPT ![c] = "sent"]
        /\ UNCHANGED <<clock, memories, purge>>
    BY <1>2 DEF StoreCost
  <2>2. /\ stores' \in [Costs -> {"new", "sent", "stored"}]
        /\ \A d \in Costs : stores[d] = "stored" => stores'[d] = "stored"
    BY <2>1 DEF CostInv, CostTypeOK
  <2>3. CostTypeOK'
    BY <2>1, <2>2 DEF CostInv, CostTypeOK
  <2>4. Kinds'
    BY <1>0, <2>1, <2>2, CostFields DEF CostInv, Kinds, IsCost
  <2>5. (PurgeShape /\ StoredOnce /\ ReceiptsSurvive /\ Effective /\ Careful)'
    BY <2>1 DEF CostInv, PurgeShape, StoredOnce, ReceiptsSurvive, Effective, Careful,
                CostMemories
  <2>6. QED
    BY <2>3, <2>4, <2>5 DEF CostInv
<1>3. ASSUME NEW c \in Costs, CostStored(c)
      PROVE  CostInv'
  <2> DEFINE new == Memory(CostTags(c), c, clock)
  <2>1. /\ memories' = memories \cup {new} /\ UNCHANGED <<clock, purge>>
        /\ stores[c] = "sent" /\ stores' = [stores EXCEPT ![c] = "stored"]
    BY <1>3 DEF CostStored
  <2>2. /\ stores' \in [Costs -> {"new", "sent", "stored"}]
        /\ stores'[c] = "stored"
        /\ \A d \in Costs : stores[d] = "stored" => stores'[d] = "stored" /\ d # c
    BY <2>1 DEF CostInv, CostTypeOK
  <2>3. /\ IsCost(new) /\ new.tick = clock /\ new.created = ToUnix(clock)
        /\ new.content = c
    BY NewCost
  <2> HIDE DEF new
  <2>4. /\ \A p \in Purges : \A m \in purge[p].removed :
              m.content \in Costs /\ stores[m.content] = "stored" /\ m.content # c
        /\ \A m \in CostMemories : m.content # c
    <3>1. \A m : IsCost(m) => m.content \in Costs
      BY <1>0, CostFields
    <3>2. \A m \in CostMemories :
            m.content \in Costs /\ stores[m.content] = "stored"
      BY ReceiptFields DEF CostInv, CostTypeOK, CostMemories
    <3>3. QED
      BY <2>2, <3>1, <3>2 DEF CostInv, Kinds
  <2>5. CostTypeOK'
    <3>1. \A m \in memories' :
            /\ m.tick \in 0..clock /\ m.created = ToUnix(m.tick)
            /\ \/ m \in ReceiptMemories
               \/ m.content \in Costs /\ stores'[m.content] = "stored"
      BY <1>0, <2>1, <2>3, <2>2 DEF CostInv, CostTypeOK
    <3>2. \A p \in Purges : purge[p].removed \cap memories' = {}
      BY <2>1, <2>3, <2>4 DEF CostInv, CostTypeOK
    <3>3. QED
      BY <2>1, <2>2, <3>1, <3>2 DEF CostInv, CostTypeOK
  <2>6. Kinds'
    BY <2>1, <2>3, <2>2, <2>4 DEF CostInv, Kinds, IsCost
  <2>7. Effective'
    BY <1>0, <2>1, <2>3 DEF CostInv, Effective, CostMemories, CostTypeOK
  <2>8. (PurgeShape /\ ReceiptsSurvive /\ Careful)'
    BY <2>1 DEF CostInv, PurgeShape, ReceiptsSurvive, Careful
  <2>9. StoredOnce'
    <3>1. IsFiniteSet(memories')
      BY <2>1, FS_AddElement DEF CostInv, StoredOnce
    <3>2. ASSUME NEW m \in CostMemories', m # new
          PROVE  m \in CostMemories /\ m.content # c
      <4>1. m \in CostMemories
        BY <2>1, <3>2 DEF CostMemories
      <4>2. QED
        BY <2>4, <4>1
    <3>3. QED
      BY <2>3, <3>1, <3>2 DEF CostInv, StoredOnce
  <2>10. QED
    BY <2>5, <2>6, <2>7, <2>8, <2>9 DEF CostInv
<1>4. ASSUME NEW p \in Purges, NEW before \in 0..MaxClock \cup {Unset}, Purge(p, before)
      PROVE  CostInv'
  <2>1. /\ purge[p].phase = "new" /\ UNCHANGED <<clock, memories, stores>>
        /\ purge[p].copies = 0 /\ purge[p].removed = {}
    BY <1>4 DEF Purge, CostInv, Effective
  <2>2. purge' = [purge EXCEPT ![p] =
                    [phase |-> "open", before |-> before, since |-> clock,
                     copies |-> purge[p].copies, removed |-> purge[p].removed]]
    BY <1>4, PurgeCalled DEF Purge, CostInv
  <2>3. /\ PurgeShape'
        /\ purge'[p].phase = "open" /\ purge'[p].before = before /\ purge'[p].since = clock
        /\ purge'[p].copies = 0 /\ purge'[p].removed = {}
        /\ \A q \in Purges \ {p} : purge'[q] = purge[q]
    <3> DEFINE none == purge[p].removed
               zero == purge[p].copies
    <3>1. zero = 0 /\ none = {} /\ PurgeShape
      BY <2>1 DEF CostInv
    <3> HIDE DEF none, zero
    <3>2. purge' = [purge EXCEPT ![p] =
                      [phase |-> "open", before |-> before, since |-> clock,
                       copies |-> zero, removed |-> none]]
      BY <2>2 DEF none, zero
    <3>3. /\ PurgeShape'
          /\ purge'[p].phase = "open" /\ purge'[p].before = before
          /\ purge'[p].since = clock /\ purge'[p].copies = zero
          /\ purge'[p].removed = none
          /\ \A q \in Purges \ {p} : purge'[q] = purge[q]
      <4>1. PurgeShape
        BY <3>1
      <4>2. QED
        BY <4>1, <3>2, PurgeUpdated
    <3>4. QED
      BY <3>1, <3>3
  <2>4. CostTypeOK'
    BY <1>0, <2>1, <2>3 DEF CostInv, CostTypeOK
  <2>5. Kinds'
    BY <2>1, <2>3 DEF CostInv, Kinds, IsCost
  <2>6. Effective' /\ Careful' /\ StoredOnce'
    BY <2>1, <2>3 DEF CostInv, Effective, Careful, StoredOnce, CostMemories
  <2>7. QED
    BY <2>1, <2>3, <2>4, <2>5, <2>6 DEF CostInv, ReceiptsSurvive
<1>5. ASSUME NEW p \in Purges, CarryOut(p)
      PROVE  CostInv'
  <2>1. /\ purge[p].phase # "new" /\ purge[p].copies < MaxCopies
        /\ UNCHANGED <<clock, stores>>
        /\ memories' = memories \ Doomed(p)
        /\ purge' = [purge EXCEPT ![p].copies = @ + 1, ![p].removed = @ \cup Doomed(p)]
    BY <1>5 DEF CarryOut, Forgotten, Doomed
  <2>2. purge' = [purge EXCEPT ![p] =
                    [phase |-> purge[p].phase, before |-> purge[p].before,
                     since |-> purge[p].since, copies |-> purge[p].copies + 1,
                     removed |-> purge[p].removed \cup Doomed(p)]]
    <3> HIDE DEF Doomed
    <3> QED
      BY <2>1, PurgeRepeated DEF CostInv
  <2>3. /\ PurgeShape'
        /\ purge'[p].phase = purge[p].phase /\ purge'[p].before = purge[p].before
        /\ purge'[p].since = purge[p].since /\ purge'[p].copies = purge[p].copies + 1
        /\ purge'[p].removed = purge[p].removed \cup Doomed(p)
        /\ \A q \in Purges \ {p} : purge'[q] = purge[q]
    BY <2>2, PurgeUpdated DEF CostInv
  <2>4. /\ purge[p].copies \in 0..MaxCopies /\ purge'[p].copies \in 0..MaxCopies
        /\ purge'[p].copies > 0
    BY <1>0, <2>1, <2>3 DEF CostInv, CostTypeOK
  <2>5. CostTypeOK'
    BY <2>1, <2>3, <2>4 DEF CostInv, CostTypeOK
  <2>6. Kinds'
    <3>1. \A m : IsCost(m)' <=> IsCost(m)
      BY <2>1 DEF IsCost
    <3>2. ReceiptMemories' = ReceiptMemories
      BY DEF ReceiptMemories
    <3>3. \A m \in memories' : m \in ReceiptMemories' \/ IsCost(m)'
      BY <2>1, <3>1, <3>2 DEF CostInv, Kinds
    <3>4. \A q \in Purges : \A m \in purge'[q].removed :
            IsCost(m)' /\ stores'[m.content] = "stored"
      <4>1. \A m \in Doomed(p) :
              IsCost(m) /\ m \in memories /\ stores[m.content] = "stored"
        <5>1. \A m \in Doomed(p) : IsCost(m) /\ m \in memories
          BY DoomedCosts
        <5>2. QED
          BY <1>0, <5>1, CostFields, ReceiptFields DEF CostInv, CostTypeOK
      <4>2. QED
        BY <2>1, <2>3, <3>1, <4>1 DEF CostInv, Kinds
    <3>5. QED
      BY <3>3, <3>4 DEF Kinds
  <2>7. ReceiptsSurvive'
    <3>1. \A m \in ReceiptMemories : m \notin Doomed(p)
      BY <1>0, DoomedCosts, ReceiptFields, CostFields
    <3>2. QED
      BY <2>1, <3>1 DEF CostInv, ReceiptsSurvive
  <2>8. Effective'
    <3>1. \A m \in CostMemories' : m \in CostMemories \ Doomed(p)
      BY <2>1 DEF CostMemories
    <3>2. QED
      BY <2>1, <2>3, <2>4, <3>1, DoomedCosts DEF CostInv, Effective
  <2>9. Careful'
    BY <2>3, DoomedCosts DEF CostInv, Careful
  <2>10. StoredOnce'
    <3>1. IsFiniteSet(memories')
      BY <2>1, FS_Subset DEF CostInv, StoredOnce
    <3>2. \A m \in CostMemories' : m \in CostMemories
      BY <2>1 DEF CostMemories
    <3>3. QED
      BY <3>1, <3>2 DEF CostInv, StoredOnce
  <2>11. QED
    BY <2>3, <2>5, <2>6, <2>7, <2>8, <2>9, <2>10 DEF CostInv
<1>6. ASSUME NEW p \in Purges, Purged(p)
      PROVE  CostInv'
  <2>1. /\ purge[p].copies > 0 /\ UNCHANGED <<clock, memories, stores>>
        /\ purge' = [purge EXCEPT ![p].phase = "closed"]
    BY <1>6 DEF Purged
  <2>2. PurgeShape'
    BY <2>1 DEF CostInv, PurgeShape
  <2>3. /\ purge'[p].phase = "closed" /\ purge'[p].before = purge[p].before
        /\ purge'[p].since = purge[p].since /\ purge'[p].copies = purge[p].copies
        /\ purge'[p].removed = purge[p].removed
        /\ \A q \in Purges \ {p} : purge'[q] = purge[q]
    BY <2>1 DEF CostInv, PurgeShape
  <2>4. CostTypeOK'
    BY <2>1, <2>3 DEF CostInv, CostTypeOK
  <2>5. Kinds'
    BY <2>1, <2>3 DEF CostInv, Kinds, IsCost
  <2>6. Effective' /\ Careful' /\ StoredOnce'
    BY <2>1, <2>3 DEF CostInv, Effective, Careful, StoredOnce, CostMemories
  <2>7. QED
    BY <2>1, <2>2, <2>4, <2>5, <2>6 DEF CostInv, ReceiptsSurvive
<1>7. CASE UNCHANGED costVars
  <2>1. CostTypeOK' /\ PurgeShape' /\ ReceiptsSurvive'
    BY <1>7 DEF costVars, CostInv, CostTypeOK, PurgeShape, ReceiptsSurvive
  <2>2. Kinds' /\ StoredOnce' /\ Effective' /\ Careful'
    BY <1>7 DEF costVars, CostInv, Kinds, IsCost, StoredOnce, Effective, Careful, CostMemories
  <2>3. QED
    BY <2>1, <2>2 DEF CostInv
<1>8. QED
  BY <1>1, <1>2, <1>3, <1>4, <1>5, <1>6, <1>7 DEF CostNext

\* CostInv is an invariant.
THEOREM CostInvariance == CostSpec => []CostInv
<1>1. CostInit => CostInv
  <2> SUFFICES ASSUME CostInit PROVE CostInv
    OBVIOUS
  <2>1. \A p \in Purges : /\ purge[p].phase = "new" /\ purge[p].before = Unset
                           /\ purge[p].since = 0 /\ purge[p].copies = 0
                           /\ purge[p].removed = {}
    BY DEF CostInit
  <2>2. PurgeShape
    BY DEF CostInit, PurgeShape
  <2>3. CostTypeOK
    BY <2>1, ReceiptFields, BoundsAssumption DEF CostInit, CostTypeOK
  <2>4. Kinds /\ ReceiptsSurvive /\ Effective /\ Careful
    BY <2>1 DEF CostInit, Kinds, ReceiptsSurvive, Effective, Careful
  <2>5. StoredOnce
    <3>1. IsFiniteSet(ReceiptMemories)
      <4> DEFINE f == [r \in KeptReceipts |->
                         Memory(ReceiptTags(r.action, r.correlation), r, 0)]
      <4>1. DOMAIN f = KeptReceipts /\ ReceiptMemories = {f[r] : r \in KeptReceipts}
        BY DEF ReceiptMemories
      <4> HIDE DEF f
      <4>2. QED
        BY <4>1, QueriesAssumption, FiniteValues
    <3>2. CostMemories = {}
      BY ReceiptFields DEF CostInit, CostMemories
    <3>3. QED
      BY <3>1, <3>2 DEF CostInit, StoredOnce
  <2>6. QED
    BY <2>2, <2>3, <2>4, <2>5 DEF CostInv
<1>2. CostInv /\ [CostNext]_costVars => CostInv'
  BY CostInvStep
<1>3. QED
  BY <1>1, <1>2, PTL DEF CostSpec

\* CostTypeOK: the variables keep their types, and what a purge removed stays
\* removed.
THEOREM CostsTypeCorrect == CostSpec => []CostTypeOK
<1>1. CostInv => CostTypeOK
  BY DEF CostInv
<1>2. QED
  BY <1>1, CostInvariance, PTL

\* ReceiptsSurvive: no purge of the costs, however often the server carries it
\* out, takes a receipt with it.
THEOREM ReceiptsAreKept == CostSpec => []ReceiptsSurvive
<1>1. CostInv => ReceiptsSurvive
  BY DEF CostInv
<1>2. QED
  BY <1>1, CostInvariance, PTL

\* PurgeWithinSecond: a purge leaves nothing older than its date, and takes
\* nothing that is a second younger, for any resolution of the clock.
THEOREM PurgesAreExact == CostSpec => []PurgeWithinSecond
<1>1. CostInv => PurgeWithinSecond
  BY DEF CostInv, Effective, Careful, PurgeWithinSecond
<1>2. QED
  BY <1>1, CostInvariance, PTL

-----------------------------------------------------------------------------
(* The idempotency check of the decision store.                            *)

\* The memory of the receipt that e stored for its verdict.
ReceiptOf(e, action) ==
  Memory(ReceiptTags(action, CorrelationOf[e]), Receipt(e, action), 0)

\* What is stored and under way are the receipts of evaluations, finitely many
\* are stored, and finitely many links.
Decisions ==
  /\ IsFiniteSet(memories) /\ IsFiniteSet(links)
  /\ \A r \in sent : \E e \in Evaluations, action \in Actions : r = Receipt(e, action)
  /\ \A m \in memories : \E e \in Evaluations, action \in Actions : m = ReceiptOf(e, action)
  /\ DOMAIN seen = Evaluations

DecisionInv == DecisionTypeOK /\ Decisions /\ EvaluatedOnce

\* The stages of an evaluation.
Stages == {"new", "judging", "storing", "decided", "failed", "skipped"}

\* The tags of a receipt: it is a decision's, and of one request only.
LEMMA ReceiptTagged ==
  ASSUME NEW e, NEW action
  PROVE  LET m == ReceiptOf(e, action)
         IN  /\ DecisionTag \in m.tags /\ Governance \in m.tags
             /\ \A c : Tag("correlation_id", c) \in m.tags <=> c = CorrelationOf[e]
             /\ m.content = Receipt(e, action)
<1>1. ReceiptOf(e, action).tags = ReceiptTags(action, CorrelationOf[e])
  BY DEF ReceiptOf, Memory
<1>2. ReceiptOf(e, action).content = Receipt(e, action)
  BY DEF ReceiptOf, Memory
<1>3. \A c : Tag("correlation_id", c) \in ReceiptTags(action, CorrelationOf[e])
               <=> c = CorrelationOf[e]
  BY DEF ReceiptTags, Tag, Governance, DecisionTag
<1>4. DecisionTag \in ReceiptTags(action, CorrelationOf[e])
      /\ Governance \in ReceiptTags(action, CorrelationOf[e])
  BY DEF ReceiptTags
<1>5. QED
  BY <1>1, <1>2, <1>3, <1>4

\* A recall with a limit of one answers nothing only when nothing matches.
LEMMA RecalledOne ==
  ASSUME IsFiniteSet(memories), NEW filter, NEW found \in Recalled(memories, filter, 1)
  PROVE  /\ found \subseteq Matching(memories, filter)
         /\ found = {} => Matching(memories, filter) = {}
<1> DEFINE matching == Matching(memories, filter)
<1>1. CASE Cardinality(matching) <= 1
  BY <1>1 DEF Recalled
<1>2. CASE ~(Cardinality(matching) <= 1)
  <2>1. found \subseteq matching /\ Cardinality(found) = 1
    BY <1>2 DEF Recalled, kSubset
  <2>2. found # {}
    BY <2>1, FS_EmptySet
  <2>3. QED
    BY <2>1, <2>2
<1>3. QED
  BY <1>1, <1>2

\* What is looked up for a request are receipts of that request.
LEMMA LookedUp ==
  ASSUME DecisionInv, NEW e \in Evaluations, NEW found \in LookupReceipt(CorrelationOf[e])
  PROVE  LET own == {r \in StoredReceipts : r.correlation = CorrelationOf[e]}
         IN  /\ \A m \in found : m.content \in own
             /\ found = {} => own = {}
<1> DEFINE filter == Filter({Governance, DecisionTag, Tag("correlation_id", CorrelationOf[e])},
                            Unset, Unset)
           own == {r \in StoredReceipts : r.correlation = CorrelationOf[e]}
<1>1. /\ found \subseteq Matching(memories, filter)
      /\ found = {} => Matching(memories, filter) = {}
  BY RecalledOne DEF LookupReceipt, DecisionInv, Decisions
<1>2. \A m : m \in Matching(memories, filter) <=>
               /\ m \in memories /\ Governance \in m.tags /\ DecisionTag \in m.tags
               /\ Tag("correlation_id", CorrelationOf[e]) \in m.tags
  BY DEF Matching, Matches, Filter
<1>3. \A m \in memories : /\ DecisionTag \in m.tags /\ Governance \in m.tags
                          /\ \A c : Tag("correlation_id", c) \in m.tags
                                      <=> c = m.content.correlation
  <2> SUFFICES ASSUME NEW m \in memories
               PROVE  /\ DecisionTag \in m.tags /\ Governance \in m.tags
                      /\ \A c : Tag("correlation_id", c) \in m.tags
                                  <=> c = m.content.correlation
    OBVIOUS
  <2>1. PICK d \in Evaluations, action \in Actions : m = ReceiptOf(d, action)
    BY DEF DecisionInv, Decisions
  <2>2. /\ DecisionTag \in m.tags /\ Governance \in m.tags
        /\ \A c : Tag("correlation_id", c) \in m.tags <=> c = CorrelationOf[d]
        /\ m.content = Receipt(d, action)
    BY <2>1, ReceiptTagged, Zenon
  <2>3. m.content.correlation = CorrelationOf[d]
    BY <2>2 DEF Receipt
  <2>4. QED
    BY <2>2, <2>3
<1> HIDE DEF filter
<1>4. \A m \in Matching(memories, filter) : m.content \in own
  BY <1>2, <1>3 DEF StoredReceipts
<1>5. \A r \in own : \E m \in Matching(memories, filter) : m.content = r
  BY <1>2, <1>3 DEF StoredReceipts
<1>6. QED
  BY <1>1, <1>4, <1>5

\* Every action keeps the invariant.
LEMMA DecisionInvStep ==
  ASSUME DecisionInv, [DecisionNext]_decisionVars
  PROVE  DecisionInv'
<1>1. ASSUME NEW e \in Evaluations, Check(e)
      PROVE  DecisionInv'
  <2> DEFINE own == {r \in StoredReceipts : r.correlation = CorrelationOf[e]}
  <2>1. PICK found \in LookupReceipt(CorrelationOf[e]) :
          stage' = [stage EXCEPT ![e] = IF IsTerminal(found) THEN "skipped" ELSE "judging"]
    BY <1>1 DEF Check
  <2>2. /\ stage[e] = "new" /\ UNCHANGED <<memories, sent, links>>
        /\ seen' = [seen EXCEPT ![e] = own]
    BY <1>1 DEF Check
  <2>3. /\ stage' \in [Evaluations -> Stages]
        /\ stage'[e] = IF IsTerminal(found) THEN "skipped" ELSE "judging"
        /\ seen'[e] = own /\ DOMAIN seen' = Evaluations
        /\ \A d \in Evaluations \ {e} : stage'[d] = stage[d] /\ seen'[d] = seen[d]
    BY <2>1, <2>2 DEF DecisionInv, Decisions, DecisionTypeOK, Stages
  <2>4. StoredReceipts' = StoredReceipts /\ own \subseteq StoredReceipts
    BY <2>2 DEF StoredReceipts
  <2>5. (\A m \in found : m.content \in own) /\ (found = {} => own = {})
    BY LookedUp
  <2> HIDE DEF own
  <2>6. DecisionTypeOK'
    BY <2>2, <2>3, <2>4 DEF DecisionInv, DecisionTypeOK, Stages
  <2>7. Decisions'
    BY <2>2, <2>3 DEF DecisionInv, Decisions, ReceiptOf, Receipt
  <2>8. EvaluatedOnce'
    <3> DEFINE terminal == {r \in own : r.action \in {"ALLOW", "DENY", "TIMED_OUT"}}
    <3>1. IsTerminal(found) => terminal # {}
      BY <2>5 DEF IsTerminal, Terminal
    <3>2. ~IsTerminal(found) => terminal = {} \/ terminal # own
      BY <2>5 DEF IsTerminal, Terminal
    <3>3. \A d \in Evaluations \ {e} :
            LET t == {r \in seen'[d] : r.action \in {"ALLOW", "DENY", "TIMED_OUT"}}
            IN  /\ stage'[d] = "skipped" => t # {}
                /\ stage'[d] \in {"judging", "storing", "decided", "failed"} =>
                     t = {} \/ t # seen'[d]
      BY <2>3 DEF DecisionInv, EvaluatedOnce
    <3>4. QED
      BY <2>3, <3>1, <3>2, <3>3 DEF EvaluatedOnce
  <2>9. QED
    BY <2>6, <2>7, <2>8 DEF DecisionInv
<1>2. ASSUME NEW e \in Evaluations, NEW action \in Actions, StoreReceipt(e, action)
      PROVE  DecisionInv'
  <2> DEFINE receipt == Receipt(e, action)
  <2>1. /\ stage[e] = "judging" /\ stage' = [stage EXCEPT ![e] = "storing"]
        /\ sent' = sent \cup {receipt} /\ UNCHANGED <<memories, seen, links>>
    BY <1>2 DEF StoreReceipt
  <2>2. /\ stage' \in [Evaluations -> Stages]
        /\ stage'[e] = "storing"
        /\ \A d \in Evaluations \ {e} : stage'[d] = stage[d]
    BY <2>1 DEF DecisionInv, DecisionTypeOK, Stages
  <2>3. /\ receipt.id = e /\ receipt.action = action
        /\ StoredReceipts' = StoredReceipts
    BY <2>1 DEF Receipt, StoredReceipts
  <2>4. \A r \in sent \cup StoredReceipts : r.id # e
    BY <2>1 DEF DecisionInv, DecisionTypeOK
  <2>5. Decisions'
    <3>1. \A r \in sent' : \E d \in Evaluations, a \in Actions : r = Receipt(d, a)
      BY <2>1 DEF DecisionInv, Decisions
    <3>2. QED
      BY <2>1, <3>1 DEF DecisionInv, Decisions, ReceiptOf, Receipt
  <2> HIDE DEF receipt
  <2>6. DecisionTypeOK'
    <3>1. \A r \in sent' \cup StoredReceipts' :
            r = receipt \/ (r \in sent \cup StoredReceipts /\ r.id # e)
      BY <2>1, <2>3, <2>4
    <3>2. \A r \in sent' \cup StoredReceipts' :
            /\ r.id \in Evaluations /\ r.action \in Actions
            /\ stage'[r.id] \in {"storing", "decided", "failed"}
      BY <2>2, <2>3, <3>1 DEF DecisionInv, DecisionTypeOK
    <3>3. /\ sent' \cap StoredReceipts' = {}
          /\ \A r, m \in sent' \cup StoredReceipts' : r.id = m.id => r = m
      BY <2>1, <2>3, <2>4, <3>1 DEF DecisionInv, DecisionTypeOK
    <3>4. QED
      BY <2>1, <2>2, <2>3, <3>2, <3>3 DEF DecisionInv, DecisionTypeOK, Stages
  <2>7. EvaluatedOnce'
    BY <2>1, <2>2 DEF DecisionInv, EvaluatedOnce
  <2>8. QED
    BY <2>5, <2>6, <2>7 DEF DecisionInv
<1>3. ASSUME NEW receipt \in sent, ReceiptStored(receipt)
      PROVE  DecisionInv'
  <2>1. PICK e \in Evaluations, action \in Actions : receipt = Receipt(e, action)
    BY DEF DecisionInv, Decisions
  <2>2. /\ sent' = sent \ {receipt}
        /\ memories' = memories \cup {ReceiptOf(e, action)}
        /\ UNCHANGED <<stage, seen, links>>
    <3>1. receipt.action = action /\ receipt.correlation = CorrelationOf[e]
      BY <2>1 DEF Receipt
    <3>2. QED
      BY <1>3, <2>1, <3>1 DEF ReceiptStored, ReceiptOf
  <2>3. StoredReceipts' = StoredReceipts \cup {receipt}
    BY <2>1, <2>2, ReceiptTagged DEF StoredReceipts
  <2>4. sent' \cup StoredReceipts' = sent \cup StoredReceipts
    BY <2>2, <2>3
  <2>5. DecisionTypeOK'
    BY <2>2, <2>3, <2>4 DEF DecisionInv, DecisionTypeOK
  <2>6. Decisions'
    <3>1. IsFiniteSet(memories')
      BY <2>2, FS_AddElement DEF DecisionInv, Decisions
    <3>2. \A r \in sent' : \E d \in Evaluations, a \in Actions : r = Receipt(d, a)
      BY <2>2 DEF DecisionInv, Decisions
    <3>3. QED
      BY <2>2, <3>1, <3>2 DEF DecisionInv, Decisions, ReceiptOf, Receipt
  <2>7. EvaluatedOnce'
    BY <2>2 DEF DecisionInv, EvaluatedOnce
  <2>8. QED
    BY <2>5, <2>6, <2>7 DEF DecisionInv
<1>4. ASSUME NEW e \in Evaluations, ReceiptReturned(e) \/ ReceiptLost(e)
      PROVE  DecisionInv'
  <2>1. /\ stage[e] = "storing" /\ UNCHANGED <<memories, sent, seen, links>>
        /\ \/ stage' = [stage EXCEPT ![e] = "failed"]
           \/ /\ stage' = [stage EXCEPT ![e] = "decided"]
              /\ \E r \in StoredReceipts : r.id = e
    BY <1>4 DEF ReceiptReturned, ReceiptLost
  <2>2. /\ stage' \in [Evaluations -> Stages]
        /\ stage'[e] \in {"decided", "failed"}
        /\ stage'[e] = "decided" => \E r \in StoredReceipts : r.id = e
        /\ \A d \in Evaluations \ {e} : stage'[d] = stage[d]
    BY <2>1 DEF DecisionInv, DecisionTypeOK, Stages
  <2>3. StoredReceipts' = StoredReceipts
    BY <2>1 DEF StoredReceipts
  <2>4. DecisionTypeOK'
    BY <2>1, <2>2, <2>3 DEF DecisionInv, DecisionTypeOK, Stages
  <2>5. Decisions'
    BY <2>1 DEF DecisionInv, Decisions, ReceiptOf, Receipt
  <2>6. EvaluatedOnce'
    BY <2>1, <2>2 DEF DecisionInv, EvaluatedOnce
  <2>7. QED
    BY <2>4, <2>5, <2>6 DEF DecisionInv
<1>5. ASSUME NEW child \in Evaluations, NEW parent \in Evaluations,
             LinkDelegation(child, parent)
      PROVE  DecisionInv'
  <2>1. /\ links' = links \cup {<<child, parent>>} /\ UNCHANGED <<memories, stage, sent, seen>>
    BY <1>5 DEF LinkDelegation
  <2>2. DecisionTypeOK'
    BY <2>1 DEF DecisionInv, DecisionTypeOK, StoredReceipts
  <2>3. Decisions' /\ EvaluatedOnce'
    BY <2>1, FS_AddElement DEF DecisionInv, Decisions, ReceiptOf, Receipt, EvaluatedOnce
  <2>4. QED
    BY <2>2, <2>3 DEF DecisionInv
<1>6. CASE UNCHANGED decisionVars
  <2>1. DecisionTypeOK'
    BY <1>6 DEF decisionVars, DecisionInv, DecisionTypeOK, StoredReceipts
  <2>2. Decisions' /\ EvaluatedOnce'
    BY <1>6 DEF decisionVars, DecisionInv, Decisions, ReceiptOf, Receipt, EvaluatedOnce
  <2>3. QED
    BY <2>1, <2>2 DEF DecisionInv
<1>7. QED
  BY <1>1, <1>2, <1>3, <1>4, <1>5, <1>6 DEF DecisionNext

\* DecisionInv is an invariant.
THEOREM DecisionInvariance == DecisionSpec => []DecisionInv
<1>1. DecisionInit => DecisionInv
  <2> SUFFICES ASSUME DecisionInit PROVE DecisionInv
    OBVIOUS
  <2>1. StoredReceipts = {} /\ IsFiniteSet(memories) /\ IsFiniteSet(links)
    BY FS_EmptySet DEF DecisionInit, StoredReceipts
  <2>2. DecisionTypeOK /\ EvaluatedOnce
    BY <2>1 DEF DecisionInit, DecisionTypeOK, EvaluatedOnce
  <2>3. Decisions
    BY <2>1 DEF DecisionInit, Decisions
  <2>4. QED
    BY <2>2, <2>3 DEF DecisionInv
<1>2. DecisionInv /\ [DecisionNext]_decisionVars => DecisionInv'
  BY DecisionInvStep
<1>3. QED
  BY <1>1, <1>2, PTL DEF DecisionSpec

\* DecisionTypeOK: a decided evaluation has its receipt in the store, and every
\* receipt, also a late one, is the only one of an evaluation that sent it.
THEOREM DecisionsTypeCorrect == DecisionSpec => []DecisionTypeOK
<1>1. DecisionInv => DecisionTypeOK
  BY DEF DecisionInv
<1>2. QED
  BY <1>1, DecisionInvariance, PTL

\* EvaluatedOnce: however many evaluations of a request run beside each other,
\* a terminal decision is missed only when a pending one hides it.
THEOREM DecisionsHold == DecisionSpec => []EvaluatedOnce
<1>1. DecisionInv => EvaluatedOnce
  BY DEF DecisionInv
<1>2. QED
  BY <1>1, DecisionInvariance, PTL

-----------------------------------------------------------------------------
(* The graph of links, as the server traverses it.                         *)

\* The smallest of two numbers.
LEMMA MinOfTwo ==
  ASSUME NEW a \in Nat, NEW b \in Nat
  PROVE  Min({a, b}) = IF a <= b THEN a ELSE b
<1>1. PICK x \in {a, b} : \A y \in {a, b} : x <= y
  <2>1. a <= b \/ b <= a
    OBVIOUS
  <2>2. QED
    BY <2>1
<1>2. Min({a, b}) \in {a, b} /\ \A y \in {a, b} : Min({a, b}) <= y
  BY <1>1 DEF Min
<1>3. QED
  BY <1>2

\* The smallest of some numbers up to 6.
LEMMA MinUpToSix ==
  ASSUME NEW S \in SUBSET (0..6), S # {}
  PROVE  Min(S) \in S /\ \A y \in S : Min(S) <= y
<1>1. \E x \in S : \A y \in S : x <= y
  <2>1. CASE 0 \in S
    BY <2>1
  <2>2. CASE 0 \notin S /\ 1 \in S
    BY <2>2
  <2>3. CASE 0 \notin S /\ 1 \notin S /\ 2 \in S
    BY <2>3
  <2>4. CASE 0 \notin S /\ 1 \notin S /\ 2 \notin S /\ 3 \in S
    BY <2>4
  <2>5. CASE 0 \notin S /\ 1 \notin S /\ 2 \notin S /\ 3 \notin S /\ 4 \in S
    BY <2>5
  <2>6. CASE 0 \notin S /\ 1 \notin S /\ 2 \notin S /\ 3 \notin S /\ 4 \notin S /\ 5 \in S
    BY <2>6
  <2>7. CASE 0 \notin S /\ 1 \notin S /\ 2 \notin S /\ 3 \notin S /\ 4 \notin S /\ 5 \notin S
    <3>1. \A x \in S : x \in 0..6 /\ x # 0 /\ x # 1 /\ x # 2 /\ x # 3 /\ x # 4 /\ x # 5
      BY <2>7
    <3>2. \A x \in S : x = 6
      BY <3>1
    <3>3. PICK x : x \in S
      OBVIOUS
    <3>4. QED
      BY <3>2, <3>3
  <2>8. QED
    BY <2>1, <2>2, <2>3, <2>4, <2>5, <2>6, <2>7
<1>2. QED
  BY <1>1 DEF Min

Adjacent(m, n) == <<m, n>> \in links \/ <<n, m>> \in links

\* Each layer is the one before and what is adjacent to it.
LEMMA LayersWiden ==
  ASSUME NEW root \in Evaluations
  PROVE  LET layer == Layers(root)
         IN  /\ layer[1] = {root}
             /\ \A k \in 1..5 : \A n \in Evaluations :
                  n \in layer[k + 1] <=> n \in layer[k] \/ \E m \in layer[k] : Adjacent(m, n)
             /\ \A k \in 1..6 : layer[k] \subseteq Evaluations
<1> DEFINE layer == Layers(root)
<1>1. /\ layer[1] = {root} /\ layer[2] = Widen(layer[1]) /\ layer[3] = Widen(layer[2])
      /\ layer[4] = Widen(layer[3]) /\ layer[5] = Widen(layer[4])
      /\ layer[6] = Widen(layer[5])
  BY DEF Layers
<1> HIDE DEF layer
<1>2. \A ids : \A n \in Evaluations :
        n \in Widen(ids) <=> n \in ids \/ \E m \in ids : Adjacent(m, n)
  BY DEF Widen, Adjacent
<1>3. \A ids : ids \subseteq Evaluations => Widen(ids) \subseteq Evaluations
  BY DEF Widen
<1>4. \A k \in 1..5 : layer[k + 1] = Widen(layer[k])
  <2>1. \A k \in 1..5 : k = 1 \/ k = 2 \/ k = 3 \/ k = 4 \/ k = 5
    OBVIOUS
  <2>2. QED
    BY <1>1, <2>1
<1>5. \A k \in 1..6 : layer[k] \subseteq Evaluations
  <2>1. /\ layer[1] \subseteq Evaluations /\ layer[2] \subseteq Evaluations
        /\ layer[3] \subseteq Evaluations /\ layer[4] \subseteq Evaluations
        /\ layer[5] \subseteq Evaluations /\ layer[6] \subseteq Evaluations
    BY <1>1, <1>3
  <2>2. \A k \in 1..6 : k = 1 \/ k = 2 \/ k = 3 \/ k = 4 \/ k = 5 \/ k = 6
    OBVIOUS
  <2>3. QED
    BY <2>1, <2>2
<1>6. QED
  BY <1>1, <1>2, <1>4, <1>5 DEF layer

\* What is less than k edges away is in the layer k.
LEMMA DistanceLayers ==
  ASSUME NEW root \in Evaluations
  PROVE  /\ Distances(root) \in [Evaluations -> 0..6]
         /\ \A n \in Evaluations : \A k \in 1..6 :
              n \in Layers(root)[k] <=> Distances(root)[n] < k
<1> DEFINE layer == Layers(root)
           d == Distances(root)
           Hops(n) == {k - 1 : k \in {i \in 1..6 : n \in layer[i]}} \cup {6}
<1>1. ASSUME NEW n \in Evaluations
      PROVE  /\ d[n] = Min(Hops(n)) /\ d[n] \in 0..6
             /\ \A k \in 1..6 : n \in layer[k] => d[n] <= k - 1
             /\ d[n] # 6 => n \in layer[d[n] + 1]
  <2>1. d[n] = Min(Hops(n))
    BY DEF Distances
  <2>2. Hops(n) \in SUBSET (0..6) /\ Hops(n) # {}
    OBVIOUS
  <2>3. /\ \A k \in 1..6 : n \in layer[k] => k - 1 \in Hops(n)
        /\ \A h \in Hops(n) : h # 6 => h + 1 \in 1..6 /\ n \in layer[h + 1]
    OBVIOUS
  <2> HIDE DEF Hops, d, layer
  <2>4. Min(Hops(n)) \in Hops(n) /\ \A h \in Hops(n) : Min(Hops(n)) <= h
    BY <2>2, MinUpToSix
  <2>5. QED
    BY <2>1, <2>2, <2>3, <2>4
<1>2. d \in [Evaluations -> 0..6]
  BY <1>1 DEF Distances
<1>3. \A n \in Evaluations : \A k \in 1..5 : n \in layer[k] => n \in layer[k + 1]
  BY LayersWiden
<1> HIDE DEF d, layer, Hops
<1>4. ASSUME NEW n \in Evaluations, NEW k \in 1..6, d[n] < k PROVE n \in layer[k]
  <2>1. d[n] + 1 \in 1..6 /\ d[n] + 1 <= k /\ n \in layer[d[n] + 1]
    BY <1>1, <1>4
  <2> DEFINE j == d[n] + 1
  <2>2. j \in 1..6 /\ j <= k /\ n \in layer[j]
    BY <2>1
  <2> HIDE DEF j
  <2>3. \A i \in 1..5 : i >= j /\ n \in layer[i] => n \in layer[i + 1]
    BY <1>3
  <2>4. /\ j <= 1 => n \in layer[1]
        /\ j <= 2 => n \in layer[2]
        /\ j <= 3 => n \in layer[3]
        /\ j <= 4 => n \in layer[4]
        /\ j <= 5 => n \in layer[5]
        /\ j <= 6 => n \in layer[6]
    <3>1. j <= 1 => n \in layer[1]
      BY <2>2
    <3>2. j <= 2 => n \in layer[2]
      BY <2>2, <2>3, <3>1
    <3>3. j <= 3 => n \in layer[3]
      BY <2>2, <2>3, <3>2
    <3>4. j <= 4 => n \in layer[4]
      BY <2>2, <2>3, <3>3
    <3>5. j <= 5 => n \in layer[5]
      BY <2>2, <2>3, <3>4
    <3>6. j <= 6 => n \in layer[6]
      BY <2>2, <2>3, <3>5
    <3>7. QED
      BY <3>1, <3>2, <3>3, <3>4, <3>5, <3>6
  <2>5. k = 1 \/ k = 2 \/ k = 3 \/ k = 4 \/ k = 5 \/ k = 6
    OBVIOUS
  <2>6. QED
    BY <2>2, <2>4, <2>5
<1>5. ASSUME NEW n \in Evaluations, NEW k \in 1..6, n \in layer[k] PROVE d[n] < k
  BY <1>1, <1>5
<1>6. QED
  BY <1>2, <1>4, <1>5 DEF d, layer

\* Distances in the graph: only the root is at 0, an edge leads one further at
\* most, and to whatever is at a distance an edge leads from one hop less.
LEMMA DistanceSteps ==
  ASSUME NEW root \in Evaluations
  PROVE  LET d == Distances(root)
         IN  /\ d \in [Evaluations -> 0..6]
             /\ \A n \in Evaluations : d[n] = 0 <=> n = root
             /\ \A m, n \in Evaluations : Adjacent(m, n) /\ d[m] <= 4 => d[n] <= d[m] + 1
             /\ \A n \in Evaluations : d[n] \in 1..5 =>
                  \E m \in Evaluations : Adjacent(m, n) /\ d[m] = d[n] - 1
<1> DEFINE layer == Layers(root)
           d == Distances(root)
<1>1. /\ d \in [Evaluations -> 0..6]
      /\ \A n \in Evaluations : \A k \in 1..6 : n \in layer[k] <=> d[n] < k
  BY DistanceLayers
<1>2. /\ layer[1] = {root}
      /\ \A k \in 1..5 : \A n \in Evaluations :
           n \in layer[k + 1] <=> n \in layer[k] \/ \E m \in layer[k] : Adjacent(m, n)
      /\ \A k \in 1..6 : layer[k] \subseteq Evaluations
  BY LayersWiden
<1> HIDE DEF layer, d
<1>3. \A n \in Evaluations : d[n] = 0 <=> n = root
  <2>1. \A n \in Evaluations : d[n] \in 0..6 /\ (n \in layer[1] <=> d[n] < 1)
    BY <1>1
  <2>2. QED
    BY <1>2, <2>1
<1>4. ASSUME NEW m \in Evaluations, NEW n \in Evaluations, Adjacent(m, n), d[m] <= 4
      PROVE  d[n] <= d[m] + 1
  <2> DEFINE k == d[m] + 1
  <2>1. k \in 1..5 /\ k + 1 \in 1..6 /\ d[m] < k /\ d[n] \in 0..6 /\ d[m] \in 0..6
    BY <1>1, <1>4
  <2> HIDE DEF k
  <2>2. m \in layer[k]
    BY <1>1, <2>1
  <2>3. n \in layer[k + 1]
    BY <1>2, <1>4, <2>1, <2>2
  <2>4. d[n] < k + 1
    BY <1>1, <2>1, <2>3
  <2>5. QED
    BY <2>1, <2>4 DEF k
<1>5. ASSUME NEW n \in Evaluations, d[n] \in 1..5
      PROVE  \E m \in Evaluations : Adjacent(m, n) /\ d[m] = d[n] - 1
  <2> DEFINE k == d[n]
  <2>1. k \in 1..5 /\ k + 1 \in 1..6 /\ k \in 1..6 /\ d[n] = k
    BY <1>5
  <2> HIDE DEF k
  <2>2. n \in layer[k + 1] /\ n \notin layer[k]
    BY <1>1, <2>1
  <2>3. PICK m \in layer[k] : Adjacent(m, n)
    BY <1>2, <2>1, <2>2
  <2>4. m \in Evaluations /\ d[m] < k /\ d[m] \in 0..6
    BY <1>1, <1>2, <2>1, <2>3
  <2>5. d[n] <= d[m] + 1
    BY <1>4, <2>1, <2>3, <2>4
  <2>6. d[m] = d[n] - 1
    BY <2>1, <2>4, <2>5
  <2>7. QED
    BY <2>3, <2>4, <2>6
<1>6. QED
  BY <1>1, <1>3, <1>4, <1>5 DEF d

\* The hop at which an edge of the graph is met.
LEMMA NearEdge ==
  ASSUME links \subseteq Evaluations \X Evaluations, NEW root \in Evaluations,
         NEW edge \in links
  PROVE  LET d == Distances(root)
         IN  /\ edge[1] \in Evaluations /\ edge[2] \in Evaluations
             /\ edge = <<edge[1], edge[2]>>
             /\ Near(d, edge) \in 0..6
             /\ Near(d, edge) = d[edge[1]] \/ Near(d, edge) = d[edge[2]]
             /\ Near(d, edge) <= d[edge[1]] /\ Near(d, edge) <= d[edge[2]]
             /\ Near(d, edge) <= 4 => /\ d[edge[1]] <= Near(d, edge) + 1
                                      /\ d[edge[2]] <= Near(d, edge) + 1
<1> DEFINE d == Distances(root)
           a == edge[1]
           b == edge[2]
<1>1. a \in Evaluations /\ b \in Evaluations /\ edge = <<a, b>>
  OBVIOUS
<1>2. d \in [Evaluations -> 0..6]
  BY DistanceSteps
<1>3. \A m, n \in Evaluations : Adjacent(m, n) /\ d[m] <= 4 => d[n] <= d[m] + 1
  BY DistanceSteps
<1>4. Adjacent(a, b) /\ Adjacent(b, a)
  BY <1>1 DEF Adjacent
<1>5. Near(d, edge) = Min({d[a], d[b]})
  BY DEF Near
<1> HIDE DEF d, a, b
<1>6. d[a] \in 0..6 /\ d[b] \in 0..6
  BY <1>1, <1>2
<1>7. Near(d, edge) = IF d[a] <= d[b] THEN d[a] ELSE d[b]
  BY <1>5, <1>6, MinOfTwo
<1>8. (d[a] <= 4 => d[b] <= d[a] + 1) /\ (d[b] <= 4 => d[a] <= d[b] + 1)
  BY <1>1, <1>3, <1>4
<1>9. QED
  BY <1>1, <1>6, <1>7, <1>8 DEF d, a, b

\* A sequence of all members of a finite set, each there once.
LEMMA EachMemberOnce ==
  ASSUME NEW S, IsFiniteSet(S), NEW s \in SetToSeqs(S)
  PROVE  /\ s \in Seq(S) /\ Len(s) = Cardinality(S)
         /\ \A x \in S : \E i \in 1..Len(s) : s[i] = x
<1> DEFINE n == Cardinality(S)
<1>1. n \in Nat /\ s \in [1..n -> S] /\ \A i, j \in 1..n : i # j => s[i] # s[j]
  BY FS_CardinalityType DEF SetToSeqs
<1>2. s \in Injection(1..n, S)
  BY <1>1 DEF Injection, IsInjective
<1>3. Cardinality(1..n) = n
  <2> HIDE DEF n
  <2>1. 1 \in Int /\ n \in Int
    BY <1>1
  <2>2. Cardinality(1..n) = IF 1 > n THEN 0 ELSE n - 1 + 1
    BY <2>1, FS_Interval
  <2>3. QED
    BY <1>1, <2>2
<1>4. s \in Surjection(1..n, S)
  BY <1>2, <1>3, FS_Injection
<1>5. \A x \in S : \E i \in 1..n : s[i] = x
  BY <1>4 DEF Surjection
<1> HIDE DEF n
<1>6. s \in Seq(S) /\ Len(s) = n
  BY <1>1
<1>7. QED
  BY <1>5, <1>6 DEF n

-----------------------------------------------------------------------------
(* The loop over the edges.                                                *)

Ends(edge) == {edge[1], edge[2]}

\* Edges up to depth, in the order in which a traversal from root meets them:
\* the nearer end of each is the root, or has been met.
Traversal(root, depth, edges) ==
  LET d == Distances(root)
  IN  /\ edges \in Seq(Asked(root, depth))
      /\ \A i, j \in 1..Len(edges) : i < j => Near(d, edges[i]) <= Near(d, edges[j])
      /\ \A i \in 1..Len(edges) : \A n \in Ends(edges[i]) :
           d[n] = Near(d, edges[i]) =>
             n = root \/ \E j \in 1..(i - 1) : n \in Ends(edges[j])

\* What knowledge_query answers is a traversal, and all of it if it is within
\* the limit.
LEMMA QueryTraverses ==
  ASSUME links \subseteq Evaluations \X Evaluations, IsFiniteSet(links),
         NEW root \in Evaluations, NEW depth \in 0..5,
         NEW edges \in KnowledgeQuery(root, depth)
  PROVE  /\ Traversal(root, depth, edges)
         /\ Cardinality(Asked(root, depth)) <= EdgeLimit =>
              \A edge \in Asked(root, depth) : \E i \in 1..Len(edges) : edges[i] = edge
<1> DEFINE d == Distances(root)
           asked == Asked(root, depth)
<1>1. PICK all \in SetToSeqs(asked) :
        /\ \A i, j \in DOMAIN all : i < j => Near(d, all[i]) <= Near(d, all[j])
        /\ edges = SubSeq(all, 1, Min({Len(all), EdgeLimit}))
  BY DEF KnowledgeQuery
<1>2. /\ asked \subseteq links
      /\ \A edge \in links : edge \in asked <=> Near(d, edge) < depth
  BY DEF Asked
<1>3. IsFiniteSet(asked) /\ Cardinality(asked) \in Nat
  BY <1>2, FS_Subset, FS_CardinalityType
<1> HIDE DEF asked
<1>4. /\ all \in Seq(asked) /\ Len(all) = Cardinality(asked)
      /\ \A x \in asked : \E i \in 1..Len(all) : all[i] = x
  BY <1>3, EachMemberOnce
<1> DEFINE len == Min({Len(all), EdgeLimit})
<1>5. len \in Nat /\ len <= Len(all) /\ (Len(all) <= EdgeLimit => len = Len(all))
  <2>1. Len(all) \in Nat /\ EdgeLimit \in Nat
    BY <1>3, <1>4, LinksAssumption
  <2>2. len = IF Len(all) <= EdgeLimit THEN Len(all) ELSE EdgeLimit
    BY <2>1, MinOfTwo
  <2> HIDE DEF len
  <2>3. QED
    BY <2>1, <2>2
<1>6. edges = SubSeq(all, 1, len)
  BY <1>1
<1> HIDE DEF len, d
<1>7. edges \in Seq(asked) /\ Len(edges) = len /\ \A i \in 1..len : edges[i] = all[i]
  <2>1. \A i \in 1..len : all[i] \in asked
    BY <1>4, <1>5
  <2>2. /\ SubSeq(all, 1, len) \in Seq(asked)
        /\ Len(SubSeq(all, 1, len)) = IF 1 <= len THEN len - 1 + 1 ELSE 0
        /\ \A i \in 1..(len - 1 + 1) : SubSeq(all, 1, len)[i] = all[1 + i - 1]
    BY <1>5, <2>1, SubSeqProperties
  <2>3. QED
    BY <1>5, <1>6, <2>2
<1>8. DOMAIN all = 1..Len(all)
  BY <1>4
<1>9. \A i, j \in 1..Len(edges) : i < j => Near(d, edges[i]) <= Near(d, edges[j])
  <2>1. \A i, j \in 1..Len(all) : i < j => Near(d, all[i]) <= Near(d, all[j])
    BY <1>1, <1>8
  <2>2. \A i \in 1..len : i \in 1..Len(all) /\ edges[i] = all[i]
    BY <1>4, <1>5, <1>7
  <2>3. QED
    BY <1>7, <2>1, <2>2
<1>10. ASSUME NEW i \in 1..Len(edges), NEW n \in Ends(edges[i]), d[n] = Near(d, edges[i])
       PROVE  n = root \/ \E j \in 1..(i - 1) : n \in Ends(edges[j])
  <2>1. /\ i \in 1..len /\ edges[i] \in asked /\ edges[i] \in links
        /\ Near(d, edges[i]) < depth
    BY <1>2, <1>7
  <2>2. n \in Evaluations
    BY <2>1 DEF Ends
  <2>3. d \in [Evaluations -> 0..6] /\ (d[n] = 0 => n = root)
    BY <2>2, DistanceSteps DEF d
  <2>4. CASE d[n] = 0
    BY <2>3, <2>4
  <2>5. CASE d[n] # 0
    <3>1. d[n] \in 1..5 /\ d[n] < depth /\ d[n] \in 0..6
      BY <1>10, <2>1, <2>2, <2>3, <2>5
    <3>2. PICK m \in Evaluations : Adjacent(m, n) /\ d[m] = d[n] - 1
      BY <2>2, <3>1, DistanceSteps DEF d
    <3>3. PICK edge \in links : edge = <<m, n>> \/ edge = <<n, m>>
      BY <3>2 DEF Adjacent
    <3>4. Ends(edge) = {m, n} /\ (edge[1] = m \/ edge[2] = m)
      BY <3>3 DEF Ends
    <3>5. Near(d, edge) <= d[m] /\ Near(d, edge) \in 0..6
      BY <3>4, NearEdge DEF d
    <3>6. Near(d, edge) < d[n] /\ edge \in asked
      BY <1>2, <3>1, <3>2, <3>5
    <3>7. PICK k \in 1..Len(all) : all[k] = edge
      BY <1>4, <3>6
    <3>8. k < i
      <4>1. Near(d, all[k]) < Near(d, all[i]) /\ i \in 1..Len(all)
        BY <1>5, <1>7, <1>10, <2>1, <3>6, <3>7
      <4>2. i < k => Near(d, all[i]) <= Near(d, all[k])
        BY <1>1, <1>8, <4>1
      <4>3. Near(d, all[k]) \in Int /\ Near(d, all[i]) \in Int
        BY <1>7, <1>10, <2>1, <2>2, <2>3, <3>5, <3>7
      <4>4. k # i
        BY <4>1, <4>3
      <4>5. QED
        BY <4>1, <4>2, <4>3, <4>4
    <3>9. k \in 1..(i - 1) /\ edges[k] = edge
      BY <1>5, <1>7, <2>1, <3>7, <3>8
    <3>10. QED
      BY <3>4, <3>9
  <2>6. QED
    BY <2>4, <2>5
<1>11. Traversal(root, depth, edges)
  BY <1>7, <1>9, <1>10 DEF Traversal, d, asked
<1>12. ASSUME Cardinality(asked) <= EdgeLimit
       PROVE  \A edge \in asked : \E i \in 1..Len(edges) : edges[i] = edge
  <2>1. len = Len(all)
    BY <1>4, <1>5, <1>12
  <2>2. QED
    BY <1>4, <1>7, <2>1
<1>13. QED
  BY <1>11, <1>12 DEF asked

\* A set of naturals that holds 0 and every successor holds them all.
LEMMA NaturalInduction ==
  ASSUME NEW S \in SUBSET Nat, 0 \in S, \A n \in S : n + 1 \in S
  PROVE  S = Nat
<1> SUFFICES ASSUME Nat \ S # {} PROVE FALSE
  OBVIOUS
<1> DEFINE R == OpToRel(<, Nat)
<1>1. \A x, y \in Nat : <<x, y>> \in R <=> x < y
  BY DEF OpToRel
<1>2. IsWellFoundedOn(R, Nat)
  BY NatLessThanWellFounded
<1> HIDE DEF R
<1>3. PICK n \in Nat \ S : \A y \in Nat \ S : ~(<<y, n>> \in R)
  BY <1>2, WFMin
<1>4. n # 0 /\ n - 1 \in Nat /\ n - 1 < n /\ (n - 1) + 1 = n
  OBVIOUS
<1>5. n - 1 \in S
  BY <1>1, <1>3, <1>4
<1>6. QED
  BY <1>3, <1>4, <1>5

\* f is given by its first value and by its steps.
Stepwise(f, n, base, step) ==
  \A i \in 0..n : f[i] = IF i = 0 THEN base ELSE step[<<f[i - 1], i>>]

\* There is a function on 0..n with a given first value and given steps.
LEMMA StepwiseFunction ==
  ASSUME NEW D, NEW base \in D, NEW n \in Nat, NEW step \in [D \X (1..n) -> D]
  PROVE  \E f \in [0..n -> D] : Stepwise(f, n, base, step)
<1> DEFINE N == {m \in Nat : m <= n => \E f \in [0..m -> D] : Stepwise(f, m, base, step)}
<1>1. 0 \in N
  <2> DEFINE f == [i \in 0..0 |-> base]
  <2>1. f \in [0..0 -> D] /\ Stepwise(f, 0, base, step)
    BY DEF Stepwise
  <2> HIDE DEF f
  <2>2. QED
    BY <2>1
<1>2. ASSUME NEW m \in N PROVE m + 1 \in N
  <2> SUFFICES ASSUME m + 1 <= n
               PROVE  \E f \in [0..(m + 1) -> D] : Stepwise(f, m + 1, base, step)
    OBVIOUS
  <2>1. m \in Nat /\ m <= n /\ m + 1 \in 1..n
    OBVIOUS
  <2>2. PICK f \in [0..m -> D] : Stepwise(f, m, base, step)
    BY <2>1
  <2> DEFINE g == [i \in 0..(m + 1) |-> IF i <= m THEN f[i] ELSE step[<<f[m], m + 1>>]]
  <2>3. step[<<f[m], m + 1>>] \in D
    BY <2>1, <2>2
  <2>4. g \in [0..(m + 1) -> D]
    BY <2>1, <2>2, <2>3
  <2>5. /\ \A i \in 0..m : g[i] = f[i]
        /\ g[m + 1] = step[<<f[m], m + 1>>]
    BY <2>1
  <2> HIDE DEF g
  <2>6. Stepwise(g, m + 1, base, step)
    <3> SUFFICES ASSUME NEW i \in 0..(m + 1)
                 PROVE  g[i] = IF i = 0 THEN base ELSE step[<<g[i - 1], i>>]
      BY DEF Stepwise
    <3>1. CASE i = m + 1
      <4>1. i # 0 /\ i - 1 = m /\ m \in 0..m
        BY <2>1, <3>1
      <4>2. g[m] = f[m]
        BY <2>5, <4>1
      <4>3. QED
        BY <2>5, <3>1, <4>1, <4>2
    <3>2. CASE i # m + 1
      <4>1. i \in 0..m /\ (i # 0 => i - 1 \in 0..m)
        BY <2>1, <3>2
      <4>2. QED
        BY <2>2, <2>5, <4>1 DEF Stepwise
    <3>3. QED
      BY <3>1, <3>2
  <2>7. QED
    BY <2>4, <2>6
<1>3. N \in SUBSET Nat
  OBVIOUS
<1> HIDE DEF N
<1>4. N = Nat
  BY <1>1, <1>2, <1>3, NaturalInduction
<1>5. QED
  BY <1>4 DEF N

\* A receipt that is visited is in the chain, at its end if it was not there.
LEMMA VisitParts ==
  ASSUME NEW chain \in Seq(Evaluations), NEW n \in Evaluations
  PROVE  /\ Visit(chain, n) \in Seq(Evaluations)
         /\ n \in ToSet(chain) => Visit(chain, n) = chain
         /\ n \notin ToSet(chain) =>
              /\ Len(Visit(chain, n)) = Len(chain) + 1
              /\ \A i \in 1..Len(chain) : Visit(chain, n)[i] = chain[i]
              /\ Visit(chain, n)[Len(chain) + 1] = n
  BY DEF Visit

\* The loop visits both ends of each edge.
LEMMA ChainStepwise ==
  ASSUME NEW root \in Evaluations, NEW edges \in Seq(Evaluations \X Evaluations)
  PROVE  \E f \in [0..Len(edges) -> Seq(Evaluations)] :
           /\ f[0] = <<root>>
           /\ \A i \in 1..Len(edges) : f[i] = Visit(Visit(f[i - 1], edges[i][1]), edges[i][2])
           /\ Chain(root, edges) = f[Len(edges)]
<1> DEFINE D == Seq(Evaluations)
           n == Len(edges)
           base == <<root>>
           Step(chain, i) == Visit(Visit(chain, edges[i][1]), edges[i][2])
           step == [p \in D \X (1..n) |-> Step(p[1], p[2])]
<1>1. n \in Nat /\ base \in D
  OBVIOUS
<1>2. \A i \in 1..n : edges[i] \in Evaluations \X Evaluations
  OBVIOUS
<1>3. \A chain \in D : \A i \in 1..n : Step(chain, i) \in D
  <2> SUFFICES ASSUME NEW chain \in D, NEW i \in 1..n PROVE Step(chain, i) \in D
    OBVIOUS
  <2>1. edges[i][1] \in Evaluations /\ edges[i][2] \in Evaluations
    BY <1>2
  <2>2. QED
    BY <2>1, VisitParts
<1>4. step \in [D \X (1..n) -> D] /\ \A chain \in D : \A i \in 1..n : step[<<chain, i>>] = Step(chain, i)
  BY <1>3
<1> HIDE DEF step, D, n, base
<1>5. PICK f \in [0..n -> D] : Stepwise(f, n, base, step)
  BY <1>1, <1>4, StepwiseFunction
<1>6. \A i \in 0..n : f[i] = IF i = 0 THEN base ELSE Step(f[i - 1], i)
  <2> SUFFICES ASSUME NEW i \in 0..n, i # 0
               PROVE  f[i] = Step(f[i - 1], i)
    BY <1>5 DEF Stepwise
  <2>1. i \in 1..n /\ i - 1 \in 0..n /\ f[i - 1] \in D
    BY <1>1, <1>5
  <2>2. QED
    BY <1>4, <1>5, <2>1 DEF Stepwise
<1>7. f = [i \in 0..n |-> IF i = 0 THEN base ELSE Step(f[i - 1], i)]
  BY <1>5, <1>6
<1> DEFINE F == CHOOSE chain :
                  chain = [i \in 0..n |-> IF i = 0 THEN base ELSE Step(chain[i - 1], i)]
<1>8. F = [i \in 0..n |-> IF i = 0 THEN base ELSE Step(F[i - 1], i)]
  BY <1>7
<1>9. Chain(root, edges) = F[n]
  BY DEF Chain, n, base
<1> HIDE DEF F
<1>10. F \in [0..n -> D]
  <2> DEFINE N == {i \in Nat : i <= n => F[i] \in D}
  <2>1. 0 \in N
    BY <1>1, <1>8
  <2>2. ASSUME NEW i \in N PROVE i + 1 \in N
    <3>1. i + 1 <= n => i + 1 \in 0..n /\ i + 1 \in 1..n /\ i + 1 # 0 /\ (i + 1) - 1 = i /\ F[i] \in D
      BY <1>1, <2>2
    <3>2. i + 1 <= n => F[i + 1] = Step(F[i], i + 1)
      BY <1>8, <3>1
    <3> HIDE DEF Step
    <3>3. i + 1 <= n => F[i + 1] \in D
      BY <1>3, <3>1, <3>2
    <3>4. QED
      BY <3>3
  <2>3. N \in SUBSET Nat
    OBVIOUS
  <2> HIDE DEF N
  <2>4. N = Nat
    BY <2>1, <2>2, <2>3, NaturalInduction
  <2>5. \A i \in 0..n : F[i] \in D
    BY <1>1, <2>4 DEF N
  <2>6. QED
    BY <1>8, <2>5
<1>11. F[0] = base /\ \A i \in 1..n : F[i] = Step(F[i - 1], i)
  BY <1>1, <1>8
<1>12. QED
  BY <1>9, <1>10, <1>11 DEF D, n, base

\* A chain that starts at its root, names nothing twice and leads outward.
Orderly(root, chain) ==
  LET d == Distances(root)
  IN  /\ chain \in Seq(Evaluations) /\ chain # <<>> /\ chain[1] = root
      /\ IsInjective(chain)
      /\ \A i, j \in DOMAIN chain : i < j => d[chain[i]] <= d[chain[j]]

\* It still does when what is appended is as far from the root as anything in it.
LEMMA VisitKeepsOrder ==
  ASSUME NEW root \in Evaluations, NEW chain, Orderly(root, chain), NEW n \in Evaluations,
         n \in ToSet(chain) \/ \A x \in ToSet(chain) : Distances(root)[x] <= Distances(root)[n]
  PROVE  /\ Orderly(root, Visit(chain, n))
         /\ ToSet(Visit(chain, n)) = ToSet(chain) \cup {n}
<1> DEFINE d == Distances(root)
           v == Visit(chain, n)
           len == Len(chain)
<1>1. /\ chain \in Seq(Evaluations) /\ chain # <<>> /\ chain[1] = root
      /\ IsInjective(chain)
      /\ \A i, j \in DOMAIN chain : i < j => d[chain[i]] <= d[chain[j]]
      /\ len \in Nat \ {0} /\ DOMAIN chain = 1..len
  BY DEF Orderly
<1>2. /\ v \in Seq(Evaluations)
      /\ n \in ToSet(chain) => v = chain
      /\ n \notin ToSet(chain) =>
           /\ Len(v) = len + 1 /\ \A i \in 1..len : v[i] = chain[i]
           /\ v[len + 1] = n
  BY <1>1, VisitParts
<1> HIDE DEF v, len, d
<1>3. CASE n \in ToSet(chain)
  BY <1>2, <1>3 DEF v
<1>4. CASE n \notin ToSet(chain)
  <2>1. /\ DOMAIN v = 1..(len + 1) /\ \A i \in 1..len : v[i] = chain[i] /\ i \in 1..(len + 1)
        /\ v[len + 1] = n /\ len + 1 \in 1..(len + 1)
        /\ \A i \in 1..(len + 1) : i \in 1..len \/ i = len + 1
    BY <1>1, <1>2, <1>4
  <2>2. ToSet(v) = ToSet(chain) \cup {n}
    <3>1. \A x : x \in ToSet(v) <=> \E i \in 1..(len + 1) : v[i] = x
      BY <2>1 DEF ToSet
    <3>2. \A x : x \in ToSet(chain) <=> \E i \in 1..len : chain[i] = x
      BY <1>1 DEF ToSet
    <3>3. QED
      BY <2>1, <3>1, <3>2
  <2>3. \A i \in 1..len : chain[i] \in ToSet(chain)
    BY <1>1 DEF ToSet
  <2>4. IsInjective(v)
    <3>1. \A i, j \in 1..len : chain[i] = chain[j] => i = j
      BY <1>1 DEF IsInjective
    <3>2. \A i \in 1..len : v[i] # n
      BY <1>4, <2>1, <2>3
    <3>3. \A i, j \in 1..(len + 1) : v[i] = v[j] => i = j
      BY <2>1, <3>1, <3>2
    <3>4. QED
      BY <2>1, <3>3 DEF IsInjective
  <2>5. \A i, j \in DOMAIN v : i < j => d[v[i]] <= d[v[j]]
    <3> SUFFICES ASSUME NEW i \in 1..(len + 1), NEW j \in 1..(len + 1), i < j
                 PROVE  d[v[i]] <= d[v[j]]
      BY <2>1
    <3>1. i \in 1..len /\ v[i] = chain[i]
      BY <1>1, <2>1
    <3>2. CASE j \in 1..len
      BY <1>1, <2>1, <3>1, <3>2
    <3>3. CASE j = len + 1
      <4>1. \A x \in ToSet(chain) : d[x] <= d[n]
        BY <1>4 DEF d
      <4>2. QED
        BY <2>1, <2>3, <3>1, <3>3, <4>1
    <3>4. QED
      BY <2>1, <3>2, <3>3
  <2>6. v # <<>> /\ v[1] = root
    BY <1>1, <1>2, <2>1
  <2>7. QED
    BY <1>2, <2>2, <2>4, <2>5, <2>6 DEF Orderly, v, d
<1>5. QED
  BY <1>3, <1>4

\* The chain of a traversal leads outward, and names its root and the ends of
\* its edges.
LEMMA ChainOfTraversal ==
  ASSUME links \subseteq Evaluations \X Evaluations, NEW root \in Evaluations,
         NEW depth \in 0..5, NEW edges, Traversal(root, depth, edges)
  PROVE  /\ Orderly(root, Chain(root, edges))
         /\ \A n : n \in ToSet(Chain(root, edges)) <=>
                     n = root \/ \E i \in 1..Len(edges) : n \in Ends(edges[i])
<1> DEFINE d == Distances(root)
           len == Len(edges)
           Met(n, i) == n = root \/ \E j \in 1..i : n \in Ends(edges[j])
<1>1. /\ edges \in Seq(Asked(root, depth)) /\ len \in Nat
      /\ \A i, j \in 1..len : i < j => Near(d, edges[i]) <= Near(d, edges[j])
      /\ \A i \in 1..len : \A n \in Ends(edges[i]) :
           d[n] = Near(d, edges[i]) => Met(n, i - 1)
  BY DEF Traversal
<1>2. \A i \in 1..len : edges[i] \in links /\ Near(d, edges[i]) < depth
  <2>1. \A i \in 1..len : edges[i] \in Asked(root, depth)
    BY <1>1
  <2>2. QED
    BY <2>1 DEF Asked
<1>3. edges \in Seq(Evaluations \X Evaluations)
  <2>1. Asked(root, depth) \subseteq Evaluations \X Evaluations
    BY DEF Asked
  <2>2. QED
    BY <1>1, <2>1, SeqMonotonic
<1>4. PICK f \in [0..len -> Seq(Evaluations)] :
        /\ f[0] = <<root>>
        /\ \A i \in 1..len : f[i] = Visit(Visit(f[i - 1], edges[i][1]), edges[i][2])
        /\ Chain(root, edges) = f[len]
  BY <1>3, ChainStepwise
<1>5. /\ d \in [Evaluations -> 0..6] /\ d[root] = 0
      /\ \A i \in 1..len :
           /\ edges[i][1] \in Evaluations /\ edges[i][2] \in Evaluations
           /\ Ends(edges[i]) = {edges[i][1], edges[i][2]}
           /\ Near(d, edges[i]) \in 0..4
           /\ \A n \in Ends(edges[i]) :
                /\ n \in Evaluations
                /\ d[n] = Near(d, edges[i]) \/ d[n] = Near(d, edges[i]) + 1
  <2>1. d \in [Evaluations -> 0..6] /\ d[root] = 0
    BY DistanceSteps
  <2> SUFFICES ASSUME NEW i \in 1..len
               PROVE  /\ edges[i][1] \in Evaluations /\ edges[i][2] \in Evaluations
                      /\ Ends(edges[i]) = {edges[i][1], edges[i][2]}
                      /\ Near(d, edges[i]) \in 0..4
                      /\ \A n \in Ends(edges[i]) :
                           /\ n \in Evaluations
                           /\ d[n] = Near(d, edges[i]) \/ d[n] = Near(d, edges[i]) + 1
    BY <2>1
  <2> DEFINE edge == edges[i]
             k == Near(d, edge)
             a == edge[1]
             b == edge[2]
  <2>2. edge \in links /\ k < depth
    BY <1>2
  <2>3. /\ a \in Evaluations /\ b \in Evaluations /\ k \in 0..6
        /\ k <= d[a] /\ k <= d[b] /\ (k <= 4 => d[a] <= k + 1 /\ d[b] <= k + 1)
    BY <2>2, NearEdge
  <2>4. Ends(edge) = {a, b}
    BY DEF Ends
  <2> HIDE DEF a, b, k, edge, d
  <2>5. /\ k \in 0..4 /\ (d[a] = k \/ d[a] = k + 1) /\ (d[b] = k \/ d[b] = k + 1)
    BY <2>1, <2>2, <2>3
  <2>6. QED
    BY <2>3, <2>4, <2>5 DEF a, b, k, edge
<1> DEFINE Good(i) == Orderly(root, f[i]) /\ \A n : n \in ToSet(f[i]) <=> Met(n, i)
           N == {i \in Nat : i <= len => Good(i)}
<1>6. Good(0)
  <2>1. f[0] = <<root>>
    BY <1>4
  <2> DEFINE one == <<root>>
  <2>2. /\ one \in Seq(Evaluations) /\ one # <<>> /\ one[1] = root /\ DOMAIN one = {1}
    OBVIOUS
  <2> HIDE DEF one, d
  <2>3. /\ IsInjective(one) /\ \A n : n \in ToSet(one) <=> n = root
        /\ \A i, j \in DOMAIN one : i < j => d[one[i]] <= d[one[j]]
    BY <2>2 DEF IsInjective, ToSet
  <2>4. Orderly(root, one)
    BY <2>2, <2>3 DEF Orderly, d
  <2>5. \A n : Met(n, 0) <=> n = root
    OBVIOUS
  <2>6. QED
    BY <2>1, <2>3, <2>4, <2>5 DEF one
<1>7. ASSUME NEW i \in Nat, i + 1 <= len, Good(i) PROVE Good(i + 1)
  <2> DEFINE m == i + 1
             a == edges[m][1]
             b == edges[m][2]
             k == Near(d, edges[m])
             c == f[i]
             u == Visit(c, a)
             w == Visit(u, b)
  <2>1. m \in 1..len /\ m - 1 = i /\ m \in 0..len
    BY <1>1, <1>7
  <2>2. f[m] = w
    BY <1>4, <2>1
  <2>3. /\ a \in Evaluations /\ b \in Evaluations /\ k \in 0..4 /\ Ends(edges[m]) = {a, b}
        /\ \A n \in {a, b} : d[n] = k \/ d[n] = k + 1
    BY <1>5, <2>1
  <2>4. \A n \in {a, b} : d[n] = k => n \in ToSet(c)
    BY <1>1, <1>7, <2>1, <2>3
  <2>5. \A x \in ToSet(c) : x \in Evaluations /\ d[x] <= k + 1
    <3> SUFFICES ASSUME NEW x, Met(x, i) PROVE x \in Evaluations /\ d[x] <= k + 1
      BY <1>7
    <3>1. CASE x = root
      BY <1>5, <2>3, <3>1
    <3>2. CASE x # root
      <4>1. PICK j \in 1..i : x \in Ends(edges[j])
        BY <3>2
      <4>2. j \in 1..len /\ j < m
        BY <1>1, <1>7, <2>1
      <4> DEFINE l == Near(d, edges[j])
      <4>3. l <= k /\ l \in 0..4 /\ x \in Evaluations /\ (d[x] = l \/ d[x] = l + 1)
        BY <1>1, <1>5, <2>1, <4>1, <4>2
      <4> HIDE DEF l, k, d
      <4>4. QED
        BY <2>3, <4>3
    <3>3. QED
      BY <3>1, <3>2
  <2> HIDE DEF d, k, a, b, c, u, w
  <2>6. ASSUME NEW n \in {a, b}, NEW x, x \in ToSet(c) \/ x \in {a, b}, d[n] # k
        PROVE  d[x] <= d[n]
    <3>1. d[n] = k + 1
      BY <2>3, <2>6
    <3>2. d[x] <= k + 1
      <4>1. CASE x \in ToSet(c)
        BY <2>5, <4>1
      <4>2. CASE x \in {a, b}
        <5>1. d[x] = k \/ d[x] = k + 1
          BY <2>3, <4>2
        <5>2. QED
          BY <2>3, <5>1
      <4>3. QED
        BY <2>6, <4>1, <4>2
    <3>3. QED
      BY <3>1, <3>2
  <2>7. Orderly(root, c) /\ \A n : n \in ToSet(c) <=> Met(n, i)
    BY <1>7 DEF c
  <2>8. Orderly(root, u) /\ ToSet(u) = ToSet(c) \cup {a}
    <3>1. a \in ToSet(c) \/ \A x \in ToSet(c) : d[x] <= d[a]
      BY <2>4, <2>6
    <3>2. QED
      BY <2>3, <2>7, <3>1, VisitKeepsOrder DEF u, d
  <2>9. Orderly(root, w) /\ ToSet(w) = ToSet(u) \cup {b}
    <3>1. b \in ToSet(u) \/ \A x \in ToSet(u) : d[x] <= d[b]
      BY <2>4, <2>6, <2>8
    <3>2. QED
      BY <2>3, <2>8, <3>1, VisitKeepsOrder DEF w, d
  <2>10. \A n : n \in ToSet(w) <=> Met(n, m)
    <3>1. \A n : Met(n, m) <=> Met(n, i) \/ n \in Ends(edges[m])
      <4>1. 1..m = 1..i \cup {m}
        BY <1>7
      <4>2. QED
        BY <4>1
    <3> HIDE DEF Met, m
    <3>2. QED
      BY <2>3, <2>7, <2>8, <2>9, <3>1
  <2>11. QED
    BY <2>2, <2>9, <2>10
<1>8. N \in SUBSET Nat /\ 0 \in N
  BY <1>6
<1>9. ASSUME NEW i \in N PROVE i + 1 \in N
  <2>1. i \in Nat /\ (i + 1 <= len => i <= len)
    BY <1>1
  <2> HIDE DEF Good
  <2>2. i + 1 <= len => Good(i + 1)
    BY <1>7, <2>1
  <2>3. QED
    BY <2>1, <2>2
<1> HIDE DEF N, Good
<1>10. N = Nat
  BY <1>8, <1>9, NaturalInduction
<1>11. Good(len)
  BY <1>1, <1>10 DEF N
<1>12. QED
  BY <1>4, <1>11 DEF Good

\* What a delegation chain names, for any depth.
LEMMA ChainNames ==
  ASSUME links \subseteq Evaluations \X Evaluations, IsFiniteSet(links),
         NEW root \in Evaluations, NEW maxDepth \in Nat,
         NEW chain \in GetDelegationChain(root, maxDepth)
  PROVE  LET d == Distances(root)
             depth == Min({maxDepth, 5})
             within == {n \in Evaluations : d[n] <= depth}
         IN  /\ Orderly(root, chain)
             /\ ToSet(chain) \subseteq within
             /\ Cardinality(Asked(root, depth)) <= EdgeLimit => within \subseteq ToSet(chain)
<1> DEFINE d == Distances(root)
           depth == Min({maxDepth, 5})
           within == {n \in Evaluations : d[n] <= depth}
<1>1. PICK edges \in KnowledgeQuery(root, depth) : chain = Chain(root, edges)
  BY DEF GetDelegationChain
<1>2. depth \in 0..5
  <2>1. 5 \in Nat /\ \A m \in Nat : Min({maxDepth, m}) = IF maxDepth <= m THEN maxDepth ELSE m
    BY MinOfTwo
  <2>2. depth = IF maxDepth <= 5 THEN maxDepth ELSE 5
    BY <2>1
  <2> HIDE DEF depth
  <2>3. QED
    BY <2>2
<1> HIDE DEF depth
<1>3. /\ Traversal(root, depth, edges)
      /\ Cardinality(Asked(root, depth)) <= EdgeLimit =>
           \A edge \in Asked(root, depth) : \E i \in 1..Len(edges) : edges[i] = edge
  BY <1>1, <1>2, QueryTraverses
<1>4. /\ Orderly(root, chain)
      /\ \A n : n \in ToSet(chain) <=>
                  n = root \/ \E i \in 1..Len(edges) : n \in Ends(edges[i])
  BY <1>1, <1>2, <1>3, ChainOfTraversal
<1>5. \A i \in 1..Len(edges) : edges[i] \in Asked(root, depth)
  BY <1>3 DEF Traversal
<1>6. /\ d \in [Evaluations -> 0..6] /\ d[root] = 0
      /\ \A n \in Evaluations : d[n] = 0 => n = root
      /\ \A n \in Evaluations : d[n] \in 1..5 =>
           \E m \in Evaluations : Adjacent(m, n) /\ d[m] = d[n] - 1
  BY DistanceSteps
<1>7. ASSUME NEW n \in ToSet(chain) PROVE n \in within
  <2>1. CASE n = root
    BY <1>2, <1>6, <2>1
  <2>2. CASE n # root
    <3>1. PICK edge \in Asked(root, depth) : n \in Ends(edge)
      BY <1>4, <1>5, <2>2
    <3>2. edge \in links /\ Near(d, edge) < depth
      BY DEF Asked
    <3>3. /\ edge[1] \in Evaluations /\ edge[2] \in Evaluations
          /\ Near(d, edge) \in 0..6
          /\ Near(d, edge) <= 4 => /\ d[edge[1]] <= Near(d, edge) + 1
                                   /\ d[edge[2]] <= Near(d, edge) + 1
      BY <3>2, NearEdge
    <3>4. n = edge[1] \/ n = edge[2]
      BY <3>1 DEF Ends
    <3> HIDE DEF d
    <3>5. QED
      BY <1>2, <1>6, <3>2, <3>3, <3>4
  <2>3. QED
    BY <2>1, <2>2
<1>8. ASSUME Cardinality(Asked(root, depth)) <= EdgeLimit, NEW n \in within
      PROVE  n \in ToSet(chain)
  <2>1. CASE n = root
    BY <1>4, <2>1
  <2>2. CASE n # root
    <3>1. n \in Evaluations /\ d[n] \in 1..5 /\ d[n] <= depth
      BY <1>2, <1>6, <2>2
    <3>2. PICK m \in Evaluations : Adjacent(m, n) /\ d[m] = d[n] - 1
      BY <1>6, <3>1
    <3>3. PICK edge \in links : edge = <<m, n>> \/ edge = <<n, m>>
      BY <3>2 DEF Adjacent
    <3>4. Ends(edge) = {m, n} /\ (edge[1] = m \/ edge[2] = m)
      BY <3>3 DEF Ends
    <3>5. Near(d, edge) <= d[m] /\ Near(d, edge) \in 0..6
      BY <3>4, NearEdge
    <3>6. Near(d, edge) < depth
      <4> HIDE DEF d
      <4>1. QED
        BY <1>2, <3>1, <3>2, <3>5
    <3>7. edge \in Asked(root, depth)
      BY <3>6 DEF Asked
    <3>8. PICK i \in 1..Len(edges) : edges[i] = edge
      BY <1>3, <1>8, <3>7
    <3>9. QED
      BY <1>4, <3>4, <3>8
  <2>3. QED
    BY <2>1, <2>2
<1>9. QED
  BY <1>4, <1>7, <1>8 DEF depth

\* ChainOutward holds of any links.
LEMMA ChainsLeadOutward ==
  ASSUME links \subseteq Evaluations \X Evaluations, IsFiniteSet(links)
  PROVE  ChainOutward
<1> SUFFICES ASSUME NEW root \in Evaluations, NEW depth \in {1, 6},
                    NEW chain \in GetDelegationChain(root, depth)
             PROVE  LET distance == Distances(root)
                        within == {n \in Evaluations : distance[n] <= Min({depth, 5})}
                    IN  /\ chain[1] = root
                        /\ IsInjective(chain)
                        /\ \A i, j \in DOMAIN chain :
                             i < j => distance[chain[i]] <= distance[chain[j]]
                        /\ ToSet(chain) \subseteq within
                        /\ Cardinality(Asked(root, Min({depth, 5}))) <= EdgeLimit =>
                             within \subseteq ToSet(chain)
  BY DEF ChainOutward
<1>1. depth \in Nat
  OBVIOUS
<1>2. QED
  BY <1>1, ChainNames DEF Orderly

\* ChainOutward: whatever links have been stored, the receipts that a delegation
\* chain names start at its root and lead outward from it, none twice, and none
\* within its depth is left out unless the server cut its answer.
THEOREM ChainsHold == DecisionSpec => []ChainOutward
<1>1. DecisionInv => ChainOutward
  <2>1. DecisionInv => links \subseteq Evaluations \X Evaluations /\ IsFiniteSet(links)
    BY DEF DecisionInv, DecisionTypeOK, Decisions
  <2>2. QED
    BY <2>1, ChainsLeadOutward
<1>2. QED
  BY <1>1, DecisionInvariance, PTL

-----------------------------------------------------------------------------
(* Sums over finite sets.                                                  *)

\* The member of a set that a fold takes first.
Picked(s) == CHOOSE x \in s : TRUE

\* F adds up the values of f over every subset of its domain D.
Adds(f, D, F) ==
  /\ F \in [SUBSET D -> Int]
  /\ F[{}] = 0
  /\ \A s \in SUBSET D : s # {} => F[s] = f[Picked(s)] + F[s \ {Picked(s)}]

\* As the fold has it.
LEMMA SumFolds ==
  ASSUME NEW D, NEW f, DOMAIN f = D
  PROVE  SumFunction(f) =
           (CHOOSE F : F = [s \in SUBSET D |->
                              IF s = {} THEN 0 ELSE f[Picked(s)] + F[s \ {Picked(s)}]])[D]
BY DEF SumFunction, SumFunctionOnSet, FoldFunctionOnSet, MapThenFoldSet, Picked

\* What is left when a member of a finite set is taken from it.
LEMMA OneLess ==
  ASSUME NEW D, IsFiniteSet(D), NEW s \in SUBSET D, NEW x \in s
  PROVE  /\ IsFiniteSet(s) /\ Cardinality(s) \in Nat \ {0} /\ s \ {x} \in SUBSET D
         /\ Cardinality(s \ {x}) \in Nat /\ Cardinality(s \ {x}) = Cardinality(s) - 1
<1>1. IsFiniteSet(s) /\ IsFiniteSet(s \ {x})
  BY FS_Subset
<1>2. Cardinality(s) \in Nat /\ Cardinality(s \ {x}) \in Nat
  BY <1>1, FS_CardinalityType
<1>3. Cardinality(s \ {x}) = Cardinality(s) - 1
  BY <1>1, FS_RemoveElement
<1>4. QED
  BY <1>1, <1>2, <1>3

\* The fold computes a sum that it takes one member of the set at a time.
LEMMA SumExists ==
  ASSUME NEW D, IsFiniteSet(D), NEW f \in [D -> Int]
  PROVE  \E F : Adds(f, D, F) /\ SumFunction(f) = F[D]
<1> DEFINE Small(n) == {s \in SUBSET D : Cardinality(s) <= n}
           Value(F, s) == IF s = {} THEN 0 ELSE f[Picked(s)] + F[s \ {Picked(s)}]
           Up(n, G) == G \in [Small(n) -> Int] /\ \A s \in Small(n) : G[s] = Value(G, s)
           N == {n \in Nat : \E G : Up(n, G)}
<1>1. \A s \in SUBSET D : s # {} =>
        /\ Picked(s) \in s /\ f[Picked(s)] \in Int /\ s \ {Picked(s)} \in SUBSET D
        /\ Cardinality(s) \in Nat \ {0}
        /\ Cardinality(s \ {Picked(s)}) \in Nat
        /\ Cardinality(s \ {Picked(s)}) = Cardinality(s) - 1
  <2> SUFFICES ASSUME NEW s \in SUBSET D, s # {}
               PROVE  /\ Picked(s) \in s /\ f[Picked(s)] \in Int /\ s \ {Picked(s)} \in SUBSET D
                      /\ Cardinality(s) \in Nat \ {0}
                      /\ Cardinality(s \ {Picked(s)}) \in Nat
                      /\ Cardinality(s \ {Picked(s)}) = Cardinality(s) - 1
    OBVIOUS
  <2>1. Picked(s) \in s
    BY DEF Picked
  <2>2. QED
    BY <2>1, OneLess
<1>2. \A s \in SUBSET D : Cardinality(s) \in Nat /\ (Cardinality(s) = 0 => s = {})
  BY FS_Subset, FS_CardinalityType, FS_EmptySet
<1>3. 0 \in N
  <2> DEFINE G == [s \in Small(0) |-> 0]
  <2>1. \A s \in Small(0) : s = {}
    BY <1>2
  <2>2. Up(0, G)
    BY <2>1
  <2>3. QED
    BY <2>2
<1>4. ASSUME NEW n \in N PROVE n + 1 \in N
  <2>1. PICK G : Up(n, G)
    BY <1>4
  <2> DEFINE H == [s \in Small(n + 1) |-> Value(G, s)]
  <2>2. \A s \in Small(n + 1) : s # {} => s \ {Picked(s)} \in Small(n)
    BY <1>1
  <2>3. \A s \in Small(n) : s \in Small(n + 1) /\ H[s] = G[s]
    BY <1>2, <2>1
  <2>4. \A s \in Small(n + 1) : H[s] \in Int /\ H[s] = Value(G, s)
    BY <1>1, <2>1, <2>2
  <2>5. \A s \in Small(n + 1) : H[s] = Value(H, s)
    BY <2>2, <2>3, <2>4
  <2>6. H \in [Small(n + 1) -> Int]
    BY <2>4
  <2> HIDE DEF H, Value, Small
  <2>7. Up(n + 1, H)
    BY <2>5, <2>6
  <2>8. QED
    BY <2>7
<1>5. N \in SUBSET Nat
  OBVIOUS
<1> HIDE DEF N
<1>6. N = Nat
  BY <1>3, <1>4, <1>5, NaturalInduction
<1>7. Cardinality(D) \in N /\ Small(Cardinality(D)) = SUBSET D
  <2>1. \A s \in SUBSET D : Cardinality(s) <= Cardinality(D)
    BY FS_Subset
  <2>2. QED
    BY <1>2, <1>6, <2>1
<1>8. PICK G : G \in [SUBSET D -> Int] /\ \A s \in SUBSET D : G[s] = Value(G, s)
  BY <1>7 DEF N
<1>9. G = [s \in SUBSET D |-> Value(G, s)]
  BY <1>8
<1> DEFINE F == CHOOSE F : F = [s \in SUBSET D |-> Value(F, s)]
<1>10. F = [s \in SUBSET D |-> Value(F, s)]
  BY <1>9
<1>11. SumFunction(f) = F[D]
  BY SumFolds
<1> HIDE DEF F
<1>12. F[{}] = 0 /\ \A s \in SUBSET D : s # {} => F[s] = f[Picked(s)] + F[s \ {Picked(s)}]
  BY <1>10
<1>13. F \in [SUBSET D -> Int]
  <2> DEFINE Holds(n) == \A s \in SUBSET D : Cardinality(s) = n => F[s] \in Int
             M == {n \in Nat : Holds(n)}
  <2>1. Holds(0)
    <3>1. \A s \in SUBSET D : Cardinality(s) = 0 => s = {}
      BY <1>2
    <3>2. \A s : s = {} => F[s] \in Int
      BY <1>12
    <3>3. QED
      BY <3>1, <3>2
  <2>2. ASSUME NEW n \in Nat, Holds(n) PROVE Holds(n + 1)
    <3> SUFFICES ASSUME NEW s \in SUBSET D, Cardinality(s) = n + 1 PROVE F[s] \in Int
      OBVIOUS
    <3>1. s # {}
      <4>1. Cardinality({}) = 0 /\ n + 1 # 0
        BY FS_EmptySet
      <4>2. QED
        BY <4>1
    <3> DEFINE x == Picked(s)
    <3>2. /\ s \ {x} \in SUBSET D /\ f[x] \in Int /\ F[s] = f[x] + F[s \ {x}]
          /\ Cardinality(s \ {x}) = n
      BY <1>1, <1>12, <3>1
    <3> HIDE DEF x
    <3>3. F[s \ {x}] \in Int
      BY <2>2, <3>2
    <3>4. QED
      BY <3>2, <3>3
  <2>3. M \in SUBSET Nat /\ 0 \in M /\ \A n \in M : n + 1 \in M
    <3> HIDE DEF Holds
    <3>1. QED
      BY <2>1, <2>2
  <2> HIDE DEF M, Holds
  <2>4. M = Nat
    BY <2>3, NaturalInduction
  <2>5. \A s \in SUBSET D : F[s] \in Int
    BY <1>2, <2>4 DEF M, Holds
  <2>6. QED
    BY <1>10, <2>5
<1>14. QED
  BY <1>11, <1>12, <1>13 DEF Adds
\* F has the sum of f over any part of D.
SumsOfSubsets(f, D, F) == \A T \in SUBSET D : SumFunction([x \in T |-> f[x]]) = F[T]

\* There is one way to add up.
LEMMA SumOfSubset ==
  ASSUME NEW D, IsFiniteSet(D), NEW f \in [D -> Int], NEW F, Adds(f, D, F)
  PROVE  SumsOfSubsets(f, D, F)
<1> SUFFICES ASSUME NEW T \in SUBSET D
             PROVE  SumFunction([x \in T |-> f[x]]) = F[T]
  BY DEF SumsOfSubsets
<1> DEFINE g == [x \in T |-> f[x]]
<1>1. IsFiniteSet(T) /\ g \in [T -> Int]
  BY FS_Subset
<1> HIDE DEF g
<1>2. PICK G : Adds(g, T, G) /\ SumFunction(g) = G[T]
  BY <1>1, SumExists
<1>3. \A x \in T : g[x] = f[x]
  BY DEF g
<1>4. G[{}] = 0 /\ F[{}] = 0
  BY <1>2 DEF Adds
<1>5. \A s \in SUBSET T : s # {} =>
        LET x == Picked(s)
        IN  /\ G[s] = f[x] + G[s \ {x}] /\ F[s] = f[x] + F[s \ {x}]
            /\ s \ {x} \in SUBSET T /\ Cardinality(s \ {x}) = Cardinality(s) - 1
            /\ Cardinality(s) \in Nat
  <2> SUFFICES ASSUME NEW s \in SUBSET T, s # {}
               PROVE  LET x == Picked(s)
                      IN  /\ G[s] = f[x] + G[s \ {x}] /\ F[s] = f[x] + F[s \ {x}]
                          /\ s \ {x} \in SUBSET T /\ Cardinality(s \ {x}) = Cardinality(s) - 1
                          /\ Cardinality(s) \in Nat
    OBVIOUS
  <2> DEFINE x == Picked(s)
  <2>1. x \in s
    BY DEF Picked
  <2>2. G[s] = g[x] + G[s \ {x}] /\ F[s] = f[x] + F[s \ {x}]
    BY <1>2 DEF Adds
  <2> HIDE DEF x
  <2>3. g[x] = f[x]
    BY <1>3, <2>1
  <2>4. /\ s \ {x} \in SUBSET T /\ Cardinality(s \ {x}) = Cardinality(s) - 1
        /\ Cardinality(s) \in Nat
    BY <1>1, <2>1, OneLess
  <2>5. QED
    BY <2>2, <2>3, <2>4 DEF x
<1> DEFINE Same(n) == \A s \in SUBSET T : Cardinality(s) = n => G[s] = F[s]
           N == {n \in Nat : Same(n)}
<1>6. Same(0)
  <2>1. \A s \in SUBSET T : Cardinality(s) = 0 => s = {}
    BY <1>1, FS_Subset, FS_EmptySet
  <2>2. \A s : s = {} => G[s] = F[s]
    BY <1>4
  <2>3. QED
    BY <2>1, <2>2
<1>7. ASSUME NEW n \in Nat, Same(n) PROVE Same(n + 1)
  <2> SUFFICES ASSUME NEW s \in SUBSET T, Cardinality(s) = n + 1 PROVE G[s] = F[s]
    OBVIOUS
  <2>1. s # {}
    <3>1. Cardinality({}) = 0 /\ n + 1 # 0
      BY FS_EmptySet
    <3>2. QED
      BY <3>1
  <2> DEFINE x == Picked(s)
  <2>2. /\ G[s] = f[x] + G[s \ {x}] /\ F[s] = f[x] + F[s \ {x}]
        /\ s \ {x} \in SUBSET T /\ Cardinality(s \ {x}) = n
    BY <1>5, <2>1
  <2> HIDE DEF x
  <2>3. QED
    BY <1>7, <2>2
<1>8. N \in SUBSET Nat /\ 0 \in N /\ \A n \in N : n + 1 \in N
  <2> HIDE DEF Same
  <2>1. QED
    BY <1>6, <1>7
<1> HIDE DEF N, Same
<1>9. N = Nat
  BY <1>8, NaturalInduction
<1>10. Cardinality(T) \in N /\ T \in SUBSET T
  BY <1>1, <1>9, FS_CardinalityType
<1>11. G[T] = F[T]
  BY <1>10 DEF N, Same
<1>12. QED
  BY <1>2, <1>11 DEF g

\* Any member of a set may be the first that F takes from it.
TakesAny(f, D, F) == \A s \in SUBSET D : \A x \in s : F[s] = f[x] + F[s \ {x}]

\* The order does not matter.
LEMMA TakeAny ==
  ASSUME NEW D, IsFiniteSet(D), NEW f \in [D -> Int], NEW F, Adds(f, D, F)
  PROVE  TakesAny(f, D, F)
<1>1. /\ F \in [SUBSET D -> Int]
      /\ \A t \in SUBSET D : t # {} => F[t] = f[Picked(t)] + F[t \ {Picked(t)}]
  BY DEF Adds
<1> DEFINE First(n) == \A t \in SUBSET D : \A y \in t :
                       Cardinality(t) = n => F[t] = f[y] + F[t \ {y}]
           N == {n \in Nat : First(n)}
<1>2. \A t \in SUBSET D : \A y \in t :
        /\ t \ {y} \in SUBSET D /\ Cardinality(t) \in Nat \ {0}
        /\ Cardinality(t \ {y}) = Cardinality(t) - 1
  BY OneLess
<1>3. First(0)
  BY <1>2
<1>4. ASSUME NEW n \in Nat, First(n) PROVE First(n + 1)
  <2> SUFFICES ASSUME NEW t \in SUBSET D, NEW y \in t, Cardinality(t) = n + 1
               PROVE  F[t] = f[y] + F[t \ {y}]
    OBVIOUS
  <2> DEFINE z == Picked(t)
  <2>1. z \in t /\ F[t] = f[z] + F[t \ {z}]
    <3>1. z \in t
      BY DEF Picked
    <3>2. QED
      BY <1>1, <3>1
  <2> HIDE DEF z
  <2>2. CASE z = y
    BY <2>1, <2>2
  <2>3. CASE z # y
    <3> DEFINE u == t \ {z}
               v == t \ {y}
    <3>1. /\ u \in SUBSET D /\ Cardinality(u) = n /\ y \in u
          /\ v \in SUBSET D /\ Cardinality(v) = n /\ z \in v
          /\ u \ {y} = v \ {z} /\ u \ {y} \in SUBSET D
      BY <1>2, <2>1, <2>3
    <3> HIDE DEF u, v
    <3> DEFINE w == u \ {y}
    <3>2. F[u] = f[y] + F[w] /\ F[v] = f[z] + F[w]
      BY <1>4, <3>1
    <3>3. f[y] \in Int /\ f[z] \in Int /\ F[w] \in Int
      BY <1>1, <2>1, <3>1
    <3>4. F[t] = f[z] + F[u]
      BY <2>1 DEF u
    <3> HIDE DEF w
    <3>5. F[t] = f[y] + F[v]
      <4>1. \A a, b, c \in Int : a + (b + c) = b + (a + c)
        OBVIOUS
      <4>2. f[z] + (f[y] + F[w]) = f[y] + (f[z] + F[w])
        BY <3>3, <4>1
      <4>3. QED
        BY <3>2, <3>4, <4>2
    <3>6. QED
      BY <3>5 DEF v
  <2>4. QED
    BY <2>2, <2>3
<1>5. N \in SUBSET Nat /\ 0 \in N /\ \A n \in N : n + 1 \in N
  <2> HIDE DEF First
  <2>1. QED
    BY <1>3, <1>4
<1> HIDE DEF N, First
<1>6. N = Nat
  BY <1>5, NaturalInduction
<1>7. \A s \in SUBSET D : Cardinality(s) \in Nat
  BY FS_Subset, FS_CardinalityType
<1>8. QED
  BY <1>6, <1>7 DEF N, First, TakesAny

\* The sum over two sets with no member in common.
LEMMA SumOfUnion ==
  ASSUME NEW D, IsFiniteSet(D), NEW f \in [D -> Int], NEW F, Adds(f, D, F),
         NEW A \in SUBSET D, NEW B \in SUBSET D, A \cap B = {}
  PROVE  F[A \cup B] = F[A] + F[B]
<1>1. /\ F \in [SUBSET D -> Int] /\ F[{}] = 0
      /\ \A s \in SUBSET D : \A x \in s : F[s] = f[x] + F[s \ {x}]
  <2>1. F \in [SUBSET D -> Int] /\ F[{}] = 0
    BY DEF Adds
  <2>2. \A s \in SUBSET D : \A x \in s : F[s] = f[x] + F[s \ {x}]
    <3>1. TakesAny(f, D, F)
      BY TakeAny
    <3>2. QED
      BY <3>1 DEF TakesAny
  <2>3. QED
    BY <2>1, <2>2
<1> DEFINE Plus(n) == \A t \in SUBSET D : A \cap t = {} /\ Cardinality(t) = n =>
                        F[A \cup t] = F[A] + F[t]
           N == {n \in Nat : Plus(n)}
<1>2. Plus(0)
  <2>1. \A t \in SUBSET D : Cardinality(t) = 0 => t = {}
    BY FS_Subset, FS_EmptySet
  <2>2. \A t : t = {} => A \cup t = A /\ F[t] = 0
    BY <1>1
  <2>3. F[A] \in Int /\ F[A] + 0 = F[A]
    BY <1>1
  <2>4. \A t : t = {} => F[A \cup t] = F[A] + F[t]
    BY <2>2, <2>3
  <2>5. QED
    BY <2>1, <2>4
<1>3. ASSUME NEW n \in Nat, Plus(n) PROVE Plus(n + 1)
  <2> SUFFICES ASSUME NEW t \in SUBSET D, A \cap t = {}, Cardinality(t) = n + 1
               PROVE  F[A \cup t] = F[A] + F[t]
    OBVIOUS
  <2>1. t # {}
    <3>1. Cardinality({}) = 0 /\ n + 1 # 0
      BY FS_EmptySet
    <3>2. QED
      BY <3>1
  <2>2. PICK x : x \in t
    BY <2>1
  <2>3. t \ {x} \in SUBSET D /\ Cardinality(t \ {x}) = n /\ A \cap (t \ {x}) = {}
    BY <2>2, OneLess
  <2>4. F[A \cup (t \ {x})] = F[A] + F[t \ {x}]
    BY <1>3, <2>3
  <2> DEFINE u == t \ {x}
             all == A \cup t
  <2>5. /\ t \in SUBSET D /\ x \in t /\ all \in SUBSET D /\ x \in all
        /\ all \ {x} = A \cup u
    BY <2>2
  <2>6. F[A \cup u] = F[A] + F[u]
    BY <2>4
  <2> HIDE DEF all, Plus
  <2>7. F[t] = f[x] + F[t \ {x}] /\ f[x] \in Int
    BY <1>1, <2>5
  <2>8. F[all] = f[x] + F[all \ {x}]
    BY <1>1, <2>5
  <2>9. F[A] \in Int
    BY <1>1
  <2>10. F[all] = f[x] + (F[A] + F[u])
    BY <2>5, <2>6, <2>8
  <2> HIDE DEF u
  <2>11. F[t] = f[x] + F[u] /\ F[u] \in Int
    BY <1>1, <2>3, <2>7 DEF u
  <2>12. \A a, b, c \in Int : a + (b + c) = b + (a + c)
    OBVIOUS
  <2>13. F[all] = F[A] + F[t]
    BY <2>7, <2>9, <2>10, <2>11, <2>12
  <2>14. QED
    BY <2>13 DEF all
<1>4. N \in SUBSET Nat /\ 0 \in N /\ \A n \in N : n + 1 \in N
  <2> HIDE DEF Plus
  <2>1. QED
    BY <1>2, <1>3
<1> HIDE DEF N, Plus
<1>5. N = Nat
  BY <1>4, NaturalInduction
<1>6. Cardinality(B) \in N
  BY <1>5, FS_Subset, FS_CardinalityType
<1>7. QED
  BY <1>6 DEF N, Plus

\* The sum of the groups into which key divides D.
SumOfGroups(D, F, key, K) == SumFunction([k \in K |-> F[{x \in D : key[x] = k}]])

\* The sums of the groups of a set add up to the sum over the set.
LEMMA GroupsAddUp ==
  ASSUME NEW D, IsFiniteSet(D), NEW f \in [D -> Int], NEW F, Adds(f, D, F),
         NEW key, NEW K, IsFiniteSet(K), \A x \in D : key[x] \in K
  PROVE  SumOfGroups(D, F, key, K) = F[D]
<1> DEFINE Group(k) == {x \in D : key[x] = k}
           In(L) == {x \in D : key[x] \in L}
           h == [k \in K |-> F[Group(k)]]
<1>1. F \in [SUBSET D -> Int] /\ F[{}] = 0
  BY DEF Adds
<1>2. h \in [K -> Int]
  BY <1>1
<1>3. \A k \in K : h[k] = F[Group(k)]
  OBVIOUS
<1> HIDE DEF h
<1>4. PICK H : Adds(h, K, H) /\ SumFunction(h) = H[K]
  BY <1>2, SumExists
<1> DEFINE Total(n) == \A L \in SUBSET K : Cardinality(L) = n => H[L] = F[In(L)]
           N == {n \in Nat : Total(n)}
<1>5. Total(0)
  <2>1. \A L \in SUBSET K : Cardinality(L) = 0 => L = {}
    BY FS_Subset, FS_EmptySet
  <2>2. \A L : L = {} => In(L) = {} /\ H[L] = 0
    BY <1>4 DEF Adds
  <2> HIDE DEF In
  <2>3. QED
    BY <1>1, <2>1, <2>2
<1>6. ASSUME NEW n \in Nat, Total(n) PROVE Total(n + 1)
  <2> SUFFICES ASSUME NEW L \in SUBSET K, Cardinality(L) = n + 1 PROVE H[L] = F[In(L)]
    OBVIOUS
  <2>1. L # {}
    <3>1. Cardinality({}) = 0 /\ n + 1 # 0
      BY FS_EmptySet
    <3>2. QED
      BY <3>1
  <2>2. PICK k : k \in L
    BY <2>1
  <2>3. L \ {k} \in SUBSET K /\ Cardinality(L \ {k}) = n
    <3> DEFINE rest == L \ {k}
    <3>1. rest \in SUBSET K /\ Cardinality(rest) = Cardinality(L) - 1
      BY <2>2, OneLess
    <3> HIDE DEF rest, Total, In, Group
    <3>2. rest \in SUBSET K /\ Cardinality(rest) = n
      BY <3>1
    <3>3. QED
      BY <3>2 DEF rest
  <2>4. H[L \ {k}] = F[In(L \ {k})]
    BY <1>6, <2>3
  <2>5. H[L] = h[k] + H[L \ {k}]
    <3>1. TakesAny(h, K, H)
      BY <1>2, <1>4, TakeAny
    <3>2. QED
      BY <2>2, <3>1 DEF TakesAny
  <2>6. /\ In(L) = Group(k) \cup In(L \ {k}) /\ Group(k) \cap In(L \ {k}) = {}
        /\ Group(k) \in SUBSET D /\ In(L \ {k}) \in SUBSET D
    BY <2>2
  <2> DEFINE own == Group(k)
             rest == In(L \ {k})
  <2>7. own \in SUBSET D /\ rest \in SUBSET D /\ own \cap rest = {}
    BY <2>6
  <2> HIDE DEF Group, In, own, rest, Total
  <2>8. F[own \cup rest] = F[own] + F[rest]
    BY <2>7, SumOfUnion
  <2>9. QED
    BY <1>3, <2>2, <2>4, <2>5, <2>6, <2>8 DEF own, rest
<1>7. N \in SUBSET Nat /\ 0 \in N /\ \A n \in N : n + 1 \in N
  <2> HIDE DEF Total
  <2>1. QED
    BY <1>5, <1>6
<1>8. In(K) = D
  OBVIOUS
<1> HIDE DEF N, Total
<1>9. N = Nat
  BY <1>7, NaturalInduction
<1>10. Cardinality(K) \in N /\ K \in SUBSET K
  BY <1>9, FS_CardinalityType
<1>11. H[K] = F[D]
  BY <1>8, <1>10 DEF N, Total
<1>12. QED
  BY <1>4, <1>11 DEF h, SumOfGroups
-----------------------------------------------------------------------------
(* What the queries of the cost storage say of each other.                 *)

\* A set of memories that can be added up.
Priced(found) == IsFiniteSet(found) /\ \A m \in found : m.content.actual_cost \in Int

\* The cost of no record.
LEMMA CostOfNone == CostOf({}) = 0
<1> DEFINE f == [m \in {} |-> m.content.actual_cost]
<1>1. IsFiniteSet({}) /\ f \in [{} -> Int]
  BY FS_EmptySet
<1> HIDE DEF f
<1>2. PICK F : Adds(f, {}, F) /\ SumFunction(f) = F[{}]
  BY <1>1, SumExists
<1>3. SumFunction(f) = 0
  BY <1>2 DEF Adds
<1>4. QED
  BY <1>3 DEF CostOf, f

\* The parts of a summary add up to its total, whatever it is split by.
LEMMA PartsAddUp ==
  ASSUME NEW found, Priced(found), NEW key
  PROVE  SumFunction(ByKey(found, key)) = CostOf(found)
<1> DEFINE f == [m \in found |-> m.content.actual_cost]
           keys == [m \in found |-> m.content[key]]
           K == {keys[m] : m \in found}
<1>1. IsFiniteSet(found) /\ f \in [found -> Int] /\ CostOf(found) = SumFunction(f)
  BY DEF Priced, CostOf
<1>2. \A T \in SUBSET found : CostOf(T) = SumFunction([m \in T |-> f[m]])
  <2> SUFFICES ASSUME NEW T \in SUBSET found
               PROVE  CostOf(T) = SumFunction([m \in T |-> f[m]])
    OBVIOUS
  <2>1. [m \in T |-> m.content.actual_cost] = [m \in T |-> f[m]]
    OBVIOUS
  <2>2. QED
    BY <2>1 DEF CostOf
<1>3. IsFiniteSet(K) /\ \A m \in found : keys[m] \in K
  <2>1. DOMAIN keys = found
    OBVIOUS
  <2> HIDE DEF keys
  <2>2. QED
    BY <1>1, <2>1, FiniteValues
<1>4. ByKey(found, key) = [k \in K |-> CostOf({m \in found : keys[m] = k})]
  BY DEF ByKey
<1> HIDE DEF f, keys, K
<1>5. PICK F : Adds(f, found, F) /\ SumFunction(f) = F[found]
  BY <1>1, SumExists
<1>6. \A T \in SUBSET found : CostOf(T) = F[T]
  <2>1. SumsOfSubsets(f, found, F)
    BY <1>1, <1>5, SumOfSubset
  <2>2. QED
    BY <1>2, <2>1 DEF SumsOfSubsets
<1>7. ByKey(found, key) = [k \in K |-> F[{m \in found : keys[m] = k}]]
  BY <1>4, <1>6
<1>8. SumOfGroups(found, F, keys, K) = F[found]
  BY <1>1, <1>3, <1>5, GroupsAddUp
<1>9. SumFunction(ByKey(found, key)) = SumOfGroups(found, F, keys, K)
  BY <1>7 DEF SumOfGroups
<1>10. QED
  BY <1>1, <1>5, <1>8, <1>9

\* A recall answers with all that match, unless it is cut at the limit.
LEMMA RecalledAll ==
  ASSUME IsFiniteSet(memories), NEW filter, NEW limit \in Nat,
         NEW found \in Recalled(memories, filter, limit)
  PROVE  /\ found \subseteq Matching(memories, filter) /\ IsFiniteSet(found)
         /\ found = Matching(memories, filter) \/ Cardinality(found) = limit
         /\ Cardinality(Matching(memories, filter)) <= limit =>
              found = Matching(memories, filter)
<1> DEFINE matching == Matching(memories, filter)
<1>1. IsFiniteSet(matching)
  BY FS_Subset DEF Matching
<1>2. CASE Cardinality(matching) <= limit
  BY <1>1, <1>2 DEF Recalled
<1>3. CASE ~(Cardinality(matching) <= limit)
  <2>1. found \subseteq matching /\ Cardinality(found) = limit
    BY <1>3 DEF Recalled, kSubset
  <2>2. QED
    BY <1>1, <1>3, <2>1, FS_Subset
<1>4. QED
  BY <1>2, <1>3

\* The tags of a stored cost name its id, request and agent, and no other.
LEMMA CostTagged ==
  ASSUME CostInv, NEW m \in memories, CostTag \in m.tags
  PROVE  /\ m \in CostMemories /\ m.content \in Costs /\ GovernanceTags \subseteq m.tags
         /\ m.content.actual_cost \in Int
         /\ \A id : Tag("cost_id", id) \in m.tags <=> m.content.id = id
         /\ \A request : Tag("request_id", request) \in m.tags <=> m.content.request = request
         /\ \A agent : Tag("agent", agent) \in m.tags <=> m.content.agent = agent
<1>1. IsCost(m)
  BY ReceiptFields DEF CostInv, Kinds
<1>2. PICK c \in Costs, t \in 0..clock : m = Memory(CostTags(c), c, t)
  BY <1>1 DEF IsCost
<1>3. m.content = c /\ m.tags = CostTags(c)
  BY <1>2 DEF Memory
<1>4. /\ \A id : Tag("cost_id", id) \in CostTags(c) <=> c.id = id
      /\ \A request : Tag("request_id", request) \in CostTags(c) <=> c.request = request
      /\ \A agent : Tag("agent", agent) \in CostTags(c) <=> c.agent = agent
  BY DEF CostTags, GovernanceTags, Governance, CostTag, Tag
<1>5. m \in CostMemories /\ GovernanceTags \subseteq CostTags(c)
  BY TagsTellApart DEF CostMemories
<1>6. c.actual_cost \in Int
  BY CostsAssumption
<1>7. QED
  BY <1>3, <1>4, <1>5, <1>6

\* What the filters of the queries select.
LEMMA Selected ==
  ASSUME CostInv
  PROVE  /\ \A id, m : m \in Matching(memories, Filter({CostTag, Tag("cost_id", id)}, Unset, Unset))
                         <=> m \in CostMemories /\ m.content.id = id
         /\ \A request, m :
              m \in Matching(memories, Filter({CostTag, Tag("request_id", request)}, Unset, Unset))
                <=> m \in CostMemories /\ m.content.request = request
         /\ \A after, before, m :
              m \in Matching(memories, Filter(GovernanceTags, after, before))
                <=> /\ m \in CostMemories
                    /\ after # Unset => m.created >= after
                    /\ before # Unset => m.created <= before
         /\ \A agent, after, before, m :
              m \in Matching(memories, Filter({CostTag, Tag("agent", agent)}, after, before))
                <=> /\ m \in CostMemories /\ m.content.agent = agent
                    /\ after # Unset => m.created >= after
                    /\ before # Unset => m.created <= before
<1>1. \A tags, after, before, m :
        m \in Matching(memories, Filter(tags, after, before))
          <=> /\ m \in memories /\ tags \subseteq m.tags
              /\ after # Unset => m.created >= after
              /\ before # Unset => m.created <= before
  BY DEF Matching, Matches, Filter
<1>2. CostTag \in GovernanceTags
  BY DEF GovernanceTags
<1>3. \A m : m \in CostMemories <=> m \in memories /\ CostTag \in m.tags
  BY DEF CostMemories
<1>4. \A m \in CostMemories :
        /\ GovernanceTags \subseteq m.tags
        /\ \A id : Tag("cost_id", id) \in m.tags <=> m.content.id = id
        /\ \A request : Tag("request_id", request) \in m.tags <=> m.content.request = request
        /\ \A agent : Tag("agent", agent) \in m.tags <=> m.content.agent = agent
  BY <1>3, CostTagged
<1>5. \A id, m : {CostTag, Tag("cost_id", id)} \subseteq m.tags
                   <=> CostTag \in m.tags /\ Tag("cost_id", id) \in m.tags
  OBVIOUS
<1>6. \A request, m : {CostTag, Tag("request_id", request)} \subseteq m.tags
                        <=> CostTag \in m.tags /\ Tag("request_id", request) \in m.tags
  OBVIOUS
<1>7. \A agent, m : {CostTag, Tag("agent", agent)} \subseteq m.tags
                      <=> CostTag \in m.tags /\ Tag("agent", agent) \in m.tags
  OBVIOUS
<1>8. \A m : GovernanceTags \subseteq m.tags => CostTag \in m.tags
  BY <1>2
<1>9. QED
  BY <1>1, <1>3, <1>4, <1>5, <1>6, <1>7, <1>8

\* A stored cost is found by all four lookups.
LEMMA StoredIsFound ==
  ASSUME CostInv, NEW m \in CostMemories
  PROVE  Found(m)
<1>1. m \in memories /\ CostTag \in m.tags
  BY DEF CostMemories
<1>2. m.created = ToUnix(m.tick) /\ m.tick \in Nat /\ ToUnix(m.tick) \in Nat
  <2>1. clock \in Nat /\ m.tick \in 0..clock /\ m.created = ToUnix(m.tick)
    BY <1>1, BoundsAssumption DEF CostInv, CostTypeOK
  <2>2. m.tick \in Nat
    BY <2>1
  <2>3. QED
    BY <2>1, <2>2, Truncated
<1>3. Get(m.content.id) = {{m}}
  <2> DEFINE filter == Filter({CostTag, Tag("cost_id", m.content.id)}, Unset, Unset)
  <2>1. \A n : n \in Matching(memories, filter)
                 <=> n \in CostMemories /\ n.content.id = m.content.id
    BY Selected
  <2>2. \A n \in CostMemories : n.content \in Costs
    BY CostTagged DEF CostMemories
  <2>3. \A n \in CostMemories : n.content.id = m.content.id => n = m
    BY <2>2, CostsAssumption DEF CostInv, StoredOnce
  <2> HIDE DEF filter
  <2>4. Matching(memories, filter) = {m}
    BY <2>1, <2>3
  <2>5. Cardinality({m}) = 1
    BY FS_Singleton
  <2>6. QED
    BY <2>4, <2>5 DEF Get, Recalled, filter
<1>4. \A answer \in GetByRequestId(m.content.request) \cup GetByDateRange(m.tick, m.tick)
                    \cup GetByAgentId(m.content.agent, m.tick, m.tick) :
        m \in answer \/ Cardinality(answer) = Limit
  <2> DEFINE time == ToUnix(m.tick)
             byRequest == Filter({CostTag, Tag("request_id", m.content.request)}, Unset, Unset)
             byDate == Filter(GovernanceTags, time, time)
             byAgent == Filter({CostTag, Tag("agent", m.content.agent)}, time, time)
  <2>1. /\ m \in Matching(memories, byRequest)
        /\ m \in Matching(memories, byDate)
        /\ m \in Matching(memories, byAgent)
    <3> HIDE DEF time
    <3>1. time \in Nat /\ m.created = time
      BY <1>2 DEF time
    <3>2. QED
      BY <3>1, Selected
  <2>2. IsFiniteSet(memories) /\ Limit \in Nat
    BY QueriesAssumption DEF CostInv, StoredOnce
  <2>3. /\ GetByRequestId(m.content.request) = Recalled(memories, byRequest, Limit)
        /\ GetByDateRange(m.tick, m.tick) = Recalled(memories, byDate, Limit)
        /\ GetByAgentId(m.content.agent, m.tick, m.tick) = Recalled(memories, byAgent, Limit)
    BY DEF GetByRequestId, GetByDateRange, GetByAgentId
  <2> HIDE DEF byRequest, byDate, byAgent
  <2>4. \A filter : \A answer \in Recalled(memories, filter, Limit) :
          m \in Matching(memories, filter) => m \in answer \/ Cardinality(answer) = Limit
    BY <2>2, RecalledAll
  <2>5. QED
    BY <2>1, <2>3, <2>4
<1>5. QED
  BY <1>3, <1>4 DEF Found

\* Of fewer than a limit, no part reaches the limit.
LEMMA BelowLimit ==
  ASSUME NEW found, IsFiniteSet(found), NEW limit \in Nat, Cardinality(found) < limit
  PROVE  /\ Cardinality(found) # limit
         /\ \A part \in SUBSET found : Cardinality(part) <= limit
<1>1. Cardinality(found) \in Nat
  BY FS_CardinalityType
<1>2. ASSUME NEW part \in SUBSET found PROVE Cardinality(part) <= limit
  <2>1. Cardinality(part) \in Nat /\ Cardinality(part) <= Cardinality(found)
    BY FS_Subset, FS_CardinalityType
  <2>2. QED
    BY <1>1, <2>1
<1>3. QED
  BY <1>1, <1>2

\* When a stored cost was stored.
LEMMA StoredWhen ==
  ASSUME CostInv, NEW n \in CostMemories
  PROVE  n.tick \in Nat /\ n.created = ToUnix(n.tick)
<1>1. n \in memories
  BY DEF CostMemories
<1>2. clock \in Nat /\ n.tick \in 0..clock /\ n.created = ToUnix(n.tick)
  BY <1>1, BoundsAssumption DEF CostInv, CostTypeOK
<1>3. QED
  BY <1>2

\* The parts of a summary, and the summaries of the agents.
LEMMA SummariesAgree ==
  ASSUME CostInv,
         NEW start \in Nat, start % TicksPerSecond = 0,
         NEW end \in Nat, end % TicksPerSecond = 0,
         NEW summary \in GetSummary(start, end, "")
  PROVE  AddsUp(summary, start, end)
<1> DEFINE after == ToUnix(start)
           before == ToUnix(end)
           filter == Filter(GovernanceTags, after, before)
<1>1. PICK found \in Recalled(memories, filter, Limit) : summary = AggregateSummary(found)
  BY DEF GetSummary, GetByDateRange
<1>2. IsFiniteSet(memories) /\ Limit \in Nat
  BY QueriesAssumption DEF CostInv, StoredOnce
<1>3. \A n : n \in Matching(memories, filter)
               <=> /\ n \in CostMemories
                   /\ after # Unset => n.created >= after
                   /\ before # Unset => n.created <= before
  BY Selected
<1> HIDE DEF filter
<1>4. /\ found \subseteq Matching(memories, filter) /\ IsFiniteSet(found)
      /\ found = Matching(memories, filter) \/ Cardinality(found) = Limit
  BY <1>1, <1>2, RecalledAll
<1>5. Priced(found)
  <2>1. \A n \in CostMemories : n.content.actual_cost \in Int
    BY CostTagged DEF CostMemories
  <2>2. QED
    BY <1>3, <1>4, <2>1 DEF Priced
<1>6. /\ summary.total_cost = CostOf(found)
      /\ summary.total_requests = Cardinality(found)
      /\ summary.by_model = ByKey(found, "model")
      /\ summary.by_provider = ByKey(found, "provider")
      /\ summary.by_agent = ByKey(found, "agent")
  BY <1>1 DEF AggregateSummary
<1>7. /\ SumFunction(summary.by_model) = summary.total_cost
      /\ SumFunction(summary.by_provider) = summary.total_cost
  BY <1>5, <1>6, PartsAddUp
<1>8. ASSUME summary.total_requests < Limit,
             NEW a \in Agents, NEW own \in GetSummary(start, end, a)
      PROVE  own.total_cost = IF a \in DOMAIN summary.by_agent THEN summary.by_agent[a] ELSE 0
  <2> DEFINE ofAgent == Filter({CostTag, Tag("agent", a)}, after, before)
             group == {n \in found : n.content["agent"] = a}
  <2>1. a # ""
    BY CostsAssumption DEF Agents
  <2>2. PICK others \in Recalled(memories, ofAgent, Limit) : own = AggregateSummary(others)
    BY <2>1 DEF GetSummary, GetByAgentId
  <2>3. own.total_cost = CostOf(others)
    BY <2>2 DEF AggregateSummary
  <2>4. /\ Cardinality(found) # Limit
        /\ \A part \in SUBSET found : Cardinality(part) <= Limit
    BY <1>2, <1>4, <1>6, <1>8, BelowLimit
  <2>5. Matching(memories, ofAgent) = group
    <3>1. \A n : n \in Matching(memories, ofAgent)
                   <=> /\ n \in CostMemories /\ n.content.agent = a
                       /\ after # Unset => n.created >= after
                       /\ before # Unset => n.created <= before
      BY Selected
    <3> HIDE DEF ofAgent, after, before
    <3>2. QED
      BY <1>3, <1>4, <2>4, <3>1
  <2> HIDE DEF ofAgent
  <2>6. Cardinality(group) <= Limit
    BY <2>4
  <2>7. others = group
    BY <1>2, <2>2, <2>5, <2>6, RecalledAll
  <2>8. CASE a \in DOMAIN summary.by_agent
    <3>1. summary.by_agent[a] = CostOf(group)
      BY <1>6, <2>8 DEF ByKey
    <3>2. QED
      BY <2>3, <2>7, <2>8, <3>1
  <2>9. CASE a \notin DOMAIN summary.by_agent
    <3>1. group = {}
      BY <1>6, <2>9 DEF ByKey
    <3>2. QED
      BY <2>3, <2>7, <2>9, <3>1, CostOfNone
  <2>10. QED
    BY <2>8, <2>9
<1>9. ASSUME summary.total_requests < Limit
      PROVE  found = Within(start, end)
  <2>1. Cardinality(found) # Limit
    BY <1>2, <1>4, <1>6, <1>9, BelowLimit
  <2>2. ASSUME NEW n \in CostMemories
        PROVE  n \in Matching(memories, filter) <=> n \in Within(start, end)
    <3>1. n.tick \in Nat /\ n.created = ToUnix(n.tick)
      BY <2>2, StoredWhen
    <3>2. /\ n.created >= after <=> start <= n.tick
          /\ n.created <= before <=> n.tick < end + TicksPerSecond
      <4> DEFINE t == n.tick
      <4>1. t \in Nat /\ n.created = ToUnix(t)
        BY <3>1
      <4> HIDE DEF t
      <4>2. /\ ToUnix(t) >= ToUnix(start) <=> start <= t
            /\ ToUnix(t) <= ToUnix(end) <=> t < end + TicksPerSecond
        BY <4>1, WholeSecond
      <4>3. QED
        BY <4>1, <4>2 DEF t
    <3>3. after # Unset /\ before # Unset
      BY Truncated
    <3> HIDE DEF after, before
    <3>4. QED
      BY <1>3, <3>2, <3>3 DEF Within
  <2>3. Matching(memories, filter) \subseteq CostMemories
        /\ Within(start, end) \subseteq CostMemories
    BY <1>3 DEF Within
  <2>4. QED
    BY <1>4, <2>1, <2>2, <2>3
<1>10. QED
  BY <1>6, <1>7, <1>8, <1>9 DEF AddsUp

\* ReadsAgree: a stored cost is found by its id, its request, its agent and its
\* time, the parts of a summary add up, and one that has fewer records than
\* the limit has left none out.
THEOREM ReadsOfCostsAgree == CostSpec => []ReadsAgree
<1>1. CostInv => ReadsAgree
  <2>1. \A k \in 0..MaxClock : k \in Nat
    BY BoundsAssumption
  <2>2. QED
    BY <2>1, StoredIsFound, SummariesAgree DEF ReadsAgree
<1>2. QED
  BY <1>1, CostInvariance, PTL
=============================================================================
