------------------------- MODULE DocumentPagingProofs -------------------------
(***************************************************************************)
(* Proofs about DocumentPaging: the iteration yields every lasting         *)
(* document, in order and once, for every store, page size and server      *)
(* whose cursors do not lead back.                                         *)
(***************************************************************************)
EXTENDS DocumentPaging, TLAPS

\* The page leads on: its cursor is its last document.
Leads == nextCursor \in documents /\ \A d \in documents : d <= nextCursor

\* What was yielded lies behind the cursor, or belongs to the page.
Behind ==
  forward =>
    /\ pc = "asking" => \A y \in ToSet(yielded) : y <= cursor
    /\ pc = "yielding" =>
         /\ \A y \in ToSet(yielded) : y <= cursor \/ y \in documents
         /\ \A y \in ToSet(yielded), r \in rest : y < r
         /\ \A d \in documents : d > cursor
         /\ ~LastPage => \A d \in documents : d <= nextCursor

\* An honest server never leads back.
HonestForward == honest => forward

\* No lasting document was passed by, as far as the server was honest.
Covered ==
  honest =>
    /\ pc = "asking" => \A d \in lasting : d <= cursor => d \in ToSet(yielded)
    /\ pc = "yielding" =>
         \/ nextCursor = NoCursor /\ lasting \subseteq ToSet(yielded) \cup rest
         \/ /\ nextCursor # NoCursor /\ Leads
            /\ \A d \in lasting : d <= nextCursor => d \in ToSet(yielded) \cup rest

Inv ==
  TypeOK /\ Behind /\ HonestForward /\ Covered /\ EveryDocument /\ EachOnceInOrder

\* The ids are natural numbers, none of which is the missing cursor.
LEMMA IdType ==
  /\ \A d \in Ids : d \in Nat /\ d # NoCursor /\ d > NoCursor
  /\ NoCursor \in Nat
BY MaxIdAssumption DEF Ids, NoCursor

\* A yielded document comes last, and those before it keep their places.
LEMMA Yielding ==
  ASSUME TypeOK, NEW d \in Ids
  PROVE  LET longer == Append(yielded, d)
         IN  /\ longer \in Seq(Ids) /\ Len(longer) = Len(yielded) + 1
             /\ \A i \in 1..Len(yielded) : longer[i] = yielded[i]
             /\ longer[Len(yielded) + 1] = d
             /\ ToSet(longer) = ToSet(yielded) \cup {d}
<1> DEFINE longer == Append(yielded, d)
<1>1. /\ longer \in Seq(Ids) /\ Len(longer) = Len(yielded) + 1
      /\ \A i \in 1..Len(yielded) : longer[i] = yielded[i]
      /\ longer[Len(yielded) + 1] = d
  BY DEF TypeOK
<1>2. /\ DOMAIN yielded = 1..Len(yielded) /\ DOMAIN longer = 1..(Len(yielded) + 1)
      /\ Len(yielded) \in Nat
  BY <1>1 DEF TypeOK
<1> HIDE DEF longer
<1>3. ToSet(longer) = ToSet(yielded) \cup {d}
  <2>1. ASSUME NEW y \in ToSet(longer)
        PROVE  y \in ToSet(yielded) \cup {d}
    BY <1>1, <1>2, <2>1 DEF ToSet
  <2>2. ASSUME NEW y \in ToSet(yielded)
        PROVE  y \in ToSet(longer)
    <3>1. PICK i \in 1..Len(yielded) : y = yielded[i]
      BY <1>2, <2>2 DEF ToSet
    <3>2. i \in DOMAIN longer /\ longer[i] = y
      BY <1>1, <1>2, <3>1
    <3>3. QED
      BY <3>2 DEF ToSet
  <2>3. d \in ToSet(longer)
    <3>1. Len(yielded) + 1 \in DOMAIN longer
      BY <1>2
    <3>2. QED
      BY <1>1, <3>1 DEF ToSet
  <2>4. QED
    BY <2>1, <2>2, <2>3
<1>4. QED
  BY <1>1, <1>3 DEF longer

\* What was yielded are ids.
LEMMA YieldedIds ==
  ASSUME TypeOK
  PROVE  ToSet(yielded) \subseteq Ids
BY DEF TypeOK, ToSet

\* Asking for a page keeps the invariant.
LEMMA ListKeeps ==
  ASSUME Inv, List
  PROVE  Inv'
<1>1. PICK page \in SUBSET Remaining, next \in Ids \cup {NoCursor} :
        /\ Page(page)
        /\ \/ LeadsOn(page, next) /\ UNCHANGED honest
           \/ next \in Ids /\ honest' = FALSE
        /\ forward' = (forward /\ GoesOn(page, next))
        /\ documents' = page /\ nextCursor' = next /\ rest' = page
  BY DEF List
<1>2. /\ pc = "asking" /\ pc' = "yielding"
      /\ UNCHANGED <<store, lasting, cursor, yielded>>
      /\ cursor \in Nat /\ \A d \in Ids : d \in Nat
      /\ store \subseteq Ids /\ lasting \subseteq store /\ ToSet(yielded) \subseteq Ids
  BY IdType, YieldedIds DEF List, Inv, TypeOK
<1>3. \A d \in page : d \in store /\ d > cursor
  BY <1>1 DEF Remaining
<1>4. TypeOK'
  <2>1. forward' \in BOOLEAN /\ honest' \in BOOLEAN
    BY <1>1 DEF Inv, TypeOK
  <2>2. QED
    BY <1>1, <1>2, <1>3, <2>1 DEF Inv, TypeOK
<1>5. LeadsOn(page, next) => next = NoCursor \/ Leads'
  BY <1>1 DEF LeadsOn, Leads
<1>6. Behind'
  <2> SUFFICES ASSUME forward'
               PROVE  /\ \A y \in ToSet(yielded) : y <= cursor \/ y \in page
                      /\ \A y \in ToSet(yielded), r \in page : y < r
                      /\ \A d \in page : d > cursor
                      /\ ~LastPage' => \A d \in page : d <= next
    BY <1>1, <1>2 DEF Behind
  <2>1. forward /\ GoesOn(page, next)
    BY <1>1
  <2>2. \A y \in ToSet(yielded) : y <= cursor
    BY <1>2, <2>1 DEF Inv, Behind
  <2>3. ASSUME NEW y \in ToSet(yielded), NEW r \in page
        PROVE  y < r
    <3>1. y \in Nat /\ r \in Nat /\ y <= cursor /\ r > cursor
      BY <1>2, <1>3, <2>2
    <3>2. QED
      BY <1>2, <3>1
  <2>4. ~LastPage' => \A d \in page : d <= next
    BY <1>1, <1>2, <2>1 DEF LastPage, GoesOn
  <2>5. QED
    BY <1>3, <2>2, <2>3, <2>4
<1>7. HonestForward'
  BY <1>1 DEF Inv, HonestForward, LeadsOn, GoesOn
<1>8. Covered'
  <2> SUFFICES ASSUME honest'
               PROVE  \/ next = NoCursor /\ lasting \subseteq ToSet(yielded) \cup page
                      \/ /\ next # NoCursor /\ Leads'
                         /\ \A d \in lasting : d <= next => d \in ToSet(yielded) \cup page
    BY <1>1, <1>2 DEF Covered
  <2>1. LeadsOn(page, next) /\ honest
    BY <1>1
  <2>2. \A d \in lasting : d \in ToSet(yielded) \/ d \in Remaining
    BY <1>2, <2>1 DEF Inv, Covered, Remaining
  <2>3. CASE next = NoCursor /\ page = Remaining
    BY <2>2, <2>3
  <2>4. CASE next \in page /\ \A d \in page : d <= next
    <3>1. next \in Nat /\ next # NoCursor
      BY <1>2, <1>3, <2>4, IdType
    <3>2. \A d \in Remaining \ page : next < d
      BY <1>1, <2>4 DEF Page
    <3>3. ASSUME NEW d \in lasting, d <= next, d \notin ToSet(yielded)
          PROVE  d \in page
      <4>1. d \in Nat /\ d \in Remaining
        BY <1>2, <2>2, <3>3
      <4>2. QED
        BY <3>1, <3>2, <3>3, <4>1
    <3>4. QED
      BY <1>5, <2>1, <3>1, <3>3
  <2>5. QED
    BY <2>1, <2>3, <2>4 DEF LeadsOn
<1>9. EveryDocument'
  BY <1>2 DEF EveryDocument
<1>10. EachOnceInOrder'
  BY <1>1, <1>2 DEF Inv, EachOnceInOrder
<1>11. QED
  BY <1>4, <1>6, <1>7, <1>8, <1>9, <1>10 DEF Inv

\* Yielding the next document of the page keeps the invariant.
LEMMA YieldKeeps ==
  ASSUME Inv, Yield
  PROVE  Inv'
<1>1. PICK d \in rest : /\ \A e \in rest : d <= e
                        /\ rest' = rest \ {d} /\ yielded' = Append(yielded, d)
  BY DEF Yield
<1>2. /\ pc = "yielding"
      /\ UNCHANGED <<store, lasting, honest, forward, pc, cursor, documents, nextCursor>>
      /\ rest \subseteq documents /\ documents \subseteq Ids /\ \A i \in Ids : i \in Nat
      /\ d \in Ids /\ Len(yielded) \in Nat
      /\ DOMAIN yielded = 1..Len(yielded)
  BY IdType DEF Yield, Inv, TypeOK
<1>3. /\ yielded' \in Seq(Ids) /\ Len(yielded') = Len(yielded) + 1
      /\ \A i \in 1..Len(yielded) : yielded'[i] = yielded[i]
      /\ yielded'[Len(yielded) + 1] = d
      /\ ToSet(yielded') = ToSet(yielded) \cup {d}
  BY <1>1, <1>2, Yielding DEF Inv
<1>4. TypeOK'
  BY <1>1, <1>2, <1>3 DEF Inv, TypeOK
<1>5. forward => \A y \in ToSet(yielded) : y < d
  BY <1>1, <1>2 DEF Inv, Behind
<1>6. \A r \in rest' : d < r
  BY <1>1, <1>2
<1>7. Leads' = Leads /\ LastPage' = LastPage
  BY <1>2 DEF Leads, LastPage
<1>8. Behind' /\ HonestForward'
  <2>1. forward => \A y \in ToSet(yielded'), r \in rest' : y < r
    BY <1>1, <1>2, <1>3, <1>6 DEF Inv, Behind
  <2>2. QED
    BY <1>1, <1>2, <1>3, <1>7, <2>1 DEF Inv, Behind, HonestForward
<1>9. Covered'
  BY <1>1, <1>2, <1>3, <1>7 DEF Inv, Covered
<1>10. EveryDocument'
  BY <1>2 DEF EveryDocument
<1>11. EachOnceInOrder'
  <2> SUFFICES ASSUME forward, NEW i \in 1..(Len(yielded) + 1),
                      NEW j \in 1..(Len(yielded) + 1), i < j
               PROVE  yielded'[i] < yielded'[j]
    BY <1>2, <1>3 DEF EachOnceInOrder
  <2>1. i \in 1..Len(yielded) /\ yielded'[i] = yielded[i]
    BY <1>2, <1>3
  <2>2. CASE j \in 1..Len(yielded)
    BY <1>2, <1>3, <2>1, <2>2 DEF Inv, EachOnceInOrder
  <2>3. CASE j = Len(yielded) + 1
    <3>1. yielded[i] \in ToSet(yielded)
      BY <1>2, <2>1 DEF ToSet
    <3>2. QED
      BY <1>3, <1>5, <2>1, <2>3, <3>1
  <2>4. QED
    BY <1>2, <2>2, <2>3
<1>12. QED
  BY <1>4, <1>8, <1>9, <1>10, <1>11 DEF Inv

\* The end of a page keeps the invariant.
LEMMA NextPageKeeps ==
  ASSUME Inv, NextPage
  PROVE  Inv'
<1>1. /\ pc = "yielding" /\ rest = {}
      /\ UNCHANGED <<store, lasting, honest, forward, documents, nextCursor, rest, yielded>>
      /\ \/ LastPage /\ pc' = "returned" /\ cursor' = cursor
         \/ ~LastPage /\ pc' = "asking" /\ cursor' = nextCursor
      /\ cursor \in Nat /\ \A i \in Ids : i \in Nat
      /\ documents \subseteq Ids /\ ToSet(yielded) \subseteq Ids /\ lasting \subseteq Ids
  BY IdType, YieldedIds DEF NextPage, Inv, TypeOK
<1>2. TypeOK' /\ HonestForward' /\ EachOnceInOrder'
  BY <1>1 DEF Inv, TypeOK, HonestForward, EachOnceInOrder
<1>3. CASE LastPage /\ pc' = "returned"
  <2>1. ASSUME honest, Leads
        PROVE  nextCursor # cursor /\ documents # {}
    <3>1. nextCursor \in Nat /\ nextCursor > cursor
      BY <1>1, <2>1 DEF Leads, Inv, Behind, HonestForward
    <3>2. QED
      BY <1>1, <2>1, <3>1 DEF Leads
  <2>2. honest => lasting \subseteq ToSet(yielded)
    BY <1>1, <1>3, <2>1 DEF Inv, Covered, LastPage
  <2>3. QED
    BY <1>1, <1>2, <1>3, <2>2 DEF Inv, Behind, Covered, EveryDocument
<1>4. CASE ~LastPage /\ pc' = "asking" /\ cursor' = nextCursor
  <2>1. ASSUME forward, NEW y \in ToSet(yielded)
        PROVE  y <= nextCursor
    <3>1. PICK d \in documents : d > cursor /\ d <= nextCursor
      BY <1>1, <1>4, <2>1 DEF Inv, Behind, LastPage
    <3>2. d \in Nat /\ y \in Nat /\ nextCursor \in Nat
      BY <1>1, <2>1, IdType DEF Inv, TypeOK
    <3>3. CASE y <= cursor
      BY <1>1, <3>1, <3>2, <3>3
    <3>4. CASE y \in documents
      BY <1>1, <1>4, <2>1, <3>4 DEF Inv, Behind
    <3>5. QED
      BY <1>1, <2>1, <3>3, <3>4 DEF Inv, Behind
  <2>2. honest => \A d \in lasting : d <= nextCursor => d \in ToSet(yielded)
    BY <1>1, <1>4 DEF Inv, Covered, LastPage
  <2>3. QED
    BY <1>1, <1>2, <1>4, <2>1, <2>2 DEF Inv, Behind, Covered, EveryDocument
<1>5. QED
  BY <1>1, <1>3, <1>4

\* Every step keeps the invariant.
LEMMA InvStep ==
  ASSUME Inv, [Next]_vars
  PROVE  Inv'
<1>1. CASE List
  BY <1>1, ListKeeps
<1>2. CASE Yield
  BY <1>2, YieldKeeps
<1>3. CASE NextPage
  BY <1>3, NextPageKeeps
<1>4. CASE ListFails
  BY <1>4 DEF ListFails, Inv, TypeOK, Behind, HonestForward, Covered, EveryDocument,
              EachOnceInOrder
<1>5. ASSUME NEW d \in Ids, Import(d) \/ Delete(d)
      PROVE  Inv'
  <2>1. /\ store' \subseteq Ids /\ lasting' \subseteq store' /\ lasting' \subseteq lasting
        /\ UNCHANGED <<honest, forward, pc, cursor, documents, nextCursor, rest, yielded>>
    BY <1>5 DEF Import, Delete, Inv, TypeOK
  <2>2. TypeOK'
    BY <2>1 DEF Inv, TypeOK
  <2>3. Leads' = Leads /\ LastPage' = LastPage
    BY <2>1 DEF Leads, LastPage
  <2>4. Behind' /\ HonestForward' /\ Covered' /\ EveryDocument' /\ EachOnceInOrder'
    BY <2>1, <2>3 DEF Inv, Behind, HonestForward, Covered, EveryDocument, EachOnceInOrder
  <2>5. QED
    BY <2>2, <2>4 DEF Inv
<1>6. CASE UNCHANGED vars
  BY <1>6 DEF vars, Inv, TypeOK, Behind, HonestForward, Covered, Leads, LastPage,
              EveryDocument, EachOnceInOrder
<1>7. QED
  BY <1>1, <1>2, <1>3, <1>4, <1>5, <1>6 DEF Next, Iterate

\* Inv is an invariant.
THEOREM Invariance == Spec => []Inv
<1>1. Init => Inv
  <2> SUFFICES ASSUME Init PROVE Inv
    OBVIOUS
  <2>1. \A d \in Ids : ~(d <= NoCursor)
    BY IdType
  <2>2. yielded \in Seq(Ids) /\ DOMAIN yielded = {} /\ ToSet(yielded) = {}
    BY DEF Init, ToSet
  <2>3. TypeOK
    BY <2>2 DEF Init, TypeOK
  <2>4. QED
    BY <2>1, <2>2, <2>3 DEF Init, Inv, Behind, HonestForward, Covered, EveryDocument,
                            EachOnceInOrder
<1>2. Inv /\ [Next]_vars => Inv'
  BY InvStep
<1>3. QED
  BY <1>1, <1>2, PTL DEF Spec

\* EveryDocument: a completed iteration has yielded every lasting document.
THEOREM NothingMissed == Spec => []EveryDocument
<1>1. Inv => EveryDocument
  BY DEF Inv
<1>2. QED
  BY <1>1, Invariance, PTL

\* EachOnceInOrder: as long as no cursor led back, the documents came in
\* order, and none of them twice.
THEOREM NothingRepeated == Spec => []EachOnceInOrder
<1>1. Inv => EachOnceInOrder
  BY DEF Inv
<1>2. QED
  BY <1>1, Invariance, PTL
=============================================================================
