------------------------ MODULE EventSubscriptionProofs ------------------------
(***************************************************************************)
(* Proofs about EventSubscription: what the consumer gets is in order,     *)
(* matching and never repeated, without a gap while a connection lasts,    *)
(* for every number of events, agents, tags and reconnections.             *)
(***************************************************************************)
EXTENDS EventSubscription, TLAPS

\* A connection is there exactly while the generator reads from it.
Connected == pc = "reading" <=> link # "none"

\* What was delivered is not in front of the reader any more.
Behind == pc = "reading" => \A m \in ToSet(delivered) : m <= seen

Inv == TypeOK /\ Connected /\ Behind /\ NoGapWhileConnected /\ ReturnsWhenComplete

\* The numbers of the published events are natural numbers.
LEMMA Numbers ==
  ASSUME TypeOK
  PROVE  /\ Len(published) \in Nat /\ seen \in Nat /\ seen <= Len(published)
         /\ \A n \in carried \cup ToSet(delivered) : n \in Nat /\ 1 <= n /\ n <= Len(published)
<1>1. Len(published) \in Nat
  BY DEF TypeOK
<1>2. ToSet(delivered) \subseteq 1..Len(published)
  BY DEF TypeOK, ToSet
<1>3. QED
  BY <1>1, <1>2 DEF TypeOK

\* A delivered event comes last, and those before it keep their places.
LEMMA Delivering ==
  ASSUME TypeOK, NEW n \in 1..Len(published)
  PROVE  /\ Append(delivered, n) \in Seq(1..Len(published))
         /\ ToSet(Append(delivered, n)) = ToSet(delivered) \cup {n}
<1> DEFINE longer == Append(delivered, n)
<1>1. delivered \in Seq(1..Len(published))
  BY DEF TypeOK
<1>2. /\ longer \in Seq(1..Len(published)) /\ Len(longer) = Len(delivered) + 1
      /\ \A i \in 1..Len(delivered) : longer[i] = delivered[i]
      /\ longer[Len(delivered) + 1] = n
  BY <1>1
<1>3. /\ DOMAIN delivered = 1..Len(delivered) /\ DOMAIN longer = 1..(Len(delivered) + 1)
      /\ Len(delivered) \in Nat
  BY <1>1, <1>2
<1> HIDE DEF longer
<1>4. ToSet(longer) = ToSet(delivered) \cup {n}
  <2>1. ASSUME NEW m \in ToSet(longer)
        PROVE  m \in ToSet(delivered) \cup {n}
    BY <1>2, <1>3, <2>1 DEF ToSet
  <2>2. ASSUME NEW m \in ToSet(delivered)
        PROVE  m \in ToSet(longer)
    <3>1. PICK i \in 1..Len(delivered) : m = delivered[i]
      BY <1>3, <2>2 DEF ToSet
    <3>2. i \in DOMAIN longer /\ longer[i] = m
      BY <1>2, <1>3, <3>1
    <3>3. QED
      BY <3>2 DEF ToSet
  <2>3. n \in ToSet(longer)
    <3>1. Len(delivered) + 1 \in DOMAIN longer
      BY <1>3
    <3>2. QED
      BY <1>2, <3>1 DEF ToSet
  <2>4. QED
    BY <2>1, <2>2, <2>3
<1>5. QED
  BY <1>2, <1>4 DEF longer

\* A published event keeps its number and its content.
LEMMA Appending ==
  ASSUME TypeOK, NEW event \in Events, published' = Append(published, event)
  PROVE  /\ published' \in Seq(Events)
         /\ Len(published') = Len(published) + 1
         /\ \A n \in 1..Len(published) : published'[n] = published[n]
BY DEF TypeOK

\* Publishing an event keeps the invariant: the event is in front of the reader.
LEMMA PublishKeeps ==
  ASSUME Inv, Publish
  PROVE  Inv'
<1> DEFINE number == Len(published) + 1
<1>1. PICK event \in Events : published' = Append(published, event)
  BY DEF Publish
<1>2. /\ TypeOK /\ Len(published) \in Nat /\ seen \in Nat /\ seen <= Len(published)
      /\ \A n \in carried \cup ToSet(delivered) : n \in Nat /\ 1 <= n /\ n <= Len(published)
  BY Numbers DEF Inv
<1>3. /\ published' \in Seq(Events) /\ Len(published') = number
      /\ \A n \in 1..Len(published) : published'[n] = published[n]
  BY <1>1, <1>2, Appending
<1>4. /\ UNCHANGED <<reconnect, pc, link, seen, delivered>>
      /\ carried \subseteq carried' /\ carried' \subseteq carried \cup {number}
      /\ dropped \subseteq dropped' /\ dropped' \subseteq dropped \cup {number}
      /\ dropped' \subseteq carried'
      /\ link # "up" => carried' = carried
  BY <1>2 DEF Publish, TypeOK
<1> HIDE DEF number
<1>5. TypeOK'
  <2>1. 1..Len(published) \subseteq 1..number /\ number \in 1..number
        /\ seen \in 0..number
    BY <1>2 DEF number
  <2>2. delivered' \in Seq(1..number)
    BY <1>2, <1>4, <2>1 DEF TypeOK
  <2>3. QED
    BY <1>2, <1>3, <1>4, <2>1, <2>2 DEF TypeOK
<1>6. Connected' /\ Behind'
  BY <1>4 DEF Inv, Connected, Behind
<1>7. \A n \in carried : Yielded(n)' <=> Yielded(n)
  BY <1>2, <1>3, <1>4 DEF Yielded, Matching, number, TypeOK
<1>8. number > seen
  BY <1>2 DEF number
<1>9. NoGapWhileConnected'
  BY <1>4, <1>7, <1>8 DEF Inv, NoGapWhileConnected, InFlight
<1>10. ReturnsWhenComplete'
  <2>1. pc = "returned" => carried' = carried
    BY <1>4 DEF Inv, Connected
  <2>2. QED
    BY <1>4, <1>7, <2>1 DEF Inv, ReturnsWhenComplete
<1>11. QED
  BY <1>5, <1>6, <1>9, <1>10 DEF Inv

\* Reading the next event keeps the invariant: it is the first one not read.
LEMMA ReadKeeps ==
  ASSUME Inv, NEW n \in 1..MaxEvents, Read(n)
  PROVE  Inv'
<1>1. /\ TypeOK /\ Len(published) \in Nat /\ seen \in Nat
      /\ \A m \in carried \cup ToSet(delivered) : m \in Nat /\ 1 <= m /\ m <= Len(published)
  BY Numbers DEF Inv
<1>2. /\ pc = "reading" /\ link # "none" /\ n \in carried /\ n > seen /\ seen' = n
      /\ \A m \in carried : m > seen => n <= m
      /\ UNCHANGED <<reconnect, published, carried, dropped>>
      /\ UNCHANGED <<pc, link>>
      /\ delivered' = IF Yielded(n) THEN Append(delivered, n) ELSE delivered
  BY DEF Read, InFlight, Inv, Connected
<1>3. /\ delivered' \in Seq(1..Len(published))
      /\ ToSet(delivered') = IF Yielded(n) THEN ToSet(delivered) \cup {n} ELSE ToSet(delivered)
  <2>1. n \in 1..Len(published)
    BY <1>1, <1>2 DEF TypeOK
  <2>2. QED
    BY <1>1, <1>2, <2>1, Delivering DEF TypeOK
<1>4. TypeOK'
  BY <1>1, <1>2, <1>3 DEF TypeOK
<1>5. Connected'
  BY <1>2 DEF Connected
<1>6. Behind'
  <2>1. \A m \in ToSet(delivered) : m <= seen
    BY <1>2 DEF Inv, Behind
  <2>2. n \in Nat /\ seen \in Nat /\ n > seen
    BY <1>1, <1>2
  <2>3. ASSUME NEW m \in ToSet(delivered)
        PROVE  m <= n
    <3>1. m \in Nat /\ m <= seen
      BY <1>1, <2>1
    <3>2. QED
      BY <2>2, <3>1
  <2>4. QED
    BY <1>2, <1>3, <2>2, <2>3 DEF Behind
<1>7. NoGapWhileConnected'
  <2> SUFFICES ASSUME pc' = "reading", NEW m \in carried, m <= n, Yielded(m)
               PROVE  m \in ToSet(delivered')
    BY <1>1, <1>2 DEF NoGapWhileConnected, InFlight, Yielded
  <2>1. CASE m = n
    BY <1>3, <2>1
  <2>2. CASE m # n
    <3>1. ~(m > seen)
      BY <1>1, <1>2, <2>2
    <3>2. m \in ToSet(delivered)
      BY <1>2, <3>1 DEF Inv, NoGapWhileConnected, InFlight
    <3>3. QED
      BY <1>3, <3>2
  <2>3. QED
    BY <2>1, <2>2
<1>8. ReturnsWhenComplete'
  BY <1>2 DEF ReturnsWhenComplete
<1>9. QED
  BY <1>4, <1>5, <1>6, <1>7, <1>8 DEF Inv

\* Every step keeps the invariant.
LEMMA InvStep ==
  ASSUME Inv, [Next]_vars
  PROVE  Inv'
<1>0. /\ TypeOK /\ Len(published) \in Nat /\ seen \in Nat
      /\ \A m \in carried \cup ToSet(delivered) : m \in Nat /\ 1 <= m /\ m <= Len(published)
  BY Numbers DEF Inv
<1>1. CASE Publish
  BY <1>1, PublishKeeps
<1>2. ASSUME NEW n \in 1..MaxEvents, Read(n)
      PROVE  Inv'
  BY <1>2, ReadKeeps
<1>3. CASE Accept
  <2>1. TypeOK'
    BY <1>0, <1>3 DEF Accept, TypeOK
  <2>2. QED
    BY <1>0, <1>3, <2>1 DEF Accept, Inv, Connected, Behind, NoGapWhileConnected,
                            InFlight, ReturnsWhenComplete
<1>4. CASE End
  <2>1. TypeOK'
    BY <1>4 DEF End, Inv, TypeOK
  <2>2. \A n \in carried : Yielded(n) => n \in ToSet(delivered)
    BY <1>4 DEF End, Inv, NoGapWhileConnected
  <2>3. ReturnsWhenComplete'
    BY <1>4, <2>2 DEF End, ReturnsWhenComplete, Yielded
  <2>4. Connected' /\ Behind' /\ NoGapWhileConnected'
    BY <1>0, <1>4 DEF End, Connected, Behind, NoGapWhileConnected
  <2>5. QED
    BY <2>1, <2>3, <2>4 DEF Inv
<1>5. CASE Break
  BY <1>5 DEF Break, Inv, TypeOK, Connected, Behind, NoGapWhileConnected, InFlight,
              Yielded, ReturnsWhenComplete
<1>6. ASSUME Refuse \/ Overflow \/ Error \/ Wake \/ Cancel
      PROVE  Inv'
  <2>1. /\ UNCHANGED <<reconnect, published, carried, dropped, seen, delivered>>
        /\ pc' \in {"sleeping", "raised", "connecting", "cancelled"}
        /\ link' = "none"
    BY <1>6 DEF Refuse, Overflow, Error, Wake, Cancel, Fail, Inv, Connected, TypeOK
  <2>2. QED
    BY <2>1 DEF Inv, TypeOK, Connected, Behind, NoGapWhileConnected, ReturnsWhenComplete
<1>7. CASE UNCHANGED vars
  BY <1>7 DEF vars, Inv, TypeOK, Connected, Behind, NoGapWhileConnected, InFlight,
              Yielded, ReturnsWhenComplete
<1>8. QED
  BY <1>1, <1>2, <1>3, <1>4, <1>5, <1>6, <1>7 DEF Next, Generator

\* Inv is an invariant.
THEOREM Invariance == Spec => []Inv
<1>1. Init => Inv
  <2> SUFFICES ASSUME Init PROVE Inv
    OBVIOUS
  <2>1. published \in Seq(Events) /\ Len(published) = 0
    BY DEF Init
  <2>2. TypeOK
    BY <2>1 DEF Init, TypeOK
  <2>3. QED
    BY <2>2 DEF Init, Inv, Connected, Behind, NoGapWhileConnected, ReturnsWhenComplete
<1>2. Inv /\ [Next]_vars => Inv'
  BY InvStep
<1>3. QED
  BY <1>1, <1>2, PTL DEF Spec

\* NoGapWhileConnected: while a connection lasts no matching event is skipped.
THEOREM NothingSkipped == Spec => []NoGapWhileConnected
<1>1. Inv => NoGapWhileConnected
  BY DEF Inv
<1>2. QED
  BY <1>1, Invariance, PTL

\* ReturnsWhenComplete: without reconnect no failure looks like the end.
THEOREM FailuresSurface == Spec => []ReturnsWhenComplete
<1>1. Inv => ReturnsWhenComplete
  BY DEF Inv
<1>2. QED
  BY <1>1, Invariance, PTL

\* FeedSpec: a subscription is a feed, whatever becomes of its connections.
THEOREM ImplementsFeed == Spec => FeedSpec
<1>1. Init => Feed!Init
  BY DEF Init, Feed!Init
<1>2. ASSUME Inv, [Next]_vars
      PROVE  [Feed!Next]_<<published, delivered>>
  <2>1. CASE Publish
    BY <2>1 DEF Publish, Feed!Next, Feed!Publish
  <2>2. ASSUME NEW n \in 1..MaxEvents, Read(n)
        PROVE  [Feed!Next]_<<published, delivered>>
    <3>1. /\ n \in carried /\ n > seen /\ published' = published
          /\ \/ delivered' = delivered
             \/ Yielded(n) /\ delivered' = Append(delivered, n)
      BY <2>2 DEF Read, InFlight
    <3>2. n \in 1..Len(published)
      BY <1>2, <3>1 DEF Inv, TypeOK
    <3>3. \A i \in DOMAIN delivered : delivered[i] < n
      <4>1. \A m \in ToSet(delivered) : m <= seen
        BY <1>2, <2>2 DEF Inv, Behind, Read
      <4>2. /\ seen \in Nat /\ n \in Nat
            /\ \A m \in ToSet(delivered) : m \in Nat
        BY <1>2, <3>1, Numbers DEF Inv
      <4>3. \A m \in ToSet(delivered) : m < n
        BY <3>1, <4>1, <4>2
      <4>4. QED
        BY <4>3 DEF ToSet
    <3>4. CASE delivered' = delivered
      BY <3>1, <3>4
    <3>5. CASE Yielded(n) /\ delivered' = Append(delivered, n)
      <4>1. Matching(published[n])
        BY <3>5 DEF Yielded
      <4>2. Feed!Deliver
        BY <3>1, <3>2, <3>3, <3>5, <4>1 DEF Feed!Deliver
      <4>3. QED
        BY <4>2 DEF Feed!Next
    <3>6. QED
      BY <3>1, <3>4, <3>5
  <2>3. CASE UNCHANGED <<published, delivered>>
    BY <2>3
  <2>4. QED
    BY <1>2, <2>1, <2>2, <2>3
       DEF Next, Generator, Accept, Refuse, Overflow, Cancel, Break, End, Error, Wake, vars
<1>3. QED
  BY <1>1, <1>2, Invariance, PTL DEF Spec, FeedSpec, Feed!Spec, Feed!feedVars
=============================================================================
