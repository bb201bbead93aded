------------------------------- MODULE EventFeed -------------------------------
(***************************************************************************)
(* What a subscription promises: events are published in some order, and   *)
(* the consumer gets matching ones, in that order, each at most once.  It  *)
(* is not promised all of them: EventSubscription's connections have gaps. *)
(***************************************************************************)
EXTENDS Naturals, Sequences

CONSTANTS
  Events,      \* what may be published
  Matching(_)  \* whether the subscriber asked for an event

VARIABLES
  published,   \* every event, in the order of publication
  delivered    \* the numbers of the events the consumer got, in the order it got them

feedVars == <<published, delivered>>

Init ==
  /\ published = <<>>
  /\ delivered = <<>>

Publish ==
  /\ \E event \in Events : published' = Append(published, event)
  /\ UNCHANGED delivered

Deliver ==
  /\ \E n \in 1..Len(published) :
       /\ Matching(published[n])
       /\ \A i \in DOMAIN delivered : delivered[i] < n
       /\ delivered' = Append(delivered, n)
  /\ UNCHANGED published

Next == Publish \/ Deliver

Spec == Init /\ [][Next]_feedVars
=============================================================================
