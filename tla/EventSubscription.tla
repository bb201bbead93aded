--------------------------- MODULE EventSubscription ---------------------------
(***************************************************************************)
(* agents_subscribe of the asynchronous client over stream_memory_events:  *)
(* a connection to /v1/events/stream, opened again after it ended or       *)
(* failed, without a cursor and without a read timeout.  Events have the   *)
(* number of their publication; what a connection carries is read in that  *)
(* order.  The decoder is SSEDecoder's: here an event arrives whole, or is *)
(* too large for it.                                                       *)
(***************************************************************************)
EXTENDS Naturals, FiniteSets, Sequences, SequencesExt

CONSTANTS
  Agents, Tags,  \* who acts on memories, and the tags these may have
  Agent,         \* the argument agent_id
  Wanted,        \* the argument tags; {} stands for None and for []
  MaxEvents,     \* bound: events published
  Capacity       \* events the server keeps for a slow consumer

ASSUME SubscriptionAssumption == Agent \in Agents /\ Wanted \subseteq Tags
ASSUME BoundsAssumption == MaxEvents \in Nat /\ Capacity \in Nat

VARIABLES
  reconnect,  \* the argument reconnect
  pc,         \* "connecting", "reading", "sleeping", or how the generator ended
  link,       \* the connection: "none", "up", "closed", "reset" or "lost"
  published,  \* the events of the server, in order
  carried,    \* the numbers of those sent on the current connection
  dropped,    \* those of them whose place a stream_lagged event took
  seen,       \* the number of the last one read, or published before
  delivered   \* the numbers yielded to the consumer, in that order

vars == <<reconnect, pc, link, published, carried, dropped, seen, delivered>>

-----------------------------------------------------------------------------
\* The data of an SSE event: a memory event, something else, or something the
\* decoder refuses for its size.
Events == [kind : {"memory"}, agent : Agents, tags : SUBSET Tags]
            \cup [kind : {"malformed", "oversized"}, agent : {Agent}, tags : {Wanted}]

InFlight == {n \in carried : n > seen}

Oversized(n) == n \notin dropped /\ published[n].kind = "oversized"

\* The filter of agents_subscribe, after _memory_event has dropped what is not
\* a MemoryEvent.  tags selects the events that have one of them.
Matching(event) ==
  /\ event.kind = "memory"
  /\ event.agent = Agent
  /\ Wanted # {} => event.tags \cap Wanted # {}

\* A stream_lagged event names no agent, so that the filter drops it too.
Yielded(n) == n \notin dropped /\ Matching(published[n])

Init ==
  /\ reconnect \in BOOLEAN
  /\ pc = "connecting"
  /\ link = "none"
  /\ published = <<>>
  /\ carried = {}
  /\ dropped = {}
  /\ seen = 0
  /\ delivered = <<>>

-----------------------------------------------------------------------------
(* The server and the network.                                             *)

Publish ==
  LET number == Len(published) + 1
  IN  /\ number <= MaxEvents
      /\ \E event \in Events : published' = Append(published, event)
      /\ IF link = "up"
           THEN /\ carried' = carried \cup {number}
                /\ dropped' = IF Cardinality(InFlight) < Capacity
                                THEN dropped ELSE dropped \cup {number}
           ELSE UNCHANGED <<carried, dropped>>
      /\ UNCHANGED <<reconnect, pc, link, seen, delivered>>

\* The server ends the stream, the connection breaks, or it is gone without
\* either side being told.
Break ==
  /\ link = "up"
  /\ link' \in {"closed", "reset", "lost"}
  /\ UNCHANGED <<reconnect, pc, published, carried, dropped, seen, delivered>>

-----------------------------------------------------------------------------
(* The generator.                                                          *)

\* Mutant: without reconnect an error ends the generator like a clean close.
FailQuietly ==
  /\ pc' = IF reconnect THEN "sleeping" ELSE "returned"
  /\ link' = "none"

\* except Exception.
Fail ==
  /\ pc' = IF reconnect THEN "sleeping" ELSE "raised"
  /\ link' = "none"

\* Mutant: the server is asked for all it has, once more after a reconnect.
AcceptReplaying ==
  /\ pc = "connecting"
  /\ pc' = "reading"
  /\ link' = "up"
  /\ carried' = 1..Len(published)
  /\ dropped' = {}
  /\ seen' = 0
  /\ UNCHANGED <<reconnect, published, delivered>>

\* A connection: what is published from now on.  Its first event, the
\* handshake "connected", is skipped.
Accept ==
  /\ pc = "connecting"
  /\ pc' = "reading"
  /\ link' = "up"
  /\ carried' = {}
  /\ dropped' = {}
  /\ seen' = Len(published)
  /\ UNCHANGED <<reconnect, published, delivered>>

\* No connection, or an error status: _handle_response raises.
Refuse ==
  /\ pc = "connecting"
  /\ Fail
  /\ UNCHANGED <<reconnect, published, carried, dropped, seen, delivered>>

\* Mutant: an event that is filtered out takes the rest of its chunk with it.
ReadChunk(n) ==
  /\ pc = "reading"
  /\ n \in InFlight /\ \A m \in InFlight : n <= m
  /\ ~Oversized(n)
  /\ seen' = IF Yielded(n) THEN n ELSE Len(published)
  /\ delivered' = IF Yielded(n) THEN Append(delivered, n) ELSE delivered
  /\ UNCHANGED <<reconnect, pc, link, published, carried, dropped>>

\* The next event of the connection; the consumer takes it if it is yielded.
Read(n) ==
  /\ pc = "reading"
  /\ n \in InFlight /\ \A m \in InFlight : n <= m
  /\ ~Oversized(n)
  /\ seen' = n
  /\ delivered' = IF Yielded(n) THEN Append(delivered, n) ELSE delivered
  /\ UNCHANGED <<reconnect, pc, link, published, carried, dropped>>

\* feed raises for a chunk with too large an event in it; what the chunk had
\* completed before, none of it or all that was unread, is lost with it.
Overflow ==
  /\ pc = "reading"
  /\ \E n \in InFlight : Oversized(n)
  /\ Fail
  /\ UNCHANGED <<reconnect, published, carried, dropped, seen, delivered>>

\* Mutant: only an exception leads to another connection.
EndForGood ==
  /\ pc = "reading" /\ link = "closed" /\ InFlight = {}
  /\ pc' = "returned"
  /\ link' = "none"
  /\ UNCHANGED <<reconnect, published, carried, dropped, seen, delivered>>

\* The stream was closed and everything on it has been read.
End ==
  /\ pc = "reading" /\ link = "closed" /\ InFlight = {}
  /\ pc' = IF reconnect THEN "sleeping" ELSE "returned"
  /\ link' = "none"
  /\ UNCHANGED <<reconnect, published, carried, dropped, seen, delivered>>

\* The error of a broken connection, which may overtake what it carried.
Error ==
  /\ pc = "reading" /\ link = "reset"
  /\ Fail
  /\ UNCHANGED <<reconnect, published, carried, dropped, seen, delivered>>

\* asyncio.sleep(reconnect_delay)
Wake ==
  /\ pc = "sleeping"
  /\ pc' = "connecting"
  /\ UNCHANGED <<reconnect, link, published, carried, dropped, seen, delivered>>

\* The consumer stops, or its task is cancelled: neither GeneratorExit nor
\* CancelledError is an Exception, and the connection is released.
Cancel ==
  /\ pc \in {"connecting", "reading", "sleeping"}
  /\ pc' = "cancelled"
  /\ link' = "none"
  /\ UNCHANGED <<reconnect, published, carried, dropped, seen, delivered>>

Generator == (\E n \in 1..MaxEvents : Read(n)) \/ Overflow \/ End \/ Error \/ Wake

Next == Generator \/ Accept \/ Refuse \/ Cancel \/ Publish \/ Break

\* The consumer keeps asking, and the server does not refuse it for ever;
\* nothing is published and nothing breaks of necessity.
Fairness == WF_vars(Generator) /\ SF_vars(Accept) /\ WF_vars(Accept \/ Refuse)

Spec == Init /\ [][Next]_vars /\ Fairness

-----------------------------------------------------------------------------
(* Properties.                                                             *)

\* The type of every variable.
TypeOK ==
  /\ reconnect \in BOOLEAN
  /\ pc \in {"connecting", "reading", "sleeping", "returned", "raised", "cancelled"}
  /\ link \in {"none", "up", "closed", "reset", "lost"}
  /\ published \in Seq(Events)
  /\ carried \subseteq 1..Len(published)
  /\ dropped \subseteq carried
  /\ seen \in 0..Len(published)
  /\ delivered \in Seq(1..Len(published))

\* The consumer sees the feed: matching events only, in the order of their
\* publication and none of them twice, whatever the connections do.
Feed == INSTANCE EventFeed
FeedSpec == Feed!Spec

\* While it reads, a matching event of this connection that the server did not
\* drop is delivered, or still to be read: nothing else makes the subscription
\* pass one by, neither a payload that is no event nor one for another agent.
NoGapWhileConnected ==
  pc = "reading" =>
    \A n \in carried \ InFlight : Yielded(n) => n \in ToSet(delivered)

\* Without reconnect the generator returns only after a connection that was
\* closed and whose events it has all seen; any failure surfaces instead.
ReturnsWhenComplete ==
  pc = "returned" => ~reconnect /\ \A n \in carried : Yielded(n) => n \in ToSet(delivered)

\* With reconnect a connection that ended or failed is followed by another.
Resubscribes ==
  reconnect /\ link \in {"closed", "reset"} ~> link = "up" \/ pc = "cancelled"

=============================================================================
