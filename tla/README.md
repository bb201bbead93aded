# A TLA+ model of the Dakera Python client

These modules specify the parts of `dakera-py` whose correctness depends on order, failure and
concurrency. TLC checks them on small instances; TLAPS proves the main results for every
value of the constants. Paths below are relative to the repository: `client.py` is
`src/dakera/client.py`, and so on.

## 1. The system

The package is a client of an HTTP server (the server is not in the repository). A synchronous client
(`client.py`, on `requests`) and an asynchronous one (`async_client.py`, on `httpx`) offer the
same operations; nearly all of them are one call of `_request`.

| Component | State it keeps | Operations | Talks to | What is hard | What makes it correct |
|---|---|---|---|---|---|
| Retry loop, `_request` of both clients | per call: attempt, last exception; per client: `_last_rate_limit_headers` | one call = up to `max_retries` attempts, each an answer or an exception | HTTP library, server | requests that arrive after the client gave up, answers that get lost, concurrent calls | nothing is stored twice; a definite answer is true; refusals are retried; every call returns |
| Classification, `_retry_safe`, `error_from_response`, `_connect_failed` | none | (method, path) → repeatable; status → exception class; failure → sent or not | retry loop | one wrong pattern changes what 190 requests may do | writes are never classified as repeatable |
| Request catalogue | none | the methods that call `_request`: 189 and 190 requests | retry loop | a new route can match an old pattern; two clients written out separately | see above |
| Retry timing, `_retry_delay`, `_compute_backoff`, `parse_retry_after` | the clock | how long a sleep lasts | retry loop, `Retry-After` of the server | order of cap, doubling, jitter, truncation | `Retry-After` is honoured; a call has a longest duration |
| Capability cache, `capabilities`, `require_supported`, `_preflight` | `_capabilities`, `_capabilities_unavailable` | fetch, refresh, check before a write | `_request`; shared by all tasks of a client | tasks interleave at the `await`; the server is upgraded meanwhile | once known, nothing is sent unchecked; a refresh is fresh |
| Event stream decoder, `_SSEDecoder` | unfinished line, values and size of the unfinished event | `feed(chunk)` → events | `_sse_payloads` | chunks are cut anywhere, CR LF included; limits | events do not depend on the cuts; the values returned and kept stay within the limit, the line ends between them do not (section 4) |
| Event streams and `agents_subscribe` | the connection | iterate, filter, reconnect after a delay | decoder, server | events between two connections, errors that never end, connections that hang | in order, none twice, none of a connection skipped; a noticed end leads to another connection |
| Readiness and job polling, `wait_until_ready`, `wait_for_*` | deadline | poll until done, failed or late | `_request` | deadline against interval; a 503 after "ready"; a job that ends as the deadline passes | each wait ends, within a bound; no job that ended is reported as late |
| Document paging, `iter_documents` | cursor, page | page after page, document after document | `_request` | documents come and go between requests; cursors that are useless or lead back | what lasts is yielded, once, in order; the iteration ends |
| Chat session, `session.py` | session id | start, store, recall, touch, close, context manager | `_request` | start and close may succeed or fail without the caller knowing; interrupts | the order of turns; a session stays open only for a named reason; no exception is hidden |
| TealTiger stores, `integrations/tealtiger.py` | memories of one namespace on the server | store and query costs and receipts, purge, `is_terminal`, link, chain | `batch_recall`, `batch_forget`, knowledge graph | check and store are separate requests; a store carried out late, or though its call raised; repeated purges; fractions of a second; limits | receipts survive purges; queries agree as far as the limit; one receipt for an evaluation at most; what the check guarantees |
| Data models, conversions, exports | none | `from_dict`, `to_dict`, CSV, JSON | all | – | conversions without state: not modelled |
| ODE sidecar, backup transfers | none | one request, no retry | HTTP library | – | not modelled |

Three layers follow from the last columns. The request path (`_request` with its policy and clock) is used by every other
part. Above it are the parts that make several requests for one operation: waits, paging, sessions, the capability
check. The TealTiger stores build on the operations for memories. Streams go past `_request` and have a decoder of their own.

`PROJECT.json` lists under `hazards`, line by line, what is hard to test in these parts and which
property would catch it.

## 2. Modules

| Module | Extends or instantiates | Checked by | Proofs |
|---|---|---|---|
| `RetryPolicy` | – | through `RequestRetry` | – |
| `RequestRetry` | `RetryPolicy`, `RequestContract` | `MCRequestRetry`, `MCRetryCatalogue` | `RequestRetryProofs` |
| `Endpoints`, `AsyncEndpoints` | the second extends the first | `MCRetryCatalogue` (with `RequestRetry`) | – |
| `RetryTiming` | – | through `JobPolling` | `JobPollingProofs` |
| `JobPolling` | `RetryTiming` | `MCJobPolling` | `JobPollingProofs` |
| `CapabilityCache` | – | `MCCapabilityCache` | `CapabilityCacheProofs` |
| `SSEDecoder` | – | `MCSSEDecoder` | `SSEDecoderProofs` |
| `EventSubscription` | `EventFeed` | `MCEventSubscription` | `EventSubscriptionProofs` |
| `DocumentPaging` | – | `MCDocumentPaging` | `DocumentPagingProofs` |
| `ChatSession` | `RetryPolicy`, `RequestContract` | `MCChatSession` | `ChatSessionProofs` |
| `MemoryBatch`, `GovernanceTags` | the second extends the first | through the next two | – |
| `CostStorage` | `GovernanceTags` | `MCCostStorage` | `GovernanceProofs` |
| `DecisionStore` | `GovernanceTags` | `MCDecisionStore` | `GovernanceProofs` |

**`RetryPolicy`** has no state. `RetrySafe` is `_retry_safe`; `ReadOnlyPost` lists the paths that
the regular expression `_READ_ONLY_POST` accepts, with each variable segment written `{id}`.
`ErrorFromResponse` maps a status to the class of the exception. `ResponseVerdict`,
`SyncVerdict` and `AsyncVerdict` are the `except` clauses: the exception a failed attempt would
raise, and whether the clause goes on when attempts are left. `ClientKind` chooses the client.

**`RequestRetry`** runs the loop. `pc[c]` is where call `c` stands: `idle`, `ready` (at the head of a
round), `waiting` (a request was sent), `sleeping`, `done`. `Call` enters `_request`; `FailConnect`,
`Send`, `Receive`, `Abandon` and `Wake` are the ways an attempt can go. `net` holds what was
sent and not yet served, so that the server may act on an attempt the client has given up, even
after the call has returned. `executed[c]` is the set of attempts that the server carried out,
`stored` the last writer of the one resource that the writing operations share, `before[c]` the
calls that were over when `c` began. The server is external and as free as the code allows: it
refuses with 4xx, 501 or 503 without acting, and with any other 5xx after or without acting
(that is how `_util.py:22-25` reads the statuses). It may not answer 404 to a removal of
something present.

**`RequestContract`** is what a caller may rely on, without attempts, network or server. `RequestRetry`
implements it under the mapping at its end (`ContractSpec`), and `ChatSession` is built on it.

**`Endpoints`** lists method, route and effect (`none`, `add`, `set`, `remove`) of each of the 189
requests of `client.py`, grouped as there; **`AsyncEndpoints`** does the same for the 190 of
`async_client.py`, from that file, since the two are written out separately. An operation that stores a
new thing at each execution has effect `add`. The assumption `OneRequestApart`, evaluated by TLC, says how far they agree: everything but
one request of `cache_clear`.

**`RetryTiming`** has a clock in ticks, `Second` ticks to a second, and one call whose attempts
are refused, fail or are answered. `ComputeBackoff` returns the set of delays that
`random.uniform(0.5, 1.5)` may give.

**`JobPolling`** puts a wait around it: every poll of `wait_for_transcription`, `wait_for_index` and
`wait_for_document_job`, and the `health_ready()` of `wait_until_ready`, is a call of `RetryTiming`; `Probe` is
`_probe_ready`, which makes one request without the loop. `base + now` is the time since the wait
began. The order in the code is kept: first the answer, then the deadline, then the sleep. The server
(`Complete`, `Restart`) finishes the job, becomes ready and stops being ready, or restarts and forgets the job, at any moment.

**`CapabilityCache`** models the asynchronous client. A task runs from one `await` to the next
without interruption, so each call is `Begin` (up to the `await`, or to the end) and `Resume`
(from the answer to the end). `Require` is the check itself; `Preflight` the constructor argument.
The server is upgraded in between (`Upgrade`) from a version that answers 404 to versions with
documents `1..LastVersion`. An exception that is not `NotFoundError`, a cancellation of the task
included, is `Failure`.

**`SSEDecoder`** feeds a stream chunk by chunk. The alphabet holds what the decoder tells apart: CR,
LF, colon, space, and one letter that stands both for the field name `data` and for any other
character. `Reader` is the reference: a machine that sees one character after the other, knows
no chunks and no limit, and is written independently of `Feed`. The operators on text are recursive
functions, which the provers can reason about.

**`EventSubscription`** is `agents_subscribe` on top of `stream_memory_events`. An event is known by its number
in the order of publication. `Accept` opens a connection, which from then on carries what is
published; there is no cursor, so `seen` starts at the end of `published`. `delivered` is the sequence of what the consumer got, so
that an event yielded twice would be in it twice. `Read` decodes, filters and yields one event;
`Overflow` is the exception of `feed` for a chunk with an oversized event in it, which takes with it what the chunk had completed before (how much that is
depends on the cuts: the events before the oversized one may have been read or not). `End`, `Error`, `Refuse` and `Overflow` are the ways out of a connection, `Fail` the clause `except Exception`,
`Cancel` whatever is not an `Exception`. The server drops what a slow consumer has no room for (`Capacity`) and says so in an event that the
filter throws away. A connection may be `lost`: gone without a sign, which the code cannot notice
because the stream has no read timeout. **`EventFeed`** is the abstract promise, events in
order, each at most once, not necessarily all; `EventSubscription` implements it (`FeedSpec`).

**`DocumentPaging`** runs the generator `iter_documents`: `List`, `Yield` one document, `NextPage`. `Import` and
`Delete` change the store between any two steps, since the generator is suspended at each `yield`. A page is any the
documented order allows. The server names a cursor that leads on, or (then `honest` is false) any cursor at all: the one
it was asked with or any beside an empty page, against which `LastPage` guards, one further on, or one that leads back, against which
nothing does (then `forward` is false). `yielded` is the sequence of what the consumer got.

**`ChatSession`** is a `with` statement around `ChatMemorySession`. Its requests are calls of
`RequestContract`: `Open`, `Answer` and, at a moment of its own, `Apply`, which for a call of unknown outcome may come after everything
else. `Create`, `Call`, `Leave` and `Exit` are the program, one call at a time; `Interrupt` is `KeyboardInterrupt` or
`CancelledError`. `repeatable[c]` is computed by `RetryPolicy` from the method and route of each
operation, so that a change of the classification changes what the session may rely on. The server's sessions end once, by request or for inactivity, and stay ended.

**`MemoryBatch`** says which memories a filter selects and which answers a limited recall can have,
with nothing assumed of their order. **`GovernanceTags`** are the tags and the conversion of times of
`tealtiger.py`. **`CostStorage`** stores and queries costs (`Get`, `GetByRequestId`, `GetByAgentId`, `GetByDateRange`, `GetSummary`) while purges,
which are repeatable requests, are carried out up to `MaxCopies` times and as late as they like. Storing is a POST of
`RequestContract`'s kind that is not repeated: `StoreCost` sends it, `CostStored` is the server, at any time after or never, and what the
call returns or raises changes no state.
**`DecisionStore`** has evaluations that `Check` (`is_terminal`), decide and `StoreReceipt`, whose POST the server carries out at a moment of its own
(`ReceiptStored`) or never, while the call returns the id of what was stored (`ReceiptReturned`) or raises, before or after that (`ReceiptLost`). It also has
`GetDelegationChain` over links made in any order. The server answers `KnowledgeQuery` with the edges in the order of
a breadth-first traversal, those of one distance in any order, and with the first `EdgeLimit` of them only: the helper does not pass
the `limit` of `knowledge_query`, whose default is 100 (`async_client.py:2863`). The two stores share the variable `memories` of
`GovernanceTags` and are specified apart (`CostSpec`, `DecisionSpec`).

The `*Proofs` modules hold the theorems; the `MC*` modules give the constants their
values. A definition with the comment "Mutant" is a plausible bug, kept to show that a
property can fail; no specification uses it.

## 3. What is checked

| Run | Instance | Shows |
|---|---|---|
| `writes` | 2 concurrent calls, 4 kinds of writing operation, statuses 200, 404, 429, 500, `max_retries` 2, sync | `AtMostOnce`, `DefiniteAnswer`, `UnretriedWritesInOrder`, `RefusalsAreRetried`, and that the loop implements `RequestContract` |
| `catalogue` | 1 call of each of the 190 requests of the asynchronous client (the 189 of the other among them), `max_retries` 3 (the default), fair | `WritesOnce`: no request that adds is repeated after it may have acted; `DropsAreRetried`; `EveryCallReturns` |
| `waits` | the three waits, timeout 6 and interval 4 ticks, `max_retries` 4, delays capped at 6 ticks, `Retry-After` absent, negative, 0, below and above the cap | `WaitIsBounded`, `NoFalseTimeout`, `WaitEnds`; of the loop inside, `RetryAfterHonoured`, `SleepWithinJitter`, `CallDuration` |
| `capabilities` | 3 interchangeable tasks, each any of the 4 calls, up to 2 upgrades | `CheckedOnceKnown`, `RefreshIsFresh`, `OnlyOverlapRegresses` |
| `chunks` | every stream of at most 7 characters, every cut, limits 1 and 7 | `ChunkingIndependent`, `LargeEventsRefused`, `OnlyLineEndsUncounted` |
| `feed` | up to 4 events of 6 kinds, 2 agents, 1 tag, room for 2 unread events | `NoGapWhileConnected`, `ReturnsWhenComplete`, `Resubscribes`, and that the subscription implements `EventFeed` |
| `pages` | documents 1 to 4, pages of 2, up to 5 documents yielded | `EveryDocument`, `EachOnceInOrder`, `IterationEnds` |
| `session` | a body of up to 5 calls: 2 turns, a recall, a touch, a close by hand; sync, which can be interrupted in more places | `TurnsInOrder`, `LateTurnsUnknown`, `LeftOpenOnlyByFailure`, `ExitKeepsFailure`, `ExitReturns` |
| `purges` | 3 costs of 2 agents and 2 models, 1 receipt, 1 purge of up to 2 copies, 4 ticks in seconds of 2, queries cut at 2 records | `CostTypeOK`, `ReceiptsSurvive`, `PurgeWithinSecond`, `ReadsAgree` |
| `decisions` | 4 evaluations, 3 of them of one request, up to 3 links, queries cut at 2 edges | `DecisionTypeOK`, `EvaluatedOnce`, `ChainOutward` |
| `body_lost` | 1 idempotent call, sync | `DropsAreRetried` fails |
| `ready` | `wait_until_ready`, `max_retries` 2 | `ReadyAnswers` fails |

Why the bounds are enough:

- *Calls.* Calls of one client share only `lastHeaders` and the resource. Two calls give an earlier
  and a later write with late copies of either; the safety of one call does not depend on the others
  (and is proved for any number).
- *Attempts.* With 2 attempts there is a first that may be left behind and a last that must raise;
  3 add a middle one. `catalogue` uses the default.
- *Statuses.* One status of each class that the loop or the server tells apart.
- *Timing.* With `BaseDelay` 2 and `MaxDelay` 6 the doubling passes the cap within the 4 attempts. The
  interval does not divide the timeout, so that a poll can begin after the deadline, and one call can outlast it.
- *Tasks.* Three are needed: one overlapping fetch with an older answer, one with a newer, and a
  later observer. Two upgrades give "no endpoint", "value not advertised", "value advertised".
- *Streams.* The longest pattern that matters is a data line, a line end across a chunk, a second
  data line and a blank line (7 characters with CR LF; a two-line event needs 6). The largest limit is
  never reached by such a stream, the smallest by most.
- *Events.* Four allow a connection that delivers, drops (a third unread event) and breaks, and a
  second one that goes on. A consumer's filter sees one event at a time.
- *Pages.* Four documents in pages of two make two pages and an empty third one, or, after deletions behind the cursor, pages that are not full, with room for
  an import or a deletion before, inside and after the page being yielded. Five yields (`MaxYields`) are one more than there are documents: an iteration
  that yields all and goes on yields one of them again, which is what a cursor that leads back is seen by; no iteration whose cursors lead on reaches the bound.
- *Session.* Two turns give an order; one call of every other kind gives each exception and each way a session can end before the exit.
- *Stores.* Two costs of one agent and two of one model make sums that differ; the times fall into the same second and into different
  ones; a second copy of the purge can come before and after a later cost. The limit of 2 cuts an answer of three records and none of two. Three receipts of one request allow a pending one
  and two terminal ones; three links among four receipts allow a path, a fork, a join and a cycle, and answers that are
  complete and that are cut. The cut of depth at five is exercised through the argument (1 and 6), not through longer chains: four receipts
  are never more than three edges apart, so the run does not reach that cut. The proof covers chains of any length.

Deadlock is not checked: each system may come to rest (all calls returned, the stream at its end).

*Fairness.* Each liveness property names what it needs.

- `EveryCallReturns`: weak fairness of `Advance(c)`, a call's own next step. The code justifies it: connect, read and (for httpx) pool
  timeouts bound the waits for a connection and for each piece of a response, and `time.sleep` / `asyncio.sleep` end. It does assume that a server
  does not send one body for ever in small pieces, since these timeouts do not bound a whole response; the same
  assumption is behind `AttemptTime` in `RetryTiming`. Nothing is asked of the server (it may never
  answer) and no call is obliged to be made.
- `WaitEnds`: weak fairness of `Client`, for the same reasons. That the clock moves is not assumed: a request may take no time at all, and it
  is the shortest delay (0.05 and 0.1 seconds) and the interval that carry a wait to its deadline. For the two waits on attachments, which sleep `poll_interval` as it is, this takes an interval above 0
  (the run has 4 ticks): with `poll_interval=0`, which `tests/test_documents.py:223` uses with documents, where 0.1 seconds are the least, they end only because requests take time. Nothing is asked of the server.
- `Resubscribes`: the consumer keeps asking and sleeps end (weak fairness of `Generator` and of an attempt
  to connect); that a connection is obtained again and again not refused (strong fairness of `Accept`) is asked of the server, since against one that always refuses there
  is nothing to promise. Ends of connections that the client cannot notice are left out of the property.
- `IterationEnds`: weak fairness of `Iterate`, a consumer that keeps asking. The server may name cursors for ever; an iteration one of whose cursors led back is exempt.
- `ExitReturns`: weak fairness of `Exit`, which the interpreter runs, and of the answer to the call it makes,
  which is `EveryCallReturns` of the layer below.

## 4. Where code and documentation disagree

The two violating runs each check one sentence of the documentation, quoted under `findings`.

- `body_lost`: in the synchronous client a connection lost while the body is read raises
  `ChunkedEncodingError`, which no clause catches; the asynchronous client does retry it.
- `ready`: `wait_until_ready` throws away the answer of its probe and asks once more. If the server is
  no longer ready by then, the caller gets `ServiceUnavailableError` or a connection error instead of another poll or `TimeoutError`.

Others follow from the modules, without a run of their own.

*Requests.*
- `last_rate_limit_headers` is also set by error responses (`client.py:297`, `lastHeaders`), and is one field for all threads.
- "Harmless to repeat" holds for a PUT alone, not for a PUT among others: a copy of an earlier
  PUT that the client gave up and repeated can undo a later one. `UnretriedWritesInOrder` is what
  does hold.
- A DELETE that succeeded, and whose answer was lost, ends in `NotFoundError`.
- A `Retry-After` date with a fraction of a second is truncated for a 429 (`exceptions.py:313`), not for a 503.
  `RetryAfterHonoured` is checked and proved for whole seconds; `RetryAfterWithinASecond` shows that of any other
  header the truncation costs less than a second.
- The jitter comes after the cap, so a sleep may last 1.5 times `max_delay`, "maximum delay in seconds
  between retries" (`models.py:154`); `SleepWithinJitter` is the bound that holds.
- A 404 "disables the check for the lifetime of this client" (`async_client.py:337`) only until another call fetches a document, and
  `CheckedOnceKnown` shows that the code then prefers the document.
- `cache_clear` names its namespace in the path in one client (`async_client.py:3072`), in the body in the other (`client.py:3451-3454`).

*Streams.*
- "An event larger than `max_event_bytes` is an error rather than unbounded memory" (`_util.py:217-218`): line ends and empty data lines
  are not counted, so an event of empty data lines grows without bound under any limit. `OnlyLineEndsUncounted` says that nothing else does. The same check may refuse too
  much: a CR LF or several small events in one
  chunk may be refused for the size of an event that ended in the same chunk, because the check at
  `_util.py:237` comes before the chunk's lines are read.
- `stream_lagged`, by which the server says that events were dropped, never reaches the consumer of
  `agents_subscribe`: its filter asks for an agent that this event does not have.
- A stream that hangs without being closed is waited on for ever, with `reconnect=True` too.
- `iter_documents` follows a cursor that leads back beside a full page, and then yields documents again, perhaps for ever (`client.py:1538-1541`); it
  stops only at a repetition of the cursor it asked with and at an empty page. No document names such a server.

*Stores.*
- `delete_older_than` also deletes records of the same second as its argument that are newer. `PurgeWithinSecond`
  says that it is no worse than that.
- A request that was decided and for which a pending receipt exists as well may be evaluated again, because
  `is_terminal` looks at one receipt. `EvaluatedOnce` says that it takes a pending receipt, or an evaluation that runs at the same time
  ("Return ``True`` if a *terminal* decision for *correlation_id* is stored", `tealtiger.py:472`, is stronger). An evaluation whose `store_receipt` raised may have its receipt in the store all the same, now or later; what `DecisionTypeOK` says of it is
  that there is at most one, and that a call that returned has one.
- `get_delegation_chain` documents the cut at five hops, not the one at 100 edges that its query makes by default. `ChainOutward` promises every receipt within the depth only for fewer edges.
- A summary of more than 1000 records leaves out the rest without saying so; `ReadsAgree` holds up to that limit.

## 5. What is proved

For every value of the constants, under their named assumptions only (sets of calls, tasks, events, documents and
statuses of any size, any number of attempts, any version, timeout and interval):

| Module | Theorem | States |
|---|---|---|
| `RequestRetryProofs` | `TypeCorrect`, `Invariance` | `TypeOK`, `IInv` |
| | `NoDuplicateExecution` | `AtMostOnce` |
| | `AnswersAreDefinite` | `DefiniteAnswer` |
| | `WritesStayInOrder` | `UnretriedWritesInOrder` |
| | `RefusalsLeaveNoAttempt` | `RefusalsAreRetried` |
| | `AsyncDropsLeaveNoAttempt` | `DropsAreRetried`, for the asynchronous client (for the other the run `body_lost` refutes it) |
| | `LoopNeverFallsThrough` | `RetriesRaise` |
| | `AddsAreNotRepeated` | `WritesOnce`, for a set of operations in which nothing that adds is `RetrySafe`. `catalogue` checks the same property on all 190 requests |
| | `Refinement` | `Spec => ContractSpec` |
| `JobPollingProofs` | `Invariance`, `SleepsAreBounded`, `CallsAreBounded` | `IInv`, `SleepWithinJitter`, `CallDuration` |
| | `WaitInvariance`, `WaitsAreBounded`, `TimeoutsAreTrue` | `WInv`, `WaitIsBounded`, `NoFalseTimeout` |
| | `RetryAfterIsHonoured`, `RetryAfterWithinASecond` | `RetryAfterHonoured`, if every header names whole seconds; otherwise to within a second |
| `CapabilityCacheProofs` | `TypeCorrect`, `Invariance`, `OperationsAreChecked`, `RefreshesAreFresh`, `RegressionsOverlap` | `TypeOK`, `IInv`, `CheckedOnceKnown`, `RefreshIsFresh`, `OnlyOverlapRegresses` |
| `SSEDecoderProofs` | `DecoderInvariance`, `DecoderTypeCorrect`, `EventsStayWithinLimit`, `KeptButForLineEnds` | `DecoderInv`, `TypeOK`, `LargeEventsRefused`, `OnlyLineEndsUncounted` |
| | `ChunkedInvariance`, `ChunksDoNotMatter` | `Chunked`, `ChunkingIndependent` |
| `EventSubscriptionProofs` | `Invariance`, `NothingSkipped`, `FailuresSurface` | `Inv`, `NoGapWhileConnected`, `ReturnsWhenComplete` |
| | `ImplementsFeed` | `Spec => FeedSpec`: a sequence of matching events, in order, none twice |
| `DocumentPagingProofs` | `Invariance`, `NothingMissed`, `NothingRepeated` | `Inv`, `EveryDocument`, `EachOnceInOrder` (in order, none twice, as long as no cursor leads back) |
| `ChatSessionProofs` | `Invariance`, `SessionsAreEnded`, `LateTurnsAreUnknown`, `FailuresAreKept` | `IInv`, `LeftOpenOnlyByFailure`, `LateTurnsUnknown`, `ExitKeepsFailure` |
| | `ConversationInOrder` | `TurnsInOrder` |
| `GovernanceProofs` | `CostInvariance`, `CostsTypeCorrect`, `ReceiptsAreKept`, `PurgesAreExact`, `ReadsOfCostsAgree` | `CostInv`, `CostTypeOK`, `ReceiptsSurvive`, `PurgeWithinSecond`, `ReadsAgree` |
| | `DecisionInvariance`, `DecisionsTypeCorrect`, `DecisionsHold`, `ChainsHold` | `DecisionInv`, `DecisionTypeOK`, `EvaluatedOnce`, `ChainOutward` |

So every invariant of a passing run is also a theorem. The assumptions say what the constants are. Those that exclude something the program
could meet are these: that a cost record's id is its own and its agent's name is not empty (`CostsAssumption`; the code reads an empty agent as "all
agents"), that there is at least one attempt (`RetriesAssumption`; `RequestRetry` allows none) and that `Retry-After` names whole seconds or an instant in whole
ticks (`HeadersAssumption`). `PowersAssumption` excludes nothing: it is a fact by induction that the arithmetic of the provers lacks. Three restrictions are in the shape of the modules and not
in an assumption: each cost record is stored by one call and each evaluation stores one receipt (a caller that calls `store` again after an exception may have two memories of
one record, which the summaries then count twice), and the clocks, copies, links, events and yields stay below `Max...` constants, each of which may be any number.

*Retry loop.* `AtMostOnce` is not inductive: one execution now says nothing about a second request
under way. `IInv` adds what each point of the loop implies for the attempts that can be executed or
in `net`: a non-idempotent call that may still send has nothing executed and nothing under way; one
that waits has at most its current attempt in one of the two places; a refusal received means that
it is in neither. Every clause that goes on for a non-idempotent call does so after a refusal or
before sending, which is what the two lemmas on verdicts state. The refinement uses the same
invariant: what the contract forbids to non-repeatable calls, `IInv` excludes. For `UnretriedWritesInOrder`, `Overwritten` says
that the write of an acknowledged call that is not repeated is no longer what is `stored` once a call begun after it has been carried out; it is
kept because such a call leaves nothing in `net` when it is acknowledged. The two action properties follow from `IInv` step by step: each clause that ends a call with such an
exception is either reached on the last attempt or concerns another failure.

*Timing.* The clock is bounded by the rounds made: at the head of round `n` at most `n` rounds
have passed, each of an attempt and one and a half times `MaxDelay`. That the powers of 2 are natural numbers is the
assumption `PowersAssumption`, since it is a fact by induction.

*Waits.* `WInv` joins the types, the invariant of the call inside and `Starts`: how late each phase can have begun, for each kind
of wait. A sleep that is cut at the deadline ends by it, one that is not, an interval later. With the bound on one call the bound on the
wait follows. `Honoured` carries the time that a refusal named to the end of the sleep.

*Decoder.* `DecoderInv` keeps the unfinished line, the size of the unfinished event and the values returned within the limit, and says what the size counts (`Counted`): the data
that are kept, without the line ends between the values. `Chunked` ties the decoder to
the reader: what the decoder holds between two chunks is what the reader holds after the same characters, but for a CR at the end of a chunk, which
the decoder holds back until it sees whether LF follows. Its step, `ReaderFollows`, is an induction over the characters of a chunk.
The library's induction theorems take an operator as a parameter, which the provers cannot instantiate, so induction is stated with
sets: a set of naturals that holds 0 and every successor is `Nat` (`NaturalInduction`, from the well-foundedness of `<`), hence a set of sequences that is closed under
`Append` holds all of them, and a recursive function on sequences exists (`RecursionOnSequences`).

*Cache.* `IInv` relates tasks to the document kept: whoever ended with a document implies that one is
kept (it never becomes `None` again); an operation without a check began before any document was
obtained; an answer is at least as new as the server was when its call began; and what
a task is answered whose fetch did not overlap the last write of the document is not older than that
document. The last of these makes an older answer that overwrites a newer document one of a fetch that overlapped.

*Subscription.* `Connected` says where a connection can exist and that it carries only what was published since, `Behind` that nothing was
delivered that has not been read. The second gives the order, and that nothing comes twice: what is read next has a higher number than anything delivered.

*Paging.* `Covered` is the invariant of the cursor: as long as the server was honest, a document that lasts and does not lie after the
cursor has been yielded, or is on the page being yielded; `Behind` says that, while no cursor has led back, all that was yielded lies before what is on the page and
after the cursor, so what is yielded next is new and comes last. Neither says anything of documents that come and go.

*Session.* `Ledger` relates the phase, the effect and the answer of each request; `Order` relates the
phases of the requests to the place of the program, and `Service` the state of the session to the answers of
`start` and `end`. That every operation but recall is one the loop does not repeat (`Classified`) is what makes "unknown" the only reason for a late turn.
`Conversation` is `TurnsInOrder` with what makes it inductive for a client that repeats no write: the server's log holds the turns that
took effect and no other, and a turn is issued only when every earlier one has been answered.

*Stores.* `CostInv` adds to the properties what a memory can be (`Kinds`: a receipt, or what `StoreCost` made of a record; their
tags tell them apart), that a record is stored once, what a purge that was carried out has left (`Effective`), and that none took what is a
second younger than its date (`Careful`); dropping the fraction of a second is the only arithmetic. `ReadsAgree` follows from it by the lemmas on sums:
a fold adds up a finite set whatever it takes first (`TakeAny`), so the sum over a union of disjoint sets is the sum of the sums (`SumOfUnion`), and the groups into which
a key divides the records add up to the total (`GroupsAddUp`). `DecisionInv` says which receipts are stored or under way and with which tags: a recall
by correlation finds those of the request, and finds one if there is one. `ChainOutward` is a fact about any graph: the distances of a
breadth-first traversal (`DistanceSteps`), that the nearer end of an edge has been met before (`QueryTraverses`), and an induction over the loop that
appends the ends of the edges (`ChainOfTraversal`). `ChainNames` states it for any depth.

The types of `RequestRetry`, `JobPolling`, `CapabilityCache`, `EventSubscription`, `DocumentPaging` and `ChatSession` are proved,
alone or as part of the invariants above, so no run repeats them; the runs of the decoder and the stores check theirs as well.

*Only model-checked.* Liveness (`EveryCallReturns`, `WaitEnds`, `Resubscribes`, `IterationEnds`, `ExitReturns`), which is out of the
prover's reach; the classification of the 190 requests, which is a computation over the catalogue; and of the synchronous client the
two sentences that the violating runs refute.

## 6. What is not modelled

- Bodies, query strings, result types, and the text and code of error messages: data that no
  decision of the modelled parts depends on.
- The synchronous client shared by several threads: the calls of `RequestRetry` may run in threads (the
  loop shares nothing but `_last_rate_limit_headers`), but `CapabilityCache` relies on tasks that
  are interrupted at `await` only.
- Statuses 1xx and 3xx: both libraries handle them below `_request`.
- `Retry-After: inf` (an `OverflowError` in `int()`), and header names whose case differs between the two libraries: listed as
  hazards, outside the data of the model.
- In the waits, refusals other than 429, 503 and an unknown job: they end a wait at once, as the unknown job does.
- Bytes of one character spread over two chunks: Python's incremental decoder does that.
- Of the streams: `stream_namespace_events` and `stream_global_events`, which are `stream_memory_events` without a filter, and the
  read timeout that a caller of the synchronous client may set.
- Of the memories: filters by importance, type and session; `update_importance`, which makes one request per memory and stops
  at the first failure.
- Of the TealTiger stores: importance weights, token counts, the tag `policy_id`, which no query names, the rounding of sums of floating-point costs (costs are integers here), and the optional types of
  that package. A `memory_link` that is carried out late is a `LinkDelegation` at that later moment, since no state depends on when it was called; a second store of the same
  record after a failed one is left out (section 5).
- Data models, exports, backup transfers and the ODE sidecar: conversions without state, and single requests without a loop.

## 7. Plan

Done: the request path (policy, loop, contract, catalogue, timing), the waits, the capability cache, the decoder and the subscription, paging,
the session, the governance stores; the proofs of section 5.

What is left, in this order:

1. `update_importance` as a loop of requests that may stop in the middle, with its partial result.
2. That `EventFeed` and `RequestContract` compose with the layers above them by theorem: `ChatSession` uses the contract's actions, and each of its
   calls could be refined by `RequestRetry` in one specification.
3. The threads of the synchronous client: `_last_rate_limit_headers` as a property between two calls.
