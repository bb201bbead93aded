----------------------------- MODULE RequestRetry -----------------------------
(***************************************************************************)
(* DakeraClient._request and AsyncDakeraClient._request at work: several   *)
(* calls of one client (from threads or tasks) run the retry loop against  *)
(* a server, over a network that may refuse, delay, lose or cut.           *)
(*                                                                         *)
(* A request that left is a record in `net` until the server acts on it,   *)
(* which it may do after the client has given up waiting for that attempt  *)
(* or has returned to its caller.  The server is external: it is modelled  *)
(* as far as the client relies on it, which is that a 4xx, a 501 and a 503 *)
(* refuse the request (_util.py: "the server refused the request") while a *)
(* 500 or a 502 may come after the work was done.                          *)
(***************************************************************************)
EXTENDS RetryPolicy

CONSTANTS
  Calls,        \* the calls made on one client
  Ops,          \* the operations they may request
  MaxRetries,   \* RetryConfig.max_retries
  Statuses      \* the statuses the server answers with

NoReply == 0
Effects == {"none", "add", "set", "remove"}

ASSUME MaxRetriesAssumption == MaxRetries \in Nat
ASSUME StatusesAssumption == Statuses \subseteq 200..599
ASSUME OpsAssumption ==
  \A o \in Ops : /\ o.effect \in Effects
                 /\ o.method \in STRING
                 /\ o.route \in STRING
ASSUME CallsAssumption == "initial" \notin Calls /\ "absent" \notin Calls

VARIABLES
  op,           \* op[c]: the operation c requests, fixed when c is made
  pc,           \* pc[c]: where c stands in _request
  attempt,      \* attempt[c]: the loop variable
  result,       \* result[c]: what _request returned or raised
  net,          \* the requests sent and not yet acted on by the server
  reply,        \* reply[c]: the status sent back for c's current attempt
  executed,     \* executed[c]: the attempts of c the server carried out
  stored,       \* the resource the operations address, by its last writer
  lastHeaders,  \* the response _last_rate_limit_headers was read from
  before        \* history: the calls that had returned when c was made

vars == <<op, pc, attempt, result, net, reply, executed, stored,
          lastHeaders, before>>

NoResult == "none"
Results == {NoResult, "ok", "RetriesExhausted"}
             \cup ResponseErrors \cup TransportErrors
Message == [call : Calls, attempt : Nat]

Init ==
  /\ op \in [Calls -> Ops]
  /\ pc = [c \in Calls |-> "idle"]
  /\ attempt = [c \in Calls |-> 0]
  /\ result = [c \in Calls |-> NoResult]
  /\ net = {}
  /\ reply = [c \in Calls |-> NoReply]
  /\ executed = [c \in Calls |-> {}]
  /\ stored = "initial"
  /\ lastHeaders = NoReply
  /\ before = [c \in Calls |-> {}]

-----------------------------------------------------------------------------
(* The client.                                                             *)

Return(c, value) ==
  /\ pc' = [pc EXCEPT ![c] = "done"]
  /\ result' = [result EXCEPT ![c] = value]

\* Mutant: `while True` with an attempt counter that is never advanced.
NextRoundStuck(c, n) ==
  /\ pc' = [pc EXCEPT ![c] = "ready"]
  /\ UNCHANGED <<attempt, result>>

\* The head of `for attempt in range(rc.max_retries)`: another round, or the
\* statement after the loop, which raises.
NextRound(c, n) ==
  IF n < MaxRetries
    THEN /\ pc' = [pc EXCEPT ![c] = "ready"]
         /\ attempt' = [attempt EXCEPT ![c] = n]
         /\ UNCHANGED result
    ELSE /\ Return(c, "RetriesExhausted")
         /\ UNCHANGED attempt

\* _request is entered.
Call(c) ==
  /\ pc[c] = "idle"
  /\ NextRound(c, 0)
  /\ before' = [before EXCEPT ![c] = {d \in Calls : pc[d] = "done"}]
  /\ UNCHANGED <<op, net, reply, executed, stored, lastHeaders>>

\* The end of an except clause: raise, or sleep before the next attempt.
LastAttempt(c) == attempt[c] = MaxRetries - 1

Conclude(c, verdict) ==
  \/ /\ LastAttempt(c) \/ ~verdict.again
     /\ Return(c, verdict.raises)
  \/ /\ ~LastAttempt(c) /\ verdict.again
     /\ pc' = [pc EXCEPT ![c] = "sleeping"]
     /\ UNCHANGED result

FailConnect(c) ==
  /\ pc[c] = "ready"
  /\ \E failure \in ConnectFailures :
       Conclude(c, TransportVerdict(failure, Idempotent(op[c])))
  /\ UNCHANGED <<op, attempt, net, reply, executed, stored, lastHeaders, before>>

\* Mutant: what came back for the last attempt is taken for this one's.
SendStale(c) ==
  /\ pc[c] = "ready"
  /\ pc' = [pc EXCEPT ![c] = "waiting"]
  /\ net' = net \cup {[call |-> c, attempt |-> attempt[c]]}
  /\ UNCHANGED <<op, attempt, result, reply, executed, stored, lastHeaders, before>>

Send(c) ==
  /\ pc[c] = "ready"
  /\ pc' = [pc EXCEPT ![c] = "waiting"]
  /\ net' = net \cup {[call |-> c, attempt |-> attempt[c]]}
  /\ reply' = [reply EXCEPT ![c] = NoReply]
  /\ UNCHANGED <<op, attempt, result, executed, stored, lastHeaders, before>>

\* A whole response: _handle_response, which keeps the headers of every
\* response, then the return or the except clause for its exception.
Receive(c) ==
  /\ pc[c] = "waiting"
  /\ reply[c] # NoReply
  /\ lastHeaders' = reply[c]
  /\ IF Success(reply[c])
       THEN Return(c, "ok")
       ELSE Conclude(c, ResponseVerdict(reply[c], Idempotent(op[c])))
  /\ UNCHANGED <<op, attempt, net, reply, executed, stored, before>>

\* No response, or not the whole of it: the attempt is given up while its
\* request may still be on its way.
Abandon(c, failure) ==
  /\ pc[c] = "waiting"
  /\ failure = "bodyLost" => reply[c] # NoReply
  /\ Conclude(c, TransportVerdict(failure, Idempotent(op[c])))
  /\ UNCHANGED <<op, attempt, net, reply, executed, stored, lastHeaders, before>>

\* The end of the sleep.
Wake(c) ==
  /\ pc[c] = "sleeping"
  /\ NextRound(c, attempt[c] + 1)
  /\ UNCHANGED <<op, net, reply, executed, stored, lastHeaders, before>>

Advance(c) ==
  \/ FailConnect(c)
  \/ Send(c)
  \/ Receive(c)
  \/ \E failure \in SentFailures : Abandon(c, failure)
  \/ Wake(c)

-----------------------------------------------------------------------------
(* The server (external).                                                  *)

\* Statuses that leave open whether the server acted.
Inconclusive(status) == ErrorFromResponse(status) = "ServerError"

\* The status reaches the client only if it still waits on this attempt.
Respond(m, status) ==
  IF pc[m.call] = "waiting" /\ attempt[m.call] = m.attempt
    THEN reply' = [reply EXCEPT ![m.call] = status]
    ELSE UNCHANGED reply

Execute(m, status) ==
  /\ Success(status) \/ Inconclusive(status)
  /\ op[m.call].effect = "remove" => stored # "absent"
  /\ executed' = [executed EXCEPT ![m.call] = @ \cup {m.attempt}]
  /\ stored' = CASE op[m.call].effect = "set" -> m.call
                 [] op[m.call].effect = "remove" -> "absent"
                 [] OTHER -> stored
  /\ net' = net \ {m}
  /\ Respond(m, status)
  /\ UNCHANGED <<op, pc, attempt, result, lastHeaders, before>>

\* What is already absent cannot be removed, and only then is a removal
\* answered 404.
Refuse(m, status) ==
  /\ ~Success(status)
  /\ status = 404 /\ op[m.call].effect = "remove" => stored = "absent"
  /\ net' = net \ {m}
  /\ Respond(m, status)
  /\ UNCHANGED <<op, pc, attempt, result, executed, stored, lastHeaders, before>>

Serve ==
  \E m \in net, status \in Statuses : Execute(m, status) \/ Refuse(m, status)

-----------------------------------------------------------------------------
Next ==
  \/ \E c \in Calls : Call(c) \/ Advance(c)
  \/ Serve

Spec == Init /\ [][Next]_vars

\* A call runs on: the connect, read and pool timeouts of the session bound
\* each wait, and time.sleep / asyncio.sleep end.  Nothing is asked of the
\* server, and nobody is obliged to make a call.
FairSpec == Spec /\ \A c \in Calls : WF_vars(Advance(c))
-----------------------------------------------------------------------------
(* Properties.                                                             *)

\* The type of every variable.
TypeOK ==
  /\ op \in [Calls -> Ops]
  /\ pc \in [Calls -> {"idle", "ready", "waiting", "sleeping", "done"}]
  /\ attempt \in [Calls -> Nat]
  /\ result \in [Calls -> Results]
  /\ net \in SUBSET Message
  /\ reply \in [Calls -> Statuses \cup {NoReply}]
  /\ executed \in [Calls -> SUBSET Nat]
  /\ stored \in Calls \cup {"initial", "absent"}
  /\ lastHeaders \in Statuses \cup {NoReply}
  /\ before \in [Calls -> SUBSET Calls]

\* "Repeating a write can store a memory twice" (RetryConfig): whatever is
\* retried, abandoned or served late, a request the loop does not hold to be
\* idempotent is carried out at most once.
AtMostOnce ==
  \A c \in Calls : ~Idempotent(op[c]) =>
    \A a, b \in executed[c] : a = b

\* What a caller of a non-idempotent call may conclude from a definite
\* answer: after an exception for a 4xx, 429, 501 or 503 the call was not and
\* will not be carried out (it can be repeated safely), and after a return
\* nothing of it is still under way.
Refusals == ResponseErrors \ {"ServerError"}

DefiniteAnswer ==
  \A c \in Calls : ~Idempotent(op[c]) =>
    /\ result[c] \in Refusals => executed[c] = {}
    /\ result[c] \in Refusals \cup {"ok", "RetriesExhausted"} =>
         \A m \in net : m.call # c

\* AtMostOnce for what an operation does rather than for how the loop
\* classifies it: unless the caller set retry_non_idempotent, no memory, job,
\* key or session is added twice by one call.
WritesOnce ==
  \A c \in Calls : op[c].effect = "add" /\ ~RetryNonIdempotent =>
    \A a, b \in executed[c] : a = b

\* A call that returned normally was carried out, by whichever attempt.
OkMeansDone == \A c \in Calls : result[c] = "ok" => executed[c] # {}

\* The statement after the loop ("Request failed after retries") is reached
\* only when max_retries is 0: each except clause raises on the last attempt.
RetriesRaise ==
  \A c \in Calls : result[c] = "RetriesExhausted" => MaxRetries = 0

\* The acknowledged writes that were begun after c had been acknowledged.
LaterWrites(c) ==
  {d \in Calls : /\ c \in before[d] /\ result[c] = "ok"
                 /\ result[d] = "ok" /\ op[d].effect = "set"}

\* The acknowledged write of a call that is not retried never undoes an
\* acknowledged write made after it: all it ever sent was carried out by then.
UnretriedWritesInOrder ==
  \A c \in Calls :
    stored = c /\ ~Idempotent(op[c]) => LaterWrites(c) = {}

\* "429 / 503 ... are retried for every request": a call reports one only
\* when no attempt was left.
RefusalsAreRetried ==
  [][\A c \in Calls :
       /\ pc[c] # "done"
       /\ result'[c] \in {"RateLimitError", "ServiceUnavailableError"}
       => LastAttempt(c)]_vars

\* A dropped connection is retried for an idempotent request, wherever it is
\* dropped: such a call fails on the network only on its last attempt.
DropsAreRetried ==
  [][\A c \in Calls :
       /\ pc[c] # "done" /\ Idempotent(op[c])
       /\ result'[c] \in TransportErrors
       => LastAttempt(c)]_vars

\* Every call that enters _request comes back, whatever the server does.
EveryCallReturns ==
  \A c \in Calls : pc[c] = "ready" ~> pc[c] = "done"

-----------------------------------------------------------------------------
(* The loop implements the contract its callers rely on.                   *)

PhaseOf(c) ==
  CASE pc[c] = "idle" -> "new" [] pc[c] = "done" -> "closed" [] OTHER -> "open"

EffectOf(c) ==
  CASE executed[c] = {} -> "never"
    [] \E a \in executed[c] : executed[c] = {a} -> "once"
    [] OTHER -> "repeatedly"

AnswerOf(c) ==
  CASE result[c] = NoResult -> "none"
    [] result[c] = "ok" -> "done"
    [] result[c] \in Refusals \cup {"RetriesExhausted"} -> "refused"
    [] OTHER -> "unknown"

Contract == INSTANCE RequestContract WITH
  phase <- [c \in Calls |-> PhaseOf(c)],
  repeatable <- [c \in Calls |-> Idempotent(op[c])],
  effect <- [c \in Calls |-> EffectOf(c)],
  answer <- [c \in Calls |-> AnswerOf(c)]

ContractSpec == Contract!Spec
=============================================================================
