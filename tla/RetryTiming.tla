------------------------------ MODULE RetryTiming ------------------------------
(***************************************************************************)
(* When the retry loop sleeps, and for how long: _retry_delay and          *)
(* _compute_backoff, the Retry-After header (parse_retry_after) and what   *)
(* RateLimitError makes of it.  One call of an idempotent request, against *)
(* a server that keeps failing in a transient way, with a clock in ticks.  *)
(* The order of sends and exceptions is RequestRetry's; here only the last *)
(* attempt, the sleeps and the clock matter.                               *)
(***************************************************************************)
EXTENDS Integers

CONSTANTS
  MaxRetries,    \* RetryConfig.max_retries
  BaseDelay,     \* RetryConfig.base_delay, in ticks
  MaxDelay,      \* RetryConfig.max_delay, in ticks
  Jitter,        \* RetryConfig.jitter
  Second,        \* ticks in a second
  AttemptTime,   \* bound of one attempt: connect timeout and read timeout
  Headers        \* the Retry-After headers of the server, see Header

ASSUME RetriesAssumption == MaxRetries \in Nat \ {0}
ASSUME DelaysAssumption == BaseDelay \in Nat /\ MaxDelay \in Nat
ASSUME JitterAssumption == Jitter \in BOOLEAN
ASSUME SecondAssumption == Second \in Nat \ {0}
ASSUME AttemptTimeAssumption == AttemptTime \in Nat
ASSUME PowersAssumption == \A n \in 0..MaxRetries : 2^n \in Nat

\* A header is absent, or names a number of whole seconds, or is an HTTP date
\* (an instant some ticks away).
NoHeader == [kind |-> "absent", value |-> 0]
Header == {NoHeader} \cup [kind : {"seconds", "date"}, value : Int]

ASSUME HeadersAssumption == Headers \subseteq Header

None == -1

VARIABLES
  pc,         \* "ready", "sleeping" or "done"
  attempt,    \* the loop variable
  now,        \* the clock; the call begins at 0
  wakeAt,     \* the end of the current sleep
  notBefore   \* the instant the last refusal asked to wait for, or None

vars == <<pc, attempt, now, wakeAt, notBefore>>

-----------------------------------------------------------------------------
Least(a, b) == IF a <= b THEN a ELSE b
Most(a, b) == IF a >= b THEN a ELSE b

\* parse_retry_after, in ticks: seconds, or the way to the date.
ParseRetryAfter(header) ==
  CASE header.kind = "absent" -> None
    [] header.kind = "seconds" -> Most(0, header.value * Second)
    [] header.kind = "date" -> Most(0, header.value)

WholeSeconds(ticks) == (ticks \div Second) * Second

\* The retry_after that error_from_response puts into the exception: int() for
\* a RateLimitError, the float as it is for a ServiceUnavailableError.
RetryAfter(status, header) ==
  LET parsed == ParseRetryAfter(header)
  IN  IF parsed # None /\ status = 429 THEN WholeSeconds(parsed) ELSE parsed

\* Mutant: the cap comes before the doubling.
ComputeBackoffUncapped(n) ==
  LET delay == Least(MaxDelay, BaseDelay) * 2^n
  IN  IF Jitter THEN {d \in 0..(2 * delay) : 2 * d >= delay /\ 2 * d <= 3 * delay}
                ELSE {delay}

\* _compute_backoff: the delays it may return; random.uniform(0.5, 1.5) comes
\* after the min.
ComputeBackoff(n) ==
  LET delay == Least(MaxDelay, BaseDelay * 2^n)
  IN  IF Jitter THEN {d \in 0..(2 * delay) : 2 * d >= delay /\ 2 * d <= 3 * delay}
                ELSE {delay}

\* Mutant: the jittered backoff also for a refusal that named a time.
RetryDelayDeaf(retryAfter, n) == ComputeBackoff(n)

\* Mutant: Retry-After is taken without the cap of max_delay.
RetryDelayTrusting(retryAfter, n) ==
  IF retryAfter # None THEN {retryAfter} ELSE ComputeBackoff(n)

\* _retry_delay
RetryDelay(retryAfter, n) ==
  IF retryAfter # None THEN {Least(retryAfter, MaxDelay)} ELSE ComputeBackoff(n)

-----------------------------------------------------------------------------
Init ==
  /\ pc = "ready"
  /\ attempt = 0
  /\ now = 0
  /\ wakeAt = 0
  /\ notBefore = None

LastAttempt == attempt = MaxRetries - 1

Sleep(delays, t) ==
  /\ pc' = "sleeping"
  /\ \E d \in delays : wakeAt' = t + d
  /\ UNCHANGED attempt

Raise == pc' = "done" /\ UNCHANGED <<attempt, wakeAt>>

\* A 429 or 503: the clause for RateLimitError and ServiceUnavailableError.
Refused(status, header, took) ==
  /\ pc = "ready"
  /\ now' = now + took
  /\ notBefore' = IF header.kind = "absent" THEN None
                                            ELSE now' + ParseRetryAfter(header)
  /\ IF LastAttempt
       THEN Raise
       ELSE Sleep(RetryDelay(RetryAfter(status, header), attempt), now')

\* Any other transient failure: its clause falls through to the backoff.
Failed(took) ==
  /\ pc = "ready"
  /\ now' = now + took
  /\ notBefore' = None
  /\ IF LastAttempt THEN Raise ELSE Sleep(ComputeBackoff(attempt), now')

\* A response that ends the loop, by a return or by an exception.
Answered(took) ==
  /\ pc = "ready"
  /\ now' = now + took
  /\ Raise
  /\ UNCHANGED notBefore

Wake ==
  /\ pc = "sleeping"
  /\ now' = wakeAt
  /\ attempt' = attempt + 1
  /\ pc' = "ready"
  /\ UNCHANGED <<wakeAt, notBefore>>

Next ==
  \/ \E took \in 0..AttemptTime :
       \/ \E status \in {429, 503}, header \in Headers : Refused(status, header, took)
       \/ Failed(took)
       \/ Answered(took)
  \/ Wake

Spec == Init /\ [][Next]_vars

-----------------------------------------------------------------------------
(* Properties.                                                             *)

\* The type of every variable; the sleeps and the clock are never negative.
TypeOK ==
  /\ pc \in {"ready", "sleeping", "done"}
  /\ attempt \in 0..(MaxRetries - 1)
  /\ now \in Nat
  /\ wakeAt \in Nat
  /\ notBefore \in Nat \cup {None}

\* Retry-After is honoured (README, CHANGELOG): after a 429 or 503 that named
\* a time the next attempt is not made earlier, unless max_delay is shorter.
RetryAfterHonoured ==
  [][Wake /\ notBefore # None =>
       now' >= notBefore \/ now' - now >= MaxDelay]_vars

\* max_delay is the "maximum delay in seconds between retries"; the jitter is
\* applied after the cap and may lengthen a delay by a half, never by more.
SleepWithinJitter == pc = "sleeping" => 2 * (wakeAt - now) <= 3 * MaxDelay

\* The longest a call can keep its caller, whatever the server answers: so
\* many attempts and one sleep fewer, each within its bound.
CallDuration ==
  2 * now <= MaxRetries * (2 * AttemptTime) + (MaxRetries - 1) * (3 * MaxDelay)
=============================================================================
