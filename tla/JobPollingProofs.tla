--------------------------- MODULE JobPollingProofs ---------------------------
(***************************************************************************)
(* Proofs about the clock of one call (RetryTiming) and about the waits    *)
(* built on such calls (JobPolling), for every timeout, poll interval,     *)
(* retry configuration and Retry-After: how long a call and a wait can     *)
(* hold their caller, that a wait is not given up too early, and that a    *)
(* Retry-After is honoured.                                                *)
(***************************************************************************)
EXTENDS JobPolling, TLAPS

-----------------------------------------------------------------------------
(* One call.                                                               *)

\* Twice the time of one attempt and the longest sleep after it.
Round == 2 * AttemptTime + 3 * MaxDelay

\* Where the clock stands after `attempt` whole rounds.
Clock ==
  /\ pc = "ready" => 2 * now <= attempt * Round
  /\ pc = "sleeping" => /\ attempt + 1 < MaxRetries
                        /\ 2 * now <= attempt * Round + 2 * AttemptTime
                        /\ 2 * wakeAt <= attempt * Round + Round
  /\ pc = "done" => 2 * now <= attempt * Round + 2 * AttemptTime

IInv == TypeOK /\ SleepWithinJitter /\ Clock

\* The longest a round takes, doubled, is a natural number.
LEMMA RoundType == Round \in Nat
BY AttemptTimeAssumption, DelaysAssumption DEF Round

\* One more round.
LEMMA Step ==
  ASSUME NEW n \in Nat, NEW r \in Nat
  PROVE  (n + 1) * r = n * r + r /\ n * r \in Nat
OBVIOUS

\* More rounds never take less.
LEMMA Monotone ==
  ASSUME NEW m \in Nat, NEW n \in Nat, NEW r \in Nat, m <= n
  PROVE  m * r <= n * r
<1>1. (n - m) * r \in Nat /\ n * r = m * r + (n - m) * r
  OBVIOUS
<1>2. QED
  BY <1>1, Step

\* The backoff: never negative, and at most one and a half times the maximum.
LEMMA BackoffBound ==
  ASSUME NEW n \in 0..MaxRetries, NEW d \in ComputeBackoff(n)
  PROVE  d \in Nat /\ 2 * d <= 3 * MaxDelay
<1> DEFINE delay == Least(MaxDelay, BaseDelay * 2^n)
<1>1. 2^n \in Nat
  BY PowersAssumption
<1>2. BaseDelay * 2^n \in Nat
  <2>1. \A p \in Nat : BaseDelay * p \in Nat
    BY DelaysAssumption
  <2>2. QED
    BY <1>1, <2>1
<1>3. delay \in Nat /\ delay <= MaxDelay
  BY <1>2, DelaysAssumption DEF Least
<1>4. d \in (IF Jitter THEN {e \in 0..(2 * delay) : 2 * e >= delay /\ 2 * e <= 3 * delay}
                       ELSE {delay})
  BY DEF ComputeBackoff
<1> HIDE DEF delay
<1>5. d \in Nat /\ 2 * d <= 3 * delay
  BY <1>3, <1>4
<1>6. QED
  BY <1>3, <1>5, DelaysAssumption

\* What parse_retry_after and int() leave of a header is absent or a natural.
LEMMA RetryAfterType ==
  ASSUME NEW status \in {429, 503}, NEW header \in Headers
  PROVE  RetryAfter(status, header) \in Nat \cup {None}
<1>1. header.kind \in {"absent", "seconds", "date"} /\ header.value \in Int
  BY HeadersAssumption DEF Header, NoHeader
<1>2. header.value * Second \in Int
  BY <1>1, SecondAssumption
<1>3. ParseRetryAfter(header) \in Nat \cup {None}
  BY <1>1, <1>2 DEF ParseRetryAfter, Most
<1>4. \A t \in Nat : WholeSeconds(t) \in Nat
  <2>1. \A t \in Nat : t \div Second \in Nat
    BY SecondAssumption
  <2>2. \A q \in Nat : q * Second \in Nat
    BY SecondAssumption
  <2>3. QED
    BY <2>1, <2>2 DEF WholeSeconds
<1>5. QED
  BY <1>3, <1>4 DEF RetryAfter

\* _retry_delay returns no more than one and a half times the maximum.
LEMMA DelayBound ==
  ASSUME NEW n \in 0..MaxRetries, NEW r \in Nat \cup {None}, NEW d \in RetryDelay(r, n)
  PROVE  d \in Nat /\ 2 * d <= 3 * MaxDelay
<1>1. CASE r = None
  BY <1>1, BackoffBound DEF RetryDelay
<1>2. CASE r # None
  BY <1>2, DelaysAssumption DEF RetryDelay, Least
<1>3. QED
  BY <1>1, <1>2

\* An attempt that took its time and failed: the sleep that follows, or the
\* end of the call, keeps the invariant.
LEMMA AttemptStep ==
  ASSUME IInv, pc = "ready", NEW took \in 0..AttemptTime, now' = now + took,
         \/ pc' = "done" /\ UNCHANGED <<attempt, wakeAt>>
         \/ /\ ~LastAttempt /\ pc' = "sleeping" /\ attempt' = attempt
            /\ \E d \in Nat : 2 * d <= 3 * MaxDelay /\ wakeAt' = now' + d,
         notBefore' \in Nat \cup {None}
  PROVE  IInv'
<1> DEFINE r == attempt * Round
<1>1. /\ attempt \in Nat /\ attempt <= MaxRetries - 1 /\ now \in Nat /\ wakeAt \in Nat
      /\ 2 * now <= r /\ MaxRetries \in Nat /\ AttemptTime \in Nat /\ MaxDelay \in Nat
      /\ took \in Nat /\ took <= AttemptTime
  BY RetriesAssumption, AttemptTimeAssumption, DelaysAssumption DEF IInv, TypeOK, Clock
<1>2. r \in Nat
  BY <1>1, RoundType, Step
<1> HIDE DEF r
<1>3. now' \in Nat /\ 2 * now' <= r + 2 * AttemptTime
  BY <1>1, <1>2
<1>4. CASE pc' = "done" /\ UNCHANGED <<attempt, wakeAt>>
  BY <1>1, <1>3, <1>4 DEF IInv, TypeOK, SleepWithinJitter, Clock, r
<1>5. CASE /\ ~LastAttempt /\ pc' = "sleeping" /\ attempt' = attempt
           /\ \E d \in Nat : 2 * d <= 3 * MaxDelay /\ wakeAt' = now' + d
  <2>1. PICK d \in Nat : 2 * d <= 3 * MaxDelay /\ wakeAt' = now' + d
    BY <1>5
  <2>2. wakeAt' \in Nat /\ 2 * (wakeAt' - now') <= 3 * MaxDelay
    BY <1>1, <1>3, <2>1
  <2>3. 2 * wakeAt' <= r + Round
    BY <1>1, <1>2, <1>3, <2>1 DEF Round
  <2>4. attempt + 1 < MaxRetries
    BY <1>1, <1>5 DEF LastAttempt
  <2>5. TypeOK'
    BY <1>1, <1>3, <1>5, <2>2 DEF IInv, TypeOK
  <2>6. SleepWithinJitter' /\ Clock'
    BY <1>3, <1>5, <2>2, <2>3, <2>4 DEF SleepWithinJitter, Clock, r
  <2>7. QED
    BY <2>5, <2>6 DEF IInv
<1>6. QED
  BY <1>4, <1>5

\* Every action keeps the invariant.
LEMMA IInvStep ==
  ASSUME IInv, [Next]_vars
  PROVE  IInv'
<1>0. attempt \in 0..MaxRetries /\ now \in Nat
  BY RetriesAssumption DEF IInv, TypeOK
<1>1. ASSUME NEW took \in 0..AttemptTime, NEW status \in {429, 503},
             NEW header \in Headers, Refused(status, header, took)
      PROVE  IInv'
  <2>1. RetryAfter(status, header) \in Nat \cup {None}
    BY RetryAfterType
  <2>2. notBefore' \in Nat \cup {None}
    <3>1. header.kind \in {"absent", "seconds", "date"} /\ header.value \in Int
      BY HeadersAssumption DEF Header, NoHeader
    <3>2. header.kind # "absent" => ParseRetryAfter(header) \in Nat
      <4>1. header.value * Second \in Int
        BY <3>1, SecondAssumption
      <4>2. QED
        BY <3>1, <4>1 DEF ParseRetryAfter, Most
    <3>3. now' \in Nat
      BY <1>0, <1>1, AttemptTimeAssumption DEF Refused
    <3>4. QED
      BY <1>1, <3>2, <3>3 DEF Refused
  <2>3. CASE LastAttempt
    BY <1>1, <2>2, <2>3, AttemptStep DEF Refused, Raise
  <2>4. CASE ~LastAttempt
    <3>1. PICK d \in RetryDelay(RetryAfter(status, header), attempt) : wakeAt' = now' + d
      BY <1>1, <2>4 DEF Refused, Sleep
    <3>2. d \in Nat /\ 2 * d <= 3 * MaxDelay
      BY <1>0, <2>1, DelayBound
    <3>3. QED
      BY <1>1, <2>2, <2>4, <3>1, <3>2, AttemptStep DEF Refused, Sleep
  <2>5. QED
    BY <2>3, <2>4
<1>2. ASSUME NEW took \in 0..AttemptTime, Failed(took)
      PROVE  IInv'
  <2>1. CASE LastAttempt
    BY <1>2, <2>1, AttemptStep DEF Failed, Raise
  <2>2. CASE ~LastAttempt
    <3>1. PICK d \in ComputeBackoff(attempt) : wakeAt' = now' + d
      BY <1>2, <2>2 DEF Failed, Sleep
    <3>2. d \in Nat /\ 2 * d <= 3 * MaxDelay
      BY <1>0, BackoffBound
    <3>3. QED
      BY <1>2, <2>2, <3>1, <3>2, AttemptStep DEF Failed, Sleep
  <2>3. QED
    BY <2>1, <2>2
<1>3. ASSUME NEW took \in 0..AttemptTime, Answered(took)
      PROVE  IInv'
  <2>1. notBefore' \in Nat \cup {None}
    BY <1>3 DEF Answered, IInv, TypeOK
  <2>2. QED
    BY <1>3, <2>1, AttemptStep DEF Answered, Raise
<1>4. ASSUME Wake
      PROVE  IInv'
  <2>1. /\ attempt \in Nat /\ attempt + 1 < MaxRetries /\ MaxRetries \in Nat
        /\ wakeAt \in Nat /\ 2 * wakeAt <= attempt * Round + Round
    BY <1>4, RetriesAssumption DEF Wake, IInv, TypeOK, Clock
  <2>2. 2 * wakeAt <= (attempt + 1) * Round
    BY <2>1, RoundType, Step
  <2>3. TypeOK'
    BY <1>4, <2>1 DEF Wake, IInv, TypeOK
  <2>4. SleepWithinJitter' /\ Clock'
    BY <1>4, <2>2 DEF Wake, SleepWithinJitter, Clock
  <2>5. QED
    BY <2>3, <2>4 DEF IInv
<1>5. CASE UNCHANGED vars
  BY <1>5 DEF vars, IInv, TypeOK, SleepWithinJitter, Clock
<1>6. QED
  BY <1>1, <1>2, <1>3, <1>4, <1>5 DEF Next

\* IInv is an invariant.
THEOREM Invariance == Spec => []IInv
<1>1. Init => IInv
  <2>1. 0 * Round = 0
    BY RoundType
  <2>2. QED
    BY <2>1, RetriesAssumption DEF Init, IInv, TypeOK, SleepWithinJitter, Clock
<1>2. IInv /\ [Next]_vars => IInv'
  BY IInvStep
<1>3. QED
  BY <1>1, <1>2, PTL DEF Spec

\* SleepWithinJitter: no sleep is longer than one and a half times max_delay.
THEOREM SleepsAreBounded == Spec => []SleepWithinJitter
<1>1. IInv => SleepWithinJitter
  BY DEF IInv
<1>2. QED
  BY <1>1, Invariance, PTL

\* The bound on the duration of a call, from the clock of its last round.
LEMMA DurationFromClock == IInv => CallDuration
<1> SUFFICES ASSUME IInv PROVE CallDuration
  OBVIOUS
<1> DEFINE last == MaxRetries - 1
<1>1. /\ attempt \in Nat /\ last \in Nat /\ attempt <= last /\ now \in Nat
      /\ wakeAt \in Nat /\ AttemptTime \in Nat /\ MaxDelay \in Nat /\ MaxRetries = last + 1
  BY RetriesAssumption, AttemptTimeAssumption, DelaysAssumption DEF IInv, TypeOK
<1> HIDE DEF last
<1>2. 2 * now <= attempt * Round + 2 * AttemptTime
  <2>1. attempt * Round \in Nat
    BY <1>1, RoundType, Step
  <2>2. QED
    BY <1>1, <2>1 DEF IInv, TypeOK, Clock
<1>3. attempt * Round <= last * Round /\ attempt * Round \in Nat /\ last * Round \in Nat
  BY <1>1, RoundType, Monotone, Step
<1>4. last * Round = last * (2 * AttemptTime) + last * (3 * MaxDelay)
  BY <1>1 DEF Round
<1>5. MaxRetries * (2 * AttemptTime) = last * (2 * AttemptTime) + 2 * AttemptTime
  BY <1>1
<1>6. last * (2 * AttemptTime) \in Nat /\ last * (3 * MaxDelay) \in Nat
  BY <1>1
<1>7. MaxRetries - 1 = last
  BY <1>1
<1>8. QED
  BY <1>1, <1>2, <1>3, <1>4, <1>5, <1>6, <1>7 DEF CallDuration

\* CallDuration: a call keeps its caller no longer than max_retries attempts
\* and, between them, sleeps of one and a half times max_delay.
THEOREM CallsAreBounded == Spec => []CallDuration
<1>1. IInv => CallDuration
  BY DurationFromClock
<1>2. QED
  BY <1>1, Invariance, PTL

\* Every Retry-After the server sends is a whole number of seconds away, as it
\* always is for the form in seconds.
WholeHeaders == \A header \in Headers : header.kind = "date" => header.value % Second = 0

\* The sleep after a refusal that named a time: it ends less than a second
\* before that time, or is as long as max_delay; not before it at all when the
\* truncation of RateLimitError has nothing to cut off.
Honoured ==
  pc = "sleeping" /\ notBefore # None =>
    /\ wakeAt > notBefore - Second \/ wakeAt - now >= MaxDelay
    /\ WholeHeaders => wakeAt >= notBefore \/ wakeAt - now >= MaxDelay

\* int() of a number of seconds cuts off less than a second, and nothing of a
\* whole number.
LEMMA Truncation ==
  ASSUME NEW t \in Nat
  PROVE  /\ WholeSeconds(t) \in Nat
         /\ WholeSeconds(t) > t - Second
         /\ t % Second = 0 => WholeSeconds(t) = t
<1>1. /\ Second \in Nat /\ Second > 0
      /\ t \div Second \in Nat /\ t % Second \in 0..(Second - 1)
      /\ t = Second * (t \div Second) + (t % Second)
  BY SecondAssumption
<1> DEFINE q == t \div Second
           m == t % Second
<1>2. q * Second = Second * q /\ q * Second \in Nat
  BY <1>1
<1> HIDE DEF q, m
<1>3. t = q * Second + m /\ m \in 0..(Second - 1)
  BY <1>1, <1>2 DEF q, m
<1>4. QED
  BY <1>1, <1>2, <1>3 DEF WholeSeconds, q, m

\* What reaches _retry_delay of a time the server named.
LEMMA NamedTime ==
  ASSUME NEW status \in {429, 503}, NEW header \in Headers, header.kind # "absent"
  PROVE  /\ ParseRetryAfter(header) \in Nat
         /\ RetryAfter(status, header) \in Nat
         /\ RetryAfter(status, header) > ParseRetryAfter(header) - Second
         /\ WholeHeaders => RetryAfter(status, header) = ParseRetryAfter(header)
<1> DEFINE p == ParseRetryAfter(header)
<1>1. header.kind \in {"seconds", "date"} /\ header.value \in Int
  BY HeadersAssumption DEF Header, NoHeader
<1>2. Second \in Nat /\ Second > 0 /\ header.value * Second \in Int
  BY <1>1, SecondAssumption
<1>3. p \in Nat
  BY <1>1, <1>2 DEF ParseRetryAfter, Most
<1>4. WholeHeaders => p % Second = 0
  <2>1. 0 % Second = 0
    BY <1>2
  <2>2. \A v \in Int : (v * Second) % Second = 0
    BY <1>2
  <2>3. QED
    BY <1>1, <1>2, <2>1, <2>2 DEF ParseRetryAfter, Most, WholeHeaders
<1> HIDE DEF p
<1>5. RetryAfter(status, header) = IF status = 429 THEN WholeSeconds(p) ELSE p
  BY <1>3 DEF RetryAfter, None, p
<1>6. QED
  BY <1>2, <1>3, <1>4, <1>5, Truncation DEF p

\* Every step of the loop keeps Honoured.
LEMMA HonouredStep ==
  ASSUME IInv, Honoured, [Next]_vars
  PROVE  Honoured'
<1>0. now \in Nat /\ wakeAt \in Nat /\ MaxDelay \in Nat /\ Second \in Nat
  BY DelaysAssumption, SecondAssumption DEF IInv, TypeOK
<1>1. ASSUME NEW took \in 0..AttemptTime, NEW status \in {429, 503},
             NEW header \in Headers, Refused(status, header, took)
      PROVE  Honoured'
  <2> SUFFICES ASSUME pc' = "sleeping", notBefore' # None
               PROVE  /\ wakeAt' > notBefore' - Second \/ wakeAt' - now' >= MaxDelay
                      /\ WholeHeaders => wakeAt' >= notBefore' \/ wakeAt' - now' >= MaxDelay
    BY DEF Honoured, WholeHeaders
  <2> DEFINE p == ParseRetryAfter(header)
             r == RetryAfter(status, header)
  <2>1. header.kind # "absent" /\ notBefore' = now' + p
    BY <1>1 DEF Refused
  <2>2. p \in Nat /\ r \in Nat /\ r > p - Second /\ (WholeHeaders => r = p)
    BY <2>1, NamedTime
  <2>3. wakeAt' = now' + Least(r, MaxDelay)
    BY <1>1, <2>2 DEF Refused, Raise, Sleep, RetryDelay, None
  <2>4. now' \in Nat
    BY <1>0, <1>1, AttemptTimeAssumption DEF Refused
  <2> HIDE DEF p, r
  <2>5. PICK n \in Nat : n = now'
    BY <2>4
  <2>6. n + Least(r, MaxDelay) >= n + r \/ n + Least(r, MaxDelay) - n >= MaxDelay
    BY <1>0, <2>2 DEF Least
  <2>7. n + r > n + p - Second /\ (r = p => n + r >= n + p)
    BY <1>0, <2>2
  <2>8. wakeAt' = n + Least(r, MaxDelay) /\ notBefore' = n + p /\ Least(r, MaxDelay) \in Nat
    BY <1>0, <2>1, <2>2, <2>3, <2>5 DEF Least
  <2>9. wakeAt' > notBefore' - Second \/ wakeAt' - now' >= MaxDelay
    BY <1>0, <2>2, <2>5, <2>6, <2>7, <2>8
  <2>10. ASSUME WholeHeaders PROVE wakeAt' >= notBefore' \/ wakeAt' - now' >= MaxDelay
    BY <1>0, <2>2, <2>5, <2>6, <2>7, <2>8, <2>10
  <2>11. QED
    BY <2>9, <2>10
<1>2. ASSUME NEW took \in 0..AttemptTime, Failed(took) \/ Answered(took)
      PROVE  Honoured'
  BY <1>2 DEF Failed, Answered, Raise, Honoured
<1>3. CASE Wake
  BY <1>3 DEF Wake, Honoured
<1>4. CASE UNCHANGED vars
  BY <1>4 DEF vars, Honoured, WholeHeaders
<1>5. QED
  BY <1>1, <1>2, <1>3, <1>4 DEF Next

-----------------------------------------------------------------------------
(* The waits, each of whose calls keeps the invariant of RetryTiming.      *)

\* The latest end of a sleep between two polls.
LatestPoll == IF kind = "attachment" THEN Timeout + Interval ELSE Timeout

\* Where the requests of a wait may begin.
Starts ==
  /\ base <= LatestCall
  /\ phase = "probing" => /\ kind = "ready" /\ base <= Timeout
                          /\ pc = "ready" /\ attempt = 0 /\ now = 0
  /\ phase = "waiting" => until <= LatestPoll

WInv == WaitTypeOK /\ IInv /\ Starts

\* The constants of JobPolling and the bound AttemptTime are naturals.
LEMMA WaitConstants ==
  /\ Timeout \in Nat /\ Interval \in Nat /\ MinInterval \in Nat /\ AttemptTime \in Nat
  /\ \A k \in Kinds : k \in {"ready", "attachment", "document"}
BY TimeoutAssumption, IntervalAssumption, MinIntervalAssumption,
   AttemptTimeAssumption, KindsAssumption

\* What parse_retry_after returns, in ticks.
LEMMA ParsedType ==
  ASSUME NEW header \in Headers
  PROVE  ParseRetryAfter(header) \in Int
<1>1. header.kind \in {"absent", "seconds", "date"} /\ header.value \in Int
  BY HeadersAssumption DEF Header, NoHeader
<1>2. header.value * Second \in Int
  BY <1>1, SecondAssumption
<1>3. QED
  BY <1>1, <1>2 DEF ParseRetryAfter, Most, None

\* Two instants added.
LEMMA SumType ==
  ASSUME NEW a \in Nat, NEW b \in Nat
  PROVE  a + b \in Nat
OBVIOUS

\* A sleep cut at the deadline ends by the deadline.
LEMMA CutSleep ==
  ASSUME NEW e \in Nat, NEW pause \in Nat, e < Timeout
  PROVE  e + Least(pause, Timeout - e) \in Nat /\ e + Least(pause, Timeout - e) <= Timeout
BY WaitConstants DEF Least

\* After an answer that is not final the wait is over or sleeps, and the sleep
\* ends in time.
LEMMA NotYetEnds ==
  ASSUME NEW delay \in Int, Elapsed' \in Nat, kind \in Kinds, until \in Nat,
         outcome \in {"none", "returned", "timeout", "raised"},
         kind = "attachment" => delay = Interval, NotYet(delay)
  PROVE  /\ phase' \in {"over", "waiting"}
         /\ outcome' \in {"none", "returned", "timeout", "raised"}
         /\ until' \in Nat
         /\ phase' = "waiting" => until' <= LatestPoll
<1>0. PICK e \in Nat : e = Elapsed'
  OBVIOUS
<1>1. CASE Elapsed' >= Timeout
  BY <1>1 DEF NotYet, Finish
<1>2. CASE ~(Elapsed' >= Timeout)
  <2>1. /\ phase' = "waiting" /\ outcome' = outcome
        /\ until' = e + Pause(delay) /\ e < Timeout
    BY <1>0, <1>2, WaitConstants DEF NotYet, SleepFor
  <2>2. CASE kind = "attachment"
    <3>1. until' = e + Interval
      BY <2>1, <2>2 DEF Pause
    <3>2. until' \in Nat /\ until' <= LatestPoll
      BY <2>1, <2>2, <3>1, WaitConstants DEF LatestPoll
    <3>3. QED
      BY <2>1, <3>2
  <2>3. CASE kind # "attachment"
    <3>1. until' = e + Least(Most(delay, MinInterval), Timeout - e)
      BY <1>0, <2>1, <2>3 DEF Pause, PauseCut
    <3>2. Most(delay, MinInterval) \in Nat
      BY WaitConstants DEF Most
    <3>3. until' \in Nat /\ until' <= Timeout
      BY <2>1, <3>1, <3>2, CutSleep
    <3>4. QED
      BY <2>1, <2>3, <3>3 DEF LatestPoll
  <2>4. QED
    BY <2>2, <2>3
<1>3. QED
  BY <1>1, <1>2

\* A step of the call under way keeps the invariant of RetryTiming.
LEMMA CallStep ==
  ASSUME WInv, Next, UNCHANGED <<kind, base, server>>,
         /\ phase = "calling"
         /\ phase' \in {"calling", "over", "waiting"}
         /\ outcome' \in {"none", "returned", "timeout", "raised"}
         /\ until' \in Nat
         /\ phase' = "waiting" => until' <= LatestPoll
  PROVE  WInv'
<1>1. IInv'
  BY IInvStep DEF WInv
<1>2. LatestCall' = LatestCall /\ LatestPoll' = LatestPoll
  BY DEF LatestCall, LatestPoll
<1>3. QED
  BY <1>1, <1>2 DEF WInv, WaitTypeOK, Starts, IInv

\* Every action of a wait keeps the invariant.
LEMMA WInvStep ==
  ASSUME WInv, [WaitNext]_allVars
  PROVE  WInv'
<1>0. /\ base \in Nat /\ now \in Nat /\ until \in Nat /\ kind \in Kinds
      /\ outcome \in {"none", "returned", "timeout", "raised"}
  BY DEF WInv, WaitTypeOK, TypeOK
<1>1. ASSUME NEW took \in 0..AttemptTime, Probe(took)
      PROVE  WInv'
  <2>1. /\ took \in Nat /\ took <= AttemptTime
        /\ kind = "ready" /\ base <= Timeout /\ pc = "ready" /\ attempt = 0 /\ now = 0
    BY <1>1, WaitConstants DEF Probe, WInv, Starts
  <2>2. IInv' /\ TypeOK'
    BY <1>1 DEF Probe, vars, WInv, IInv, TypeOK, SleepWithinJitter, Clock
  <2>3. base' \in Nat /\ base' <= LatestCall' /\ LatestPoll' = LatestPoll
    BY <1>0, <1>1, <2>1, WaitConstants DEF Probe, LatestCall, LatestPoll
  <2>4. Elapsed' \in Nat
    BY <1>0, <1>1, <2>3 DEF Probe, Elapsed, vars
  <2>5. CASE phase' = "calling" /\ UNCHANGED <<until, outcome>>
    BY <1>0, <1>1, <2>2, <2>3, <2>5 DEF Probe, WInv, WaitTypeOK, Starts
  <2>6. ASSUME NEW delay \in Int, NotYet(delay)
        PROVE  WInv'
    <3>1. /\ phase' \in {"over", "waiting"}
          /\ outcome' \in {"none", "returned", "timeout", "raised"}
          /\ until' \in Nat
          /\ phase' = "waiting" => until' <= LatestPoll
      BY <1>0, <2>1, <2>4, <2>6, NotYetEnds
    <3>2. QED
      BY <1>1, <2>2, <2>3, <3>1 DEF Probe, WInv, WaitTypeOK, Starts
  <2>7. QED
    BY <1>1, <2>5, <2>6, ParsedType, WaitConstants DEF Probe
<1>2. ASSUME NEW took \in 0..AttemptTime, Trouble(took)
      PROVE  WInv'
  <2>1. Next
    BY <1>2 DEF Trouble, Next
  <2>2. QED
    BY <1>0, <1>2, <2>1, CallStep DEF Trouble, Finish
<1>3. ASSUME NEW took \in 0..AttemptTime, Answer(took)
      PROVE  WInv'
  <2>1. Next
    BY <1>3 DEF Answer, Next
  <2>2. Elapsed' \in Nat
    <3>1. now' \in Nat
      BY <1>0, <1>3, WaitConstants DEF Answer, Answered
    <3>2. base' = base
      BY <1>3 DEF Answer
    <3>3. base' \in Nat
      BY <1>0, <3>2
    <3>4. base' + now' \in Nat
      BY <3>1, <3>3, SumType
    <3>5. QED
      BY <3>4 DEF Elapsed
  <2>3. CASE \E result \in {"returned", "raised"} : Finish(result)
    BY <1>0, <1>3, <2>1, <2>3, CallStep DEF Answer, Finish
  <2>4. CASE NotYet(Interval)
    <3>1. /\ phase' \in {"over", "waiting"}
          /\ outcome' \in {"none", "returned", "timeout", "raised"}
          /\ until' \in Nat
          /\ phase' = "waiting" => until' <= LatestPoll
      BY <1>0, <2>2, <2>4, NotYetEnds, WaitConstants
    <3>2. QED
      BY <1>3, <2>1, <3>1, CallStep DEF Answer
  <2>5. QED
    BY <1>3, <2>3, <2>4 DEF Answer
<1>4. ASSUME Retry
      PROVE  WInv'
  <2>1. Next
    BY <1>4 DEF Retry, Next
  <2>2. QED
    BY <1>0, <1>4, <2>1, CallStep DEF Retry, waitVars
<1>5. ASSUME Poll
      PROVE  WInv'
  <2>1. until <= LatestPoll
    BY <1>5 DEF Poll, WInv, Starts
  <2>2. TypeOK'
    BY <1>5, RetriesAssumption DEF Poll, TypeOK
  <2>3. Clock'
    <3>1. 0 * Round = 0
      BY RoundType
    <3>2. QED
      BY <1>5, <3>1 DEF Poll, Clock
  <2>4. IInv'
    BY <1>5, <2>2, <2>3 DEF Poll, IInv, SleepWithinJitter
  <2>5. base' \in Nat /\ base' <= LatestCall' /\ (kind = "ready" => base' <= Timeout)
    BY <1>0, <1>5, <2>1, WaitConstants DEF Poll, LatestPoll, LatestCall
  <2>6. WaitTypeOK'
    BY <1>0, <1>5, <2>2, <2>5 DEF Poll, WaitTypeOK, FirstPhase, WInv
  <2>7. Starts'
    BY <1>5, <2>5 DEF Poll, Starts, FirstPhase
  <2>8. QED
    BY <2>4, <2>6, <2>7 DEF WInv
<1>6. ASSUME Complete \/ Restart
      PROVE  WInv'
  <2>1. /\ UNCHANGED <<vars, kind, phase, base, until, outcome>>
        /\ server' \in {"busy", "done", "gone"}
    BY <1>6 DEF Complete, Restart
  <2>2. IInv' /\ TypeOK'
    BY <2>1 DEF vars, WInv, IInv, TypeOK, SleepWithinJitter, Clock
  <2>3. Starts'
    BY <2>1 DEF vars, WInv, Starts, LatestCall, LatestPoll
  <2>4. QED
    BY <2>1, <2>2, <2>3 DEF WInv, WaitTypeOK
<1>7. CASE UNCHANGED allVars
  <2>1. IInv' /\ TypeOK'
    BY <1>7 DEF allVars, vars, WInv, IInv, TypeOK, SleepWithinJitter, Clock
  <2>2. Starts'
    BY <1>7 DEF allVars, vars, waitVars, WInv, Starts, LatestCall, LatestPoll
  <2>3. QED
    BY <1>7, <2>1, <2>2 DEF allVars, waitVars, WInv, WaitTypeOK
<1>8. QED
  BY <1>1, <1>2, <1>3, <1>4, <1>5, <1>6, <1>7 DEF WaitNext, Client

\* WInv is an invariant of every wait.
THEOREM WaitInvariance == WaitSpec => []WInv
<1>1. WaitInit => WInv
  <2> SUFFICES ASSUME WaitInit PROVE WInv
    OBVIOUS
  <2>1. 0 * Round = 0
    BY RoundType
  <2>2. IInv
    BY <2>1, RetriesAssumption DEF WaitInit, Init, IInv, TypeOK, SleepWithinJitter, Clock
  <2>3. WaitTypeOK
    BY <2>2 DEF WaitInit, WaitTypeOK, FirstPhase, IInv
  <2>4. Starts
    BY WaitConstants DEF WaitInit, Init, Starts, FirstPhase, LatestCall
  <2>5. QED
    BY <2>2, <2>3, <2>4 DEF WInv
<1>2. WInv /\ [WaitNext]_allVars => WInv'
  BY WInvStep
<1>3. QED
  BY <1>1, <1>2, PTL DEF WaitSpec

\* WaitIsBounded: a wait holds its caller no longer than until the latest
\* start of its last call and the duration of one call.
THEOREM WaitsAreBounded == WaitSpec => []WaitIsBounded
<1>1. WInv => WaitIsBounded
  <2> SUFFICES ASSUME WInv PROVE WaitIsBounded
    OBVIOUS
  <2> DEFINE attempts == MaxRetries * (2 * AttemptTime)
             sleeps == (MaxRetries - 1) * (3 * MaxDelay)
  <2>1. 2 * now <= attempts + sleeps
    BY DurationFromClock DEF WInv, CallDuration
  <2>2. /\ base \in Nat /\ now \in Nat /\ base <= LatestCall
        /\ attempts \in Int /\ sleeps \in Int
    BY RetriesAssumption, DelaysAssumption, AttemptTimeAssumption
       DEF WInv, WaitTypeOK, TypeOK, Starts
  <2>3. LatestCall \in Nat
    BY WaitConstants DEF WInv, WaitTypeOK, LatestCall
  <2>4. WaitIsBounded <=> 2 * (base + now) <= 2 * LatestCall + attempts + sleeps
    BY DEF WaitIsBounded, Elapsed
  <2> HIDE DEF attempts, sleeps
  <2>5. QED
    BY <2>1, <2>2, <2>3, <2>4
<1>2. QED
  BY <1>1, WaitInvariance, PTL

\* NoFalseTimeout: a wait is given up only after its deadline, and a job only
\* when it had not ended before the last request about it.
THEOREM TimeoutsAreTrue == WaitSpec => NoFalseTimeout
<1>1. ASSUME [WaitNext]_allVars, outcome = "none", outcome' = "timeout", WInv
      PROVE  Elapsed' >= Timeout /\ (kind # "ready" => server = "busy")
  <2>1. ASSUME NEW delay, NotYet(delay)
        PROVE  Elapsed' >= Timeout
    BY <1>1, <2>1 DEF NotYet, SleepFor
  <2>2. ASSUME NEW took \in 0..AttemptTime, Probe(took)
        PROVE  Elapsed' >= Timeout /\ (kind # "ready" => server = "busy")
    BY <1>1, <2>1, <2>2 DEF Probe, WInv, Starts
  <2>3. ASSUME NEW took \in 0..AttemptTime, Answer(took)
        PROVE  Elapsed' >= Timeout /\ (kind # "ready" => server = "busy")
    BY <1>1, <2>1, <2>3 DEF Answer, Finish
  <2>4. ~(\E took \in 0..AttemptTime : Trouble(took))
    BY <1>1 DEF Trouble, Finish
  <2>5. ~(Retry \/ Poll \/ Complete \/ Restart \/ UNCHANGED allVars)
    BY <1>1 DEF Retry, Poll, Complete, Restart, allVars, waitVars
  <2>6. QED
    BY <1>1, <2>2, <2>3, <2>4, <2>5 DEF WaitNext, Client
<1>2. [WaitNext]_allVars /\ WInv
        => [outcome' = "timeout" /\ outcome = "none" =>
              Elapsed' >= Timeout /\ (kind # "ready" => server = "busy")]_allVars
  BY <1>1
<1>3. QED
  BY <1>2, WaitInvariance, PTL DEF WaitSpec, NoFalseTimeout

\* A step of a wait is one of the loop inside its call, or begins a call.
LEMMA WaitHonouredStep ==
  ASSUME WInv, Honoured, [WaitNext]_allVars
  PROVE  Honoured'
<1>1. ASSUME [Next]_vars PROVE Honoured'
  BY <1>1, HonouredStep DEF WInv
<1>2. ASSUME NEW took \in 0..AttemptTime, Probe(took) \/ Trouble(took) \/ Answer(took)
      PROVE  Honoured'
  BY <1>1, <1>2 DEF Probe, Trouble, Answer, Next
<1>3. CASE Retry
  BY <1>1, <1>3 DEF Retry, Next
<1>4. CASE Poll
  BY <1>4 DEF Poll, Honoured
<1>5. CASE Complete \/ Restart \/ UNCHANGED allVars
  BY <1>1, <1>5 DEF Complete, Restart, allVars
<1>6. QED
  BY <1>2, <1>3, <1>4, <1>5 DEF WaitNext, Client

\* Honoured is an invariant of every wait.
LEMMA WaitHonoured == WaitSpec => []Honoured
<1>1. WaitInit => Honoured
  BY DEF WaitInit, Init, Honoured
<1>2. WInv /\ Honoured /\ [WaitNext]_allVars => Honoured'
  BY WaitHonouredStep
<1>3. QED
  BY <1>1, <1>2, WaitInvariance, PTL DEF WaitSpec

\* RetryAfterHonoured: as long as servers name whole seconds, no attempt is
\* made before the time a 429 or 503 named, unless max_delay is shorter.
THEOREM RetryAfterIsHonoured ==
  ASSUME WholeHeaders
  PROVE  WaitSpec => RetryAfterHonoured
<1>1. Honoured /\ [WaitNext]_allVars
        => [Wake /\ notBefore # None =>
              now' >= notBefore \/ now' - now >= MaxDelay]_vars
  BY DEF Honoured, Wake
<1>2. QED
  BY <1>1, WaitHonoured, PTL DEF WaitSpec, RetryAfterHonoured

\* Whatever dates a server names, the next attempt comes less than a second
\* before that time at worst: what int() in RateLimitError cuts off.
THEOREM RetryAfterWithinASecond ==
  WaitSpec => [][Wake /\ notBefore # None =>
                   now' > notBefore - Second \/ now' - now >= MaxDelay]_vars
<1>1. Honoured /\ [WaitNext]_allVars
        => [Wake /\ notBefore # None =>
              now' > notBefore - Second \/ now' - now >= MaxDelay]_vars
  BY DEF Honoured, Wake
<1>2. QED
  BY <1>1, WaitHonoured, PTL DEF WaitSpec
=============================================================================
