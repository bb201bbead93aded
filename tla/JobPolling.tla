------------------------------ MODULE JobPolling ------------------------------
(***************************************************************************)
(* The waits of both clients: wait_until_ready, wait_for_transcription and *)
(* wait_for_index, wait_for_document_job.  Each asks the server, looks at  *)
(* the answer and then at its deadline, and sleeps.  The requests are      *)
(* calls of the retry loop, RetryTiming's, which take time of their own;   *)
(* only the readiness probe goes out without it.  The server finishes the  *)
(* job, or restarts and forgets it, whenever it likes.                     *)
(***************************************************************************)
EXTENDS RetryTiming

CONSTANTS
  Timeout,     \* the argument timeout, in ticks
  Interval,    \* the argument poll_interval
  MinInterval, \* _MIN_POLL_INTERVAL, and the 0.05 seconds of wait_until_ready
  Kinds        \* the waits considered

ASSUME TimeoutAssumption == Timeout \in Nat
ASSUME IntervalAssumption == Interval \in Nat
ASSUME MinIntervalAssumption == MinInterval \in Nat \ {0}
ASSUME KindsAssumption == Kinds \subseteq {"ready", "attachment", "document"}

VARIABLES
  kind,      \* which wait this is
  phase,     \* "probing", "calling", "waiting" (asleep) or "over"
  base,      \* when the current request began; the wait begins at 0
  until,     \* the end of the sleep between two polls
  outcome,   \* "none", or how the wait ended
  server     \* "busy", "done" (the job ended, the server is ready) or "gone"

waitVars == <<kind, phase, base, until, outcome, server>>
allVars == <<vars, waitVars>>

\* time.monotonic(), as the time since the wait began.
Elapsed == base + now

FirstPhase == IF kind = "ready" THEN "probing" ELSE "calling"

-----------------------------------------------------------------------------
WaitInit ==
  /\ Init
  /\ kind \in Kinds
  /\ phase = FirstPhase
  /\ base = 0
  /\ until = 0
  /\ outcome = "none"
  /\ server = "busy"

Finish(result) ==
  /\ phase' = "over"
  /\ outcome' = result
  /\ UNCHANGED until

SleepFor(pause) ==
  /\ phase' = "waiting"
  /\ until' = Elapsed' + pause
  /\ UNCHANGED outcome

\* Mutant: no shortest delay, so that Retry-After: 0 is asked again at once.
PauseBusy(delay) == Least(delay, Timeout - Elapsed')

\* max(0, min(max(delay, 0.05), deadline - now)) of wait_until_ready, and
\* min(max(poll_interval, 0.1), remaining) of wait_for_document_job.
PauseCut(delay) == Least(Most(delay, MinInterval), Timeout - Elapsed')

\* wait_for_transcription and wait_for_index sleep the interval as it is.
Pause(delay) == IF kind = "attachment" THEN delay ELSE PauseCut(delay)

\* Mutant: the deadline is never looked at.
NotYetPatient(delay) == SleepFor(IF Elapsed' >= Timeout THEN Interval ELSE Pause(delay))

\* The answer was not final: the deadline, then the sleep.
NotYet(delay) ==
  IF Elapsed' >= Timeout THEN Finish("timeout") ELSE SleepFor(Pause(delay))

\* _probe_ready: one request, no retries.  An unreachable server is not ready
\* and names no time; a 503 may.
Probe(took) ==
  /\ phase = "probing"
  /\ base' = base + took
  /\ UNCHANGED <<vars, kind, server>>
  /\ \/ server = "done" /\ phase' = "calling" /\ UNCHANGED <<until, outcome>>
     \/ NotYet(Interval)
     \/ \E header \in Headers :
          /\ server = "busy" /\ header # NoHeader
          /\ NotYet(ParseRetryAfter(header))

\* An attempt of a call fails; after the last one the exception ends the wait.
Trouble(took) ==
  /\ phase = "calling"
  /\ \/ \E status \in {429, 503}, header \in Headers : Refused(status, header, took)
     \/ Failed(took)
  /\ UNCHANGED <<kind, base, server>>
  /\ IF pc' = "done" THEN Finish("raised") ELSE UNCHANGED <<phase, until, outcome>>

\* Mutant: the deadline before the answer.
AnswerLate(took) ==
  /\ phase = "calling"
  /\ Answered(took)
  /\ UNCHANGED <<kind, base, server>>
  /\ IF server = "done" /\ Elapsed' < Timeout
       THEN Finish("returned")
       ELSE NotYet(Interval)

\* A call is answered: the job (or health_ready's body), JOB_NOT_FOUND once the
\* server restarted, or a job that is not is_done yet.
Answer(took) ==
  /\ phase = "calling"
  /\ Answered(took)
  /\ UNCHANGED <<kind, base, server>>
  /\ \/ server = "done" /\ Finish("returned")
     \/ server = "gone" /\ Finish("raised")
     \/ server = "busy" /\ kind # "ready" /\ NotYet(Interval)

\* The sleep of the retry loop ends.
Retry ==
  /\ phase = "calling"
  /\ Wake
  /\ UNCHANGED waitVars

\* The sleep between two polls ends and the next request begins.
Poll ==
  /\ phase = "waiting"
  /\ phase' = FirstPhase
  /\ base' = until
  /\ pc' = "ready" /\ attempt' = 0 /\ now' = 0 /\ wakeAt' = 0 /\ notBefore' = None
  /\ UNCHANGED <<kind, until, outcome, server>>

\* The job ends, in whatever way; the server becomes ready.
Complete ==
  /\ phase # "over" /\ server = "busy"
  /\ server' = "done"
  /\ UNCHANGED <<vars, kind, phase, base, until, outcome>>

\* Jobs live in the server's memory; a ready server may stop being ready.
Restart ==
  /\ phase # "over"
  /\ server' = IF kind = "ready" THEN "busy" ELSE "gone"
  /\ server' # server
  /\ UNCHANGED <<vars, kind, phase, base, until, outcome>>

Client ==
  \/ \E took \in 0..AttemptTime : Probe(took) \/ Trouble(took) \/ Answer(took)
  \/ Retry
  \/ Poll

WaitNext == Client \/ Complete \/ Restart

\* The client's thread runs, and every request ends: each has a timeout.
WaitSpec == WaitInit /\ [][WaitNext]_allVars /\ WF_allVars(Client)

-----------------------------------------------------------------------------
(* Properties.                                                             *)

\* The type of every variable; no request begins at a negative time.
WaitTypeOK ==
  /\ TypeOK
  /\ kind \in Kinds
  /\ phase \in {"probing", "calling", "waiting", "over"}
  /\ base \in Nat
  /\ until \in Nat
  /\ outcome \in {"none", "returned", "timeout", "raised"}
  /\ server \in {"busy", "done", "gone"}

\* A job is given up only after its deadline, and never when it had ended
\* before the last request about it was sent: the answer is looked at first.
NoFalseTimeout ==
  [][outcome' = "timeout" /\ outcome = "none" =>
       Elapsed' >= Timeout /\ (kind # "ready" => server = "busy")]_allVars

\* The latest start of the last call: a document's poll begins by the
\* deadline, an attachment's up to an interval after it, and health_ready
\* after a probe that began by then.
LatestCall ==
  Timeout + (CASE kind = "document" -> 0
               [] kind = "attachment" -> Interval
               [] kind = "ready" -> AttemptTime)

\* A wait holds its caller no longer than that and one call (CallDuration).
WaitIsBounded ==
  2 * Elapsed <= 2 * LatestCall
    + MaxRetries * (2 * AttemptTime) + (MaxRetries - 1) * (3 * MaxDelay)

\* Every wait ends, however long the job takes, whatever Retry-After a server
\* that is not ready names, and however often it changes its mind.
WaitEnds == <>(phase = "over")

\* The docstring of wait_until_ready: it blocks until /health/ready answers
\* 200 and returns its body, or raises TimeoutError.
ReadyAnswers == kind = "ready" => outcome # "raised"
=============================================================================
