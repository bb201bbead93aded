-------------------------- MODULE RequestRetryProofs --------------------------
(***************************************************************************)
(* Proofs about RequestRetry, for every set of calls and operations, every *)
(* max_retries, every set of statuses and both clients: the inductive      *)
(* invariant and what follows from it, then that RequestRetry implements   *)
(* RequestContract (every step of the loop, of the network and of the      *)
(* server is a step of the contract or leaves its state alone).            *)
(***************************************************************************)
EXTENDS RequestRetry, TLAPS

-----------------------------------------------------------------------------
(* The inductive invariant.                                                *)

\* What holds of attempt a of c once its request has left the client.  A
\* non-idempotent call has one such attempt at most, its current one, and has
\* none as long as it may still send.
SentBy(c, a) ==
  /\ pc[c] # "idle"
  /\ ~Idempotent(op[c]) => a = attempt[c] /\ pc[c] \in {"waiting", "done"}

\* The attempt a call is about to send is a new one.
Fresh(c, a) == a <= attempt[c] /\ (pc[c] = "ready" => a < attempt[c])

Attempts ==
  \A c \in Calls :
    /\ \A a \in executed[c] : SentBy(c, a) /\ Fresh(c, a)
    /\ \A m \in net : m.call = c =>
         /\ SentBy(c, m.attempt)
         /\ Fresh(c, m.attempt)
         /\ m.attempt \notin executed[c]

\* What a reply says about the attempt it answers.
Replies ==
  \A c \in Calls : pc[c] = "waiting" /\ reply[c] # NoReply =>
    /\ \A m \in net : ~(m.call = c /\ m.attempt = attempt[c])
    /\ Success(reply[c]) => attempt[c] \in executed[c]
    /\ ~Success(reply[c]) /\ ErrorFromResponse(reply[c]) \in Refusals =>
         attempt[c] \notin executed[c]

\* The place in the loop, and what has been returned.
LoopBounds ==
  \A c \in Calls :
    /\ pc[c] \in {"ready", "waiting"} => attempt[c] < MaxRetries
    /\ pc[c] = "sleeping" => attempt[c] + 1 < MaxRetries
    /\ pc[c] = "done" <=> result[c] # NoResult

IInv ==
  TypeOK /\ Attempts /\ Replies /\ LoopBounds /\ OkMeansDone
    /\ DefiniteAnswer /\ RetriesRaise

-----------------------------------------------------------------------------
(* Lemmas about the operators of RetryPolicy.                              *)

\* Every error status becomes an exception of the client's hierarchy.
LEMMA ErrorClasses ==
  ASSUME NEW s \in 200..599
  PROVE  ErrorFromResponse(s) \in ResponseErrors
BY DEF ErrorFromResponse, ResponseErrors

\* The classification of a request is a truth value.
LEMMA IdempotentType ==
  ASSUME NEW o
  PROVE  Idempotent(o) \in BOOLEAN
BY RetryNonIdempotentAssumption DEF Idempotent, RetrySafe

\* For a response: the exception is the one of the status, and a request that
\* is not idempotent is tried again only after a refusal.
LEMMA ResponseVerdicts ==
  ASSUME NEW s \in 200..599, NEW i \in BOOLEAN
  PROVE  /\ ResponseVerdict(s, i).raises = ErrorFromResponse(s)
         /\ ResponseVerdict(s, i).again \in BOOLEAN
         /\ ResponseVerdict(s, i).again /\ ~i => ErrorFromResponse(s) \in Refusals
<1> DEFINE e == ErrorFromResponse(s)
<1>1. ResponseVerdict(s, i)
        = [raises |-> e,
           again |-> \/ e \in {"RateLimitError", "ServiceUnavailableError"}
                     \/ e = "ServerError" /\ i]
  BY DEF ResponseVerdict, Verdict
<1>2. {"RateLimitError", "ServiceUnavailableError"} \subseteq Refusals
  BY DEF Refusals, ResponseErrors
<1> HIDE DEF e
<1>3. QED
  BY <1>1, <1>2 DEF e

\* For a transport failure: after the request was sent, one that is not
\* idempotent is not tried again.
LEMMA TransportVerdicts ==
  ASSUME NEW f \in ConnectFailures \cup SentFailures, NEW i \in BOOLEAN
  PROVE  /\ TransportVerdict(f, i).raises \in TransportErrors
         /\ TransportVerdict(f, i).again \in BOOLEAN
         /\ f \in SentFailures /\ ~i => ~TransportVerdict(f, i).again
<1>1. CASE ClientKind = "sync"
  BY <1>1 DEF TransportVerdict, SyncVerdict, Verdict, TransportErrors,
              ConnectFailures, SentFailures
<1>2. CASE ClientKind # "sync"
  BY <1>2 DEF TransportVerdict, AsyncVerdict, Verdict, TransportErrors,
              ConnectFailures, SentFailures
<1>3. QED
  BY <1>1, <1>2

-----------------------------------------------------------------------------
(* Type correctness.                                                       *)

\* What a clause of the loop does to the two variables it writes.
LEMMA ConcludeType ==
  ASSUME TypeOK, NEW c \in Calls, NEW verdict,
         verdict.raises \in ResponseErrors \cup TransportErrors,
         Conclude(c, verdict)
  PROVE  /\ pc' \in [Calls -> {"idle", "ready", "waiting", "sleeping", "done"}]
         /\ result' \in [Calls -> Results]
BY DEF TypeOK, Conclude, Return, Results

\* Every action keeps every variable in its type.
LEMMA TypingStep ==
  ASSUME TypeOK, [Next]_vars
  PROVE  TypeOK'
<1>1. ASSUME NEW c \in Calls, Call(c)
      PROVE  TypeOK'
  BY <1>1 DEF Call, NextRound, Return, TypeOK, Results
<1>2. ASSUME NEW c \in Calls, FailConnect(c)
      PROVE  TypeOK'
  <2>1. PICK failure \in ConnectFailures :
          Conclude(c, TransportVerdict(failure, Idempotent(op[c])))
    BY <1>2 DEF FailConnect
  <2>2. TransportVerdict(failure, Idempotent(op[c])).raises \in TransportErrors
    BY IdempotentType, TransportVerdicts
  <2>3. QED
    BY <1>2, <2>1, <2>2, ConcludeType DEF FailConnect, TypeOK
<1>3. ASSUME NEW c \in Calls, Send(c)
      PROVE  TypeOK'
  BY <1>3 DEF Send, TypeOK, Message
<1>4. ASSUME NEW c \in Calls, Receive(c)
      PROVE  TypeOK'
  <2>1. reply[c] \in Statuses
    BY <1>4 DEF Receive, TypeOK
  <2>2. CASE Success(reply[c])
    BY <1>4, <2>1, <2>2 DEF Receive, Return, TypeOK, Results
  <2>3. CASE ~Success(reply[c])
    <3>1. ResponseVerdict(reply[c], Idempotent(op[c])).raises \in ResponseErrors
      BY <2>1, StatusesAssumption, IdempotentType, ResponseVerdicts, ErrorClasses
    <3>2. QED
      BY <1>4, <2>1, <2>3, <3>1, ConcludeType DEF Receive, TypeOK
  <2>4. QED
    BY <2>2, <2>3
<1>5. ASSUME NEW c \in Calls, NEW failure \in SentFailures, Abandon(c, failure)
      PROVE  TypeOK'
  <2>1. TransportVerdict(failure, Idempotent(op[c])).raises \in TransportErrors
    BY IdempotentType, TransportVerdicts
  <2>2. QED
    BY <1>5, <2>1, ConcludeType DEF Abandon, TypeOK
<1>6. ASSUME NEW c \in Calls, Wake(c)
      PROVE  TypeOK'
  BY <1>6 DEF Wake, NextRound, Return, TypeOK, Results
<1>7. ASSUME NEW m \in net, NEW status \in Statuses, Execute(m, status)
      PROVE  TypeOK'
  <2>1. m \in Message
    BY DEF TypeOK
  <2>2. reply' \in [Calls -> Statuses \cup {NoReply}]
    BY <1>7, <2>1 DEF Execute, Respond, TypeOK
  <2>3. stored' \in Calls \cup {"initial", "absent"}
    BY <1>7, <2>1 DEF Execute, TypeOK, Message
  <2>4. executed' \in [Calls -> SUBSET Nat]
    BY <1>7, <2>1 DEF Execute, TypeOK, Message
  <2>5. QED
    BY <1>7, <2>2, <2>3, <2>4 DEF Execute, TypeOK
<1>8. ASSUME NEW m \in net, NEW status \in Statuses, Refuse(m, status)
      PROVE  TypeOK'
  <2>1. m \in Message
    BY DEF TypeOK
  <2>2. reply' \in [Calls -> Statuses \cup {NoReply}]
    BY <1>8, <2>1 DEF Refuse, Respond, TypeOK
  <2>3. QED
    BY <1>8, <2>2 DEF Refuse, TypeOK
<1>9. CASE UNCHANGED vars
  BY <1>9 DEF vars, TypeOK
<1>10. QED
  BY <1>1, <1>2, <1>3, <1>4, <1>5, <1>6, <1>7, <1>8, <1>9 DEF Next, Advance, Serve

\* TypeOK: the variables keep their types.
THEOREM TypeCorrect == Spec => []TypeOK
<1>1. Init => TypeOK
  BY DEF Init, TypeOK, Results
<1>2. TypeOK /\ [Next]_vars => TypeOK'
  BY TypingStep
<1>3. QED
  BY <1>1, <1>2, PTL DEF Spec

-----------------------------------------------------------------------------
(* The inductive step.                                                     *)

NoneSent(c) == executed[c] = {} /\ \A m \in net : m.call # c

\* A non-idempotent call that may still send has sent nothing so far.
LEMMA UnsentWhileReady ==
  ASSUME Attempts, NEW c \in Calls, ~Idempotent(op[c]),
         pc[c] \notin {"waiting", "done"}
  PROVE  NoneSent(c)
BY DEF Attempts, SentBy, NoneSent

\* A refusal received for a non-idempotent call: nothing was carried out, and
\* nothing is under way.
LEMMA RefusedUnsent ==
  ASSUME TypeOK, Attempts, Replies, NEW c \in Calls, ~Idempotent(op[c]),
         pc[c] = "waiting", reply[c] # NoReply, ~Success(reply[c]),
         ErrorFromResponse(reply[c]) \in Refusals
  PROVE  NoneSent(c)
BY DEF Attempts, SentBy, Replies, NoneSent

\* The end of an except clause keeps the invariant, if a non-idempotent call
\* that goes on, or that reports a refusal, has sent nothing.
LEMMA ConcludeStep ==
  ASSUME IInv, NEW c \in Calls, NEW verdict,
         verdict.raises \in ResponseErrors \cup TransportErrors,
         Conclude(c, verdict),
         pc[c] \in {"ready", "waiting"},
         ~Idempotent(op[c]) /\ verdict.again => NoneSent(c),
         ~Idempotent(op[c]) /\ verdict.raises \in Refusals => NoneSent(c),
         UNCHANGED <<op, attempt, net, reply, executed>>
  PROVE  /\ Attempts' /\ Replies' /\ LoopBounds'
         /\ OkMeansDone' /\ DefiniteAnswer' /\ RetriesRaise'
<1>1. \A d \in Calls \ {c} : pc'[d] = pc[d] /\ result'[d] = result[d]
  BY DEF Conclude, Return, IInv, TypeOK
<1>2. \/ /\ pc'[c] = "done" /\ result'[c] = verdict.raises
      \/ /\ pc'[c] = "sleeping" /\ result'[c] = result[c]
         /\ verdict.again /\ ~LastAttempt(c)
  BY DEF Conclude, Return, IInv, TypeOK
<1>3. \A d \in Calls : Idempotent(op'[d]) = Idempotent(op[d])
  OBVIOUS
<1>4. result[c] = NoResult
  BY DEF IInv, LoopBounds
<1>5. Attempts'
  <2> SUFFICES ASSUME NEW d \in Calls
               PROVE  /\ \A a \in executed[d] : (SentBy(d, a) /\ Fresh(d, a))'
                      /\ \A m \in net : m.call = d =>
                           /\ SentBy(d, m.attempt)' /\ Fresh(d, m.attempt)'
                           /\ m.attempt \notin executed[d]
    BY DEF Attempts
  <2>1. CASE d # c
    BY <2>1, <1>1, <1>3 DEF IInv, Attempts, SentBy, Fresh
  <2>2. CASE d = c
    BY <2>2, <1>2, <1>3 DEF IInv, Attempts, SentBy, Fresh, NoneSent
  <2>3. QED
    BY <2>1, <2>2
<1>6. Replies'
  BY <1>1, <1>2 DEF IInv, Replies
<1>7. LoopBounds'
  <2>1. attempt[c] \in Nat /\ attempt[c] < MaxRetries
    BY DEF IInv, TypeOK, LoopBounds
  <2>2. pc'[c] = "sleeping" => attempt[c] + 1 < MaxRetries
    BY <1>2, <2>1, MaxRetriesAssumption DEF LastAttempt
  <2>3. pc'[c] = "done" <=> result'[c] # NoResult
    BY <1>2, <1>4 DEF NoResult, ResponseErrors, TransportErrors
  <2>4. QED
    BY <1>1, <1>2, <2>2, <2>3 DEF IInv, LoopBounds
<1>8. OkMeansDone' /\ RetriesRaise'
  BY <1>1, <1>2 DEF IInv, OkMeansDone, RetriesRaise, ResponseErrors, TransportErrors
<1>9. DefiniteAnswer'
  <2>1. result'[c] \in Refusals \cup {"ok", "RetriesExhausted"} =>
          result'[c] = verdict.raises /\ verdict.raises \in Refusals
    BY <1>2, <1>4 DEF NoResult, Refusals, ResponseErrors, TransportErrors
  <2>2. QED
    BY <1>1, <1>3, <2>1 DEF IInv, DefiniteAnswer, NoneSent
<1>10. QED
  BY <1>5, <1>6, <1>7, <1>8, <1>9

\* Every action keeps the invariant.
LEMMA IInvStep ==
  ASSUME IInv, [Next]_vars
  PROVE  IInv'
<1> DEFINE Rest == /\ Attempts /\ Replies /\ LoopBounds
                   /\ OkMeansDone /\ DefiniteAnswer /\ RetriesRaise
<1>0. TypeOK'
  BY TypingStep DEF IInv
<1>1. ASSUME NEW c \in Calls, Call(c)
      PROVE  Rest'
  <2>1. pc[c] = "idle" /\ NoneSent(c) /\ 0 \in Nat
    BY <1>1 DEF Call, IInv, Attempts, SentBy, NoneSent
  <2>2. Attempts'
    BY <1>1, <2>1 DEF Call, NextRound, Return, IInv, TypeOK, Attempts, SentBy,
                      Fresh, NoneSent
  <2>3. Replies'
    BY <1>1 DEF Call, NextRound, Return, IInv, TypeOK, Replies
  <2>4. LoopBounds'
    BY <1>1 DEF Call, NextRound, Return, IInv, TypeOK, LoopBounds, NoResult
  <2>5. OkMeansDone' /\ RetriesRaise'
    BY <1>1, MaxRetriesAssumption
       DEF Call, NextRound, Return, IInv, TypeOK, OkMeansDone, RetriesRaise
  <2>6. DefiniteAnswer'
    BY <1>1, <2>1 DEF Call, NextRound, Return, IInv, TypeOK, DefiniteAnswer,
                      NoneSent, Refusals, ResponseErrors
  <2>7. QED
    BY <2>2, <2>3, <2>4, <2>5, <2>6
<1>2. ASSUME NEW c \in Calls, FailConnect(c)
      PROVE  Rest'
  <2>1. PICK failure \in ConnectFailures :
          Conclude(c, TransportVerdict(failure, Idempotent(op[c])))
    BY <1>2 DEF FailConnect
  <2> DEFINE v == TransportVerdict(failure, Idempotent(op[c]))
  <2>2. v.raises \in TransportErrors
    BY IdempotentType, TransportVerdicts
  <2>3. ~Idempotent(op[c]) => NoneSent(c)
    BY <1>2, UnsentWhileReady DEF FailConnect, IInv
  <2> HIDE DEF v
  <2>4. Conclude(c, v)
    BY <2>1 DEF v
  <2>5. QED
    BY <1>2, <2>2, <2>3, <2>4, ConcludeStep DEF FailConnect
<1>3. ASSUME NEW c \in Calls, Send(c)
      PROVE  Rest'
  <2>1. attempt[c] \in Nat /\ pc[c] = "ready" /\ pc'[c] = "waiting"
    BY <1>3 DEF Send, IInv, TypeOK
  <2>2. /\ \A a \in executed[c] : a < attempt[c]
        /\ \A m \in net : m.call = c => m.attempt < attempt[c]
    BY <2>1 DEF IInv, Attempts, Fresh
  <2>3. ~Idempotent(op[c]) => NoneSent(c)
    BY <2>1, UnsentWhileReady DEF IInv
  <2>4. Attempts'
    <3> SUFFICES ASSUME NEW d \in Calls
                 PROVE  /\ \A a \in executed'[d] : (SentBy(d, a) /\ Fresh(d, a))'
                        /\ \A m \in net' : m.call = d =>
                             /\ SentBy(d, m.attempt)' /\ Fresh(d, m.attempt)'
                             /\ m.attempt \notin executed'[d]
      BY DEF Attempts
    <3>1. CASE d # c
      BY <3>1, <1>3 DEF Send, IInv, TypeOK, Attempts, SentBy, Fresh
    <3>2. CASE d = c
      <4>1. \A m \in net : m.call = c => m.attempt \notin executed[c]
        BY DEF IInv, Attempts
      <4>2. attempt[c] \notin executed[c] /\ attempt[c] <= attempt[c]
        BY <2>1, <2>2
      <4>3. QED
        BY <3>2, <1>3, <2>1, <2>2, <2>3, <4>1, <4>2
           DEF Send, SentBy, Fresh, NoneSent, IInv, TypeOK, Attempts
    <3>3. QED
      BY <3>1, <3>2
  <2>5. Replies'
    BY <1>3 DEF Send, IInv, TypeOK, Replies
  <2>6. LoopBounds'
    BY <1>3 DEF Send, IInv, TypeOK, LoopBounds
  <2>7. OkMeansDone' /\ RetriesRaise'
    BY <1>3 DEF Send, IInv, OkMeansDone, RetriesRaise
  <2>8. DefiniteAnswer'
    <3>1. result[c] = NoResult
      BY <2>1 DEF IInv, LoopBounds
    <3>2. result[c] \notin Refusals \cup {"ok", "RetriesExhausted"}
      BY <3>1 DEF NoResult, Refusals, ResponseErrors
    <3>3. QED
      BY <1>3, <3>2 DEF Send, IInv, DefiniteAnswer
  <2>9. QED
    BY <2>4, <2>5, <2>6, <2>7, <2>8
<1>4. ASSUME NEW c \in Calls, Receive(c)
      PROVE  Rest'
  <2>1. reply[c] \in 200..599 /\ pc[c] = "waiting" /\ reply[c] # NoReply
    BY <1>4, StatusesAssumption DEF Receive, IInv, TypeOK
  <2>2. CASE Success(reply[c])
    <3>1. /\ attempt[c] \in executed[c]
          /\ \A m \in net : ~(m.call = c /\ m.attempt = attempt[c])
      BY <2>1, <2>2 DEF IInv, Replies
    <3>2. /\ pc' = [pc EXCEPT ![c] = "done"] /\ result' = [result EXCEPT ![c] = "ok"]
          /\ UNCHANGED <<op, attempt, net, reply, executed>>
      BY <1>4, <2>2 DEF Receive, Return
    <3>3. Attempts'
      BY <2>1, <3>2 DEF IInv, TypeOK, Attempts, SentBy, Fresh
    <3>4. Replies'
      BY <3>2 DEF IInv, TypeOK, Replies
    <3>5. LoopBounds'
      BY <3>2 DEF IInv, TypeOK, LoopBounds, NoResult
    <3>6. OkMeansDone' /\ RetriesRaise'
      BY <3>1, <3>2 DEF IInv, TypeOK, OkMeansDone, RetriesRaise
    <3>7. ~Idempotent(op[c]) => \A m \in net : m.call # c
      BY <3>1 DEF IInv, Attempts, SentBy
    <3>8. DefiniteAnswer'
      BY <3>2, <3>7 DEF IInv, TypeOK, DefiniteAnswer, Refusals, ResponseErrors
    <3>9. QED
      BY <3>3, <3>4, <3>5, <3>6, <3>8
  <2>3. CASE ~Success(reply[c])
    <3> DEFINE v == ResponseVerdict(reply[c], Idempotent(op[c]))
    <3>1. /\ v.raises = ErrorFromResponse(reply[c])
          /\ v.raises \in ResponseErrors
          /\ v.again /\ ~Idempotent(op[c]) => ErrorFromResponse(reply[c]) \in Refusals
      BY <2>1, IdempotentType, ResponseVerdicts, ErrorClasses
    <3>2. ~Idempotent(op[c]) /\ ErrorFromResponse(reply[c]) \in Refusals => NoneSent(c)
      BY <2>1, <2>3, RefusedUnsent DEF IInv
    <3>3. Conclude(c, v) /\ UNCHANGED <<op, attempt, net, reply, executed>>
      BY <1>4, <2>3 DEF Receive
    <3> HIDE DEF v
    <3>4. QED
      BY <2>1, <3>1, <3>2, <3>3, ConcludeStep
  <2>4. QED
    BY <2>2, <2>3
<1>5. ASSUME NEW c \in Calls, NEW failure \in SentFailures, Abandon(c, failure)
      PROVE  Rest'
  <2> DEFINE v == TransportVerdict(failure, Idempotent(op[c]))
  <2>1. /\ v.raises \in TransportErrors
        /\ ~Idempotent(op[c]) => ~v.again
    BY IdempotentType, TransportVerdicts
  <2>2. Conclude(c, v) /\ pc[c] = "waiting" /\ UNCHANGED <<op, attempt, net, reply, executed>>
    BY <1>5 DEF Abandon
  <2>3. v.raises \notin Refusals
    BY <2>1 DEF TransportErrors, Refusals, ResponseErrors
  <2> HIDE DEF v
  <2>4. QED
    BY <2>1, <2>2, <2>3, ConcludeStep
<1>6. ASSUME NEW c \in Calls, Wake(c)
      PROVE  Rest'
  <2>1. /\ pc[c] = "sleeping" /\ attempt[c] \in Nat
        /\ attempt[c] + 1 < MaxRetries /\ result[c] = NoResult
    BY <1>6 DEF Wake, IInv, TypeOK, LoopBounds
  <2>2. /\ pc' = [pc EXCEPT ![c] = "ready"]
        /\ attempt' = [attempt EXCEPT ![c] = attempt[c] + 1]
        /\ UNCHANGED <<op, result, net, reply, executed>>
    BY <1>6, <2>1 DEF Wake, NextRound
  <2>3. ~Idempotent(op[c]) => NoneSent(c)
    BY <2>1, UnsentWhileReady DEF IInv
  <2>4. Attempts'
    <3> SUFFICES ASSUME NEW d \in Calls
                 PROVE  /\ \A a \in executed[d] : (SentBy(d, a) /\ Fresh(d, a))'
                        /\ \A m \in net : m.call = d =>
                             /\ SentBy(d, m.attempt)' /\ Fresh(d, m.attempt)'
                             /\ m.attempt \notin executed[d]
      BY <2>2 DEF Attempts
    <3>1. CASE d # c
      BY <3>1, <2>2 DEF IInv, TypeOK, Attempts, SentBy, Fresh
    <3>2. CASE d = c
      <4>1. \A a \in executed[c] : a \in Nat
        BY DEF IInv, TypeOK
      <4>2. \A m \in net : m.attempt \in Nat
        BY DEF IInv, TypeOK, Message
      <4>3. \A a \in Nat : a <= attempt[c] => a < attempt[c] + 1 /\ a <= attempt[c] + 1
        BY <2>1
      <4>4. pc'[c] = "ready" /\ attempt'[c] = attempt[c] + 1
        BY <2>2 DEF IInv, TypeOK
      <4>5. QED
        BY <3>2, <2>2, <2>3, <4>1, <4>2, <4>3, <4>4
           DEF IInv, Attempts, SentBy, Fresh, NoneSent
    <3>3. QED
      BY <3>1, <3>2
  <2>5. Replies'
    BY <2>2 DEF IInv, TypeOK, Replies
  <2>6. LoopBounds'
    BY <2>1, <2>2 DEF IInv, TypeOK, LoopBounds
  <2>7. OkMeansDone' /\ RetriesRaise' /\ DefiniteAnswer'
    BY <2>2 DEF IInv, OkMeansDone, RetriesRaise, DefiniteAnswer
  <2>8. QED
    BY <2>4, <2>5, <2>6, <2>7
<1>7. ASSUME NEW m \in net, NEW status \in Statuses, Execute(m, status)
      PROVE  Rest'
  <2> DEFINE c == m.call
  <2>1. /\ c \in Calls /\ m.attempt \in Nat
        /\ m = [call |-> c, attempt |-> m.attempt]
    BY DEF IInv, TypeOK, Message
  <2>2. /\ SentBy(c, m.attempt) /\ Fresh(c, m.attempt)
    BY <2>1 DEF IInv, Attempts
  <2> HIDE DEF c
  <2>3. /\ executed' = [executed EXCEPT ![c] = @ \cup {m.attempt}]
        /\ net' = net \ {m}
        /\ UNCHANGED <<op, pc, attempt, result>>
        /\ Success(status) \/ ErrorFromResponse(status) = "ServerError"
    BY <1>7 DEF Execute, Inconclusive, c
  <2>4. IF pc[c] = "waiting" /\ attempt[c] = m.attempt
          THEN reply' = [reply EXCEPT ![c] = status] ELSE UNCHANGED reply
    BY <1>7 DEF Execute, Respond, c
  <2>5. Attempts'
    <3> SUFFICES ASSUME NEW d \in Calls
                 PROVE  /\ \A a \in executed'[d] : SentBy(d, a) /\ Fresh(d, a)
                        /\ \A n \in net' : n.call = d =>
                             /\ SentBy(d, n.attempt) /\ Fresh(d, n.attempt)
                             /\ n.attempt \notin executed'[d]
      BY <2>3 DEF Attempts, SentBy, Fresh
    <3>1. \A n \in net : n = [call |-> n.call, attempt |-> n.attempt]
      BY DEF IInv, TypeOK, Message
    <3>2. \A n \in net' : n.call = c => n.attempt # m.attempt
      BY <2>1, <2>3, <3>1
    <3>3. QED
      BY <2>1, <2>2, <2>3, <3>2 DEF IInv, TypeOK, Attempts
  <2>6. Replies'
    <3> SUFFICES ASSUME NEW d \in Calls, pc[d] = "waiting", reply'[d] # NoReply
                 PROVE  /\ \A n \in net' : ~(n.call = d /\ n.attempt = attempt[d])
                        /\ Success(reply'[d]) => attempt[d] \in executed'[d]
                        /\ ~Success(reply'[d]) /\ ErrorFromResponse(reply'[d]) \in Refusals
                             => attempt[d] \notin executed'[d]
      BY <2>3 DEF Replies
    <3>1. CASE d = c /\ attempt[c] = m.attempt
      <4>1. reply'[c] = status
        BY <2>1, <2>4, <3>1 DEF IInv, TypeOK
      <4>2. \A n \in net : n = [call |-> n.call, attempt |-> n.attempt]
        BY DEF IInv, TypeOK, Message
      <4>3. "ServerError" \notin Refusals
        BY DEF Refusals
      <4>4. attempt[c] \in executed'[c]
        BY <2>1, <2>3, <3>1 DEF IInv, TypeOK
      <4>5. \A n \in net' : ~(n.call = d /\ n.attempt = attempt[d])
        BY <2>1, <2>3, <3>1, <4>2
      <4>6. QED
        BY <2>3, <3>1, <4>1, <4>3, <4>4, <4>5
    <3>2. CASE ~(d = c /\ attempt[c] = m.attempt)
      <4>1. reply'[d] = reply[d]
        BY <2>1, <2>4, <3>2 DEF IInv, TypeOK
      <4>2. attempt[d] \in executed'[d] <=> attempt[d] \in executed[d]
        BY <2>1, <2>3, <3>2 DEF IInv, TypeOK
      <4>3. QED
        BY <2>3, <4>1, <4>2 DEF IInv, Replies
    <3>3. QED
      BY <3>1, <3>2
  <2>7. LoopBounds' /\ RetriesRaise'
    BY <2>3 DEF IInv, LoopBounds, RetriesRaise
  <2>8. OkMeansDone'
    BY <2>1, <2>3 DEF IInv, TypeOK, OkMeansDone
  <2>9. DefiniteAnswer'
    <3>1. ~Idempotent(op[c]) => result[c] \notin Refusals
      BY <2>1 DEF IInv, DefiniteAnswer, c
    <3>2. QED
      BY <2>1, <2>3, <3>1 DEF IInv, TypeOK, DefiniteAnswer
  <2>10. QED
    BY <2>5, <2>6, <2>7, <2>8, <2>9
<1>8. ASSUME NEW m \in net, NEW status \in Statuses, Refuse(m, status)
      PROVE  Rest'
  <2> DEFINE c == m.call
  <2>1. /\ c \in Calls /\ m.attempt \in Nat
        /\ m = [call |-> c, attempt |-> m.attempt]
        /\ \A n \in net : n = [call |-> n.call, attempt |-> n.attempt]
    BY DEF IInv, TypeOK, Message
  <2>2. m.attempt \notin executed[c]
    BY <2>1 DEF IInv, Attempts
  <2> HIDE DEF c
  <2>3. /\ net' = net \ {m} /\ ~Success(status)
        /\ UNCHANGED <<op, pc, attempt, result, executed>>
    BY <1>8 DEF Refuse
  <2>4. IF pc[c] = "waiting" /\ attempt[c] = m.attempt
          THEN reply' = [reply EXCEPT ![c] = status] ELSE UNCHANGED reply
    BY <1>8 DEF Refuse, Respond, c
  <2>5. Attempts'
    BY <2>3 DEF IInv, Attempts, SentBy, Fresh
  <2>6. Replies'
    <3> SUFFICES ASSUME NEW d \in Calls, pc[d] = "waiting", reply'[d] # NoReply
                 PROVE  /\ \A n \in net' : ~(n.call = d /\ n.attempt = attempt[d])
                        /\ Success(reply'[d]) => attempt[d] \in executed[d]
                        /\ ~Success(reply'[d]) /\ ErrorFromResponse(reply'[d]) \in Refusals
                             => attempt[d] \notin executed[d]
      BY <2>3 DEF Replies
    <3>1. CASE d = c /\ attempt[c] = m.attempt
      <4>1. reply'[c] = status
        BY <2>1, <2>4, <3>1 DEF IInv, TypeOK
      <4>2. \A n \in net' : ~(n.call = d /\ n.attempt = attempt[d])
        BY <2>1, <2>3, <3>1
      <4>3. QED
        BY <2>2, <2>3, <3>1, <4>1, <4>2
    <3>2. CASE ~(d = c /\ attempt[c] = m.attempt)
      <4>1. reply'[d] = reply[d]
        BY <2>1, <2>4, <3>2 DEF IInv, TypeOK
      <4>2. QED
        BY <2>3, <4>1 DEF IInv, Replies
    <3>3. QED
      BY <3>1, <3>2
  <2>7. LoopBounds' /\ RetriesRaise' /\ OkMeansDone' /\ DefiniteAnswer'
    BY <2>3 DEF IInv, LoopBounds, RetriesRaise, OkMeansDone, DefiniteAnswer
  <2>8. QED
    BY <2>5, <2>6, <2>7
<1>9. ASSUME UNCHANGED vars
      PROVE  Rest'
  <2>1. Attempts' /\ Replies'
    BY <1>9 DEF vars, IInv, Attempts, SentBy, Fresh, Replies
  <2>2. LoopBounds' /\ OkMeansDone' /\ DefiniteAnswer' /\ RetriesRaise'
    BY <1>9 DEF vars, IInv, LoopBounds, OkMeansDone, DefiniteAnswer, RetriesRaise
  <2>3. QED
    BY <2>1, <2>2
<1>10. Rest'
  <2> HIDE DEF Rest
  <2>1. CASE Next
    BY <2>1, <1>1, <1>2, <1>3, <1>4, <1>5, <1>6, <1>7, <1>8 DEF Next, Advance, Serve
  <2>2. QED
    BY <2>1, <1>9
<1>11. QED
  BY <1>0, <1>10 DEF IInv

\* Before any call nothing was sent, answered or carried out.
LEMMA IInvInit == Init => IInv
<1> SUFFICES ASSUME Init PROVE IInv
  OBVIOUS
<1>1. TypeOK
  BY DEF Init, TypeOK, Results
<1>2. Attempts /\ Replies /\ LoopBounds
  BY DEF Init, Attempts, Replies, LoopBounds
<1>3. OkMeansDone /\ DefiniteAnswer /\ RetriesRaise
  BY DEF Init, OkMeansDone, DefiniteAnswer, RetriesRaise, NoResult, Refusals,
         ResponseErrors
<1>4. QED
  BY <1>1, <1>2, <1>3 DEF IInv

\* IInv is an invariant.
THEOREM Invariance == Spec => []IInv
<1>1. IInv /\ [Next]_vars => IInv'
  BY IInvStep
<1>2. QED
  BY IInvInit, <1>1, PTL DEF Spec

-----------------------------------------------------------------------------
(* What the callers of the client rely on.                                 *)

\* AtMostOnce: whatever is refused, lost, abandoned or served late, a request
\* that is not idempotent is carried out at most once.
THEOREM NoDuplicateExecution == Spec => []AtMostOnce
<1>1. IInv => AtMostOnce
  BY DEF IInv, Attempts, SentBy, AtMostOnce
<1>2. QED
  BY <1>1, Invariance, PTL

\* DefiniteAnswer: after a refusal a non-idempotent call has not been and will
\* not be carried out, and after a return nothing of it is under way.
THEOREM AnswersAreDefinite == Spec => []DefiniteAnswer
<1>1. IInv => DefiniteAnswer
  BY DEF IInv
<1>2. QED
  BY <1>1, Invariance, PTL

\* RetriesRaise: the statement after the loop is dead code unless max_retries
\* is 0.
THEOREM LoopNeverFallsThrough == Spec => []RetriesRaise
<1>1. IInv => RetriesRaise
  BY DEF IInv
<1>2. QED
  BY <1>1, Invariance, PTL

\* WritesOnce: if no operation that adds is classified as safe to retry, none
\* adds twice (of the whole catalogue, TLC checks WritesOnce itself).
THEOREM AddsAreNotRepeated ==
  ASSUME \A o \in Ops : o.effect = "add" => ~RetrySafe(o)
  PROVE  Spec => []WritesOnce
<1>1. IInv => WritesOnce
  BY DEF IInv, TypeOK, Attempts, SentBy, WritesOnce, Idempotent
<1>2. QED
  BY <1>1, Invariance, PTL

-----------------------------------------------------------------------------
(* The order of acknowledged writes, and which attempt fails.              *)

\* What was begun after a call had returned: that call stays returned, and if
\* it was an acknowledged write that is not retried, what is stored is not its
\* own any more once a later write was carried out.
Overwritten ==
  \A d \in Calls : \A c \in before[d] :
    /\ pc[c] = "done"
    /\ /\ ~Idempotent(op[c]) /\ result[c] = "ok"
       /\ op[d].effect = "set" /\ executed[d] # {}
       => stored # c

\* A call that has returned takes no step any more.
LEMMA DoneIsFinal ==
  ASSUME TypeOK, NEW c \in Calls, pc[c] = "done", [Next]_vars
  PROVE  pc'[c] = "done" /\ result'[c] = result[c]
<1>1. ASSUME NEW d \in Calls, Call(d)
      PROVE  pc'[c] = pc[c] /\ result'[c] = result[c]
  BY <1>1 DEF Call, NextRound, Return, TypeOK
<1>2. ASSUME NEW d \in Calls, FailConnect(d) \/ Send(d)
      PROVE  pc'[c] = pc[c] /\ result'[c] = result[c]
  BY <1>2 DEF FailConnect, Send, Conclude, Return, TypeOK
<1>3. ASSUME NEW d \in Calls, Receive(d)
      PROVE  pc'[c] = pc[c] /\ result'[c] = result[c]
  BY <1>3 DEF Receive, Conclude, Return, TypeOK
<1>4. ASSUME NEW d \in Calls, NEW failure \in SentFailures, Abandon(d, failure)
      PROVE  pc'[c] = pc[c] /\ result'[c] = result[c]
  BY <1>4 DEF Abandon, Conclude, Return, TypeOK
<1>5. ASSUME NEW d \in Calls, Wake(d)
      PROVE  pc'[c] = pc[c] /\ result'[c] = result[c]
  BY <1>5 DEF Wake, NextRound, Return, TypeOK
<1>6. CASE Serve \/ UNCHANGED vars
  BY <1>6 DEF Serve, Execute, Refuse, vars
<1>7. QED
  BY <1>1, <1>2, <1>3, <1>4, <1>5, <1>6 DEF Next, Advance

\* Every action keeps Overwritten.
LEMMA OverwrittenStep ==
  ASSUME IInv, Overwritten, [Next]_vars
  PROVE  Overwritten'
<1>0. TypeOK /\ UNCHANGED op
  BY DEF IInv, Next, Advance, Call, FailConnect, Send, Receive, Abandon, Wake,
         Serve, Execute, Refuse, vars
<1>1. ASSUME NEW e \in Calls, Call(e)
      PROVE  Overwritten'
  <2>1. executed[e] = {} /\ UNCHANGED <<executed, stored>>
    BY <1>1 DEF Call, IInv, Attempts, SentBy
  <2>2. \A d \in Calls \ {e} : before'[d] = before[d]
    BY <1>1 DEF Call, IInv, TypeOK
  <2>3. \A c \in before'[e] : c \in Calls /\ pc[c] = "done"
    BY <1>1 DEF Call, IInv, TypeOK
  <2>4. \A d \in Calls \ {e} : \A c \in before[d] : c \in Calls /\ pc[c] = "done"
    BY DEF Overwritten, IInv, TypeOK
  <2>5. \A d \in Calls : \A c \in before'[d] :
          pc'[c] = "done" /\ result'[c] = result[c]
    BY <1>0, <2>2, <2>3, <2>4, DoneIsFinal
  <2>6. QED
    BY <1>0, <2>1, <2>2, <2>5 DEF Overwritten, Idempotent, RetrySafe
<1>2. ASSUME UNCHANGED <<executed, stored, before>>
      PROVE  Overwritten'
  <2>1. \A d \in Calls : \A c \in before[d] :
          c \in Calls /\ pc'[c] = "done" /\ result'[c] = result[c]
    BY <1>0, DoneIsFinal DEF Overwritten, TypeOK
  <2>2. QED
    BY <1>0, <1>2, <2>1 DEF Overwritten, Idempotent, RetrySafe
<1>3. ASSUME NEW m \in net, NEW status \in Statuses, Execute(m, status)
      PROVE  Overwritten'
  <2>1. m.call \in Calls /\ UNCHANGED <<pc, result, before>>
    BY <1>0, <1>3 DEF Execute, TypeOK, Message
  <2>2. stored' \in {stored, m.call, "absent"}
    BY <1>3 DEF Execute
  <2>3. op[m.call].effect = "set" => stored' = m.call
    BY <1>3 DEF Execute
  <2>4. \A d \in Calls \ {m.call} : executed'[d] = executed[d]
    BY <1>0, <1>3 DEF Execute, TypeOK
  <2>5. \A c \in Calls : ~Idempotent(op[c]) /\ result[c] = "ok" => m.call # c
    BY DEF IInv, DefiniteAnswer
  <2>6. ASSUME NEW d \in Calls, NEW c \in before[d],
               ~Idempotent(op[c]), result[c] = "ok",
               op[d].effect = "set", executed'[d] # {}
        PROVE  stored' # c
    <3>1. c \in Calls /\ c # m.call /\ c # "absent"
      BY <1>0, <2>5, <2>6, CallsAssumption DEF TypeOK
    <3>2. CASE d = m.call
      BY <2>3, <2>6, <3>1, <3>2
    <3>3. CASE d # m.call
      BY <2>2, <2>4, <2>6, <3>1, <3>3 DEF Overwritten
    <3>4. QED
      BY <3>2, <3>3
  <2>7. \A d \in Calls : \A c \in before[d] : pc[c] = "done"
    BY DEF Overwritten
  <2>8. QED
    BY <1>0, <2>1, <2>6, <2>7 DEF Overwritten, Idempotent, RetrySafe
<1>4. QED
  <2>1. ASSUME NEW m \in net, NEW status \in Statuses, Refuse(m, status)
        PROVE  UNCHANGED <<executed, stored, before>>
    BY <2>1 DEF Refuse
  <2>2. ASSUME NEW c \in Calls, Advance(c)
        PROVE  UNCHANGED <<executed, stored, before>>
    BY <2>2 DEF Advance, FailConnect, Send, Receive, Abandon, Wake
  <2>3. CASE UNCHANGED vars
    BY <1>2, <2>3 DEF vars
  <2>4. QED
    BY <1>1, <1>2, <1>3, <2>1, <2>2, <2>3 DEF Next, Serve

\* UnretriedWritesInOrder: however late the server acts on what a call left
\* behind, an acknowledged write that is not retried never undoes one that was
\* begun after it had been acknowledged.
THEOREM WritesStayInOrder == Spec => []UnretriedWritesInOrder
<1>1. Init => Overwritten
  BY DEF Init, Overwritten
<1>2. IInv /\ Overwritten /\ [Next]_vars => Overwritten'
  BY OverwrittenStep
<1>3. IInv /\ Overwritten => UnretriedWritesInOrder
  BY DEF IInv, OkMeansDone, Overwritten, UnretriedWritesInOrder, LaterWrites
<1>4. QED
  BY <1>1, <1>2, <1>3, Invariance, PTL DEF Spec

\* The exception a call ends with in this step is the one of its clause, and
\* its clause lets it go on unless this was the last attempt.
LEMMA FailureOf ==
  ASSUME IInv, [Next]_vars, NEW c \in Calls, pc[c] # "done",
         result'[c] \in ResponseErrors \cup TransportErrors
  PROVE  \/ \E failure \in ConnectFailures \cup SentFailures :
              LET v == TransportVerdict(failure, Idempotent(op[c]))
              IN  result'[c] = v.raises /\ (LastAttempt(c) \/ ~v.again)
         \/ LET v == ResponseVerdict(reply[c], Idempotent(op[c]))
            IN  /\ reply[c] \in Statuses
                /\ result'[c] = v.raises /\ (LastAttempt(c) \/ ~v.again)
<1>0. /\ TypeOK /\ result[c] = NoResult
      /\ result[c] \notin ResponseErrors \cup TransportErrors
  BY DEF IInv, LoopBounds, NoResult, ResponseErrors, TransportErrors
<1>1. "ok" \notin ResponseErrors \cup TransportErrors
      /\ "RetriesExhausted" \notin ResponseErrors \cup TransportErrors
  BY DEF ResponseErrors, TransportErrors
<1>2. ASSUME NEW d \in Calls, NEW v, Conclude(d, v)
      PROVE  d = c /\ result'[c] = v.raises /\ (LastAttempt(c) \/ ~v.again)
  BY <1>0, <1>2 DEF Conclude, Return, TypeOK
<1>3. ASSUME NEW d \in Calls, FailConnect(d)
      PROVE  \E failure \in ConnectFailures \cup SentFailures :
               LET v == TransportVerdict(failure, Idempotent(op[c]))
               IN  result'[c] = v.raises /\ (LastAttempt(c) \/ ~v.again)
  <2>1. PICK failure \in ConnectFailures :
          Conclude(d, TransportVerdict(failure, Idempotent(op[d])))
    BY <1>3 DEF FailConnect
  <2>2. QED
    BY <1>2, <2>1
<1>4. ASSUME NEW d \in Calls, NEW failure \in SentFailures, Abandon(d, failure)
      PROVE  LET v == TransportVerdict(failure, Idempotent(op[c]))
             IN  result'[c] = v.raises /\ (LastAttempt(c) \/ ~v.again)
  <2>1. Conclude(d, TransportVerdict(failure, Idempotent(op[d])))
    BY <1>4 DEF Abandon
  <2>2. QED
    BY <1>2, <2>1
<1>5. ASSUME NEW d \in Calls, Receive(d)
      PROVE  LET v == ResponseVerdict(reply[c], Idempotent(op[c]))
             IN  /\ reply[c] \in Statuses
                 /\ result'[c] = v.raises /\ (LastAttempt(c) \/ ~v.again)
  <2>1. CASE Success(reply[d])
    BY <1>0, <1>1, <1>5, <2>1 DEF Receive, Return, TypeOK
  <2>2. CASE ~Success(reply[d])
    <3>1. Conclude(d, ResponseVerdict(reply[d], Idempotent(op[d])))
      BY <1>5, <2>2 DEF Receive
    <3>2. reply[d] \in Statuses
      BY <1>0, <1>5 DEF Receive, TypeOK
    <3>3. QED
      BY <1>2, <3>1, <3>2
  <2>3. QED
    BY <2>1, <2>2
<1>6. ASSUME NEW d \in Calls, Call(d) \/ Wake(d)
      PROVE  FALSE
  BY <1>0, <1>1, <1>6 DEF Call, Wake, NextRound, Return, TypeOK
<1>7. ASSUME NEW d \in Calls, Send(d)
      PROVE  FALSE
  BY <1>0, <1>7 DEF Send
<1>8. ~Serve /\ ~UNCHANGED vars
  BY <1>0 DEF Serve, Execute, Refuse, vars
<1>9. QED
  BY <1>3, <1>4, <1>5, <1>6, <1>7, <1>8 DEF Next, Advance

\* RefusalsAreRetried: a call reports a 429 or a 503 only when no attempt was
\* left, whatever it requests.
THEOREM RefusalsLeaveNoAttempt == Spec => RefusalsAreRetried
<1>1. ASSUME IInv, [Next]_vars, NEW c \in Calls, pc[c] # "done",
             result'[c] \in {"RateLimitError", "ServiceUnavailableError"}
      PROVE  LastAttempt(c)
  <2>1. /\ result'[c] \in ResponseErrors \cup TransportErrors
        /\ result'[c] \notin TransportErrors
    BY <1>1 DEF ResponseErrors, TransportErrors
  <2>2. \A failure \in ConnectFailures \cup SentFailures :
          TransportVerdict(failure, Idempotent(op[c])).raises \in TransportErrors
    BY IdempotentType, TransportVerdicts
  <2>3. LET v == ResponseVerdict(reply[c], Idempotent(op[c]))
        IN  result'[c] = v.raises /\ (LastAttempt(c) \/ ~v.again)
    BY <1>1, <2>1, <2>2, FailureOf
  <2>4. LET v == ResponseVerdict(reply[c], Idempotent(op[c]))
        IN  v.raises \in {"RateLimitError", "ServiceUnavailableError"} => v.again
    BY DEF ResponseVerdict, Verdict
  <2>5. QED
    BY <1>1, <2>3, <2>4
<1>2. IInv /\ [Next]_vars
        => [\A c \in Calls :
              /\ pc[c] # "done"
              /\ result'[c] \in {"RateLimitError", "ServiceUnavailableError"}
              => LastAttempt(c)]_vars
  BY <1>1
<1>3. QED
  BY <1>2, Invariance, PTL DEF Spec, RefusalsAreRetried

\* DropsAreRetried: with httpx a call that may be repeated fails on the network
\* only on its last attempt.  (With requests it does not: run body_lost.)
THEOREM AsyncDropsLeaveNoAttempt ==
  ASSUME ClientKind = "async"
  PROVE  Spec => DropsAreRetried
<1>1. ASSUME IInv, [Next]_vars, NEW c \in Calls, pc[c] # "done", Idempotent(op[c]),
             result'[c] \in TransportErrors
      PROVE  LastAttempt(c)
  <2>1. /\ result'[c] \in ResponseErrors \cup TransportErrors
        /\ result'[c] \notin ResponseErrors
    BY <1>1 DEF ResponseErrors, TransportErrors
  <2>2. \A failure \in ConnectFailures \cup SentFailures :
          TransportVerdict(failure, TRUE).again
    BY DEF TransportVerdict, AsyncVerdict, Verdict, ConnectFailures, SentFailures
  <2>3. reply[c] \in Statuses =>
          ResponseVerdict(reply[c], Idempotent(op[c])).raises \in ResponseErrors
    BY StatusesAssumption, IdempotentType, ResponseVerdicts, ErrorClasses
  <2>4. Idempotent(op[c]) = TRUE
    BY <1>1, IdempotentType
  <2>5. QED
    BY <1>1, <2>1, <2>2, <2>3, <2>4, FailureOf
<1>2. IInv /\ [Next]_vars
        => [\A c \in Calls :
              /\ pc[c] # "done" /\ Idempotent(op[c])
              /\ result'[c] \in TransportErrors
              => LastAttempt(c)]_vars
  BY <1>1
<1>3. QED
  BY <1>2, Invariance, PTL DEF Spec, DropsAreRetried

-----------------------------------------------------------------------------
(* The loop implements the contract its callers rely on.                   *)

\* What the refinement mapping reads of a state.
Same(c) ==
  /\ pc'[c] = pc[c] /\ result'[c] = result[c]
  /\ executed'[c] = executed[c] /\ op'[c] = op[c]

\* A step that changes nothing the contract speaks of.
LEMMA Unseen ==
  ASSUME \A c \in Calls : /\ PhaseOf(c)' = PhaseOf(c)
                          /\ EffectOf(c)' = EffectOf(c)
                          /\ AnswerOf(c)' = AnswerOf(c)
                          /\ Idempotent(op[c])' = Idempotent(op[c])
  PROVE  UNCHANGED Contract!vars
BY DEF Contract!vars

\* What the contract sees of a call depends on these four variables only.
LEMMA SameMapping ==
  ASSUME NEW c \in Calls, Same(c)
  PROVE  /\ PhaseOf(c)' = PhaseOf(c)
         /\ EffectOf(c)' = EffectOf(c)
         /\ AnswerOf(c)' = AnswerOf(c)
         /\ Idempotent(op[c])' = Idempotent(op[c])
BY DEF Same, PhaseOf, EffectOf, AnswerOf, Idempotent, RetrySafe

\* A call that ends is answered.
LEMMA Answered ==
  ASSUME TypeOK, NEW c \in Calls, NEW value \in Results \ {NoResult},
         pc[c] \in {"ready", "waiting", "sleeping"},
         pc' = [pc EXCEPT ![c] = "done"],
         result' = [result EXCEPT ![c] = value],
         UNCHANGED <<op, executed>>,
         value = "ok" => executed[c] # {},
         value \in Refusals \cup {"RetriesExhausted"} /\ ~Idempotent(op[c]) =>
           executed[c] = {}
  PROVE  Contract!Next
<1>1. \A d \in Calls \ {c} : Same(d)
  BY DEF Same, TypeOK
<1>2. PhaseOf(c) = "open" /\ PhaseOf(c)' = "closed"
  BY DEF PhaseOf, TypeOK
<1>3. EffectOf(c)' = EffectOf(c) /\ Idempotent(op[c])' = Idempotent(op[c])
  BY DEF EffectOf, Idempotent, RetrySafe
<1>4. result'[c] = value
  BY DEF TypeOK
<1> DEFINE a == AnswerOf(c)'
<1>5. /\ a \in {"done", "refused", "unknown"}
      /\ a = "done" => value = "ok"
      /\ a = "refused" => value \in Refusals \cup {"RetriesExhausted"}
  BY <1>4 DEF AnswerOf, NoResult
<1>6. /\ a = "done" => EffectOf(c) # "never"
      /\ a = "refused" /\ ~Idempotent(op[c]) => EffectOf(c) = "never"
  BY <1>5 DEF EffectOf
<1>7. Contract!Answer(c, a)
  <2>1. [d \in Calls |-> PhaseOf(d)]' = [[d \in Calls |-> PhaseOf(d)] EXCEPT ![c] = "closed"]
    BY <1>1, <1>2, SameMapping
  <2>2. [d \in Calls |-> AnswerOf(d)]' = [[d \in Calls |-> AnswerOf(d)] EXCEPT ![c] = a]
    BY <1>1, SameMapping
  <2>3. [d \in Calls |-> EffectOf(d)]' = [d \in Calls |-> EffectOf(d)]
    BY <1>1, <1>3, SameMapping
  <2>4. [d \in Calls |-> Idempotent(op[d])]' = [d \in Calls |-> Idempotent(op[d])]
    BY <1>1, <1>3, SameMapping
  <2> HIDE DEF a
  <2>5. QED
    BY <1>2, <1>6, <2>1, <2>2, <2>3, <2>4 DEF Contract!Answer
<1>8. QED
  BY <1>5, <1>7 DEF Contract!Next, Contract!Answers

\* The end of an except clause: a sleep is unseen, an exception is an answer.
LEMMA Concluded ==
  ASSUME TypeOK, NEW c \in Calls, NEW verdict, Conclude(c, verdict),
         verdict.raises \in ResponseErrors \cup TransportErrors,
         pc[c] \in {"ready", "waiting"},
         UNCHANGED <<op, executed>>,
         ~Idempotent(op[c]) /\ verdict.raises \in Refusals => executed[c] = {}
  PROVE  Contract!Next \/ UNCHANGED Contract!vars
<1>1. CASE Return(c, verdict.raises)
  <2>1. /\ verdict.raises \in Results \ {NoResult}
        /\ verdict.raises \notin {"ok", "RetriesExhausted"}
    BY DEF Results, NoResult, ResponseErrors, TransportErrors
  <2>2. QED
    BY <1>1, <2>1, Answered DEF Return
<1>2. CASE pc' = [pc EXCEPT ![c] = "sleeping"] /\ UNCHANGED result
  <2>1. \A d \in Calls : PhaseOf(d)' = PhaseOf(d)
    BY <1>2 DEF PhaseOf, TypeOK
  <2>2. \A d \in Calls : /\ EffectOf(d)' = EffectOf(d)
                         /\ AnswerOf(d)' = AnswerOf(d)
                         /\ Idempotent(op[d])' = Idempotent(op[d])
    BY <1>2 DEF EffectOf, AnswerOf, Idempotent, RetrySafe
  <2>3. QED
    BY <2>1, <2>2, Unseen
<1>3. QED
  BY <1>1, <1>2 DEF Conclude

\* The initial states of the loop are initial states of the contract.
LEMMA InitRefines == Init => Contract!Init
<1> SUFFICES ASSUME Init PROVE Contract!Init
  OBVIOUS
<1>1. \A c \in Calls : /\ PhaseOf(c) = "new" /\ EffectOf(c) = "never"
                       /\ AnswerOf(c) = "none"
  BY DEF Init, PhaseOf, EffectOf, AnswerOf, NoResult, Refusals, ResponseErrors
<1>2. /\ [c \in Calls |-> PhaseOf(c)] = [c \in Calls |-> "new"]
      /\ [c \in Calls |-> EffectOf(c)] = [c \in Calls |-> "never"]
      /\ [c \in Calls |-> AnswerOf(c)] = [c \in Calls |-> "none"]
  BY <1>1
<1>3. [c \in Calls |-> Idempotent(op[c])] \in [Calls -> BOOLEAN]
  BY IdempotentType
<1>4. QED
  BY <1>2, <1>3 DEF Contract!Init

\* Every step is a step of the contract or unseen by it.
LEMMA StepRefines ==
  ASSUME IInv, [Next]_vars
  PROVE  Contract!Next \/ UNCHANGED Contract!vars
<1>0. TypeOK
  BY DEF IInv
<1>1. ASSUME NEW c \in Calls, Call(c)
      PROVE  Contract!Next
  <2>1. /\ pc[c] = "idle" /\ result[c] = NoResult /\ executed[c] = {}
        /\ UNCHANGED <<op, executed>>
    BY <1>1 DEF Call, IInv, LoopBounds, Attempts, SentBy
  <2>2. \A d \in Calls \ {c} : Same(d)
    BY <1>0, <1>1 DEF Call, NextRound, Return, Same, TypeOK
  <2>3. PhaseOf(c) = "new" /\ AnswerOf(c) = "none"
    BY <2>1 DEF PhaseOf, AnswerOf, NoResult, Refusals, ResponseErrors
  <2>4. /\ [d \in Calls |-> EffectOf(d)]' = [d \in Calls |-> EffectOf(d)]
        /\ [d \in Calls |-> Idempotent(op[d])]' = [d \in Calls |-> Idempotent(op[d])]
    BY <2>1 DEF EffectOf, Idempotent, RetrySafe
  <2>5. CASE 0 < MaxRetries
    <3>1. PhaseOf(c)' = "open" /\ AnswerOf(c)' = "none"
      BY <1>0, <1>1, <2>1, <2>3, <2>5 DEF Call, NextRound, PhaseOf, AnswerOf, TypeOK
    <3>2. [d \in Calls |-> PhaseOf(d)]' = [[d \in Calls |-> PhaseOf(d)] EXCEPT ![c] = "open"]
      BY <2>2, <3>1, SameMapping
    <3>3. [d \in Calls |-> AnswerOf(d)]' = [d \in Calls |-> AnswerOf(d)]
      BY <2>2, <2>3, <3>1, SameMapping
    <3>4. Contract!Open(c)
      BY <2>3, <2>4, <3>2, <3>3 DEF Contract!Open
    <3>5. QED
      BY <3>4 DEF Contract!Next
  <2>6. CASE ~(0 < MaxRetries)
    <3>1. PhaseOf(c)' = "closed" /\ AnswerOf(c)' = "refused"
      BY <1>0, <1>1, <2>1, <2>6
         DEF Call, NextRound, Return, PhaseOf, AnswerOf, TypeOK, NoResult
    <3>2. [d \in Calls |-> PhaseOf(d)]' = [[d \in Calls |-> PhaseOf(d)] EXCEPT ![c] = "closed"]
      BY <2>2, <3>1, SameMapping
    <3>3. [d \in Calls |-> AnswerOf(d)]' = [[d \in Calls |-> AnswerOf(d)] EXCEPT ![c] = "refused"]
      BY <2>2, <3>1, SameMapping
    <3>4. Contract!Decline(c)
      BY <2>3, <2>4, <3>2, <3>3 DEF Contract!Decline
    <3>5. QED
      BY <3>4 DEF Contract!Next
  <2>7. QED
    BY <2>5, <2>6
<1>2. ASSUME NEW c \in Calls, FailConnect(c)
      PROVE  Contract!Next \/ UNCHANGED Contract!vars
  <2>1. PICK failure \in ConnectFailures :
          Conclude(c, TransportVerdict(failure, Idempotent(op[c])))
    BY <1>2 DEF FailConnect
  <2> DEFINE v == TransportVerdict(failure, Idempotent(op[c]))
  <2>2. v.raises \in TransportErrors
    BY IdempotentType, TransportVerdicts
  <2>3. v.raises \notin Refusals
    BY <2>2 DEF TransportErrors, Refusals, ResponseErrors
  <2>4. Conclude(c, v) /\ pc[c] = "ready" /\ UNCHANGED <<op, executed>>
    BY <1>2, <2>1 DEF FailConnect
  <2> HIDE DEF v
  <2>5. QED
    BY <1>0, <2>2, <2>3, <2>4, Concluded
<1>3. ASSUME NEW c \in Calls, Send(c)
      PROVE  UNCHANGED Contract!vars
  <2>1. \A d \in Calls : PhaseOf(d)' = PhaseOf(d)
    BY <1>0, <1>3 DEF Send, PhaseOf, TypeOK
  <2>2. \A d \in Calls : /\ EffectOf(d)' = EffectOf(d)
                         /\ AnswerOf(d)' = AnswerOf(d)
                         /\ Idempotent(op[d])' = Idempotent(op[d])
    BY <1>3 DEF Send, EffectOf, AnswerOf, Idempotent, RetrySafe
  <2>3. QED
    BY <2>1, <2>2, Unseen
<1>4. ASSUME NEW c \in Calls, Receive(c)
      PROVE  Contract!Next \/ UNCHANGED Contract!vars
  <2>1. /\ reply[c] \in 200..599 /\ pc[c] = "waiting" /\ reply[c] # NoReply
        /\ UNCHANGED <<op, executed>>
    BY <1>0, <1>4, StatusesAssumption DEF Receive, TypeOK
  <2>2. CASE Success(reply[c])
    <3>1. executed[c] # {}
      BY <2>1, <2>2 DEF IInv, Replies
    <3>2. /\ pc' = [pc EXCEPT ![c] = "done"] /\ result' = [result EXCEPT ![c] = "ok"]
      BY <1>4, <2>2 DEF Receive, Return
    <3>3. "ok" \in Results \ {NoResult} /\ "ok" \notin Refusals \cup {"RetriesExhausted"}
      BY DEF Results, NoResult, Refusals, ResponseErrors
    <3>4. QED
      BY <1>0, <2>1, <3>1, <3>2, <3>3, Answered
  <2>3. CASE ~Success(reply[c])
    <3> DEFINE v == ResponseVerdict(reply[c], Idempotent(op[c]))
    <3>1. v.raises = ErrorFromResponse(reply[c]) /\ v.raises \in ResponseErrors
      BY <2>1, IdempotentType, ResponseVerdicts, ErrorClasses
    <3>2. ~Idempotent(op[c]) /\ v.raises \in Refusals => executed[c] = {}
      BY <2>1, <2>3, <3>1, RefusedUnsent DEF IInv, NoneSent
    <3>3. Conclude(c, v)
      BY <1>4, <2>3 DEF Receive
    <3> HIDE DEF v
    <3>4. QED
      BY <1>0, <2>1, <3>1, <3>2, <3>3, Concluded
  <2>4. QED
    BY <2>2, <2>3
<1>5. ASSUME NEW c \in Calls, NEW failure \in SentFailures, Abandon(c, failure)
      PROVE  Contract!Next \/ UNCHANGED Contract!vars
  <2> DEFINE v == TransportVerdict(failure, Idempotent(op[c]))
  <2>1. v.raises \in TransportErrors
    BY IdempotentType, TransportVerdicts
  <2>2. v.raises \notin Refusals
    BY <2>1 DEF TransportErrors, Refusals, ResponseErrors
  <2>3. Conclude(c, v) /\ pc[c] = "waiting" /\ UNCHANGED <<op, executed>>
    BY <1>5 DEF Abandon
  <2> HIDE DEF v
  <2>4. QED
    BY <1>0, <2>1, <2>2, <2>3, Concluded
<1>6. ASSUME NEW c \in Calls, Wake(c)
      PROVE  UNCHANGED Contract!vars
  <2>1. pc[c] = "sleeping" /\ attempt[c] + 1 < MaxRetries
    BY <1>6 DEF Wake, IInv, LoopBounds
  <2>2. pc' = [pc EXCEPT ![c] = "ready"] /\ UNCHANGED <<op, result, executed>>
    BY <1>6, <2>1 DEF Wake, NextRound
  <2>3. \A d \in Calls : PhaseOf(d)' = PhaseOf(d)
    BY <1>0, <2>1, <2>2 DEF PhaseOf, TypeOK
  <2>4. \A d \in Calls : /\ EffectOf(d)' = EffectOf(d)
                         /\ AnswerOf(d)' = AnswerOf(d)
                         /\ Idempotent(op[d])' = Idempotent(op[d])
    BY <2>2 DEF EffectOf, AnswerOf, Idempotent, RetrySafe
  <2>5. QED
    BY <2>3, <2>4, Unseen
<1>7. ASSUME NEW m \in net, NEW status \in Statuses, Execute(m, status)
      PROVE  Contract!Next
  <2> DEFINE c == m.call
  <2>1. c \in Calls
    BY <1>0 DEF TypeOK, Message
  <2>2. /\ pc[c] # "idle" /\ m.attempt \notin executed[c]
        /\ ~Idempotent(op[c]) => /\ executed[c] = {}
                                 /\ result[c] \notin Refusals \cup {"ok", "RetriesExhausted"}
    BY <2>1 DEF IInv, Attempts, SentBy, DefiniteAnswer
  <2>3. /\ executed' = [executed EXCEPT ![c] = @ \cup {m.attempt}]
        /\ UNCHANGED <<op, pc, result>>
    BY <1>7 DEF Execute
  <2> HIDE DEF c
  <2>4. \A d \in Calls \ {c} : EffectOf(d)' = EffectOf(d)
    BY <1>0, <2>3 DEF EffectOf, TypeOK
  <2>5. \A d \in Calls : /\ PhaseOf(d)' = PhaseOf(d)
                         /\ AnswerOf(d)' = AnswerOf(d)
                         /\ Idempotent(op[d])' = Idempotent(op[d])
    BY <2>3 DEF PhaseOf, AnswerOf, Idempotent, RetrySafe
  <2>6. executed'[c] = executed[c] \cup {m.attempt}
    BY <1>0, <2>1, <2>3 DEF TypeOK
  <2>7. \/ EffectOf(c) = "never" /\ EffectOf(c)' = "once"
        \/ Idempotent(op[c]) /\ EffectOf(c)' = "repeatedly"
    <3>1. CASE executed[c] = {}
      BY <2>6, <3>1 DEF EffectOf
    <3>2. CASE executed[c] # {}
      <4>1. PICK a : a \in executed[c]
        BY <3>2
      <4>2. a # m.attempt /\ a \in executed'[c] /\ m.attempt \in executed'[c]
        BY <2>2, <2>6, <4>1
      <4>3. executed'[c] # {} /\ ~(\E b \in executed'[c] : executed'[c] = {b})
        BY <4>2
      <4>4. EffectOf(c)' = "repeatedly"
        BY <4>3 DEF EffectOf
      <4>5. QED
        BY <2>2, <3>2, <4>4
    <3>3. QED
      BY <3>1, <3>2
  <2>8. [d \in Calls |-> EffectOf(d)]'
          = [[d \in Calls |-> EffectOf(d)] EXCEPT ![c] = EffectOf(c)']
    BY <2>1, <2>4
  <2>9. /\ [d \in Calls |-> PhaseOf(d)]' = [d \in Calls |-> PhaseOf(d)]
        /\ [d \in Calls |-> AnswerOf(d)]' = [d \in Calls |-> AnswerOf(d)]
        /\ [d \in Calls |-> Idempotent(op[d])]' = [d \in Calls |-> Idempotent(op[d])]
    BY <2>5
  <2>10. PhaseOf(c) # "new"
    BY <2>2 DEF PhaseOf
  <2>11. ~Idempotent(op[c]) => AnswerOf(c) \in {"none", "unknown"}
    BY <2>2 DEF AnswerOf
  <2>12. Contract!Apply(c)
    BY <2>1, <2>7, <2>8, <2>9, <2>10, <2>11 DEF Contract!Apply
  <2>13. QED
    BY <2>1, <2>12 DEF Contract!Next
<1>8. ASSUME NEW m \in net, NEW status \in Statuses, Refuse(m, status)
      PROVE  UNCHANGED Contract!vars
  BY <1>8, SameMapping, Unseen DEF Refuse, Same
<1>9. ASSUME UNCHANGED vars
      PROVE  UNCHANGED Contract!vars
  BY <1>9, SameMapping, Unseen DEF vars, Same
<1>10. QED
  <2>1. CASE Next
    BY <2>1, <1>1, <1>2, <1>3, <1>4, <1>5, <1>6, <1>7, <1>8 DEF Next, Advance, Serve
  <2>2. QED
    BY <2>1, <1>9

\* ContractSpec: the retry loop keeps the contract of its callers.
THEOREM Refinement == Spec => ContractSpec
<1>1. IInv /\ [Next]_vars => [Contract!Next]_(Contract!vars)
  BY StepRefines
<1>2. QED
  BY InitRefines, Invariance, <1>1, PTL DEF Spec, ContractSpec, Contract!Spec
=============================================================================
