----------------------------- MODULE ChatSession -----------------------------
(***************************************************************************)
(* ChatMemorySession and AsyncChatMemorySession of session.py, used as a   *)
(* context manager: a program starts a session, makes calls in its body,   *)
(* and leaves, by itself, by an exception or by an interrupt               *)
(* (KeyboardInterrupt, or CancelledError of a task), after which the exit  *)
(* ends the session.                                                       *)
(*                                                                         *)
(* Each call is one request and behaves as RequestContract says, which     *)
(* RequestRetry implements: it takes effect at a moment of its own, which  *)
(* for a call whose outcome is unknown may be after the program has gone   *)
(* on.  The server's side of a session is external, modelled as far as the *)
(* docstrings of client.py describe it: a session ends once, by a request  *)
(* or for inactivity, and is never re-opened; a memory stored into an      *)
(* ended session is kept.                                                  *)
(***************************************************************************)
EXTENDS RetryPolicy, Sequences, FiniteSets

CONSTANTS
  Body,   \* the calls the program may make in the body
  Does    \* Does[c]: which operation c is

ASSUME BodyAssumption == "start" \notin Body /\ "end" \notin Body /\ IsFiniteSet(Body)
ASSUME DoesAssumption == Does \in [Body -> {"store", "recall", "touch", "close"}]

Calls == Body \cup {"start", "end"}
Turns == {c \in Body : Does[c] = "store"}

VARIABLES
  phase, repeatable, effect, answer,  \* of each call: see RequestContract
  at,         \* the program is "creating", in the "body", "exiting" or "over"
  failure,    \* what leaves the body: "none", an "error" or an "interrupt"
  raised,     \* what the with statement raises in the end
  session,    \* the server's: "absent", "active", or what ended it
  orphan,     \* whether the server started another session for the program
  issued,     \* history: the turns in the order the program stored them
  log         \* the turns the server stored, and the session then

contract == <<phase, repeatable, effect, answer>>
program == <<at, failure, raised, issued>>
server == <<session, orphan, log>>
vars == <<contract, program, server>>

Contract == INSTANCE RequestContract

-----------------------------------------------------------------------------
(* The requests.                                                           *)

Operation(c) ==
  CASE c = "start" -> "start"
    [] c = "end" -> "close"
    [] OTHER -> Does[c]

\* start_session, store_memory, recall, touch_session, end_session
Request(c) ==
  [method |-> "POST",
   route |-> CASE Operation(c) = "start" -> "/v1/sessions/start"
               [] Operation(c) = "store" -> "/v1/memory/store"
               [] Operation(c) = "recall" -> "/v1/memory/recall"
               [] Operation(c) = "touch" -> "/v1/sessions/{id}/touch"
               [] Operation(c) = "close" -> "/v1/sessions/{id}/end"]

Init ==
  /\ phase = [c \in Calls |-> "new"]
  /\ repeatable = [c \in Calls |-> Idempotent(Request(c))]
  /\ effect = [c \in Calls |-> "never"]
  /\ answer = [c \in Calls |-> "none"]
  /\ at = "creating"
  /\ failure = "none"
  /\ raised = "none"
  /\ session = "absent"
  /\ orphan = FALSE
  /\ issued = <<>>
  /\ log = <<>>

Pending == \E c \in Calls : phase[c] = "open"

-----------------------------------------------------------------------------
(* The program.                                                            *)

Create ==
  /\ at = "creating"
  /\ Contract!Open("start")
  /\ UNCHANGED <<program, server>>

\* Without an answer there is no session object, and no exit that would run.
Created(a) ==
  /\ Contract!Answer("start", a)
  /\ IF a = "done" THEN at' = "body" /\ UNCHANGED raised
                   ELSE at' = "over" /\ raised' = "error"
  /\ UNCHANGED <<failure, issued, server>>

\* Mutant: calls of an asynchronous body that are not awaited.
CallAhead(c) ==
  /\ at = "body"
  /\ Contract!Open(c)
  /\ issued' = IF Does[c] = "store" THEN Append(issued, c) ELSE issued
  /\ UNCHANGED <<at, failure, raised, server>>

\* store, recall, touch or close in the body, one after the other
Call(c) ==
  /\ at = "body"
  /\ ~Pending
  /\ Contract!Open(c)
  /\ issued' = IF Does[c] = "store" THEN Append(issued, c) ELSE issued
  /\ UNCHANGED <<at, failure, raised, server>>

\* An exception of a call is caught by the program or leaves the body.
Returned(c, a) ==
  /\ at = "body"
  /\ Contract!Answer(c, a)
  /\ \/ UNCHANGED <<at, failure>>
     \/ a # "done" /\ at' = "exiting" /\ failure' = "error"
  /\ UNCHANGED <<raised, issued, server>>

Leave ==
  /\ at = "body"
  /\ ~Pending
  /\ at' = "exiting"
  /\ failure' \in {"none", "error"}
  /\ UNCHANGED <<contract, raised, issued, server>>

\* Mutant: `if exc_type is None: self.close()`.
ExitUnlessFailed ==
  /\ at = "exiting"
  /\ IF failure = "none"
       THEN Contract!Open("end") /\ UNCHANGED program
       ELSE /\ phase["end"] = "new"
            /\ at' = "over" /\ raised' = failure
            /\ UNCHANGED <<contract, failure, issued>>
  /\ UNCHANGED server

\* __exit__ / __aexit__: close, whatever left the body
Exit ==
  /\ at = "exiting"
  /\ Contract!Open("end")
  /\ UNCHANGED <<program, server>>

\* Mutant: the exit without contextlib.suppress.
ExitedRaising(a) ==
  /\ Contract!Answer("end", a)
  /\ at' = "over"
  /\ raised' = IF a = "done" THEN failure ELSE "closeError"
  /\ UNCHANGED <<failure, issued, server>>

\* Mutant: an __exit__ that returns True.
ExitedSwallowing(a) ==
  /\ Contract!Answer("end", a)
  /\ at' = "over"
  /\ raised' = "none"
  /\ UNCHANGED <<failure, issued, server>>

\* Mutant: an exit that waits for the session to be known to have ended.
ExitedInsisting(a) ==
  /\ Contract!Answer("end", a)
  /\ IF a = "done" THEN at' = "over" /\ raised' = failure
                   ELSE UNCHANGED <<at, raised>>
  /\ UNCHANGED <<failure, issued, server>>

\* contextlib.suppress(Exception): what close raises is dropped.
Exited(a) ==
  /\ Contract!Answer("end", a)
  /\ at' = "over"
  /\ raised' = failure
  /\ UNCHANGED <<failure, issued, server>>

\* An interrupt is a BaseException: the request loop and the suppress of the
\* exit let it pass.  It meets an asynchronous program where that awaits a
\* call; a synchronous one also between two steps of the exit.
Interrupted ==
  \/ \E c \in Calls : Contract!Answer(c, "unknown")
  \/ ~Pending /\ UNCHANGED contract

Interrupt ==
  /\ Interrupted
  /\ \/ /\ at = "creating" /\ phase["start"] = "open"
        /\ at' = "over" /\ raised' = "interrupt" /\ UNCHANGED failure
     \/ /\ at = "body"
        /\ at' = "exiting" /\ failure' = "interrupt" /\ UNCHANGED raised
     \/ /\ at = "exiting" /\ (Pending \/ ClientKind = "sync")
        /\ at' = "over" /\ raised' = "exitInterrupt" /\ UNCHANGED failure
  /\ UNCHANGED <<issued, server>>

-----------------------------------------------------------------------------
(* The server.                                                             *)

StartSession ==
  /\ session' = IF session = "absent" THEN "active" ELSE session
  /\ orphan' = (orphan \/ session # "absent")
  /\ UNCHANGED log

StoreTurn(c) ==
  /\ log' = Append(log, [turn |-> c, into |-> session])
  /\ UNCHANGED <<session, orphan>>

EndSession(c) ==
  /\ session' = IF session # "active" THEN session
                ELSE IF c = "end" THEN "endedByExit" ELSE "endedByCall"
  /\ UNCHANGED <<orphan, log>>

Perform(c) ==
  /\ Contract!Apply(c)
  /\ UNCHANGED program
  /\ \/ Operation(c) = "start" /\ StartSession
     \/ Operation(c) = "store" /\ StoreTurn(c)
     \/ Operation(c) = "close" /\ EndSession(c)
     \/ Operation(c) \in {"recall", "touch"} /\ UNCHANGED server

IdleTimeout ==
  /\ session = "active"
  /\ session' = "endedIdle"
  /\ UNCHANGED <<contract, program, orphan, log>>

-----------------------------------------------------------------------------

Next ==
  \/ Create
  \/ \E a \in Contract!Answers : Created(a)
  \/ \E c \in Body : Call(c)
  \/ \E c \in Body, a \in Contract!Answers : Returned(c, a)
  \/ Leave
  \/ Exit
  \/ \E a \in Contract!Answers : Exited(a)
  \/ Interrupt
  \/ \E c \in Calls : Perform(c)
  \/ IdleTimeout

Spec == Init /\ [][Next]_vars

\* The interpreter runs the exit once the body is left, and the request loop
\* always answers (EveryCallReturns of RequestRetry).
Fairness ==
  /\ WF_vars(Exit)
  /\ WF_vars(\E a \in Contract!Answers : Exited(a))

FairSpec == Spec /\ Fairness

-----------------------------------------------------------------------------
(* Properties.                                                             *)

SessionStates == {"absent", "active", "endedByExit", "endedByCall", "endedIdle"}

\* The types; in particular, no error of the exit's own is ever raised.
TypeOK ==
  /\ Contract!TypeOK
  /\ at \in {"creating", "body", "exiting", "over"}
  /\ failure \in {"none", "error", "interrupt"}
  /\ raised \in {"none", "error", "interrupt", "exitInterrupt"}
  /\ session \in SessionStates
  /\ orphan \in BOOLEAN
  /\ issued \in Seq(Turns)
  /\ log \in Seq([turn : Turns, into : SessionStates])

\* The server keeps the order of the conversation: a turn whose storing was
\* acknowledged is there, once, and before every turn that was stored after it,
\* also when the answer of that one was lost (store of session.py, whose
\* request the client must not repeat).
TurnsInOrder ==
  ~RetryNonIdempotent =>
    /\ \A c \in Turns : answer[c] = "done" => \E i \in DOMAIN log : log[i].turn = c
    /\ \A i, j \in DOMAIN log : log[i].turn = log[j].turn => i = j
    /\ \A k, l \in DOMAIN issued, i, j \in DOMAIN log :
         /\ k < l /\ answer[issued[k]] = "done"
         /\ log[i].turn = issued[k] /\ log[j].turn = issued[l]
         => i < j

\* Only a turn of unknown outcome can reach the server after the exit ended
\* the session (a docstring of store_memory: storing into an ended session
\* still succeeds).
LateTurnsUnknown ==
  ~RetryNonIdempotent =>
    \A i \in DOMAIN log :
      log[i].into = "endedByExit" => answer[log[i].turn] = "unknown"

\* When the program is over, the server keeps an open session for it only if
\* a request to start or to end one went wrong or the exit was interrupted.
LeftOpenOnlyByFailure ==
  ~RetryNonIdempotent /\ at = "over" /\ (session = "active" \/ orphan) =>
    \/ answer["start"] = "unknown"
    \/ answer["end"] \in {"refused", "unknown"}
    \/ raised = "exitInterrupt"

\* The with statement raises what left its body: a failure to end the session
\* neither replaces it nor makes an error of a success.
ExitKeepsFailure ==
  at = "over" /\ answer["start"] = "done" => raised \in {failure, "exitInterrupt"}

\* Once the body is left the with statement comes to its end, even if the
\* server cannot be asked to end the session.
ExitReturns == at = "exiting" ~> at = "over"
=============================================================================
