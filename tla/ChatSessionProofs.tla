-------------------------- MODULE ChatSessionProofs --------------------------
(***************************************************************************)
(* Theorems about ChatSession, for every body and both clients: what the   *)
(* exit of the context manager leaves behind, and in which order the turns *)
(* of the conversation are stored.                                         *)
(*                                                                         *)
(* The invariant has three parts.  Ledger says what the contract of each   *)
(* call keeps: an answer closes a call and is true.  Order ties the calls  *)
(* to where the program stands: nothing is open outside its stage, and the *)
(* end is asked for only of a session that was started.  Service ties the  *)
(* server's session to the calls that took effect.  Conversation adds, for *)
(* a client that repeats no write, what the server's log holds of the      *)
(* turns issued so far.                                                    *)
(***************************************************************************)
EXTENDS ChatSession, TLAPS

Ledger ==
  /\ \A c \in Calls : phase[c] = "closed" <=> answer[c] # "none"
  /\ \A c \in Calls : effect[c] # "never" => phase[c] # "new"
  /\ \A c \in Calls : answer[c] = "done" => effect[c] # "never"
  /\ \A c \in Calls : answer[c] = "refused" /\ ~repeatable[c] => effect[c] = "never"

Order ==
  /\ \A c \in Body : phase[c] = "open" => at = "body"
  /\ \A c, d \in Body : phase[c] = "open" /\ phase[d] = "open" => c = d
  /\ phase["start"] = "open" => at = "creating"
  /\ phase["end"] = "open" => at = "exiting"
  /\ phase["end"] # "new" => at \in {"exiting", "over"} /\ answer["start"] = "done"
  /\ at = "creating" => answer["start"] = "none"
  /\ at \in {"body", "exiting"} => answer["start"] = "done"
  /\ at = "exiting" => phase["end"] # "closed"
  /\ at = "over" =>
       \/ answer["start"] \in {"refused", "unknown"}
       \/ raised = "exitInterrupt"
       \/ raised = failure /\ phase["end"] = "closed"

Service ==
  /\ session = "absent" => effect["start"] = "never"
  /\ session # "absent" => effect["start"] # "never"
  /\ orphan => repeatable["start"]
  /\ effect["end"] # "never" => session \notin {"absent", "active"}
  /\ session = "endedByExit" => effect["end"] # "never"
  /\ \A i \in DOMAIN log :
       log[i].into = "endedByExit" =>
         repeatable[log[i].turn] \/ answer[log[i].turn] = "unknown"

Classified == \A c \in Calls : repeatable[c] = Idempotent(Request(c))

IInv == TypeOK /\ Classified /\ Ledger /\ Order /\ Service

-----------------------------------------------------------------------------
(* Which requests are repeated.                                            *)

\* Whether a request may be repeated is yes or no.
LEMMA IdempotentType ==
  ASSUME NEW c \in Calls
  PROVE  Idempotent(Request(c)) \in BOOLEAN
BY RetryNonIdempotentAssumption DEF Idempotent, RetrySafe

\* Only a recall may be sent again by default.
LEMMA OnlyRecallsRepeat ==
  ASSUME ~RetryNonIdempotent, NEW c \in Calls, Operation(c) # "recall"
  PROVE  ~Idempotent(Request(c))
<1>1. Operation(c) \in {"start", "close", "store", "touch"}
  BY DoesAssumption DEF Operation, Calls
<1>2. Request(c).method = "POST"
  BY DEF Request
<1>3. Request(c).route \in {"/v1/sessions/start", "/v1/memory/store",
                            "/v1/sessions/{id}/touch", "/v1/sessions/{id}/end"}
  BY <1>1 DEF Request
<1> QED
  BY <1>2, <1>3 DEF Idempotent, RetrySafe, IdempotentMethods, ReadOnlyPost

\* The calls of a session are its start, its body and its end.
LEMMA Names == "start" \in Calls /\ "end" \in Calls /\ Body \subseteq Calls /\ Turns \subseteq Body
BY DEF Calls, Turns

-----------------------------------------------------------------------------
(* What a step of the contract does to one call, and to no other.          *)

\* Making a call opens it, and changes nothing of any other.
LEMMA Opened ==
  ASSUME IInv, NEW c \in Calls, Contract!Open(c)
  PROVE  /\ phase[c] = "new" /\ phase'[c] = "open"
         /\ \A d \in Calls \ {c} : phase'[d] = phase[d]
         /\ UNCHANGED <<repeatable, effect, answer>>
         /\ Contract!TypeOK' /\ Ledger' /\ Classified'
<1>1. Contract!TypeOK'
  BY DEF IInv, TypeOK, Contract!TypeOK, Contract!Open
<1>2. /\ phase[c] = "new" /\ phase'[c] = "open"
      /\ \A d \in Calls \ {c} : phase'[d] = phase[d]
      /\ UNCHANGED <<repeatable, effect, answer>>
  BY DEF IInv, TypeOK, Contract!TypeOK, Contract!Open
<1>3. Ledger'
  BY <1>2 DEF IInv, Ledger
<1>4. Classified'
  BY <1>2 DEF IInv, Classified
<1> QED
  BY <1>1, <1>2, <1>3, <1>4

\* An answer closes its call, and changes nothing of any other.
LEMMA Answered ==
  ASSUME IInv, NEW c \in Calls, NEW a \in Contract!Answers, Contract!Answer(c, a)
  PROVE  /\ phase[c] = "open" /\ phase'[c] = "closed" /\ answer'[c] = a
         /\ \A d \in Calls \ {c} : phase'[d] = phase[d] /\ answer'[d] = answer[d]
         /\ UNCHANGED <<repeatable, effect>>
         /\ Contract!TypeOK' /\ Ledger' /\ Classified'
<1>1. Contract!TypeOK'
  BY DEF IInv, TypeOK, Contract!TypeOK, Contract!Answer
<1>2. /\ phase[c] = "open" /\ phase'[c] = "closed" /\ answer'[c] = a
      /\ \A d \in Calls \ {c} : phase'[d] = phase[d] /\ answer'[d] = answer[d]
      /\ UNCHANGED <<repeatable, effect>>
      /\ a = "done" => effect[c] # "never"
      /\ a = "refused" /\ ~repeatable[c] => effect[c] = "never"
  BY DEF IInv, TypeOK, Contract!TypeOK, Contract!Answer
<1>3. a # "none"
  BY DEF Contract!Answers
<1>4. Ledger'
  BY <1>2, <1>3 DEF IInv, Ledger
<1>5. Classified'
  BY <1>2 DEF IInv, Classified
<1> QED
  BY <1>1, <1>2, <1>4, <1>5

\* A request takes effect for its own call; without a repeat, before the answer
\* or after one that says nothing.
LEMMA Applied ==
  ASSUME IInv, NEW c \in Calls, Contract!Apply(c)
  PROVE  /\ phase[c] # "new" /\ effect'[c] # "never"
         /\ \A d \in Calls \ {c} : effect'[d] = effect[d]
         /\ effect[c] = "never" \/ repeatable[c]
         /\ repeatable[c] \/ answer[c] \in {"none", "unknown"}
         /\ UNCHANGED <<phase, repeatable, answer>>
         /\ Contract!TypeOK' /\ Ledger' /\ Classified'
<1>1. Contract!TypeOK'
  BY DEF IInv, TypeOK, Contract!TypeOK, Contract!Apply
<1>2. /\ phase[c] # "new" /\ effect'[c] # "never"
      /\ \A d \in Calls \ {c} : effect'[d] = effect[d]
      /\ effect[c] = "never" \/ repeatable[c]
      /\ repeatable[c] \/ answer[c] \in {"none", "unknown"}
      /\ UNCHANGED <<phase, repeatable, answer>>
  BY DEF IInv, TypeOK, Contract!TypeOK, Contract!Apply
<1>3. Ledger'
  BY <1>2 DEF IInv, Ledger
<1>4. Classified'
  BY <1>2 DEF IInv, Classified
<1> QED
  BY <1>1, <1>2, <1>3, <1>4

-----------------------------------------------------------------------------
(* The invariant holds at first and is kept by every step.                 *)

\* The invariant holds before the session is created.
LEMMA InitIInv == Init => IInv
<1> SUFFICES ASSUME Init PROVE IInv
  OBVIOUS
<1>1. repeatable \in [Calls -> BOOLEAN]
  BY IdempotentType DEF Init
<1>2. TypeOK
  <2>1. Contract!TypeOK
    <3>1. answer \in [Calls -> Contract!Answers \cup {"none"}]
      BY DEF Init
    <3>2. phase \in [Calls -> {"new", "open", "closed"}]
      BY DEF Init
    <3>3. effect \in [Calls -> {"never", "once", "repeatedly"}]
      BY DEF Init
    <3> QED
      BY <1>1, <3>1, <3>2, <3>3, Zenon DEF Contract!TypeOK
  <2>2. issued \in Seq(Turns) /\ log \in Seq([turn : Turns, into : SessionStates])
    BY DEF Init
  <2> QED
    BY <2>1, <2>2 DEF Init, TypeOK, SessionStates
<1>3. Classified /\ Ledger
  BY DEF Init, Classified, Ledger
<1>4. Order
  BY Names DEF Init, Order
<1>5. Service
  BY Names DEF Init, Service
<1> QED
  BY <1>2, <1>3, <1>4, <1>5 DEF IInv

\* The entries of a sequence are of its type.
LEMMA SeqEntries ==
  ASSUME NEW S, NEW s \in Seq(S)
  PROVE  \A i \in DOMAIN s : s[i] \in S
OBVIOUS

\* The log of the server holds turns, each with the state of its session.
LEMMA LogEntries ==
  ASSUME IInv
  PROVE  \A i \in DOMAIN log : log[i] \in [turn : Turns, into : SessionStates]
                               /\ log[i].turn \in Turns
<1>1. log \in Seq([turn : Turns, into : SessionStates])
  BY DEF IInv, TypeOK
<1>2. \A i \in DOMAIN log : log[i] \in [turn : Turns, into : SessionStates]
  BY <1>1, SeqEntries, Zenon
<1> QED
  BY <1>2

\* The server's side is left alone, and no answer of a turn is lost.
LEMMA ServiceKept ==
  ASSUME IInv, UNCHANGED <<server, repeatable, effect>>,
         \A c \in Calls : phase[c] = "closed" => answer'[c] = answer[c]
  PROVE  Service'
<1>1. \A i \in DOMAIN log : log[i].turn \in Calls
  BY LogEntries, Names
<1>2. \A i \in DOMAIN log : answer[log[i].turn] = "unknown" => answer'[log[i].turn] = "unknown"
  BY <1>1 DEF IInv, Ledger
<1> QED
  BY <1>2, Names DEF IInv, Service, server

\* Asking for the session keeps the invariant.
LEMMA CreateStep == IInv /\ Create => IInv'
<1> SUFFICES ASSUME IInv, Create PROVE IInv'
  OBVIOUS
<1>1. Contract!Open("start") /\ UNCHANGED <<at, failure, raised, issued, server>>
  BY DEF Create, program
<1>2. /\ phase["start"] = "new" /\ phase'["start"] = "open"
      /\ \A d \in Calls \ {"start"} : phase'[d] = phase[d]
      /\ UNCHANGED <<repeatable, effect, answer>>
      /\ Contract!TypeOK' /\ Ledger' /\ Classified'
  BY <1>1, Opened, Names
<1>3. TypeOK'
  BY <1>1, <1>2 DEF IInv, TypeOK, server
<1>4. Order'
  BY <1>1, <1>2, Names, BodyAssumption DEF IInv, Order, Create
<1>5. Service'
  BY <1>1, <1>2, ServiceKept
<1> QED
  BY <1>2, <1>3, <1>4, <1>5 DEF IInv

\* The answer to the start keeps it.
LEMMA CreatedStep == ASSUME NEW a \in Contract!Answers, IInv, Created(a) PROVE IInv'
<1>1. Contract!Answer("start", a) /\ UNCHANGED <<failure, issued, server>>
  BY DEF Created
<1>2. /\ phase["start"] = "open" /\ phase'["start"] = "closed" /\ answer'["start"] = a
      /\ \A d \in Calls \ {"start"} : phase'[d] = phase[d] /\ answer'[d] = answer[d]
      /\ UNCHANGED <<repeatable, effect>>
      /\ Contract!TypeOK' /\ Ledger' /\ Classified'
  BY <1>1, Answered, Names
<1>3. \/ a = "done" /\ at' = "body" /\ raised' = raised
      \/ a \in {"refused", "unknown"} /\ at' = "over" /\ raised' = "error"
  BY DEF Created, Contract!Answers
<1>4. TypeOK'
  BY <1>1, <1>2, <1>3 DEF IInv, TypeOK, server
<1>5. Order'
  BY <1>1, <1>2, <1>3, Names, BodyAssumption DEF IInv, Order
<1>6. Service'
  BY <1>1, <1>2, ServiceKept
<1> QED
  BY <1>2, <1>4, <1>5, <1>6 DEF IInv

\* A call of the body keeps it.
LEMMA CallStep == ASSUME NEW c \in Body, IInv, Call(c) PROVE IInv'
<1>1. /\ at = "body" /\ Contract!Open(c) /\ UNCHANGED <<at, failure, raised, server>>
      /\ issued' = issued \/ (c \in Turns /\ issued' = Append(issued, c))
  BY DEF Call, Turns
<1>0. \A d \in Body : phase[d] # "open"
  BY Names DEF Call, Pending
<1>2. /\ phase[c] = "new" /\ phase'[c] = "open"
      /\ \A d \in Calls \ {c} : phase'[d] = phase[d]
      /\ UNCHANGED <<repeatable, effect, answer>>
      /\ Contract!TypeOK' /\ Ledger' /\ Classified'
  BY <1>1, Opened, Names
<1>3. issued' \in Seq(Turns)
  BY <1>1 DEF IInv, TypeOK
<1>4. TypeOK'
  BY <1>1, <1>2, <1>3 DEF IInv, TypeOK, server
<1>5. Order'
  BY <1>0, <1>1, <1>2, Names, BodyAssumption DEF IInv, Order
<1>6. Service'
  BY <1>1, <1>2, ServiceKept
<1> QED
  BY <1>2, <1>4, <1>5, <1>6 DEF IInv

\* The answer to a call of the body keeps it.
LEMMA ReturnedStep ==
  ASSUME NEW c \in Body, NEW a \in Contract!Answers, IInv, Returned(c, a) PROVE IInv'
<1>1. /\ at = "body" /\ Contract!Answer(c, a) /\ UNCHANGED <<raised, issued, server>>
      /\ \/ at' = at /\ failure' = failure
         \/ at' = "exiting" /\ failure' = "error"
  BY DEF Returned
<1>2. /\ phase[c] = "open" /\ phase'[c] = "closed" /\ answer'[c] = a
      /\ \A d \in Calls \ {c} : phase'[d] = phase[d] /\ answer'[d] = answer[d]
      /\ UNCHANGED <<repeatable, effect>>
      /\ Contract!TypeOK' /\ Ledger' /\ Classified'
  BY <1>1, Answered, Names
<1>3. \A d \in Body \ {c} : phase[d] # "open"
  BY <1>2 DEF IInv, Order
<1>4. TypeOK'
  BY <1>1, <1>2 DEF IInv, TypeOK, server
<1>5. Order'
  BY <1>1, <1>2, <1>3, Names, BodyAssumption DEF IInv, Order
<1>6. Service'
  BY <1>1, <1>2, ServiceKept
<1> QED
  BY <1>2, <1>4, <1>5, <1>6 DEF IInv

\* Leaving the body, with or without an exception, keeps it.
LEMMA LeaveStep == IInv /\ Leave => IInv'
<1> SUFFICES ASSUME IInv, Leave PROVE IInv'
  OBVIOUS
<1>1. /\ at = "body" /\ at' = "exiting" /\ failure' \in {"none", "error"}
      /\ UNCHANGED <<contract, raised, issued, server>>
      /\ \A c \in Calls : phase[c] # "open"
  BY DEF Leave, Pending
<1>2. Contract!TypeOK' /\ Ledger' /\ Classified'
  BY <1>1 DEF IInv, TypeOK, Contract!TypeOK, Ledger, Classified, contract
<1>3. TypeOK'
  BY <1>1, <1>2 DEF IInv, TypeOK, server
<1>4. Order'
  BY <1>1, Names DEF IInv, Order, contract
<1>5. Service'
  BY <1>1, ServiceKept DEF contract
<1> QED
  BY <1>2, <1>3, <1>4, <1>5 DEF IInv

\* Asking for the end of the session keeps it.
LEMMA ExitStep == IInv /\ Exit => IInv'
<1> SUFFICES ASSUME IInv, Exit PROVE IInv'
  OBVIOUS
<1>1. /\ at = "exiting" /\ Contract!Open("end")
      /\ UNCHANGED <<at, failure, raised, issued, server>>
  BY DEF Exit, program
<1>2. /\ phase["end"] = "new" /\ phase'["end"] = "open"
      /\ \A d \in Calls \ {"end"} : phase'[d] = phase[d]
      /\ UNCHANGED <<repeatable, effect, answer>>
      /\ Contract!TypeOK' /\ Ledger' /\ Classified'
  BY <1>1, Opened, Names
<1>3. TypeOK'
  BY <1>1, <1>2 DEF IInv, TypeOK, server
<1>4. Order'
  BY <1>1, <1>2, Names, BodyAssumption DEF IInv, Order
<1>5. Service'
  BY <1>1, <1>2, ServiceKept
<1> QED
  BY <1>2, <1>3, <1>4, <1>5 DEF IInv

\* The answer to the end keeps it.
LEMMA ExitedStep == ASSUME NEW a \in Contract!Answers, IInv, Exited(a) PROVE IInv'
<1>1. /\ Contract!Answer("end", a) /\ at' = "over" /\ raised' = failure
      /\ UNCHANGED <<failure, issued, server>>
  BY DEF Exited
<1>2. /\ phase["end"] = "open" /\ phase'["end"] = "closed" /\ answer'["end"] = a
      /\ \A d \in Calls \ {"end"} : phase'[d] = phase[d] /\ answer'[d] = answer[d]
      /\ UNCHANGED <<repeatable, effect>>
      /\ Contract!TypeOK' /\ Ledger' /\ Classified'
  BY <1>1, Answered, Names
<1>3. TypeOK'
  BY <1>1, <1>2 DEF IInv, TypeOK, server
<1>4. Order'
  BY <1>1, <1>2, Names, BodyAssumption DEF IInv, Order
<1>5. Service'
  BY <1>1, <1>2, ServiceKept
<1> QED
  BY <1>2, <1>3, <1>4, <1>5 DEF IInv

\* An interrupt ends what the program was waiting for, in any stage.
LEMMA InterruptStep == IInv /\ Interrupt => IInv'
<1> SUFFICES ASSUME IInv, Interrupt PROVE IInv'
  OBVIOUS
<1>1. /\ \/ at = "creating" /\ phase["start"] = "open" /\ at' = "over"
            /\ raised' = "interrupt" /\ failure' = failure
         \/ at = "body" /\ at' = "exiting" /\ failure' = "interrupt" /\ raised' = raised
         \/ at = "exiting" /\ at' = "over" /\ raised' = "exitInterrupt" /\ failure' = failure
      /\ UNCHANGED <<issued, server>>
  BY DEF Interrupt
<1>2. CASE \E c \in Calls : Contract!Answer(c, "unknown")
  <2>1. PICK c \in Calls : Contract!Answer(c, "unknown")
    BY <1>2
  <2>2. "unknown" \in Contract!Answers
    BY DEF Contract!Answers
  <2>3. /\ phase[c] = "open" /\ phase'[c] = "closed" /\ answer'[c] = "unknown"
        /\ \A d \in Calls \ {c} : phase'[d] = phase[d] /\ answer'[d] = answer[d]
        /\ UNCHANGED <<repeatable, effect>>
        /\ Contract!TypeOK' /\ Ledger' /\ Classified'
    BY <2>1, <2>2, Answered
  <2>4. TypeOK'
    BY <1>1, <2>3 DEF IInv, TypeOK, server
  <2>5. Service'
    BY <1>1, <2>3, ServiceKept
  <2>6. CASE c = "start"
    <3>1. at = "creating"
      BY <2>3, <2>6 DEF IInv, Order
    <3> QED
      BY <1>1, <2>3, <2>4, <2>5, <2>6, <3>1, Names, BodyAssumption DEF IInv, Order
  <2>7. CASE c = "end"
    <3>1. at = "exiting"
      BY <2>3, <2>7 DEF IInv, Order
    <3> QED
      BY <1>1, <2>3, <2>4, <2>5, <2>7, <3>1, Names, BodyAssumption DEF IInv, Order
  <2>8. CASE c \in Body
    <3>1. at = "body" /\ \A d \in Body \ {c} : phase[d] # "open"
      BY <2>3, <2>8 DEF IInv, Order
    <3> QED
      BY <1>1, <2>3, <2>4, <2>5, <2>8, <3>1, Names, BodyAssumption DEF IInv, Order
  <2> QED
    BY <2>6, <2>7, <2>8 DEF Calls
<1>3. CASE ~Pending /\ UNCHANGED contract
  <2>1. \A c \in Calls : phase[c] # "open"
    BY <1>3 DEF Pending
  <2>2. Contract!TypeOK' /\ Ledger' /\ Classified'
    BY <1>3 DEF IInv, TypeOK, Contract!TypeOK, Ledger, Classified, contract
  <2>3. TypeOK'
    BY <1>1, <2>2 DEF IInv, TypeOK, server
  <2>4. Order'
    BY <1>1, <1>3, <2>1, Names DEF IInv, Order, contract
  <2>5. Service'
    BY <1>1, <1>3, ServiceKept DEF contract
  <2> QED
    BY <2>2, <2>3, <2>4, <2>5 DEF IInv
<1> QED
  BY <1>2, <1>3 DEF Interrupt, Interrupted

\* What the server does leaves the program's order alone.
LEMMA OrderKept ==
  ASSUME IInv, UNCHANGED <<phase, answer, program>>
  PROVE  Order'
BY DEF IInv, Order, program

\* A request that takes effect at the server keeps it.
LEMMA PerformStep == ASSUME NEW c \in Calls, IInv, Perform(c) PROVE IInv'
<1>1. /\ phase[c] # "new" /\ effect'[c] # "never"
      /\ \A d \in Calls \ {c} : effect'[d] = effect[d]
      /\ effect[c] = "never" \/ repeatable[c]
      /\ repeatable[c] \/ answer[c] \in {"none", "unknown"}
      /\ UNCHANGED <<phase, repeatable, answer>>
      /\ Contract!TypeOK' /\ Ledger' /\ Classified'
  BY Applied DEF Perform
<1>2. Order'
  BY <1>1, OrderKept DEF Perform
<1>3. c = "end" => session # "absent"
  BY <1>1, Names DEF IInv, Order, Ledger, Service
<1>4. CASE Operation(c) = "start" /\ StartSession
  <2>1. c = "start"
    BY <1>4, DoesAssumption DEF Operation, Calls
  <2>2. TypeOK'
    BY <1>1, <1>4 DEF IInv, TypeOK, StartSession, Perform, program, SessionStates
  <2>3. Service'
    BY <1>1, <1>4, <2>1, Names, BodyAssumption DEF IInv, Service, StartSession
  <2> QED
    BY <1>1, <1>2, <2>2, <2>3 DEF IInv
<1>5. CASE Operation(c) = "store" /\ StoreTurn(c)
  <2>1. c \in Turns /\ c # "start" /\ c # "end"
    BY <1>5, BodyAssumption DEF Operation, Calls, Turns
  <2>2. /\ log' = Append(log, [turn |-> c, into |-> session])
        /\ session' = session /\ orphan' = orphan
    BY <1>5 DEF StoreTurn
  <2>3. [turn |-> c, into |-> session] \in [turn : Turns, into : SessionStates]
    BY <2>1 DEF IInv, TypeOK
  <2>4. log' \in Seq([turn : Turns, into : SessionStates])
    BY <2>2, <2>3 DEF IInv, TypeOK
  <2>5. TypeOK'
    BY <1>1, <2>2, <2>4 DEF IInv, TypeOK, Perform, program
  <2>6. session = "endedByExit" => repeatable[c] \/ answer[c] = "unknown"
    <3>1. SUFFICES ASSUME session = "endedByExit" PROVE repeatable[c] \/ answer[c] = "unknown"
      OBVIOUS
    <3>2. phase["end"] # "new"
      BY <3>1, Names DEF IInv, Service, Ledger
    <3>3. phase[c] # "open"
      BY <2>1, <3>2, Names DEF IInv, Order
    <3>4. phase[c] = "closed"
      BY <1>1, <3>3 DEF IInv, TypeOK, Contract!TypeOK
    <3> QED
      BY <1>1, <3>4 DEF IInv, Ledger
  <2>7. \A i \in DOMAIN log' :
          \/ i \in DOMAIN log /\ log'[i] = log[i]
          \/ log'[i] = [turn |-> c, into |-> session]
    BY <2>2 DEF IInv, TypeOK
  <2>8. \A i \in DOMAIN log' :
          log'[i].into = "endedByExit" =>
            repeatable[log'[i].turn] \/ answer[log'[i].turn] = "unknown"
    BY <2>6, <2>7 DEF IInv, Service
  <2>9. effect'["start"] = effect["start"] /\ effect'["end"] = effect["end"]
    BY <1>1, <2>1, Names
  <2>10. Service'
    BY <1>1, <2>2, <2>8, <2>9 DEF IInv, Service
  <2> QED
    BY <1>1, <1>2, <2>5, <2>10 DEF IInv
<1>6. CASE Operation(c) = "close" /\ EndSession(c)
  <2>1. c # "start"
    BY <1>6 DEF Operation
  <2>2. /\ log' = log /\ orphan' = orphan
        /\ session' = IF session # "active" THEN session
                      ELSE IF c = "end" THEN "endedByExit" ELSE "endedByCall"
    BY <1>6 DEF EndSession
  <2>3. /\ session # "active" => session' = session
        /\ session = "active" /\ c = "end" => session' = "endedByExit"
        /\ session = "active" /\ c # "end" => session' = "endedByCall"
    BY <2>2
  <2>4. session \in SessionStates /\ session' \in SessionStates
    BY <2>3 DEF IInv, TypeOK, SessionStates
  <2>5. TypeOK'
    BY <1>1, <2>2, <2>4 DEF IInv, TypeOK, Perform, program
  <2>6. effect'["start"] = effect["start"]
    BY <1>1, <2>1, Names
  <2>7. Service'
    BY <1>1, <1>3, <2>2, <2>3, <2>4, <2>6, Names DEF IInv, Service, SessionStates
  <2> QED
    BY <1>1, <1>2, <2>5, <2>7 DEF IInv
<1>7. CASE Operation(c) \in {"recall", "touch"} /\ UNCHANGED server
  <2>1. c # "start" /\ c # "end"
    BY <1>7 DEF Operation
  <2>2. effect'["start"] = effect["start"] /\ effect'["end"] = effect["end"]
    BY <1>1, <2>1, Names
  <2>3. TypeOK'
    BY <1>1, <1>7 DEF IInv, TypeOK, Perform, program, server
  <2>4. Service'
    BY <1>1, <1>7, <2>2 DEF IInv, Service, server
  <2> QED
    BY <1>1, <1>2, <2>3, <2>4 DEF IInv
<1> QED
  BY <1>4, <1>5, <1>6, <1>7 DEF Perform

\* The idle timeout of the server keeps it.
LEMMA IdleStep == IInv /\ IdleTimeout => IInv'
<1> SUFFICES ASSUME IInv, IdleTimeout PROVE IInv'
  OBVIOUS
<1>1. /\ session = "active" /\ session' = "endedIdle"
      /\ UNCHANGED <<contract, program, orphan, log>>
  BY DEF IdleTimeout
<1>2. TypeOK'
  BY <1>1 DEF IInv, TypeOK, Contract!TypeOK, contract, program, SessionStates
<1>3. Ledger' /\ Classified'
  BY <1>1 DEF IInv, Ledger, Classified, contract
<1>4. Order'
  BY <1>1, OrderKept DEF contract
<1>5. Service'
  BY <1>1 DEF IInv, Service, contract
<1> QED
  BY <1>2, <1>3, <1>4, <1>5 DEF IInv

\* What leaves all variables alone keeps it.
LEMMA StutterStep == IInv /\ UNCHANGED vars => IInv'
BY DEF IInv, TypeOK, Contract!TypeOK, Ledger, Classified, Order, Service,
       vars, contract, program, server

\* Every step keeps it.
LEMMA NextStep == IInv /\ [Next]_vars => IInv'
BY CreateStep, CreatedStep, CallStep, ReturnedStep, LeaveStep, ExitStep, ExitedStep,
   InterruptStep, PerformStep, IdleStep, StutterStep DEF Next

-----------------------------------------------------------------------------
(* Theorems.                                                               *)

\* The invariant holds of every behaviour: types, answers, the order of the
\* calls and the state of the server's session belong together.
THEOREM Invariance == Spec => []IInv
BY InitIInv, NextStep, PTL DEF Spec

\* However the body of a with statement is left, and whatever is lost on the
\* way, the server keeps an open session only if starting or ending it went
\* wrong, or the exit itself was interrupted (__exit__ of session.py).
THEOREM SessionsAreEnded == Spec => []LeftOpenOnlyByFailure
<1>1. IInv => LeftOpenOnlyByFailure
  <2> SUFFICES ASSUME IInv, ~RetryNonIdempotent, at = "over", session = "active" \/ orphan,
                      answer["start"] # "unknown", raised # "exitInterrupt"
               PROVE  answer["end"] \in {"refused", "unknown"}
    BY DEF LeftOpenOnlyByFailure
  <2>1. ~repeatable["start"]
    BY OnlyRecallsRepeat, Names DEF IInv, Classified, Operation
  <2>2. session = "active" /\ effect["start"] # "never"
    BY <2>1 DEF IInv, Service
  <2>3. answer["start"] # "refused"
    BY <2>1, <2>2, Names DEF IInv, Ledger
  <2>4. phase["end"] = "closed"
    BY <2>3 DEF IInv, Order
  <2>5. answer["end"] # "none" /\ answer["end"] # "done"
    BY <2>2, <2>4, Names DEF IInv, Ledger, Service
  <2> QED
    BY <2>5, Names DEF IInv, TypeOK, Contract!TypeOK, Contract!Answers
<1> QED
  BY <1>1, Invariance, PTL

\* A turn that reaches the server after the exit ended the session is one
\* whose storing had no known outcome.
THEOREM LateTurnsAreUnknown == Spec => []LateTurnsUnknown
<1>1. IInv => LateTurnsUnknown
  <2> SUFFICES ASSUME IInv, ~RetryNonIdempotent, NEW i \in DOMAIN log,
                      log[i].into = "endedByExit"
               PROVE  answer[log[i].turn] = "unknown"
    BY DEF LateTurnsUnknown
  <2>1. log[i].turn \in Turns
    BY LogEntries
  <2>2. log[i].turn \in Calls /\ Operation(log[i].turn) # "recall"
    BY <2>1, BodyAssumption DEF Turns, Operation, Calls
  <2>3. ~repeatable[log[i].turn]
    BY <2>2, OnlyRecallsRepeat DEF IInv, Classified
  <2> QED
    BY <2>3 DEF IInv, Service
<1> QED
  BY <1>1, Invariance, PTL

\* The with statement raises what left its body, not what its exit met.
THEOREM FailuresAreKept == Spec => []ExitKeepsFailure
<1>1. IInv => ExitKeepsFailure
  BY DEF IInv, Order, ExitKeepsFailure
<1> QED
  BY <1>1, Invariance, PTL

-----------------------------------------------------------------------------
(* The order of the conversation.                                          *)

\* The turns carried out are the turns in the log, each there once; a turn is
\* issued when every earlier one has been answered, so that an earlier one that
\* was acknowledged is in the log by then.
Conversation ==
  ~RetryNonIdempotent =>
    /\ \A c \in Turns : effect[c] # "never" => \E i \in DOMAIN log : log[i].turn = c
    /\ \A i \in DOMAIN log : effect[log[i].turn] # "never"
    /\ \A k \in DOMAIN issued : phase[issued[k]] # "new"
    /\ \A k, l \in DOMAIN issued :
         k < l => phase[issued[k]] = "closed" /\ issued[k] # issued[l]
    /\ TurnsInOrder

\* The entries of issued are turns.
LEMMA IssuedEntries ==
  ASSUME IInv
  PROVE  \A k \in DOMAIN issued : issued[k] \in Turns /\ issued[k] \in Calls
<1>1. issued \in Seq(Turns)
  BY DEF IInv, TypeOK
<1>2. \A k \in DOMAIN issued : issued[k] \in Turns
  BY <1>1, SeqEntries, Zenon
<1> QED
  BY <1>2, Names

\* Steps that neither issue nor carry out a call: an answer closes its call,
\* and what was closed keeps its answer.
LEMMA ConversationKept ==
  ASSUME IInv, IInv', Conversation, UNCHANGED <<issued, log, effect>>,
         \A c \in Calls : /\ phase[c] = "closed" =>
                               phase'[c] = "closed" /\ answer'[c] = answer[c]
                          /\ phase[c] # "new" => phase'[c] # "new"
  PROVE  Conversation'
<1> SUFFICES ASSUME ~RetryNonIdempotent
             PROVE  Conversation'
  BY DEF Conversation
<1>1. \A c \in Turns : answer'[c] = "done" => effect[c] # "never"
  BY Names DEF IInv, Ledger
<1>2. \A k, l \in DOMAIN issued : k < l => answer'[issued[k]] = answer[issued[k]]
  BY IssuedEntries DEF Conversation
<1>3. TurnsInOrder'
  BY <1>1, <1>2 DEF Conversation, TurnsInOrder
<1>4. \A k, l \in DOMAIN issued : k < l => phase'[issued[k]] = "closed"
  BY IssuedEntries DEF Conversation
<1>5. \A k \in DOMAIN issued : phase'[issued[k]] # "new"
  BY IssuedEntries DEF Conversation
<1> QED
  BY <1>3, <1>4, <1>5 DEF Conversation

\* A call of the body begins when none is pending.
LEMMA ConversationCall ==
  ASSUME NEW c \in Body, IInv, Conversation, Call(c)
  PROVE  Conversation'
<1> SUFFICES ASSUME ~RetryNonIdempotent
             PROVE  Conversation'
  BY DEF Conversation
<1>1. /\ phase[c] = "new" /\ phase'[c] = "open"
      /\ \A d \in Calls \ {c} : phase'[d] = phase[d]
      /\ UNCHANGED <<repeatable, effect, answer, log>>
      /\ \A d \in Calls : phase[d] # "open"
  BY Opened, Names DEF Call, Pending, server
<1>2. effect[c] = "never"
  BY <1>1, Names DEF IInv, Ledger
<1>3. \A k \in DOMAIN issued : /\ issued[k] # c /\ phase[issued[k]] = "closed"
                                /\ phase'[issued[k]] = "closed"
  BY <1>1, IssuedEntries DEF Conversation, IInv, TypeOK, Contract!TypeOK
<1>4. \A i \in DOMAIN log : log[i].turn # c
  BY <1>2 DEF Conversation
<1>5. CASE UNCHANGED issued
  BY <1>1, <1>3, <1>5 DEF Conversation, TurnsInOrder
<1>6. CASE issued' = Append(issued, c)
  <2>1. issued \in Seq(Turns)
    BY DEF IInv, TypeOK
  <2>2. \A k \in DOMAIN issued' :
          \/ k \in DOMAIN issued /\ issued'[k] = issued[k]
          \/ k = Len(issued) + 1 /\ issued'[k] = c
    BY <1>6, <2>1
  <2>3. \A k, l \in DOMAIN issued' : k < l => k \in DOMAIN issued /\ issued'[k] = issued[k]
    BY <1>6, <2>1
  <2>4. TurnsInOrder'
    BY <1>1, <1>4, <2>2, <2>3 DEF Conversation, TurnsInOrder
  <2>5. /\ \A k \in DOMAIN issued' : phase'[issued'[k]] # "new"
        /\ \A k, l \in DOMAIN issued' :
             k < l => phase'[issued'[k]] = "closed" /\ issued'[k] # issued'[l]
    BY <1>1, <1>3, <2>2, <2>3 DEF Conversation
  <2> QED
    BY <1>1, <2>4, <2>5 DEF Conversation
<1> QED
  BY <1>5, <1>6 DEF Call

\* A turn is carried out once, and not after it was acknowledged.
LEMMA ConversationPerform ==
  ASSUME NEW c \in Calls, IInv, Conversation, Perform(c)
  PROVE  Conversation'
<1> SUFFICES ASSUME ~RetryNonIdempotent
             PROVE  Conversation'
  BY DEF Conversation
<1>1. /\ phase[c] # "new" /\ effect'[c] # "never"
      /\ \A d \in Calls \ {c} : effect'[d] = effect[d]
      /\ effect[c] = "never" \/ repeatable[c]
      /\ repeatable[c] \/ answer[c] \in {"none", "unknown"}
      /\ UNCHANGED <<phase, answer, issued>>
  BY Applied DEF Perform, program
<1>2. CASE Operation(c) # "store"
  <2>1. c \notin Turns
    BY <1>2, BodyAssumption DEF Operation, Turns
  <2>2. UNCHANGED log
    BY <1>2 DEF Perform, StartSession, EndSession, server
  <2>3. \A i \in DOMAIN log : log[i].turn \in Turns
    BY LogEntries
  <2> QED
    BY <1>1, <2>1, <2>2, <2>3, Names DEF Conversation, TurnsInOrder
<1>3. CASE Operation(c) = "store"
  <2>1. ~repeatable[c]
    BY <1>3, OnlyRecallsRepeat DEF IInv, Classified
  <2>2. effect[c] = "never" /\ answer[c] # "done"
    BY <1>1, <2>1
  <2>3. log' = Append(log, [turn |-> c, into |-> session])
    BY <1>3 DEF Perform, StoreTurn
  <2>4. log \in Seq([turn : Turns, into : SessionStates])
    BY DEF IInv, TypeOK
  <2>5. /\ \A i \in DOMAIN log : i \in DOMAIN log' /\ log'[i] = log[i] /\ i < Len(log) + 1
        /\ Len(log) + 1 \in DOMAIN log' /\ log'[Len(log) + 1].turn = c
        /\ \A i \in DOMAIN log' : i \in DOMAIN log \/ i = Len(log) + 1
    BY <2>3, <2>4
  <2>6. \A i \in DOMAIN log : log[i].turn # c /\ log[i].turn \in Calls
    BY <2>2, LogEntries, Names DEF Conversation
  <2>7. TurnsInOrder'
    <3>1. \A d \in Turns : answer[d] = "done" => \E i \in DOMAIN log' : log'[i].turn = d
      BY <2>5 DEF Conversation, TurnsInOrder
    <3>2. \A i, j \in DOMAIN log' : log'[i].turn = log'[j].turn => i = j
      BY <2>5, <2>6 DEF Conversation, TurnsInOrder
    <3>3. ASSUME NEW k \in DOMAIN issued, NEW l \in DOMAIN issued,
                 NEW i \in DOMAIN log', NEW j \in DOMAIN log',
                 k < l, answer[issued[k]] = "done",
                 log'[i].turn = issued[k], log'[j].turn = issued[l]
          PROVE  i < j
      <4>1. i \in DOMAIN log /\ log[i].turn = issued[k]
        BY <2>2, <2>5, <3>3
      <4>2. CASE j \in DOMAIN log
        BY <2>5, <3>3, <4>1, <4>2 DEF Conversation, TurnsInOrder
      <4>3. CASE j = Len(log) + 1
        BY <2>5, <4>1, <4>3
      <4> QED
        BY <2>5, <4>2, <4>3
    <3> QED
      BY <1>1, <3>1, <3>2, <3>3 DEF TurnsInOrder
  <2>8. \A d \in Turns : effect'[d] # "never" => \E i \in DOMAIN log' : log'[i].turn = d
    BY <1>1, <2>5, Names DEF Conversation
  <2>9. \A i \in DOMAIN log' : effect'[log'[i].turn] # "never"
    BY <1>1, <2>5, <2>6 DEF Conversation
  <2> QED
    BY <1>1, <2>7, <2>8, <2>9 DEF Conversation
<1> QED
  BY <1>2, <1>3

\* Every step keeps the order of the conversation.
LEMMA ConversationStep == IInv /\ Conversation /\ [Next]_vars => Conversation'
<1> SUFFICES ASSUME IInv, Conversation, [Next]_vars
             PROVE  Conversation'
  OBVIOUS
<1>0. IInv'
  BY NextStep
<1>1. ASSUME NEW c \in Calls, Contract!Open(c), UNCHANGED <<issued, log>>
      PROVE  Conversation'
  BY <1>0, <1>1, Opened, ConversationKept
<1>2. ASSUME NEW c \in Calls, NEW a \in Contract!Answers, Contract!Answer(c, a),
             UNCHANGED <<issued, log>>
      PROVE  Conversation'
  <2>1. /\ phase[c] = "open" /\ phase'[c] = "closed"
        /\ \A d \in Calls \ {c} : phase'[d] = phase[d] /\ answer'[d] = answer[d]
        /\ UNCHANGED effect
    BY <1>2, Answered
  <2> QED
    BY <1>0, <1>2, <2>1, ConversationKept
<1>3. ASSUME UNCHANGED <<contract, issued, log>>
      PROVE  Conversation'
  BY <1>0, <1>3, ConversationKept DEF contract
<1>4. CASE Create
  BY <1>1, <1>4, Names DEF Create, program, server
<1>5. ASSUME NEW a \in Contract!Answers, Created(a)
      PROVE  Conversation'
  BY <1>2, <1>5, Names DEF Created, server
<1>6. ASSUME NEW c \in Body, NEW a \in Contract!Answers, Returned(c, a)
      PROVE  Conversation'
  BY <1>2, <1>6, Names DEF Returned, server
<1>7. CASE Leave
  BY <1>3, <1>7 DEF Leave, server
<1>8. CASE Exit
  BY <1>1, <1>8, Names DEF Exit, program, server
<1>9. ASSUME NEW a \in Contract!Answers, Exited(a)
      PROVE  Conversation'
  BY <1>2, <1>9, Names DEF Exited, server
<1>10. CASE Interrupt
  <2>1. "unknown" \in Contract!Answers
    BY DEF Contract!Answers
  <2> QED
    BY <1>2, <1>3, <1>10, <2>1 DEF Interrupt, Interrupted, server
<1>11. CASE IdleTimeout
  BY <1>3, <1>11 DEF IdleTimeout, program
<1>12. CASE UNCHANGED vars
  BY <1>3, <1>12 DEF vars, program, server
<1> QED
  BY <1>4, <1>5, <1>6, <1>7, <1>8, <1>9, <1>10, <1>11, <1>12,
     ConversationCall, ConversationPerform DEF Next

\* TurnsInOrder: for any body, whatever is lost and however late the server
\* acts, an acknowledged turn is stored once and before all that follow it.
THEOREM ConversationInOrder == Spec => []TurnsInOrder
<1>1. Init => Conversation
  BY DEF Init, Conversation, TurnsInOrder, Turns, Calls
<1>2. Conversation => TurnsInOrder
  BY DEF Conversation, TurnsInOrder
<1> QED
  BY <1>1, <1>2, ConversationStep, Invariance, PTL DEF Spec
=============================================================================
