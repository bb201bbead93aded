--------------------------- MODULE RequestContract ---------------------------
(***************************************************************************)
(* What a caller of the client may rely on, with attempts, replies and the *)
(* network left out: each call is opened once and answered once, its       *)
(* effect is applied on the server at moments of its own, and the answer   *)
(* is honest about the effect.  Only a call whose repetition the client    *)
(* holds to be harmless may be applied more than once, or be refused after *)
(* it was applied.  RequestRetry is shown to implement this.               *)
(***************************************************************************)

CONSTANT Calls

VARIABLES
  phase,       \* phase[c]: the call is "new", "open" or "closed"
  repeatable,  \* repeatable[c]: the client may send c's request again
  effect,      \* effect[c]: c was applied "never", "once" or "repeatedly"
  answer       \* answer[c]: "none", or what the caller was told

vars == <<phase, repeatable, effect, answer>>

Answers == {"done", "refused", "unknown"}

TypeOK ==
  /\ phase \in [Calls -> {"new", "open", "closed"}]
  /\ repeatable \in [Calls -> BOOLEAN]
  /\ effect \in [Calls -> {"never", "once", "repeatedly"}]
  /\ answer \in [Calls -> Answers \cup {"none"}]

Init ==
  /\ phase = [c \in Calls |-> "new"]
  /\ repeatable \in [Calls -> BOOLEAN]
  /\ effect = [c \in Calls |-> "never"]
  /\ answer = [c \in Calls |-> "none"]

Open(c) ==
  /\ phase[c] = "new"
  /\ phase' = [phase EXCEPT ![c] = "open"]
  /\ UNCHANGED <<repeatable, effect, answer>>

\* The effect of a non-repeatable call comes at most once, and never after a
\* definite answer; a call whose answer was "unknown" may still take effect.
Apply(c) ==
  /\ phase[c] # "new"
  /\ \/ effect[c] = "never" /\ effect' = [effect EXCEPT ![c] = "once"]
     \/ repeatable[c] /\ effect' = [effect EXCEPT ![c] = "repeatedly"]
  /\ ~repeatable[c] => answer[c] \in {"none", "unknown"}
  /\ UNCHANGED <<phase, repeatable, answer>>

Answer(c, a) ==
  /\ phase[c] = "open"
  /\ a = "done" => effect[c] # "never"
  /\ a = "refused" /\ ~repeatable[c] => effect[c] = "never"
  /\ phase' = [phase EXCEPT ![c] = "closed"]
  /\ answer' = [answer EXCEPT ![c] = a]
  /\ UNCHANGED <<repeatable, effect>>

\* A call that the client gives up before sending anything (max_retries = 0).
Decline(c) ==
  /\ phase[c] = "new"
  /\ phase' = [phase EXCEPT ![c] = "closed"]
  /\ answer' = [answer EXCEPT ![c] = "refused"]
  /\ UNCHANGED <<repeatable, effect>>

Next ==
  \E c \in Calls :
    \/ Open(c)
    \/ Apply(c)
    \/ \E a \in Answers : Answer(c, a)
    \/ Decline(c)

Spec == Init /\ [][Next]_vars
=============================================================================
