---------------------------- MODULE CapabilityCache ----------------------------
(***************************************************************************)
(* The capability document that an AsyncDakeraClient keeps, shared by the  *)
(* tasks that use the client: capabilities, require_supported and the      *)
(* operations that check a value (a model, an index kind, a metric) before *)
(* they send their request (_preflight).                                   *)
(*                                                                         *)
(* A task is interrupted only where it awaits the answer to its GET        *)
(* /v1/capabilities; other tasks may run, and the server may be upgraded,  *)
(* between its two halves.  Whether the request is retried underneath does *)
(* not matter here: it only reads, and ends in a document, in a 404 or in  *)
(* another exception.                                                      *)
(***************************************************************************)
EXTENDS Integers

CONSTANTS
  Tasks,         \* the tasks that share the client, each with one job
  LastVersion,   \* bound: the newest version the server is upgraded to
  Advertised,    \* the versions whose document advertises the value asked for
  Preflight      \* the constructor's argument `preflight`

\* Version 0 of the server predates /v1/capabilities and answers 404.
Versions == 0..LastVersion
Documents == 1..LastVersion

ASSUME LastVersionAssumption == LastVersion \in Nat
ASSUME AdvertisedAssumption == Advertised \subseteq Documents
ASSUME PreflightAssumption == Preflight \in BOOLEAN

\* capabilities(), capabilities(refresh=True), require_supported(...) and an
\* operation such as upsert_text(..., model=...).
Jobs == {"capabilities", "refresh", "require", "operate"}

None == -1
Failure == -2      \* an exception other than NotFoundError

VARIABLES
  job,           \* job[t]: what t calls
  pc,            \* pc[t]: "new", "awaiting" or "done"
  answer,        \* answer[t]: the version that answered t, or Failure
  outcome,       \* outcome[t]: how t's call ended
  capabilities,  \* _capabilities: the document kept, or None
  unavailable,   \* _capabilities_unavailable
  server,        \* the version the server runs
  asOf,          \* history: asOf[t] is the version when t's call began
  before,        \* history: before[t] are the tasks done by then
  overlapping    \* history: the tasks awaiting when capabilities was written

vars == <<job, pc, answer, outcome, capabilities, unavailable, server,
          asOf, before, overlapping>>

NoOutcome == [how |-> "none", document |-> None]
Outcomes ==
  [how : {"none", "returned", "supported", "rejected", "sent", "notFound", "failed"},
   document : Documents \cup {None}]

Init ==
  /\ job \in [Tasks -> Jobs]
  /\ pc = [t \in Tasks |-> "new"]
  /\ answer = [t \in Tasks |-> None]
  /\ outcome = [t \in Tasks |-> NoOutcome]
  /\ capabilities = None
  /\ unavailable = FALSE
  /\ server \in Versions
  /\ asOf = [t \in Tasks |-> None]
  /\ before = [t \in Tasks |-> {}]
  /\ overlapping = {}

-----------------------------------------------------------------------------
(* The client.                                                             *)

End(t, how, document) ==
  /\ pc' = [pc EXCEPT ![t] = "done"]
  /\ outcome' = [outcome EXCEPT ![t] = [how |-> how, document |-> document]]

\* ServerCapabilities.require, then what the caller of the check goes on to.
Require(t, document) ==
  \/ document \notin Advertised /\ End(t, "rejected", document)
  \/ document \in Advertised /\ job[t] = "require" /\ End(t, "supported", document)
  \/ document \in Advertised /\ job[t] = "operate" /\ End(t, "sent", document)

\* A document is at hand.
Use(t, document) ==
  IF job[t] \in {"capabilities", "refresh"} THEN End(t, "returned", document)
                                            ELSE Require(t, document)

\* Mutant: the mark is looked at before the document.
UncheckedMarkFirst(t) ==
  job[t] = "operate" /\ (unavailable \/ (capabilities = None /\ ~Preflight))

\* _preflight returns without a check: nothing is kept, and nothing may be
\* or can be fetched.
Unchecked(t) ==
  /\ job[t] = "operate"
  /\ capabilities = None
  /\ ~Preflight \/ unavailable

\* Mutant: refresh=True is overlooked once a document is kept.
NeedsFetchCached(t) == capabilities = None

\* `self._capabilities is None or refresh`
NeedsFetch(t) == capabilities = None \/ job[t] = "refresh"

\* The request for the document is sent.
Await(t) == pc' = [pc EXCEPT ![t] = "awaiting"] /\ UNCHANGED outcome

\* The call up to its end, if it needs no request, or up to its await.
Begin(t) ==
  /\ pc[t] = "new"
  /\ asOf' = [asOf EXCEPT ![t] = server]
  /\ before' = [before EXCEPT ![t] = {d \in Tasks : pc[d] = "done"}]
  /\ \/ Unchecked(t) /\ End(t, "sent", None)
     \/ ~Unchecked(t) /\ NeedsFetch(t) /\ Await(t)
     \/ ~Unchecked(t) /\ ~NeedsFetch(t) /\ Use(t, capabilities)
  /\ UNCHANGED <<job, answer, capabilities, unavailable, server, overlapping>>

\* Mutant: a failed fetch leaves no document behind.
ResumeRaisedForgetful(t) ==
  /\ answer[t] = Failure
  /\ End(t, "failed", None)
  /\ capabilities' = None
  /\ UNCHANGED <<unavailable, overlapping>>

\* The await raises something else than NotFoundError, which nobody catches.
ResumeRaised(t) ==
  /\ answer[t] = Failure
  /\ End(t, "failed", None)
  /\ UNCHANGED <<capabilities, unavailable, overlapping>>

\* NotFoundError: only _preflight catches it; its operation goes on unchecked.
ResumeNotFound(t) ==
  /\ answer[t] = 0
  /\ IF job[t] = "operate"
       THEN unavailable' = TRUE /\ End(t, "sent", None)
       ELSE UNCHANGED unavailable /\ End(t, "notFound", None)
  /\ UNCHANGED <<capabilities, overlapping>>

\* A document: it is kept, and the mark of a 404 is cleared.
ResumeFetched(t) ==
  /\ answer[t] \in Documents
  /\ capabilities' = answer[t]
  /\ unavailable' = FALSE
  /\ overlapping' = {d \in Tasks \ {t} : pc[d] = "awaiting"}
  /\ Use(t, answer[t])

\* The await returns or raises, and the task runs to the end of its call.
Resume(t) ==
  /\ pc[t] = "awaiting"
  /\ answer[t] # None
  /\ ResumeFetched(t) \/ ResumeNotFound(t) \/ ResumeRaised(t)
  /\ UNCHANGED <<job, answer, server, asOf, before>>

-----------------------------------------------------------------------------
(* The server (external).                                                  *)

Answer(t) ==
  /\ pc[t] = "awaiting"
  /\ answer[t] = None
  /\ \E a \in {server, Failure} : answer' = [answer EXCEPT ![t] = a]
  /\ UNCHANGED <<job, pc, outcome, capabilities, unavailable, server,
                 asOf, before, overlapping>>

Upgrade ==
  /\ server < LastVersion
  /\ server' = server + 1
  /\ UNCHANGED <<job, pc, answer, outcome, capabilities, unavailable,
                 asOf, before, overlapping>>

-----------------------------------------------------------------------------
Next ==
  \/ \E t \in Tasks : Begin(t) \/ Answer(t) \/ Resume(t)
  \/ Upgrade

Spec == Init /\ [][Next]_vars

-----------------------------------------------------------------------------
(* Properties.                                                             *)

\* The type of every variable.
TypeOK ==
  /\ job \in [Tasks -> Jobs]
  /\ pc \in [Tasks -> {"new", "awaiting", "done"}]
  /\ answer \in [Tasks -> Versions \cup {None, Failure}]
  /\ outcome \in [Tasks -> Outcomes]
  /\ capabilities \in Documents \cup {None}
  /\ unavailable \in BOOLEAN
  /\ server \in Versions
  /\ asOf \in [Tasks -> Versions \cup {None}]
  /\ before \in [Tasks -> SUBSET Tasks]
  /\ overlapping \in SUBSET Tasks

\* "The check still runs whenever capabilities have already been fetched":
\* an operation begun after some call had obtained a document is never sent
\* unchecked, although a 404 that was long under way may since have marked
\* the capabilities unavailable.
CheckedOnceKnown ==
  \A t \in Tasks :
    /\ job[t] = "operate" /\ outcome[t].how = "sent"
    /\ \E d \in before[t] : outcome[d].document # None
    => outcome[t].document \in Advertised

\* refresh=True returns what the server offered when it was called, or newer,
\* whatever other tasks have written into the cache meanwhile.
RefreshIsFresh ==
  \A t \in Tasks :
    job[t] = "refresh" /\ outcome[t].how = "returned" =>
      outcome[t].document >= asOf[t]

\* Nobody loses the document, and it is replaced by an older one only by a
\* fetch that was under way when the newer one was written.
OnlyOverlapRegresses ==
  [][capabilities' < capabilities =>
       \E t \in overlapping : pc[t] = "awaiting" /\ pc'[t] = "done"]_vars
=============================================================================
