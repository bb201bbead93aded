------------------------- MODULE CapabilityCacheProofs -------------------------
(***************************************************************************)
(* Proofs about CapabilityCache, for every set of tasks, every bound on    *)
(* the versions of the server and every choice of what they advertise.     *)
(***************************************************************************)
EXTENDS CapabilityCache, TLAPS

-----------------------------------------------------------------------------
(* The inductive invariant.                                                *)

\* A call has an outcome once it is done, and knows nothing before it began.
Progress ==
  \A t \in Tasks :
    /\ pc[t] # "done" => outcome[t] = NoOutcome
    /\ pc[t] = "new" => answer[t] = None /\ before[t] = {}
    /\ \A d \in before[t] : pc[d] = "done"

\* Whoever obtained a document left one in the cache, for good.
Kept == \A d \in Tasks : outcome[d].document # None => capabilities # None

Informed(t) == \E d \in before[t] : outcome[d].document # None

\* An operation that began with a document in the cache does not await one.
NoLateCheck ==
  \A t \in Tasks : job[t] = "operate" /\ Informed(t) => pc[t] # "awaiting"

\* Whatever is on its way is no older than the call that asked for it.
Dates ==
  /\ capabilities <= server
  /\ \A t \in Tasks : pc[t] = "awaiting" =>
       /\ asOf[t] <= server
       /\ answer[t] \in Versions => asOf[t] <= answer[t] /\ answer[t] <= server

\* Only the tasks overlapping the last write can bring an older document.
Order ==
  \A t \in Tasks : pc[t] = "awaiting" /\ t \notin overlapping =>
    (answer[t] \in Versions => capabilities <= answer[t])

IInv ==
  TypeOK /\ Progress /\ Kept /\ NoLateCheck /\ Dates /\ Order
    /\ CheckedOnceKnown /\ RefreshIsFresh

-----------------------------------------------------------------------------
\* The constants of the model are different integers.
LEMMA Numbers ==
  /\ Versions \subseteq Int /\ Documents \subseteq Versions
  /\ None \in Int /\ None \notin Versions /\ None # Failure
  /\ Failure \in Int /\ Failure \notin Versions /\ 0 \notin Documents
  /\ \A v \in Versions : None < v
  /\ Versions = Documents \cup {0}
BY LastVersionAssumption DEF Versions, Documents, None, Failure

\* The ways a call may end with a document at hand.
LEMMA UseEnds ==
  ASSUME NEW t \in Tasks, NEW document \in Documents, TypeOK, Use(t, document)
  PROVE  \E how \in {"returned", "supported", "rejected", "sent"} :
           /\ End(t, how, document)
           /\ how = "sent" => document \in Advertised /\ job[t] = "operate"
           /\ how = "returned" <=> job[t] \in {"capabilities", "refresh"}
<1>1. CASE job[t] \in {"capabilities", "refresh"}
  BY <1>1 DEF Use
<1>2. CASE job[t] \notin {"capabilities", "refresh"}
  BY <1>2 DEF Use, Require
<1>3. QED  BY <1>1, <1>2

\* The initial states.
LEMMA IInvInit == Init => IInv
<1> SUFFICES ASSUME Init PROVE IInv
  OBVIOUS
<1>1. TypeOK
  BY DEF Init, TypeOK, NoOutcome, Outcomes
<1>2. Progress
  BY DEF Init, Progress
<1>3. Kept /\ NoLateCheck /\ CheckedOnceKnown /\ RefreshIsFresh
  BY DEF Init, Kept, NoLateCheck, Informed, CheckedOnceKnown, RefreshIsFresh, NoOutcome
<1>4. Dates /\ Order
  BY Numbers DEF Init, Dates, Order
<1>5. QED  BY <1>1, <1>2, <1>3, <1>4 DEF IInv

-----------------------------------------------------------------------------
\* A call that ends keeps what the invariant says of outcomes, if the
\* document it ends with is in the cache afterwards, if it was checked where
\* it had to be, and if a refresh returns no document older than its call.
LEMMA EndStep ==
  ASSUME IInv, NEW t \in Tasks, pc[t] # "done",
         NEW how \in {"returned", "supported", "rejected", "sent", "notFound", "failed"},
         NEW document \in Documents \cup {None},
         End(t, how, document), job' = job, answer' = answer,
         before' \in [Tasks -> SUBSET Tasks],
         \A d \in Tasks \ {t} : before'[d] = before[d],
         \A d \in before'[t] : pc[d] = "done",
         capabilities' \in Documents \cup {None},
         capabilities # None => capabilities' # None,
         document # None => capabilities' # None,
         \A d \in Tasks \ {t} : asOf'[d] = asOf[d],
         job[t] = "operate" /\ how = "sent" /\ (\E d \in before'[t] : outcome[d].document # None)
           => document \in Advertised,
         job[t] = "refresh" /\ how = "returned" => document >= asOf'[t]
  PROVE  /\ pc' \in [Tasks -> {"new", "awaiting", "done"}]
         /\ outcome' \in [Tasks -> Outcomes]
         /\ Progress' /\ Kept' /\ NoLateCheck'
         /\ CheckedOnceKnown' /\ RefreshIsFresh'
<1> USE DEF IInv
<1>1. /\ pc' = [pc EXCEPT ![t] = "done"]
      /\ outcome' = [outcome EXCEPT ![t] = [how |-> how, document |-> document]]
  BY DEF End
<1>2. [how |-> how, document |-> document] \in Outcomes
  BY DEF Outcomes
<1>3. pc' \in [Tasks -> {"new", "awaiting", "done"}] /\ outcome' \in [Tasks -> Outcomes]
  BY <1>1, <1>2 DEF TypeOK
<1>4. /\ pc'[t] = "done"
      /\ outcome'[t].how = how /\ outcome'[t].document = document
      /\ \A d \in Tasks \ {t} : pc'[d] = pc[d] /\ outcome'[d] = outcome[d]
  BY <1>1 DEF TypeOK
<1>5. Progress'
  <2>1. \A d \in Tasks : before'[d] \subseteq Tasks
    OBVIOUS
  <2>2. \A d \in Tasks \ {t} : \A e \in before[d] : pc[e] = "done"
    BY DEF Progress
  <2>3. \A d \in Tasks : \A e \in before'[d] : pc'[e] = "done"
    BY <1>4, <2>1, <2>2
  <2>4. QED  BY <1>4, <2>3 DEF Progress
<1>6. Kept'
  BY <1>4 DEF Kept
<1>7. \A d \in Tasks : \A e \in before'[d] : e # t /\ outcome'[e] = outcome[e]
  BY <1>4 DEF Progress
<1>8. NoLateCheck'
  BY <1>4, <1>7 DEF NoLateCheck, Informed
<1>9. CheckedOnceKnown'
  BY <1>4, <1>7 DEF CheckedOnceKnown
<1>10. RefreshIsFresh'
  BY <1>4 DEF RefreshIsFresh
<1>11. QED  BY <1>3, <1>5, <1>6, <1>8, <1>9, <1>10

-----------------------------------------------------------------------------
(* The steps.                                                              *)

\* A call is begun.
LEMMA BeginStep ==
  ASSUME IInv, NEW t \in Tasks, Begin(t)
  PROVE  IInv'
<1> USE DEF IInv
<1>0. /\ pc[t] = "new" /\ answer[t] = None /\ before[t] = {} /\ outcome[t] = NoOutcome
      /\ asOf' = [asOf EXCEPT ![t] = server]
      /\ before' = [before EXCEPT ![t] = {d \in Tasks : pc[d] = "done"}]
      /\ UNCHANGED <<job, answer, capabilities, unavailable, server, overlapping>>
  BY DEF Begin, Progress
<1>1. /\ asOf' \in [Tasks -> Versions \cup {None}] /\ asOf'[t] = server
      /\ before' \in [Tasks -> SUBSET Tasks]
      /\ before'[t] = {d \in Tasks : pc[d] = "done"}
      /\ \A d \in Tasks \ {t} : asOf'[d] = asOf[d] /\ before'[d] = before[d]
  BY <1>0 DEF TypeOK
<1>2. CASE Await(t)
  <2>1. pc' = [pc EXCEPT ![t] = "awaiting"] /\ outcome' = outcome
    BY <1>2 DEF Await
  <2>2. pc'[t] = "awaiting" /\ \A d \in Tasks \ {t} : pc'[d] = pc[d]
    BY <2>1 DEF TypeOK
  <2>3. TypeOK'
    BY <1>0, <1>1, <2>1 DEF TypeOK
  <2>4. Progress'
    BY <1>0, <1>1, <2>1, <2>2 DEF Progress
  <2>5. Kept' /\ CheckedOnceKnown' /\ RefreshIsFresh'
    BY <1>0, <1>1, <2>1 DEF Kept, CheckedOnceKnown, RefreshIsFresh, NoOutcome
  <2>6. job[t] = "operate" => ~\E d \in before'[t] : outcome[d].document # None
    <3>1. SUFFICES ASSUME job[t] = "operate" PROVE capabilities = None
      BY <1>1 DEF Kept
    <3>2. pc'[t] # "done"
      BY <2>2
    <3>3. ~(Unchecked(t) /\ End(t, "sent", None))
      BY <3>2 DEF End, TypeOK
    <3>4. CASE NeedsFetch(t)
      BY <3>1, <3>4 DEF NeedsFetch
    <3>5. CASE ~Unchecked(t) /\ ~NeedsFetch(t) /\ Use(t, capabilities)
      <4>1. capabilities # None
        BY <3>5 DEF NeedsFetch
      <4>2. capabilities \in Documents
        BY <4>1 DEF TypeOK
      <4>3. PICK how : End(t, how, capabilities)
        BY <3>5, <4>2, UseEnds
      <4>4. QED  BY <4>3, <3>2 DEF End, TypeOK
    <3>6. QED  BY <3>3, <3>4, <3>5 DEF Begin
  <2>7. NoLateCheck'
    BY <1>0, <1>1, <2>1, <2>2, <2>6 DEF NoLateCheck, Informed
  <2>8. Dates'
    BY <1>0, <1>1, <2>2, Numbers DEF Dates, TypeOK
  <2>9. Order'
    BY <1>0, <2>2, Numbers DEF Order
  <2>10. QED  BY <2>3, <2>4, <2>5, <2>7, <2>8, <2>9
<1>3. ASSUME NEW how \in {"returned", "supported", "rejected", "sent"},
             NEW document \in Documents \cup {None},
             End(t, how, document),
             document # None => capabilities = document,
             job[t] = "operate" /\ how = "sent" /\ capabilities # None
               => document \in Advertised,
             ~(job[t] = "refresh" /\ how = "returned")
      PROVE  IInv'
  <2>1. \A d \in before'[t] : outcome[d].document # None => capabilities # None
    BY <1>1 DEF Kept
  <2>2. /\ pc' \in [Tasks -> {"new", "awaiting", "done"}] /\ outcome' \in [Tasks -> Outcomes]
        /\ Progress' /\ Kept' /\ NoLateCheck' /\ CheckedOnceKnown' /\ RefreshIsFresh'
    <3>1. capabilities' \in Documents \cup {None} /\ capabilities' = capabilities
      BY <1>0 DEF TypeOK
    <3>2. \A d \in before'[t] : pc[d] = "done"
      BY <1>1
    <3>3. job[t] = "operate" /\ how = "sent"
            /\ (\E d \in before'[t] : outcome[d].document # None) => document \in Advertised
      BY <1>3, <2>1
    <3>4. QED  BY <1>0, <1>1, <1>3, <3>1, <3>2, <3>3, EndStep
  <2>3. pc'[t] = "done" /\ \A d \in Tasks \ {t} : pc'[d] = pc[d]
    BY <1>3 DEF End, TypeOK
  <2>4. TypeOK'
    BY <1>0, <1>1, <2>2 DEF TypeOK
  <2>5. Dates' /\ Order'
    BY <1>0, <1>1, <2>3 DEF Dates, Order
  <2>6. QED  BY <2>2, <2>4, <2>5
<1>4. CASE Unchecked(t) /\ End(t, "sent", None)
  BY <1>3, <1>4 DEF Unchecked
<1>5. CASE ~Unchecked(t) /\ ~NeedsFetch(t) /\ Use(t, capabilities)
  <2>1. capabilities \in Documents /\ job[t] # "refresh"
    BY <1>5 DEF NeedsFetch, TypeOK
  <2>2. PICK how \in {"returned", "supported", "rejected", "sent"} :
          /\ End(t, how, capabilities)
          /\ how = "sent" => capabilities \in Advertised /\ job[t] = "operate"
    BY <1>5, <2>1, UseEnds
  <2>3. QED  BY <1>3, <2>1, <2>2
<1>6. QED  BY <1>2, <1>4, <1>5 DEF Begin

\* The server answers, with what it has at that moment.
LEMMA AnswerStep ==
  ASSUME IInv, NEW t \in Tasks, Answer(t)
  PROVE  IInv'
<1> USE DEF IInv
<1>1. PICK a \in {server, Failure} : answer' = [answer EXCEPT ![t] = a]
  BY DEF Answer
<1>2. /\ pc[t] = "awaiting"
      /\ UNCHANGED <<job, pc, outcome, capabilities, unavailable, server,
                     asOf, before, overlapping>>
  BY DEF Answer
<1>3. /\ answer' \in [Tasks -> Versions \cup {None, Failure}]
      /\ answer'[t] = a
      /\ \A d \in Tasks \ {t} : answer'[d] = answer[d]
  BY <1>1 DEF TypeOK
<1>4. TypeOK' /\ Progress' /\ Kept' /\ NoLateCheck' /\ CheckedOnceKnown' /\ RefreshIsFresh'
  BY <1>2, <1>3 DEF TypeOK, Progress, Kept, NoLateCheck, Informed, CheckedOnceKnown, RefreshIsFresh
<1>5. Dates'
  BY <1>2, <1>3, Numbers DEF Dates, TypeOK
<1>6. Order'
  BY <1>2, <1>3, Numbers DEF Order, Dates, TypeOK
<1>7. QED  BY <1>4, <1>5, <1>6

\* The server is upgraded.
LEMMA UpgradeStep ==
  ASSUME IInv, Upgrade
  PROVE  IInv'
<1> USE DEF IInv
<1>1. /\ server' = server + 1
      /\ UNCHANGED <<job, pc, answer, outcome, capabilities, unavailable,
                     asOf, before, overlapping>>
  BY DEF Upgrade
<1>2. server' \in Versions
  BY <1>1, LastVersionAssumption DEF Upgrade, TypeOK, Versions
<1>3. TypeOK' /\ Progress' /\ Kept' /\ NoLateCheck' /\ Order'
        /\ CheckedOnceKnown' /\ RefreshIsFresh'
  BY <1>1, <1>2 DEF TypeOK, Progress, Kept, NoLateCheck, Informed, Order,
                    CheckedOnceKnown, RefreshIsFresh
<1>4. server \in Int /\ capabilities \in Int /\ \A t \in Tasks : asOf[t] \in Int /\ answer[t] \in Int
  BY Numbers DEF TypeOK
<1>5. Dates'
  BY <1>1, <1>4 DEF Dates
<1>6. QED  BY <1>3, <1>5

\* A call ends after its await: what is left to say of the cache.
LEMMA ResumeStep ==
  ASSUME IInv, NEW t \in Tasks, Resume(t)
  PROVE  IInv'
<1> USE DEF IInv
<1>0. /\ pc[t] = "awaiting" /\ answer[t] # None
      /\ UNCHANGED <<job, answer, server, asOf, before>>
  BY DEF Resume
<1>1. ASSUME NEW how \in {"returned", "supported", "rejected", "sent", "notFound", "failed"},
             NEW document \in Documents \cup {None},
             End(t, how, document),
             capabilities' \in Documents \cup {None},
             capabilities # None => capabilities' # None,
             document # None => capabilities' # None,
             job[t] = "refresh" /\ how = "returned" => document >= asOf[t]
      PROVE  /\ pc' \in [Tasks -> {"new", "awaiting", "done"}]
             /\ outcome' \in [Tasks -> Outcomes]
             /\ Progress' /\ Kept' /\ NoLateCheck' /\ CheckedOnceKnown' /\ RefreshIsFresh'
             /\ pc'[t] = "done" /\ \A d \in Tasks \ {t} : pc'[d] = pc[d]
  <2>1. /\ before' \in [Tasks -> SUBSET Tasks]
        /\ \A d \in before'[t] : pc[d] = "done"
        /\ \A d \in Tasks \ {t} : before'[d] = before[d] /\ asOf'[d] = asOf[d]
    BY <1>0 DEF TypeOK, Progress
  <2>2. job[t] = "operate" => ~\E d \in before'[t] : outcome[d].document # None
    BY <1>0 DEF NoLateCheck, Informed
  <2>3. pc'[t] = "done" /\ \A d \in Tasks \ {t} : pc'[d] = pc[d]
    BY <1>1 DEF End, TypeOK
  <2>4. QED  BY <1>0, <1>1, <2>1, <2>2, <2>3, EndStep
<1>2. CASE ResumeFetched(t)
  <2>1. /\ answer[t] \in Documents /\ capabilities' = answer[t] /\ unavailable' = FALSE
        /\ overlapping' = {d \in Tasks \ {t} : pc[d] = "awaiting"}
        /\ Use(t, answer[t])
    BY <1>2 DEF ResumeFetched
  <2>2. asOf[t] <= answer[t] /\ answer[t] <= server
    BY <1>0, <2>1, Numbers DEF Dates
  <2>3. PICK how \in {"returned", "supported", "rejected", "sent"} : End(t, how, answer[t])
    BY <2>1, UseEnds
  <2>4. answer[t] >= asOf[t]
    BY <2>1, <2>2, Numbers DEF TypeOK
  <2>5. /\ pc' \in [Tasks -> {"new", "awaiting", "done"}] /\ outcome' \in [Tasks -> Outcomes]
        /\ Progress' /\ Kept' /\ NoLateCheck' /\ CheckedOnceKnown' /\ RefreshIsFresh'
        /\ pc'[t] = "done" /\ \A d \in Tasks \ {t} : pc'[d] = pc[d]
    BY <1>1, <2>1, <2>3, <2>4, Numbers
  <2>6. TypeOK'
    BY <1>0, <2>1, <2>5 DEF TypeOK
  <2>7. Dates'
    BY <1>0, <2>1, <2>2, <2>5 DEF Dates
  <2>8. Order'
    BY <2>1, <2>5 DEF Order
  <2>9. QED  BY <2>5, <2>6, <2>7, <2>8
<1>3. ASSUME NEW how \in {"sent", "notFound", "failed"}, End(t, how, None),
             UNCHANGED <<capabilities, overlapping>>, unavailable' \in BOOLEAN
      PROVE  IInv'
  <2>1. capabilities \in Documents \cup {None}
    BY DEF TypeOK
  <2>2. /\ pc' \in [Tasks -> {"new", "awaiting", "done"}] /\ outcome' \in [Tasks -> Outcomes]
        /\ Progress' /\ Kept' /\ NoLateCheck' /\ CheckedOnceKnown' /\ RefreshIsFresh'
        /\ pc'[t] = "done" /\ \A d \in Tasks \ {t} : pc'[d] = pc[d]
    BY <1>1, <1>3, <2>1
  <2>3. TypeOK'
    BY <1>0, <1>3, <2>2 DEF TypeOK
  <2>4. Dates' /\ Order'
    BY <1>0, <1>3, <2>2 DEF Dates, Order
  <2>5. QED  BY <2>2, <2>3, <2>4
<1>4. CASE ResumeNotFound(t)
  BY <1>3, <1>4 DEF ResumeNotFound, TypeOK
<1>5. CASE ResumeRaised(t)
  BY <1>3, <1>5 DEF ResumeRaised, TypeOK
<1>6. QED  BY <1>2, <1>4, <1>5 DEF Resume

\* Every step keeps the invariant.
LEMMA IInvStep == IInv /\ [Next]_vars => IInv'
<1> SUFFICES ASSUME IInv, [Next]_vars PROVE IInv'
  OBVIOUS
<1>1. ASSUME NEW t \in Tasks, Begin(t) PROVE IInv'
  BY <1>1, BeginStep
<1>2. ASSUME NEW t \in Tasks, Answer(t) PROVE IInv'
  BY <1>2, AnswerStep
<1>3. ASSUME NEW t \in Tasks, Resume(t) PROVE IInv'
  BY <1>3, ResumeStep
<1>4. CASE Upgrade
  BY <1>4, UpgradeStep
<1>5. CASE UNCHANGED vars
  BY <1>5 DEF vars, IInv, TypeOK, Progress, Kept, NoLateCheck, Informed, Dates, Order,
              CheckedOnceKnown, RefreshIsFresh
<1>6. QED  BY <1>1, <1>2, <1>3, <1>4, <1>5 DEF Next

-----------------------------------------------------------------------------
(* The theorems.                                                           *)

\* IInv is an invariant.
THEOREM Invariance == Spec => []IInv
<1>1. QED  BY IInvInit, IInvStep, PTL DEF Spec

\* TypeOK: the variables keep their types.
THEOREM TypeCorrect == Spec => []TypeOK
<1>1. IInv => TypeOK
  BY DEF IInv
<1>2. QED  BY <1>1, Invariance, PTL

\* CheckedOnceKnown: an operation begun after a document was obtained is sent
\* only if it was checked against a document that advertises its value.
THEOREM OperationsAreChecked == Spec => []CheckedOnceKnown
<1>1. IInv => CheckedOnceKnown
  BY DEF IInv
<1>2. QED  BY <1>1, Invariance, PTL

\* RefreshIsFresh: a refresh returns what the server offered at its call, or
\* newer.
THEOREM RefreshesAreFresh == Spec => []RefreshIsFresh
<1>1. IInv => RefreshIsFresh
  BY DEF IInv
<1>2. QED  BY <1>1, Invariance, PTL

\* OnlyOverlapRegresses: the document kept gets older only through a fetch
\* that was under way when it was written.
THEOREM RegressionsOverlap == Spec => OnlyOverlapRegresses
<1>1. ASSUME IInv, [Next]_vars, capabilities' < capabilities
      PROVE  \E t \in overlapping : pc[t] = "awaiting" /\ pc'[t] = "done"
  <2>1. capabilities' # capabilities
    BY <1>1, Numbers DEF IInv, TypeOK
  <2>2. ASSUME NEW t \in Tasks, Begin(t) \/ Answer(t) PROVE capabilities' = capabilities
    BY <2>2 DEF Begin, Answer
  <2>3. PICK t \in Tasks : Resume(t)
    BY <1>1, <2>1, <2>2 DEF Next, Upgrade, vars
  <2>4. ResumeFetched(t)
    BY <2>1, <2>3 DEF Resume, ResumeNotFound, ResumeRaised
  <2>5. pc[t] = "awaiting" /\ answer[t] \in Documents /\ capabilities' = answer[t]
    BY <2>3, <2>4 DEF Resume, ResumeFetched
  <2>6. t \in overlapping
    BY <1>1, <2>5, Numbers DEF IInv, Order, TypeOK
  <2>7. PICK how : End(t, how, answer[t])
    BY <1>1, <2>4, <2>5, UseEnds DEF ResumeFetched, IInv
  <2>8. pc'[t] = "done"
    BY <1>1, <2>7 DEF End, IInv, TypeOK
  <2>9. QED  BY <2>5, <2>6, <2>8
<1>2. QED  BY <1>1, Invariance, PTL DEF Spec, OnlyOverlapRegresses
=============================================================================
