---------------------------- MODULE DocumentPaging ----------------------------
(***************************************************************************)
(* iter_documents over list_documents: pages in the order of the document  *)
(* ids, each asked for with the cursor the one before named, while other   *)
(* clients import and delete documents.  The generator is suspended        *)
(* between two documents for as long as its consumer likes.  A server may   *)
(* name any cursor; the generator's guards against one that names a cursor *)
(* for ever are part of the model.                                         *)
(***************************************************************************)
EXTENDS Naturals, FiniteSets, Sequences, SequencesExt

CONSTANTS
  MaxId,      \* the document ids are 1..MaxId, in the server's order
  PageSize,   \* the limit of a page, given or the server's default
  MaxYields   \* bound: the documents an iteration that does not end may yield

ASSUME MaxIdAssumption == MaxId \in Nat
ASSUME PageSizeAssumption == PageSize \in Nat \ {0}
ASSUME MaxYieldsAssumption == MaxYields \in Nat /\ MaxYields >= MaxId

Ids == 1..MaxId

\* No cursor: None, or the empty string.
NoCursor == 0

VARIABLES
  store,       \* the documents the agent has
  lasting,     \* those that were there all the time since the iteration began
  honest,      \* the server has only named the last document of a page
  forward,     \* it has never named a cursor before the end of a page, except
               \* the one it was asked with
  pc,          \* "asking", "yielding", "returned" or "raised"
  cursor,      \* the local variable
  documents,   \* page.documents
  nextCursor,  \* page.next_cursor
  rest,        \* the documents of the page not yielded yet
  yielded      \* the documents the consumer got, in the order it got them

vars ==
  <<store, lasting, honest, forward, pc, cursor, documents, nextCursor, rest, yielded>>

-----------------------------------------------------------------------------
Init ==
  /\ store \in SUBSET Ids
  /\ lasting = store
  /\ honest = TRUE
  /\ forward = TRUE
  /\ pc = "asking"
  /\ cursor = NoCursor
  /\ documents = {}
  /\ nextCursor = NoCursor
  /\ rest = {}
  /\ yielded = <<>>

\* The server.
Import(d) ==
  /\ d \notin store
  /\ store' = store \cup {d}
  /\ UNCHANGED <<lasting, honest, forward, pc, cursor, documents, nextCursor, rest, yielded>>

Delete(d) ==
  /\ d \in store
  /\ store' = store \ {d}
  /\ lasting' = lasting \ {d}
  /\ UNCHANGED <<honest, forward, pc, cursor, documents, nextCursor, rest, yielded>>

Remaining == {d \in store : d > cursor}

\* A page: the first documents after the cursor, at most PageSize of them, and
\* fewer only if there are no more.
Page(page) ==
  /\ page \subseteq Remaining
  /\ \A d \in page, e \in Remaining \ page : d < e
  /\ Cardinality(page) <= PageSize
  /\ Cardinality(page) < PageSize => page = Remaining

\* The cursor of a page: its last document, and none once nothing is left; a
\* full page may be the last one without the server knowing.
LeadsOn(page, next) ==
  \/ next = NoCursor /\ page = Remaining
  \/ next \in page /\ \A d \in page : d <= next

\* No document of the page is after its cursor, or the page is the last one.
GoesOn(page, next) ==
  next = NoCursor \/ next = cursor \/ \A d \in page : d <= next

-----------------------------------------------------------------------------
\* The generator.  A page that was asked for; _request retries the GET.
List ==
  /\ pc = "asking"
  /\ \E page \in SUBSET Remaining, next \in Ids \cup {NoCursor} :
       /\ Page(page)
       /\ \/ LeadsOn(page, next) /\ UNCHANGED honest
          \/ next \in Ids /\ honest' = FALSE
       /\ forward' = (forward /\ GoesOn(page, next))
       /\ documents' = page
       /\ nextCursor' = next
       /\ rest' = page
  /\ pc' = "yielding"
  /\ UNCHANGED <<store, lasting, cursor, yielded>>

\* list_documents raises, after its retries; the exception ends the iteration.
ListFails ==
  /\ pc = "asking"
  /\ pc' = "raised"
  /\ UNCHANGED <<store, lasting, honest, forward, cursor, documents, nextCursor, rest, yielded>>

\* yield from page.documents
Yield ==
  /\ pc = "yielding"
  /\ Len(yielded) < MaxYields
  /\ \E d \in rest :
       /\ \A e \in rest : d <= e
       /\ rest' = rest \ {d}
       /\ yielded' = Append(yielded, d)
  /\ UNCHANGED <<store, lasting, honest, forward, pc, cursor, documents, nextCursor>>

\* Mutant: a server that repeats the cursor is asked again.
LastPageUnlessCursor == nextCursor = NoCursor \/ documents = {}

LastPage == nextCursor = NoCursor \/ nextCursor = cursor \/ documents = {}

\* Mutant: a page that is not full is taken for the last one before it is
\* yielded.
NextPageEarly ==
  /\ pc = "yielding"
  /\ rest = {} \/ LastPage
  /\ IF LastPage THEN pc' = "returned" /\ UNCHANGED cursor
                 ELSE pc' = "asking" /\ cursor' = nextCursor
  /\ UNCHANGED <<store, lasting, honest, forward, documents, nextCursor, rest, yielded>>

\* Mutant: the next request names the cursor after the first page for ever.
NextPageStuck ==
  /\ pc = "yielding"
  /\ rest = {}
  /\ IF LastPage
       THEN pc' = "returned" /\ UNCHANGED cursor
       ELSE pc' = "asking" /\ cursor' = IF cursor = NoCursor THEN nextCursor ELSE cursor
  /\ UNCHANGED <<store, lasting, honest, forward, documents, nextCursor, rest, yielded>>

\* The end of a page: return, or go on after it.
NextPage ==
  /\ pc = "yielding"
  /\ rest = {}
  /\ IF LastPage THEN pc' = "returned" /\ UNCHANGED cursor
                 ELSE pc' = "asking" /\ cursor' = nextCursor
  /\ UNCHANGED <<store, lasting, honest, forward, documents, nextCursor, rest, yielded>>

Iterate == List \/ ListFails \/ Yield \/ NextPage

Next == Iterate \/ \E d \in Ids : Import(d) \/ Delete(d)

\* The consumer keeps asking for the next document.
Spec == Init /\ [][Next]_vars /\ WF_vars(Iterate)

-----------------------------------------------------------------------------
(* Properties.                                                             *)

\* The type of every variable.
TypeOK ==
  /\ store \subseteq Ids
  /\ lasting \subseteq store
  /\ honest \in BOOLEAN
  /\ forward \in BOOLEAN
  /\ pc \in {"asking", "yielding", "returned", "raised"}
  /\ cursor \in Ids \cup {NoCursor}
  /\ documents \subseteq Ids
  /\ nextCursor \in Ids \cup {NoCursor}
  /\ rest \subseteq documents
  /\ yielded \in Seq(Ids)

\* "Every document of the agent": one that was there from the beginning to the
\* end is yielded, whatever else is imported and deleted between two pages.
EveryDocument == pc = "returned" /\ honest => lasting \subseteq ToSet(yielded)

\* The documents come in the order of their ids, none of them twice, although
\* the store changes under the cursor and the server may repeat one or go on
\* from anywhere after the page.
EachOnceInOrder ==
  forward => \A i, j \in DOMAIN yielded : i < j => yielded[i] < yielded[j]

\* The iteration ends, also with a server that always names a cursor, unless
\* one leads back.
IterationEnds == <>(pc \in {"returned", "raised"} \/ ~forward)
=============================================================================
