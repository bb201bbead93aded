------------------------------ MODULE SSEDecoder ------------------------------
(***************************************************************************)
(* _SSEDecoder: the events of a text/event-stream from its bytes as they   *)
(* arrive, in whatever chunks the network cuts them.  Against it stands a  *)
(* reader that sees the stream character by character and has no limit.    *)
(*                                                                         *)
(* A character is a member of Alphabet: "cr", "lf", "colon", "space", and  *)
(* "data", which stands for the field name of that spelling, and for any   *)
(* other character of a value.  Chunks are cut between characters; that    *)
(* the bytes of one character find together again is left to Python's      *)
(* incremental decoder.                                                    *)
(***************************************************************************)
EXTENDS Integers, Sequences, SequencesExt

CONSTANTS
  Alphabet,       \* the characters of the stream
  Limits,         \* values of max_event_bytes, which the code counts in characters
  StreamBound     \* bound: the length of the streams

ASSUME LimitsAssumption == Limits \subseteq Nat
ASSUME StreamBoundAssumption == StreamBound \in Nat

VARIABLES
  max,        \* _max: the limit of this decoder
  pending,    \* _pending: the unfinished line
  data,       \* _data: the values of the event under construction
  size,       \* _size
  events,     \* what feed has returned so far, over all calls
  raised,     \* feed has raised ValueError, which ends the stream
  received    \* history: everything fed

vars == <<max, pending, data, size, events, raised, received>>

Init ==
  /\ max \in Limits
  /\ pending = <<>>
  /\ data = <<>>
  /\ size = 0
  /\ events = <<>>
  /\ raised = FALSE
  /\ received = <<>>

-----------------------------------------------------------------------------
(* Operators on text.                                                      *)

EndsWithCR(text) == text # <<>> /\ Last(text) = "cr"

DropFirst(n, text) == SubSeq(text, n + 1, Len(text))

Text == Seq(Alphabet \cup {"lf"})

\* Python's text.split("\n")
SplitLines[text \in Text] ==
  IF text = <<>> THEN << <<>> >>
  ELSE LET lines == SplitLines[Front(text)]
       IN  IF Last(text) = "lf"
             THEN Append(lines, <<>>)
             ELSE Append(Front(lines), Append(Last(lines), Last(text)))

\* text.replace("\r\n", "\n").replace("\r", "\n")
Normalise[text \in Text] ==
  IF text = <<>> THEN <<>>
  ELSE IF Last(text) = "lf" /\ EndsWithCR(Front(text))
    THEN Normalise[Front(text)]
    ELSE Append(Normalise[Front(text)], IF Last(text) = "cr" THEN "lf" ELSE Last(text))

\* "\n".join(values)
Join[values \in Seq(Text)] ==
  IF values = <<>> THEN <<>>
  ELSE IF Front(values) = <<>>
    THEN Last(values)
    ELSE Join[Front(values)] \o <<"lf">> \o Last(values)

Colon(line) == SelectInSeq(line, LAMBDA c : c = "colon")

\* line.partition(":")
Field(line) == IF Colon(line) = 0 THEN line ELSE SubSeq(line, 1, Colon(line) - 1)

Value(line) ==
  LET value == IF Colon(line) = 0 THEN <<>> ELSE DropFirst(Colon(line), line)
  IN  IF value # <<>> /\ Head(value) = "space" THEN Tail(value) ELSE value

-----------------------------------------------------------------------------
(* feed.                                                                   *)

\* The locals and fields that the loop over the lines of one chunk changes.
Reading == [data |-> data, size |-> size, events |-> <<>>, raised |-> FALSE]

\* Mutant: what is subtracted at the end of an event is not what was added.
BlankLineSubtracts(r) ==
  IF r.data = <<>> THEN r
  ELSE [r EXCEPT !.events = Append(@, Join[r.data]),
                 !.data = <<>>,
                 !.size = @ - Len(Join[r.data])]

BlankLine(r) ==
  [r EXCEPT !.events = IF r.data = <<>> THEN @ ELSE Append(@, Join[r.data]),
            !.data = <<>>,
            !.size = 0]

\* Mutant: the size of an event is not reset with it, and not checked.
DataLineUnlimited(r, value) == [r EXCEPT !.data = Append(@, value)]

DataLine(r, value) ==
  [r EXCEPT !.data = Append(@, value),
            !.size = @ + Len(value),
            !.raised = r.size + Len(value) > max]

\* One round of `for line in lines`; a raise leaves the loop.
ReadLine(r, line) ==
  IF \/ r.raised
     \/ line # <<>> /\ (Head(line) = "colon" \/ Field(line) # <<"data">>)
    THEN r
  ELSE IF line = <<>>
    THEN BlankLine(r)
    ELSE DataLine(r, Value(line))

ReadLines[lines \in Seq(Text)] ==
  IF lines = <<>> THEN Reading ELSE ReadLine(ReadLines[Front(lines)], Last(lines))

\* Mutant: the unfinished line may grow.
OverflowsNever(line) == FALSE

\* The check of what is kept against the limit, before the lines are read.
Overflows(line) == Len(line) + size > max

\* Mutant: a CR at the end of the chunk ends its line at once.
HeldNothing(text) == <<>>

\* keep_cr
Held(text) == IF EndsWithCR(text) THEN <<"cr">> ELSE <<>>

Feed(chunk) ==
  LET text == pending \o chunk
      body == SubSeq(text, 1, Len(text) - Len(Held(text)))
      lines == SplitLines[Normalise[body]]
      rest == Last(lines) \o Held(text)
      read == ReadLines[Front(lines)]
  IN  /\ ~raised
      /\ UNCHANGED max
      /\ received' = received \o chunk
      /\ pending' = rest
      /\ IF Overflows(rest)
           THEN raised' = TRUE /\ UNCHANGED <<data, size, events>>
           ELSE /\ data' = read.data
                /\ size' = read.size
                /\ raised' = read.raised
                /\ events' = IF read.raised THEN events ELSE events \o read.events

Chunks == UNION {[1..n -> Alphabet] : n \in 0..(StreamBound - Len(received))}

Next == \E chunk \in Chunks : Feed(chunk)

Spec == Init /\ [][Next]_vars

-----------------------------------------------------------------------------
(* The reader that sees one character after the other.                     *)

Nothing == [line |-> <<>>, values |-> <<>>, events |-> <<>>, afterCR |-> FALSE]

IsData(line) == Head(line) = "data" /\ (Len(line) > 1 => line[2] = "colon")

DataValue(line) == DropFirst(IF Len(line) > 2 /\ line[3] = "space" THEN 3 ELSE 2, line)

EndLine(r) ==
  IF r.line = <<>>
    THEN [r EXCEPT !.events = IF r.values = <<>> THEN @ ELSE Append(@, Join[r.values]),
                   !.values = <<>>]
    ELSE [r EXCEPT !.values = IF IsData(r.line) THEN Append(@, DataValue(r.line)) ELSE @,
                   !.line = <<>>]

ReadCharacter(r, c) ==
  IF c = "lf" /\ r.afterCR THEN [r EXCEPT !.afterCR = FALSE]
  ELSE IF c \in {"lf", "cr"} THEN [EndLine(r) EXCEPT !.afterCR = (c = "cr")]
  ELSE [r EXCEPT !.line = Append(@, c), !.afterCR = FALSE]

Reader[text \in Text] ==
  IF text = <<>> THEN Nothing ELSE ReadCharacter(Reader[Front(text)], Last(text))

\* A CR at the end may be half a CR LF: nobody can say yet what it ends.
Settled(text) == IF EndsWithCR(text) THEN Front(text) ELSE text

-----------------------------------------------------------------------------
(* Properties.                                                             *)

\* The type of every variable.
TypeOK ==
  /\ max \in Limits
  /\ pending \in Seq(Alphabet)
  /\ data \in Seq(Seq(Alphabet))
  /\ size \in Nat
  /\ events \in Seq(Text)
  /\ raised \in BOOLEAN
  /\ received \in Seq(Alphabet)

\* However the stream is cut into chunks, feed has returned the events of
\* what it was given, up to a CR at the very end: no event is lost, doubled,
\* split or joined with its neighbour at the edge of a chunk.
ChunkingIndependent == ~raised => events = Reader[Settled(received)].events

Characters(text) == Cardinality({i \in DOMAIN text : text[i] # "lf"})

\* No event whose values are together longer than the limit is returned.
LargeEventsRefused ==
  \A i \in DOMAIN events : Characters(events[i]) <= max

\* What is kept between two calls exceeds the limit by line ends only: the
\* unfinished line is within it, and the data kept for the unfinished event
\* have at most one character more for each value after the first.  Nothing
\* limits the number of the values.
OnlyLineEndsUncounted ==
  ~raised =>
    /\ Len(pending) <= max
    /\ data # <<>> => Len(Join[data]) <= max + (Len(data) - 1)

=============================================================================
