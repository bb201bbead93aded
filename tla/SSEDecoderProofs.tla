--------------------------- MODULE SSEDecoderProofs ---------------------------
(***************************************************************************)
(* Proofs about the decoder, for any alphabet, any limit and streams of    *)
(* any length.  The operators on text are recursive functions, so that     *)
(* each needs two steps: a function with these equations exists, which     *)
(* RecursionOnSequences gives, and what holds of all of its values, by     *)
(* induction over the sequences (SequenceInduction).                       *)
(*                                                                         *)
(* DecoderInv keeps the values held and returned within the limit, and     *)
(* counts what the size of an event leaves out: line ends.  Chunked        *)
(* ties the decoder to the reader of the whole stream between two calls;   *)
(* ReaderFollows is its step, by induction over the characters fed.        *)
(***************************************************************************)
EXTENDS SSEDecoder, FiniteSetTheorems, SequenceTheorems, WellFoundedInduction, TLAPS

-----------------------------------------------------------------------------
(* Induction and recursion over sequences.                                 *)

\* A set of naturals that holds 0 and every successor holds them all.
LEMMA NaturalInduction ==
  ASSUME NEW S \in SUBSET Nat, 0 \in S, \A n \in S : n + 1 \in S
  PROVE  S = Nat
<1> SUFFICES ASSUME Nat \ S # {} PROVE FALSE
  OBVIOUS
<1> DEFINE R == OpToRel(<, Nat)
<1>1. \A x, y \in Nat : <<x, y>> \in R <=> x < y
  BY DEF OpToRel
<1>2. IsWellFoundedOn(R, Nat)
  BY NatLessThanWellFounded
<1> HIDE DEF R
<1>3. PICK n \in Nat \ S : \A y \in Nat \ S : ~(<<y, n>> \in R)
  BY <1>2, WFMin
<1>4. n # 0 /\ n - 1 \in Nat /\ n - 1 < n /\ (n - 1) + 1 = n
  OBVIOUS
<1>5. n - 1 \in S
  BY <1>1, <1>3, <1>4
<1>6. QED
  BY <1>3, <1>4, <1>5

\* A sequence that is extended has the sequence as its front.
LEMMA AppendParts ==
  ASSUME NEW E, NEW s \in Seq(E), NEW x \in E
  PROVE  /\ Append(s, x) \in Seq(E) /\ Append(s, x) # <<>>
         /\ Len(Append(s, x)) = Len(s) + 1
         /\ Front(Append(s, x)) = s /\ Last(Append(s, x)) = x
<1>1. /\ Append(s, x) \in Seq(E) /\ Append(s, x) # <<>>
      /\ Len(Append(s, x)) = Len(s) + 1 /\ Len(s) \in Nat
  OBVIOUS
<1>2. Last(Append(s, x)) = x
  BY <1>1 DEF Last
<1>3. Front(Append(s, x)) = s
  BY <1>1 DEF Front
<1>4. QED
  BY <1>1, <1>2, <1>3

\* A sequence that is not empty is its front, extended.
LEMMA FrontParts ==
  ASSUME NEW E, NEW s \in Seq(E), s # <<>>
  PROVE  /\ Front(s) \in Seq(E) /\ Last(s) \in E
         /\ Len(s) \in Nat /\ Len(Front(s)) = Len(s) - 1
         /\ s = Append(Front(s), Last(s))
<1>1. Len(s) \in Nat /\ Len(s) > 0
  OBVIOUS
<1>2. /\ Front(s) \in Seq(E) /\ Last(s) \in E /\ Len(Front(s)) = Len(s) - 1
      /\ \A i \in 1..(Len(s) - 1) : Front(s)[i] = s[i]
  <2> DEFINE n == Len(s) - 1
  <2>1. n \in Nat /\ \A i \in 1..n : s[i] \in E
    BY <1>1
  <2> HIDE DEF n
  <2>2. /\ SubSeq(s, 1, n) \in Seq(E)
        /\ Len(SubSeq(s, 1, n)) = IF 1 <= n THEN n - 1 + 1 ELSE 0
        /\ \A i \in 1..(n - 1 + 1) : SubSeq(s, 1, n)[i] = s[1 + i - 1]
    BY <2>1, SubSeqProperties
  <2>3. /\ Len(SubSeq(s, 1, n)) = n
        /\ \A i \in 1..n : SubSeq(s, 1, n)[i] = s[i]
    BY <2>1, <2>2
  <2>4. Last(s) \in E
    BY <1>1 DEF Last
  <2>5. QED
    BY <2>2, <2>3, <2>4 DEF Front, n
<1>3. Append(Front(s), Last(s)) \in Seq(E) /\ Len(Append(Front(s), Last(s))) = Len(s)
  BY <1>1, <1>2
<1>4. \A i \in 1..Len(s) : Append(Front(s), Last(s))[i] = s[i]
  BY <1>1, <1>2 DEF Last
<1>5. s = Append(Front(s), Last(s))
  <2> DEFINE t == Append(Front(s), Last(s))
  <2>1. t \in Seq(E) /\ Len(s) = Len(t) /\ \A i \in 1..Len(s) : s[i] = t[i]
    BY <1>3, <1>4
  <2> HIDE DEF t
  <2>2. s = t
    BY <2>1, SeqEqual, Zenon
  <2>3. QED
    BY <2>2 DEF t
<1>6. QED
  BY <1>1, <1>2, <1>5

\* What holds of the empty sequence and of every extension holds of them all.
LEMMA SequenceInduction ==
  ASSUME NEW E, NEW P \in SUBSET Seq(E), <<>> \in P,
         \A s \in P : \A x \in E : Append(s, x) \in P
  PROVE  P = Seq(E)
<1> DEFINE N == {n \in Nat : \A s \in Seq(E) : Len(s) <= n => s \in P}
<1>1. 0 \in N
  <2>1. \A s \in Seq(E) : Len(s) <= 0 => s = <<>>
    OBVIOUS
  <2>2. QED
    BY <2>1
<1>2. ASSUME NEW n \in N PROVE n + 1 \in N
  <2>1. ASSUME NEW s \in Seq(E), Len(s) <= n + 1, s # <<>>
        PROVE  s \in P
    <3>1. /\ Front(s) \in Seq(E) /\ Last(s) \in E
          /\ Len(s) \in Nat /\ Len(Front(s)) = Len(s) - 1
          /\ s = Append(Front(s), Last(s))
      BY <2>1, FrontParts, Zenon
    <3>2. Len(Front(s)) <= n
      BY <2>1, <3>1
    <3>3. Front(s) \in P
      BY <3>1, <3>2
    <3>4. QED
      BY <3>1, <3>3
  <2>2. QED
    BY <2>1
<1>3. N \in SUBSET Nat
  OBVIOUS
<1> HIDE DEF N
<1>4. N = Nat
  BY <1>1, <1>2, <1>3, NaturalInduction
<1>5. \A s \in Seq(E) : s \in P
  <2>1. \A s \in Seq(E) : Len(s) \in Nat /\ Len(s) <= Len(s)
    OBVIOUS
  <2>2. QED
    BY <1>4, <2>1 DEF N
<1>6. QED
  BY <1>5

\* F is given by its value for the empty sequence and by its steps.
DefinedBy(F, E, base, step) ==
  \A s \in Seq(E) :
    F[s] = IF s = <<>> THEN base ELSE step[<<F[Front(s)], Front(s), Last(s)>>]

\* A function over sequences may be defined by its value for the empty
\* sequence and by its value for an extended one in terms of what it is
\* extended from.
LEMMA RecursionOnSequences ==
  ASSUME NEW E, NEW D, NEW base \in D, NEW step \in [D \X Seq(E) \X E -> D]
  PROVE  \E F \in [Seq(E) -> D] : DefinedBy(F, E, base, step)
<1> DEFINE Upto(n) == {s \in Seq(E) : Len(s) <= n}
           Meets(F, n) ==
             \A s \in Upto(n) :
               F[s] = IF s = <<>> THEN base
                      ELSE step[<<F[Front(s)], Front(s), Last(s)>>]
           N == {n \in Nat : \E F \in [Upto(n) -> D] : Meets(F, n)}
<1>1. \A s \in Seq(E) :
        s # <<>> => /\ Front(s) \in Seq(E) /\ Last(s) \in E
                    /\ Len(s) \in Nat /\ Len(Front(s)) = Len(s) - 1
                    /\ s = Append(Front(s), Last(s))
  BY FrontParts
<1>2. \A d \in D : \A s \in Seq(E) : s # <<>> => step[<<d, Front(s), Last(s)>>] \in D
  BY <1>1
<1>3. ASSUME NEW n \in Nat, NEW m \in Nat, n <= m,
             NEW F, NEW G, Meets(F, n), Meets(G, m)
      PROVE  \A s \in Upto(n) : F[s] = G[s]
  <2> DEFINE P == {s \in Seq(E) : Len(s) <= n => F[s] = G[s]}
  <2>1. <<>> \in P
    <3>1. <<>> \in Seq(E) /\ Len(<<>>) = 0 /\ <<>> \in Upto(n) /\ <<>> \in Upto(m)
      BY EmptySeq
    <3>2. F[<<>>] = base /\ G[<<>>] = base
      BY <1>3, <3>1
    <3>3. QED
      BY <3>1, <3>2
  <2>2. ASSUME NEW s \in P, NEW x \in E
        PROVE  Append(s, x) \in P
    <3> DEFINE t == Append(s, x)
    <3>1. /\ t \in Seq(E) /\ t # <<>> /\ Len(t) = Len(s) + 1 /\ Len(s) \in Nat
          /\ Front(t) = s /\ Last(t) = x
      BY AppendParts
    <3> HIDE DEF t
    <3>2. ASSUME Len(t) <= n PROVE F[t] = G[t]
      <4>1. F[s] = G[s]
        BY <3>1, <3>2
      <4>2. t \in Upto(n) /\ t \in Upto(m)
        BY <1>3, <3>1, <3>2
      <4>3. F[t] = step[<<F[s], s, x>>] /\ G[t] = step[<<G[s], s, x>>]
        BY <1>3, <3>1, <4>2
      <4>4. QED
        BY <4>1, <4>3
    <3>3. QED
      BY <3>1, <3>2 DEF t
  <2>3. P \in SUBSET Seq(E)
    OBVIOUS
  <2> HIDE DEF P
  <2>4. P = Seq(E)
    BY <2>1, <2>2, <2>3, SequenceInduction
  <2>5. QED
    BY <2>4 DEF P
<1>4. N = Nat
  <2>1. 0 \in N
    <3> DEFINE F == [s \in Upto(0) |-> base]
    <3>1. \A s \in Upto(0) : s = <<>>
      OBVIOUS
    <3>2. F \in [Upto(0) -> D] /\ Meets(F, 0)
      BY <3>1
    <3>3. QED
      BY <3>2
  <2>2. ASSUME NEW n \in N PROVE n + 1 \in N
    <3>1. PICK F \in [Upto(n) -> D] : Meets(F, n)
      OBVIOUS
    <3> DEFINE G == [s \in Upto(n + 1) |->
                       IF Len(s) <= n THEN F[s]
                       ELSE step[<<F[Front(s)], Front(s), Last(s)>>]]
    <3>2. n \in Nat /\ \A s \in Seq(E) : Len(s) \in Nat /\ (~(Len(s) <= n) => s # <<>>)
      OBVIOUS
    <3>3. \A s \in Upto(n + 1) : s # <<>> => Front(s) \in Upto(n)
      BY <1>1, <3>2
    <3>4. G \in [Upto(n + 1) -> D]
      <4>1. ASSUME NEW s \in Upto(n + 1) PROVE G[s] \in D
        <5>1. CASE Len(s) <= n
          BY <5>1
        <5>2. CASE ~(Len(s) <= n)
          BY <5>2, <3>2, <3>3, <1>2
        <5>3. QED
          BY <5>1, <5>2
      <4>2. QED
        BY <4>1
    <3>5. \A s \in Upto(n) : s \in Upto(n + 1) /\ G[s] = F[s]
      BY <3>2
    <3>6. Meets(G, n + 1)
      <4> SUFFICES ASSUME NEW s \in Upto(n + 1)
                   PROVE  G[s] = IF s = <<>> THEN base
                                 ELSE step[<<G[Front(s)], Front(s), Last(s)>>]
        OBVIOUS
      <4>1. CASE Len(s) <= n
        <5>1. s \in Upto(n) /\ G[s] = F[s]
          BY <4>1, <3>5
        <5>2. F[s] = IF s = <<>> THEN base
                     ELSE step[<<F[Front(s)], Front(s), Last(s)>>]
          BY <3>1, <5>1
        <5>3. s # <<>> => G[Front(s)] = F[Front(s)]
          BY <3>3, <3>5
        <5> HIDE DEF G
        <5>4. QED
          BY <5>1, <5>2, <5>3
      <4>2. CASE ~(Len(s) <= n)
        <5>1. s # <<>> /\ G[s] = step[<<F[Front(s)], Front(s), Last(s)>>]
          BY <4>2, <3>2
        <5>2. G[Front(s)] = F[Front(s)]
          BY <5>1, <3>3, <3>5
        <5> HIDE DEF G
        <5>3. QED
          BY <5>1, <5>2
      <4>3. QED
        BY <4>1, <4>2
    <3>7. n + 1 \in Nat
      BY <3>2
    <3> HIDE DEF G, Meets, Upto
    <3>8. QED
      BY <3>4, <3>6, <3>7
  <2>3. N \in SUBSET Nat
    OBVIOUS
  <2> HIDE DEF N
  <2>4. QED
    BY <2>1, <2>2, <2>3, NaturalInduction
<1> DEFINE H == [n \in Nat |-> CHOOSE F \in [Upto(n) -> D] : Meets(F, n)]
           K == [s \in Seq(E) |-> H[Len(s)][s]]
<1>5. \A n \in Nat : H[n] \in [Upto(n) -> D] /\ Meets(H[n], n)
  BY <1>4
<1>6. \A s \in Seq(E) : Len(s) \in Nat /\ s \in Upto(Len(s))
  OBVIOUS
<1> HIDE DEF H
<1>7. K \in [Seq(E) -> D]
  BY <1>5, <1>6
<1>8. ASSUME NEW s \in Seq(E)
      PROVE  K[s] = IF s = <<>> THEN base ELSE step[<<K[Front(s)], Front(s), Last(s)>>]
  <2>1. H[Len(s)][s] = IF s = <<>> THEN base
                       ELSE step[<<H[Len(s)][Front(s)], Front(s), Last(s)>>]
    BY <1>5, <1>6
  <2>2. ASSUME s # <<>> PROVE H[Len(s)][Front(s)] = K[Front(s)]
    <3>1. /\ Front(s) \in Seq(E) /\ Len(s) \in Nat /\ Len(Front(s)) \in Nat
          /\ Len(Front(s)) <= Len(s) /\ Front(s) \in Upto(Len(Front(s)))
      BY <2>2, <1>1, <1>6
    <3>2. Meets(H[Len(Front(s))], Len(Front(s))) /\ Meets(H[Len(s)], Len(s))
      BY <1>5, <3>1
    <3> HIDE DEF Meets, Upto
    <3>3. H[Len(Front(s))][Front(s)] = H[Len(s)][Front(s)]
      BY <1>3, <3>1, <3>2
    <3>4. QED
      BY <3>1, <3>3
  <2>3. QED
    BY <2>1, <2>2
<1>9. QED
  BY <1>7, <1>8 DEF DefinedBy

-----------------------------------------------------------------------------
(* The equations of the operators on text.                                 *)

Char == Alphabet \cup {"lf"}

\* What is true of the value for the empty sequence, and stays true when the
\* sequence is extended, is true of every value.
LEMMA ValuesBySequence ==
  ASSUME NEW E, NEW F, NEW D, F[<<>>] \in D,
         \A s \in Seq(E) : F[s] \in D => \A x \in E : F[Append(s, x)] \in D
  PROVE  \A s \in Seq(E) : F[s] \in D
<1> DEFINE P == {s \in Seq(E) : F[s] \in D}
<1>1. <<>> \in P
  OBVIOUS
<1>2. \A s \in P : \A x \in E : Append(s, x) \in P
  BY AppendParts
<1>3. P \in SUBSET Seq(E)
  OBVIOUS
<1> HIDE DEF P
<1>4. P = Seq(E)
  BY <1>1, <1>2, <1>3, SequenceInduction
<1>5. QED
  BY <1>4 DEF P

\* split: a line feed opens a line, any other character extends the last one.
LEMMA SplitLinesEquations ==
  /\ SplitLines[<<>>] = << <<>> >>
  /\ \A t \in Text : /\ SplitLines[t] \in Seq(Text) /\ SplitLines[t] # <<>>
  /\ \A t \in Text : \A c \in Char :
       SplitLines[Append(t, c)] =
         IF c = "lf" THEN Append(SplitLines[t], <<>>)
         ELSE Append(Front(SplitLines[t]), Append(Last(SplitLines[t]), c))
<1> DEFINE D == Seq(Text) \ {<<>>}
           Add(lines, c) == IF c = "lf" THEN Append(lines, <<>>)
                            ELSE Append(Front(lines), Append(Last(lines), c))
           step == [p \in D \X Text \X Char |-> Add(p[1], p[3])]
<1>1. Text = Seq(Char) /\ <<>> \in Text /\ << <<>> >> \in D
  BY DEF Text, Char
<1>2. ASSUME NEW lines \in D, NEW c \in Char PROVE Add(lines, c) \in D
  <2>1. Front(lines) \in Seq(Text) /\ Last(lines) \in Text
    BY FrontParts
  <2>2. Append(Last(lines), c) \in Text
    BY <1>1, <2>1, AppendParts
  <2> HIDE DEF Text
  <2>3. Append(lines, <<>>) \in D
    BY <1>1, AppendParts
  <2>4. Append(Front(lines), Append(Last(lines), c)) \in D
    BY <2>1, <2>2, AppendParts
  <2>5. QED
    BY <2>3, <2>4
<1> HIDE DEF D
<1>3. step \in [D \X Seq(Char) \X Char -> D]
  BY <1>1, <1>2
<1>4. PICK F \in [Seq(Char) -> D] :
        \A s \in Seq(Char) : F[s] = IF s = <<>> THEN << <<>> >>
                                    ELSE step[<<F[Front(s)], Front(s), Last(s)>>]
  <2> DEFINE base == << <<>> >>
  <2>1. base \in D
    BY <1>1
  <2> HIDE DEF step, base
  <2>2. \E F \in [Seq(Char) -> D] : DefinedBy(F, Char, base, step)
    BY <1>3, <2>1, RecursionOnSequences
  <2>3. QED
    BY <2>2 DEF base, DefinedBy
<1>5. \A s \in Text : s # <<>> => Front(s) \in Text /\ Last(s) \in Char
  BY <1>1, FrontParts
<1>6. \A s \in Text : F[s] = IF s = <<>> THEN << <<>> >> ELSE Add(F[Front(s)], Last(s))
  <2> SUFFICES ASSUME NEW s \in Text, s # <<>>
               PROVE  F[s] = Add(F[Front(s)], Last(s))
    BY <1>1, <1>4
  <2>1. F[Front(s)] \in D /\ Front(s) \in Text /\ Last(s) \in Char
    BY <1>1, <1>4, <1>5
  <2>2. F[s] = step[<<F[Front(s)], Front(s), Last(s)>>]
    BY <1>1, <1>4
  <2>3. \A d \in D : \A t \in Text : \A c \in Char : step[<<d, t, c>>] = Add(d, c)
    OBVIOUS
  <2> HIDE DEF step, Add
  <2>4. QED
    BY <2>1, <2>2, <2>3
<1>7. F = [s \in Text |->
             IF s = <<>> THEN << <<>> >>
             ELSE LET lines == F[Front(s)]
                  IN  IF Last(s) = "lf" THEN Append(lines, <<>>)
                      ELSE Append(Front(lines), Append(Last(lines), Last(s)))]
  BY <1>1, <1>4, <1>6
<1>8. SplitLines =
        [s \in Text |->
             IF s = <<>> THEN << <<>> >>
             ELSE LET lines == SplitLines[Front(s)]
                  IN  IF Last(s) = "lf" THEN Append(lines, <<>>)
                      ELSE Append(Front(lines), Append(Last(lines), Last(s)))]
  BY <1>7 DEF SplitLines
<1>9. SplitLines[<<>>] = << <<>> >>
  BY <1>1, <1>8
<1>10. \A t \in Text : \A c \in Char : SplitLines[Append(t, c)] = Add(SplitLines[t], c)
  <2> SUFFICES ASSUME NEW t \in Text, NEW c \in Char
               PROVE  SplitLines[Append(t, c)] = Add(SplitLines[t], c)
    OBVIOUS
  <2>1. /\ Append(t, c) \in Text /\ Append(t, c) # <<>>
        /\ Front(Append(t, c)) = t /\ Last(Append(t, c)) = c
    BY <1>1, AppendParts
  <2>2. QED
    BY <1>8, <2>1
<1>11. \A t \in Seq(Char) : SplitLines[t] \in D
  <2>1. SplitLines[<<>>] \in D
    BY <1>1, <1>9
  <2>2. \A t \in Seq(Char) : SplitLines[t] \in D =>
          \A c \in Char : SplitLines[Append(t, c)] \in D
    BY <1>1, <1>2, <1>10
  <2>3. QED
    BY <2>1, <2>2, ValuesBySequence
<1>12. QED
  BY <1>1, <1>9, <1>10, <1>11 DEF D

\* replace: a CR becomes a line feed, and takes the line feed after it along.
LEMMA NormaliseEquations ==
  /\ Normalise[<<>>] = <<>>
  /\ \A t \in Text : Normalise[t] \in Seq(Char \ {"cr"})
  /\ \A t \in Text : \A c \in Char :
       Normalise[Append(t, c)] =
         IF c = "lf" /\ EndsWithCR(t) THEN Normalise[t]
         ELSE Append(Normalise[t], IF c = "cr" THEN "lf" ELSE c)
<1> DEFINE D == Seq(Char \ {"cr"})
           Add(text, t, c) == IF c = "lf" /\ EndsWithCR(t) THEN text
                              ELSE Append(text, IF c = "cr" THEN "lf" ELSE c)
           step == [p \in D \X Text \X Char |-> Add(p[1], p[2], p[3])]
           base == <<>>
<1>1. Text = Seq(Char) /\ <<>> \in Text /\ base \in D /\ "lf" \in Char \ {"cr"}
  BY DEF Text, Char
<1>2. ASSUME NEW text \in D, NEW t \in Text, NEW c \in Char PROVE Add(text, t, c) \in D
  <2>1. (IF c = "cr" THEN "lf" ELSE c) \in Char \ {"cr"}
    BY <1>1
  <2>2. QED
    BY <2>1, AppendParts
<1> HIDE DEF D
<1>3. step \in [D \X Seq(Char) \X Char -> D]
  BY <1>1, <1>2
<1>4. PICK F \in [Seq(Char) -> D] : DefinedBy(F, Char, base, step)
  <2> HIDE DEF step, base
  <2>1. QED
    BY <1>1, <1>3, RecursionOnSequences
<1>5. \A s \in Text : s # <<>> => Front(s) \in Text /\ Last(s) \in Char
  BY <1>1, FrontParts
<1>6. \A s \in Text : F[s] = IF s = <<>> THEN <<>> ELSE Add(F[Front(s)], Front(s), Last(s))
  <2> SUFFICES ASSUME NEW s \in Text, s # <<>>
               PROVE  F[s] = Add(F[Front(s)], Front(s), Last(s))
    BY <1>1, <1>4 DEF DefinedBy
  <2>1. F[Front(s)] \in D /\ Front(s) \in Text /\ Last(s) \in Char
    BY <1>1, <1>4, <1>5
  <2>2. F[s] = step[<<F[Front(s)], Front(s), Last(s)>>]
    BY <1>1, <1>4 DEF DefinedBy
  <2>3. \A d \in D : \A t \in Text : \A c \in Char : step[<<d, t, c>>] = Add(d, t, c)
    OBVIOUS
  <2> HIDE DEF step, Add
  <2>4. QED
    BY <2>1, <2>2, <2>3
<1>7. F = [s \in Text |->
             IF s = <<>> THEN <<>>
             ELSE IF Last(s) = "lf" /\ EndsWithCR(Front(s))
               THEN F[Front(s)]
               ELSE Append(F[Front(s)], IF Last(s) = "cr" THEN "lf" ELSE Last(s))]
  BY <1>1, <1>4, <1>6
<1>8. Normalise =
        [s \in Text |->
             IF s = <<>> THEN <<>>
             ELSE IF Last(s) = "lf" /\ EndsWithCR(Front(s))
               THEN Normalise[Front(s)]
               ELSE Append(Normalise[Front(s)], IF Last(s) = "cr" THEN "lf" ELSE Last(s))]
  BY <1>7 DEF Normalise
<1>9. Normalise[<<>>] = <<>>
  BY <1>1, <1>8
<1>10. \A t \in Text : \A c \in Char : Normalise[Append(t, c)] = Add(Normalise[t], t, c)
  <2> SUFFICES ASSUME NEW t \in Text, NEW c \in Char
               PROVE  Normalise[Append(t, c)] = Add(Normalise[t], t, c)
    OBVIOUS
  <2>1. /\ Append(t, c) \in Text /\ Append(t, c) # <<>>
        /\ Front(Append(t, c)) = t /\ Last(Append(t, c)) = c
    BY <1>1, AppendParts
  <2>2. QED
    BY <1>8, <2>1
<1>11. \A t \in Seq(Char) : Normalise[t] \in D
  <2>1. Normalise[<<>>] \in D
    BY <1>1, <1>9
  <2>2. \A t \in Seq(Char) : Normalise[t] \in D =>
          \A c \in Char : Normalise[Append(t, c)] \in D
    BY <1>1, <1>2, <1>10
  <2>3. QED
    BY <2>1, <2>2, ValuesBySequence
<1>12. QED
  BY <1>1, <1>9, <1>10, <1>11 DEF D

\* join: one line feed between every two values.
LEMMA JoinEquations ==
  /\ Join[<<>>] = <<>>
  /\ \A values \in Seq(Text) : Join[values] \in Text
  /\ \A values \in Seq(Text) : \A v \in Text :
       Join[Append(values, v)] =
         IF values = <<>> THEN v ELSE Join[values] \o <<"lf">> \o v
<1> DEFINE Add(text, values, v) == IF values = <<>> THEN v ELSE text \o <<"lf">> \o v
           step == [p \in Text \X Seq(Text) \X Text |-> Add(p[1], p[2], p[3])]
           base == <<>>
<1>1. /\ Text = Seq(Char) /\ <<>> \in Text /\ base \in Text /\ <<>> \in Seq(Text)
      /\ <<"lf">> \in Text
  BY DEF Text, Char
<1>2. ASSUME NEW text \in Text, NEW values \in Seq(Text), NEW v \in Text
      PROVE  Add(text, values, v) \in Text
  <2>1. text \o <<"lf">> \in Seq(Char) /\ v \in Seq(Char)
    BY <1>1, ConcatProperties
  <2>2. QED
    BY <1>1, <2>1, ConcatProperties
<1>3. step \in [Text \X Seq(Text) \X Text -> Text]
  BY <1>2
<1>4. PICK F \in [Seq(Text) -> Text] : DefinedBy(F, Text, base, step)
  <2> HIDE DEF step, base
  <2>1. QED
    BY <1>1, <1>3, RecursionOnSequences
<1>5. \A s \in Seq(Text) : s # <<>> => Front(s) \in Seq(Text) /\ Last(s) \in Text
  BY FrontParts
<1>6. \A s \in Seq(Text) :
        F[s] = IF s = <<>> THEN <<>> ELSE Add(F[Front(s)], Front(s), Last(s))
  <2> SUFFICES ASSUME NEW s \in Seq(Text), s # <<>>
               PROVE  F[s] = Add(F[Front(s)], Front(s), Last(s))
    BY <1>4 DEF DefinedBy
  <2>1. F[Front(s)] \in Text /\ Front(s) \in Seq(Text) /\ Last(s) \in Text
    BY <1>4, <1>5
  <2>2. F[s] = step[<<F[Front(s)], Front(s), Last(s)>>]
    BY <1>4 DEF DefinedBy
  <2>3. \A d \in Text : \A t \in Seq(Text) : \A v \in Text : step[<<d, t, v>>] = Add(d, t, v)
    OBVIOUS
  <2> HIDE DEF step, Add
  <2>4. QED
    BY <2>1, <2>2, <2>3
<1>7. F = [s \in Seq(Text) |->
             IF s = <<>> THEN <<>>
             ELSE IF Front(s) = <<>> THEN Last(s)
               ELSE F[Front(s)] \o <<"lf">> \o Last(s)]
  BY <1>4, <1>6
<1>8. Join =
        [s \in Seq(Text) |->
             IF s = <<>> THEN <<>>
             ELSE IF Front(s) = <<>> THEN Last(s)
               ELSE Join[Front(s)] \o <<"lf">> \o Last(s)]
  BY <1>7 DEF Join
<1>9. Join[<<>>] = <<>>
  BY <1>1, <1>8
<1>10. \A values \in Seq(Text) : \A v \in Text :
         Join[Append(values, v)] = Add(Join[values], values, v)
  <2> SUFFICES ASSUME NEW values \in Seq(Text), NEW v \in Text
               PROVE  Join[Append(values, v)] = Add(Join[values], values, v)
    OBVIOUS
  <2>1. /\ Append(values, v) \in Seq(Text) /\ Append(values, v) # <<>>
        /\ Front(Append(values, v)) = values /\ Last(Append(values, v)) = v
    BY AppendParts
  <2>2. QED
    BY <1>8, <2>1
<1>11. \A values \in Seq(Text) : Join[values] \in Text
  <2>1. Join[<<>>] \in Text
    BY <1>1, <1>9
  <2>2. \A values \in Seq(Text) : Join[values] \in Text =>
          \A v \in Text : Join[Append(values, v)] \in Text
    BY <1>2, <1>10
  <2> HIDE DEF Text
  <2>3. QED
    BY <2>1, <2>2, ValuesBySequence
<1>12. QED
  BY <1>9, <1>10, <1>11

-----------------------------------------------------------------------------
(* One line.                                                               *)

\* The least of a set of naturals.
LEMMA LeastNatural ==
  ASSUME NEW S \in SUBSET Nat, S # {}
  PROVE  Min(S) \in S /\ \A n \in S : Min(S) <= n
<1> DEFINE R == OpToRel(<, Nat)
<1>1. \A x, y \in Nat : <<x, y>> \in R <=> x < y
  BY DEF OpToRel
<1>2. IsWellFoundedOn(R, Nat)
  BY NatLessThanWellFounded
<1> HIDE DEF R
<1>3. PICK n \in S : \A y \in S : ~(<<y, n>> \in R)
  BY <1>2, WFMin
<1>4. \A y \in S : n <= y
  <2> SUFFICES ASSUME NEW y \in S, ~(n <= y) PROVE FALSE
    OBVIOUS
  <2>1. y \in Nat /\ n \in Nat /\ y < n
    OBVIOUS
  <2>2. QED
    BY <1>1, <1>3, <2>1
<1>5. QED
  BY <1>3, <1>4 DEF Min

\* Colon is the first colon of a line.
LEMMA ColonFirst ==
  ASSUME NEW S, NEW line \in Seq(S)
  PROVE  /\ Colon(line) \in 0..Len(line)
         /\ Colon(line) = 0 => \A i \in 1..Len(line) : line[i] # "colon"
         /\ Colon(line) # 0 => /\ line[Colon(line)] = "colon"
                               /\ \A i \in 1..Len(line) :
                                    line[i] = "colon" => Colon(line) <= i
<1> DEFINE I == {i \in 1..Len(line) : line[i] = "colon"}
<1>1. I \in SUBSET Nat /\ Len(line) \in Nat
  OBVIOUS
<1>2. Colon(line) = IF I # {} THEN Min(I) ELSE 0
  BY DEF Colon, SelectInSeq
<1>3. CASE I = {}
  BY <1>1, <1>2, <1>3
<1>4. CASE I # {}
  <2>1. Min(I) \in I /\ \A i \in I : Min(I) <= i
    BY <1>1, <1>4, LeastNatural
  <2> DEFINE n == Min(I)
  <2>2. Colon(line) = n /\ n \in I /\ \A i \in I : n <= i
    BY <1>2, <1>4, <2>1
  <2> HIDE DEF n
  <2>3. QED
    BY <1>1, <2>2
<1>5. QED
  BY <1>3, <1>4

\* What DropFirst leaves.
LEMMA Dropped ==
  ASSUME NEW S, NEW text \in Seq(S), NEW n \in Nat
  PROVE  /\ DropFirst(n, text) \in Seq(S)
         /\ Len(DropFirst(n, text)) = IF n <= Len(text) THEN Len(text) - n ELSE 0
         /\ \A i \in 1..(Len(text) - n) : DropFirst(n, text)[i] = text[n + i]
<1> DEFINE m == n + 1
           k == Len(text)
<1>1. m \in Nat /\ k \in Nat /\ m > 0 /\ \A i \in m..k : text[i] \in S
  OBVIOUS
<1>2. DropFirst(n, text) = SubSeq(text, m, k)
  BY DEF DropFirst
<1> HIDE DEF m, k
<1>3. /\ SubSeq(text, m, k) \in Seq(S)
      /\ Len(SubSeq(text, m, k)) = IF m <= k THEN k - m + 1 ELSE 0
      /\ \A i \in 1..(k - m + 1) : SubSeq(text, m, k)[i] = text[m + i - 1]
  BY <1>1, SubSeqProperties
<1>4. QED
  BY <1>1, <1>2, <1>3 DEF m, k

\* The value of a line consists of characters of the line.
LEMMA ValueTyped ==
  ASSUME NEW S, NEW line \in Seq(S)
  PROVE  Value(line) \in Seq(S)
<1> DEFINE value == IF Colon(line) = 0 THEN <<>> ELSE DropFirst(Colon(line), line)
<1>1. Colon(line) \in Nat
  BY ColonFirst
<1>2. value \in Seq(S)
  BY <1>1, Dropped
<1>3. Value(line) = IF value # <<>> /\ Head(value) = "space" THEN Tail(value) ELSE value
  BY DEF Value
<1> HIDE DEF value
<1>4. QED
  BY <1>2, <1>3

\* What the loop over the lines keeps, of lines over the characters S.
Readings(S) == [data : Seq(Seq(S)), size : Nat, events : Seq(Text), raised : BOOLEAN]

\* What a blank line makes of it.
LEMMA BlankLineFields ==
  ASSUME NEW S, NEW r \in Readings(S), Append(r.events, Join[r.data]) \in Seq(Text)
  PROVE  /\ BlankLine(r) \in Readings(S)
         /\ BlankLine(r).data = <<>> /\ BlankLine(r).size = 0
         /\ BlankLine(r).raised = r.raised
         /\ BlankLine(r).events = IF r.data = <<>> THEN r.events
                                  ELSE Append(r.events, Join[r.data])
<1>1. BlankLine(r) \in Readings(S)
  BY EmptySeq DEF BlankLine, Readings
<1>2. BlankLine(r).data = <<>> /\ BlankLine(r).raised = r.raised
  BY DEF BlankLine, Readings
<1>3. BlankLine(r).size = 0
  BY DEF BlankLine, Readings
<1>4. BlankLine(r).events = IF r.data = <<>> THEN r.events
                            ELSE Append(r.events, Join[r.data])
  BY DEF BlankLine, Readings
<1>5. QED
  BY <1>1, <1>2, <1>3, <1>4

\* What a data line makes of it.
LEMMA DataLineFields ==
  ASSUME max \in Nat, NEW S, NEW r \in Readings(S), NEW value \in Seq(S)
  PROVE  /\ DataLine(r, value) \in Readings(S)
         /\ DataLine(r, value).data = Append(r.data, value)
         /\ DataLine(r, value).size = r.size + Len(value)
         /\ DataLine(r, value).events = r.events
         /\ DataLine(r, value).raised <=> r.size + Len(value) > max
<1> DEFINE raises == r.size + Len(value) > max
           sum == r.size + Len(value)
           values == Append(r.data, value)
<1>1. /\ sum \in Nat /\ raises \in BOOLEAN /\ (raises <=> sum > max)
      /\ r.data \in Seq(Seq(S))
  BY DEF Readings
<1>2. values \in Seq(Seq(S))
  BY <1>1, AppendParts
<1>3. DataLine(r, value) = [r EXCEPT !.data = values, !.size = sum, !.raised = raises]
  BY DEF DataLine
<1> HIDE DEF raises, sum, values
<1>4. [r EXCEPT !.data = values, !.size = sum, !.raised = raises] \in Readings(S)
  BY <1>1, <1>2 DEF Readings
<1>5. /\ DataLine(r, value).data = values /\ DataLine(r, value).size = sum
      /\ DataLine(r, value).events = r.events /\ DataLine(r, value).raised = raises
  BY <1>3 DEF Readings
<1>6. QED
  BY <1>1, <1>3, <1>4, <1>5 DEF sum, values

\* A round of the loop keeps the types.
LEMMA ReadLineTyped ==
  ASSUME max \in Nat, NEW S \in SUBSET Char, NEW r \in Readings(S), NEW line \in Seq(S)
  PROVE  /\ r.data \in Seq(Text) /\ Join[r.data] \in Text
         /\ Append(r.events, Join[r.data]) \in Seq(Text)
         /\ Value(line) \in Seq(S)
         /\ ReadLine(r, line) \in Readings(S)
<1>1. r.data \in Seq(Seq(S)) /\ r.events \in Seq(Text)
  BY DEF Readings
<1>2. Seq(S) \subseteq Text
  <2>1. Text = Seq(Char)
    BY DEF Text, Char
  <2>2. QED
    BY <2>1, SeqMonotonic
<1>3. r.data \in Seq(Text)
  <2> HIDE DEF Text
  <2>1. QED
    BY <1>1, <1>2, SeqMonotonic
<1>4. Join[r.data] \in Text /\ Append(r.events, Join[r.data]) \in Seq(Text)
  BY <1>1, <1>3, JoinEquations, AppendParts
<1>5. Value(line) \in Seq(S)
  BY ValueTyped
<1>6. BlankLine(r) \in Readings(S)
  BY <1>4, BlankLineFields
<1>7. DataLine(r, Value(line)) \in Readings(S)
  BY <1>5, DataLineFields
<1>8. QED
  BY <1>3, <1>4, <1>5, <1>6, <1>7 DEF ReadLine

\* The loop starts with nothing read and takes one line after the other.
LEMMA ReadLinesEquations ==
  ASSUME TypeOK
  PROVE  /\ ReadLines[<<>>] = Reading
         /\ \A lines \in Seq(Text) : ReadLines[lines] \in Readings(Char)
         /\ \A lines \in Seq(Text) : \A line \in Text :
              ReadLines[Append(lines, line)] = ReadLine(ReadLines[lines], line)
<1> DEFINE D == Readings(Char)
           step == [p \in D \X Seq(Text) \X Text |-> ReadLine(p[1], p[3])]
<1>1. Text = Seq(Char) /\ Alphabet \subseteq Char /\ <<>> \in Seq(Text)
  BY DEF Text, Char
<1>2. Reading \in D
  <2>1. data \in Seq(Seq(Char))
    <3>1. \A text \in Seq(Alphabet) : text \in Seq(Char)
      BY <1>1, SeqMonotonic
    <3>2. Seq(Alphabet) \subseteq Seq(Char) /\ data \in Seq(Seq(Alphabet))
      BY <3>1 DEF TypeOK
    <3>3. QED
      BY <3>2, SeqMonotonic, Zenon
  <2>2. QED
    BY <2>1, EmptySeq DEF TypeOK, Reading, Readings
<1>3. \A r \in D : \A line \in Text : ReadLine(r, line) \in D
  <2>1. max \in Nat /\ Char \in SUBSET Char
    BY LimitsAssumption DEF TypeOK
  <2>2. QED
    BY <1>1, <2>1, ReadLineTyped
<1> HIDE DEF D
<1>4. step \in [D \X Seq(Text) \X Text -> D]
  BY <1>3
<1>5. PICK F \in [Seq(Text) -> D] : DefinedBy(F, Text, Reading, step)
  <2> HIDE DEF step
  <2>1. QED
    BY <1>2, <1>4, RecursionOnSequences
<1>6. \A s \in Seq(Text) : s # <<>> => Front(s) \in Seq(Text) /\ Last(s) \in Text
  BY FrontParts
<1>7. \A s \in Seq(Text) :
        F[s] = IF s = <<>> THEN Reading ELSE ReadLine(F[Front(s)], Last(s))
  <2> SUFFICES ASSUME NEW s \in Seq(Text), s # <<>>
               PROVE  F[s] = ReadLine(F[Front(s)], Last(s))
    BY <1>5 DEF DefinedBy
  <2>1. F[Front(s)] \in D /\ Front(s) \in Seq(Text) /\ Last(s) \in Text
    BY <1>5, <1>6
  <2>2. F[s] = step[<<F[Front(s)], Front(s), Last(s)>>]
    BY <1>5 DEF DefinedBy
  <2>3. \A d \in D : \A t \in Seq(Text) : \A v \in Text : step[<<d, t, v>>] = ReadLine(d, v)
    OBVIOUS
  <2> HIDE DEF step
  <2>4. QED
    BY <2>1, <2>2, <2>3
<1>8. F = [s \in Seq(Text) |->
             IF s = <<>> THEN Reading ELSE ReadLine(F[Front(s)], Last(s))]
  BY <1>5, <1>7
<1>9. ReadLines = [s \in Seq(Text) |->
                     IF s = <<>> THEN Reading
                     ELSE ReadLine(ReadLines[Front(s)], Last(s))]
  BY <1>8 DEF ReadLines
<1>10. ReadLines[<<>>] = Reading
  BY <1>1, <1>9
<1>11. \A lines \in Seq(Text) : \A line \in Text :
         ReadLines[Append(lines, line)] = ReadLine(ReadLines[lines], line)
  <2> SUFFICES ASSUME NEW lines \in Seq(Text), NEW line \in Text
               PROVE  ReadLines[Append(lines, line)] = ReadLine(ReadLines[lines], line)
    OBVIOUS
  <2>1. /\ Append(lines, line) \in Seq(Text) /\ Append(lines, line) # <<>>
        /\ Front(Append(lines, line)) = lines /\ Last(Append(lines, line)) = line
    BY AppendParts
  <2>2. QED
    BY <1>9, <2>1
<1>12. \A lines \in Seq(Text) : ReadLines[lines] \in D
  <2>1. ReadLines[<<>>] \in D
    BY <1>2, <1>10
  <2>2. \A lines \in Seq(Text) : ReadLines[lines] \in D =>
          \A line \in Text : ReadLines[Append(lines, line)] \in D
    BY <1>3, <1>11
  <2> HIDE DEF Text
  <2>3. QED
    BY <2>1, <2>2, ValuesBySequence
<1>13. QED
  BY <1>10, <1>11, <1>12 DEF D

-----------------------------------------------------------------------------
(* The reader.                                                             *)

ReaderStates ==
  [line : Text, values : Seq(Text), events : Seq(Text), afterCR : BOOLEAN]

\* What the end of a line makes of the reader.
LEMMA EndLineFields ==
  ASSUME NEW r \in ReaderStates
  PROVE  /\ EndLine(r) \in ReaderStates
         /\ EndLine(r).line = <<>> /\ EndLine(r).afterCR = r.afterCR
         /\ r.line = <<>> =>
              /\ EndLine(r).values = <<>>
              /\ EndLine(r).events = IF r.values = <<>> THEN r.events
                                     ELSE Append(r.events, Join[r.values])
         /\ r.line # <<>> =>
              /\ EndLine(r).events = r.events
              /\ EndLine(r).values = IF IsData(r.line)
                                       THEN Append(r.values, DataValue(r.line))
                                       ELSE r.values
<1>1. /\ r.line \in Text /\ r.values \in Seq(Text) /\ r.events \in Seq(Text)
      /\ <<>> \in Seq(Text) /\ <<>> \in Text
  BY EmptySeq DEF ReaderStates, Text
<1>2. Append(r.events, Join[r.values]) \in Seq(Text)
  BY <1>1, JoinEquations, AppendParts
<1>3. DataValue(r.line) \in Text
  <2> DEFINE n == IF Len(r.line) > 2 /\ r.line[3] = "space" THEN 3 ELSE 2
  <2>1. n \in Nat /\ r.line \in Seq(Char) /\ Text = Seq(Char)
    BY <1>1 DEF Text, Char
  <2> HIDE DEF n
  <2>2. DropFirst(n, r.line) \in Seq(Char)
    BY <2>1, Dropped
  <2>3. QED
    BY <2>1, <2>2 DEF DataValue, n
<1>4. Append(r.values, DataValue(r.line)) \in Seq(Text)
  BY <1>1, <1>3, AppendParts
<1>5. CASE r.line = <<>>
  <2> DEFINE q == [r EXCEPT !.events = IF r.values = <<>> THEN @
                                       ELSE Append(@, Join[r.values]),
                            !.values = <<>>]
  <2>1. q \in ReaderStates
    BY <1>1, <1>2 DEF ReaderStates
  <2>2. /\ q.values = <<>> /\ q.line = r.line /\ q.afterCR = r.afterCR
        /\ q.events = IF r.values = <<>> THEN r.events
                      ELSE Append(r.events, Join[r.values])
    BY DEF ReaderStates
  <2>3. EndLine(r) = q
    BY <1>5 DEF EndLine
  <2> HIDE DEF q
  <2>4. QED
    BY <1>5, <2>1, <2>2, <2>3
<1>6. CASE r.line # <<>>
  <2> DEFINE q == [r EXCEPT !.values = IF IsData(r.line) THEN Append(@, DataValue(r.line))
                                       ELSE @,
                            !.line = <<>>]
  <2>1. q \in ReaderStates
    BY <1>1, <1>4 DEF ReaderStates
  <2>2. /\ q.line = <<>> /\ q.afterCR = r.afterCR /\ q.events = r.events
        /\ q.values = IF IsData(r.line) THEN Append(r.values, DataValue(r.line))
                      ELSE r.values
    BY DEF ReaderStates
  <2>3. EndLine(r) = q
    BY <1>6 DEF EndLine
  <2> HIDE DEF q
  <2>4. QED
    BY <1>6, <2>1, <2>2, <2>3
<1>7. QED
  BY <1>5, <1>6

\* What a character makes of the reader.
LEMMA ReadCharacterFields ==
  ASSUME NEW r \in ReaderStates, NEW c \in Char
  PROVE  /\ ReadCharacter(r, c) \in ReaderStates
         /\ ReadCharacter(r, c).afterCR <=> c = "cr"
         /\ c = "lf" /\ r.afterCR =>
              /\ ReadCharacter(r, c).line = r.line
              /\ ReadCharacter(r, c).values = r.values
              /\ ReadCharacter(r, c).events = r.events
         /\ c = "cr" \/ (c = "lf" /\ ~r.afterCR) =>
              /\ ReadCharacter(r, c).line = EndLine(r).line
              /\ ReadCharacter(r, c).values = EndLine(r).values
              /\ ReadCharacter(r, c).events = EndLine(r).events
         /\ c \notin {"lf", "cr"} =>
              /\ ReadCharacter(r, c).line = Append(r.line, c)
              /\ ReadCharacter(r, c).values = r.values
              /\ ReadCharacter(r, c).events = r.events
<1>1. CASE c = "lf" /\ r.afterCR
  <2> DEFINE q == [r EXCEPT !.afterCR = FALSE]
  <2>1. /\ q \in ReaderStates /\ q.afterCR = FALSE /\ q.line = r.line
        /\ q.values = r.values /\ q.events = r.events
    BY DEF ReaderStates
  <2>2. ReadCharacter(r, c) = q
    BY <1>1 DEF ReadCharacter
  <2> HIDE DEF q
  <2>3. QED
    BY <1>1, <2>1, <2>2
<1>2. CASE c = "cr" \/ (c = "lf" /\ ~r.afterCR)
  <2> DEFINE e == EndLine(r)
             isCR == c = "cr"
             q == [e EXCEPT !.afterCR = isCR]
  <2>1. e \in ReaderStates /\ isCR \in BOOLEAN
    BY EndLineFields
  <2>2. ReadCharacter(r, c) = q
    BY <1>2 DEF ReadCharacter
  <2> HIDE DEF e, isCR
  <2>3. /\ q \in ReaderStates /\ q.afterCR = isCR /\ q.line = e.line
        /\ q.values = e.values /\ q.events = e.events
    BY <2>1 DEF ReaderStates
  <2> HIDE DEF q
  <2>4. QED
    BY <1>2, <2>2, <2>3 DEF e, isCR
<1>3. CASE c \notin {"lf", "cr"}
  <2> DEFINE longer == Append(r.line, c)
             q == [r EXCEPT !.line = longer, !.afterCR = FALSE]
  <2>1. longer \in Text
    <3>1. r.line \in Seq(Char) /\ Text = Seq(Char)
      BY DEF ReaderStates, Text, Char
    <3>2. QED
      BY <3>1, AppendParts
  <2>2. ReadCharacter(r, c) = [r EXCEPT !.line = Append(@, c), !.afterCR = FALSE]
    BY <1>3 DEF ReadCharacter
  <2>3. ReadCharacter(r, c) = q
    BY <2>2
  <2> HIDE DEF longer
  <2>4. /\ q \in ReaderStates /\ q.afterCR = FALSE /\ q.line = longer
        /\ q.values = r.values /\ q.events = r.events
    BY <2>1 DEF ReaderStates
  <2> HIDE DEF q
  <2>5. QED
    BY <1>3, <2>3, <2>4 DEF longer
<1>4. QED
  BY <1>1, <1>2, <1>3

\* The reader starts with nothing and takes one character after the other.
LEMMA ReaderEquations ==
  /\ Reader[<<>>] = Nothing
  /\ \A text \in Text : Reader[text] \in ReaderStates
  /\ \A text \in Text : \A c \in Char :
       Reader[Append(text, c)] = ReadCharacter(Reader[text], c)
<1> DEFINE D == ReaderStates
           step == [p \in D \X Text \X Char |-> ReadCharacter(p[1], p[3])]
<1>1. Text = Seq(Char) /\ <<>> \in Text
  BY DEF Text, Char
<1>2. Nothing \in D
  BY <1>1, EmptySeq DEF Nothing, ReaderStates
<1>3. \A r \in D : \A c \in Char : ReadCharacter(r, c) \in D
  BY ReadCharacterFields
<1> HIDE DEF D
<1>4. step \in [D \X Seq(Char) \X Char -> D]
  BY <1>1, <1>3
<1>5. PICK F \in [Seq(Char) -> D] : DefinedBy(F, Char, Nothing, step)
  <2> HIDE DEF step
  <2>1. QED
    BY <1>2, <1>4, RecursionOnSequences
<1>6. \A s \in Text : s # <<>> => Front(s) \in Text /\ Last(s) \in Char
  BY <1>1, FrontParts
<1>7. \A s \in Text :
        F[s] = IF s = <<>> THEN Nothing ELSE ReadCharacter(F[Front(s)], Last(s))
  <2> SUFFICES ASSUME NEW s \in Text, s # <<>>
               PROVE  F[s] = ReadCharacter(F[Front(s)], Last(s))
    BY <1>1, <1>5 DEF DefinedBy
  <2>1. F[Front(s)] \in D /\ Front(s) \in Text /\ Last(s) \in Char
    BY <1>1, <1>5, <1>6
  <2>2. F[s] = step[<<F[Front(s)], Front(s), Last(s)>>]
    BY <1>1, <1>5 DEF DefinedBy
  <2>3. \A d \in D : \A t \in Text : \A c \in Char : step[<<d, t, c>>] = ReadCharacter(d, c)
    OBVIOUS
  <2> HIDE DEF step
  <2>4. QED
    BY <2>1, <2>2, <2>3
<1>8. F = [s \in Text |->
             IF s = <<>> THEN Nothing ELSE ReadCharacter(F[Front(s)], Last(s))]
  BY <1>1, <1>5, <1>7
<1>9. Reader = [s \in Text |->
                  IF s = <<>> THEN Nothing ELSE ReadCharacter(Reader[Front(s)], Last(s))]
  BY <1>8 DEF Reader
<1>10. Reader[<<>>] = Nothing
  BY <1>1, <1>9
<1>11. \A text \in Text : \A c \in Char :
         Reader[Append(text, c)] = ReadCharacter(Reader[text], c)
  <2> SUFFICES ASSUME NEW text \in Text, NEW c \in Char
               PROVE  Reader[Append(text, c)] = ReadCharacter(Reader[text], c)
    OBVIOUS
  <2>1. /\ Append(text, c) \in Text /\ Append(text, c) # <<>>
        /\ Front(Append(text, c)) = text /\ Last(Append(text, c)) = c
    BY <1>1, AppendParts
  <2>2. QED
    BY <1>9, <2>1
<1>12. \A text \in Seq(Char) : Reader[text] \in D
  <2>1. Reader[<<>>] \in D
    BY <1>2, <1>10
  <2>2. \A text \in Seq(Char) : Reader[text] \in D =>
          \A c \in Char : Reader[Append(text, c)] \in D
    BY <1>1, <1>3, <1>11
  <2>3. QED
    BY <2>1, <2>2, ValuesBySequence
<1>13. QED
  BY <1>1, <1>10, <1>11, <1>12 DEF D

-----------------------------------------------------------------------------
(* What is kept between two calls, and how much.                           *)

\* The lines that split leaves hold no line ends.
Line == Seq(Alphabet \ {"cr", "lf"})

\* Splitting normalised text gives at least one line, and clean ones.
LEMMA LinesClean ==
  \A text \in Text : /\ SplitLines[Normalise[text]] \in Seq(Line)
                     /\ SplitLines[Normalise[text]] # <<>>
<1> DEFINE E == Char \ {"cr"}
           D == Seq(Line) \ {<<>>}
<1>1. /\ E \subseteq Char /\ Text = Seq(Char) /\ <<>> \in Line
      /\ \A c \in E : c # "lf" => c \in Alphabet \ {"cr", "lf"}
  BY DEF Char, Text, Line
<1>2. \A t \in Seq(E) : t \in Text
  BY <1>1, SeqMonotonic
<1>3. SplitLines[<<>>] \in D
  <2>1. << <<>> >> \in Seq(Line) /\ << <<>> >> # <<>>
    BY <1>1
  <2>2. QED
    BY <2>1, SplitLinesEquations
<1>4. ASSUME NEW t \in Seq(E), SplitLines[t] \in D, NEW c \in E
      PROVE  SplitLines[Append(t, c)] \in D
  <2> DEFINE lines == SplitLines[t]
  <2>1. lines \in Seq(Line) /\ lines # <<>> /\ c \in Char /\ t \in Text
    BY <1>1, <1>2, <1>4
  <2>2. SplitLines[Append(t, c)] =
          IF c = "lf" THEN Append(lines, <<>>)
          ELSE Append(Front(lines), Append(Last(lines), c))
    BY <2>1, SplitLinesEquations
  <2> HIDE DEF lines
  <2>3. Front(lines) \in Seq(Line) /\ Last(lines) \in Line
    BY <2>1, FrontParts
  <2>4. ASSUME c # "lf" PROVE Append(Last(lines), c) \in Line
    BY <1>1, <2>3, <2>4, AppendParts DEF Line
  <2>5. Append(lines, <<>>) \in D
    <3> HIDE DEF Line
    <3> QED
      BY <1>1, <2>1, AppendParts
  <2>6. ASSUME c # "lf" PROVE Append(Front(lines), Append(Last(lines), c)) \in D
    <3> HIDE DEF Line
    <3> QED
      BY <2>3, <2>4, <2>6, AppendParts
  <2>7. QED
    BY <2>2, <2>5, <2>6
<1> HIDE DEF D
<1>5. \A t \in Seq(E) : SplitLines[t] \in D
  <2> HIDE DEF E
  <2>1. QED
    BY <1>3, <1>4, ValuesBySequence
<1>6. QED
  BY <1>5, NormaliseEquations DEF D

\* The number of characters of a text that are not line feeds.
LEMMA CharactersBounds ==
  /\ Characters(<<>>) = 0
  /\ \A text \in Text : Characters(text) \in Nat /\ Characters(text) <= Len(text)
  /\ \A text \in Text : \A v \in Text :
       Characters(text \o <<"lf">> \o v) <= Characters(text) + Len(v)
<1> DEFINE Set(t) == {i \in DOMAIN t : t[i] # "lf"}
<1>1. \A t : Characters(t) = Cardinality(Set(t))
  BY DEF Characters
<1>2. \A t \in Text : Len(t) \in Nat /\ DOMAIN t = 1..Len(t)
  BY DEF Text
<1>3. \A a, b \in Nat : /\ IsFiniteSet(a..b)
                        /\ Cardinality(a..b) = IF a > b THEN 0 ELSE b - a + 1
  BY FS_Interval
<1>4. Characters(<<>>) = 0
  <2>1. Set(<<>>) = {}
    OBVIOUS
  <2>2. QED
    BY <1>1, <2>1, FS_EmptySet
<1>5. ASSUME NEW text \in Text
      PROVE  /\ IsFiniteSet(Set(text)) /\ Characters(text) \in Nat
             /\ Characters(text) <= Len(text)
  <2>1. Set(text) \subseteq 1..Len(text) /\ Len(text) \in Nat
    BY <1>2
  <2>2. IsFiniteSet(1..Len(text)) /\ Cardinality(1..Len(text)) = Len(text)
    BY <1>3, <2>1
  <2> HIDE DEF Set
  <2>3. IsFiniteSet(Set(text)) /\ Cardinality(Set(text)) <= Len(text)
    BY <2>1, <2>2, FS_Subset
  <2>4. Cardinality(Set(text)) \in Nat
    BY <2>3, FS_CardinalityType
  <2>5. QED
    BY <1>1, <2>3, <2>4
<1>6. ASSUME NEW text \in Text, NEW v \in Text
      PROVE  Characters(text \o <<"lf">> \o v) <= Characters(text) + Len(v)
  <2> DEFINE whole == text \o <<"lf">> \o v
             tail == (Len(text) + 2)..(Len(text) + 1 + Len(v))
  <2>1. /\ Len(text) \in Nat /\ Len(v) \in Nat
        /\ DOMAIN whole = 1..(Len(text) + 1 + Len(v))
        /\ \A i \in 1..Len(text) : whole[i] = text[i]
        /\ whole[Len(text) + 1] = "lf"
    <3>1. text \in Seq(Char) /\ v \in Seq(Char) /\ <<"lf">> \in Seq(Char)
      BY DEF Text, Char
    <3> DEFINE t == text \o <<"lf">>
    <3>2. /\ t \in Seq(Char) /\ Len(t) = Len(text) + 1
          /\ \A i \in 1..Len(text) : t[i] = text[i]
          /\ t[Len(text) + 1] = "lf"
      BY <3>1
    <3> HIDE DEF t
    <3>3. /\ DOMAIN (t \o v) = 1..(Len(t) + Len(v))
          /\ \A i \in 1..Len(t) : (t \o v)[i] = t[i]
      BY <3>1, <3>2
    <3>4. Len(text) \in Nat /\ Len(v) \in Nat
      BY <3>1
    <3>5. QED
      BY <3>2, <3>3, <3>4 DEF t
  <2>2. Set(whole) \subseteq Set(text) \cup tail
    <3> HIDE DEF whole
    <3>1. SUFFICES ASSUME NEW i \in DOMAIN whole, whole[i] # "lf"
                   PROVE  i \in Set(text) \cup tail
      OBVIOUS
    <3>2. CASE i <= Len(text)
      BY <1>2, <2>1, <3>1, <3>2
    <3>3. CASE ~(i <= Len(text))
      BY <2>1, <3>1, <3>3
    <3>4. QED
      BY <3>2, <3>3
  <2>3. IsFiniteSet(tail) /\ Cardinality(tail) = Len(v)
    <3> DEFINE a == Len(text) + 2
               b == Len(text) + 1 + Len(v)
    <3>1. /\ a \in Nat /\ b \in Nat /\ Len(v) \in Nat
          /\ (IF a > b THEN 0 ELSE b - a + 1) = Len(v)
      BY <2>1
    <3>2. tail = a..b
      OBVIOUS
    <3> HIDE DEF a, b, tail
    <3>3. QED
      BY <1>3, <3>1, <3>2
  <2>4. IsFiniteSet(Set(text)) /\ Cardinality(Set(text)) = Characters(text)
    BY <1>1, <1>5
  <2> HIDE DEF whole, tail, Set
  <2>5. /\ IsFiniteSet(Set(text) \cup tail)
        /\ Cardinality(Set(text) \cup tail) =
             Cardinality(Set(text)) + Cardinality(tail) - Cardinality(Set(text) \cap tail)
    BY <2>3, <2>4, FS_Union
  <2>6. Cardinality(Set(text) \cap tail) \in Nat
    BY <2>3, FS_Intersection, FS_CardinalityType
  <2>7. Cardinality(Set(whole)) <= Cardinality(Set(text) \cup tail)
    BY <2>2, <2>5, FS_Subset
  <2>8. Cardinality(Set(whole)) \in Nat /\ Cardinality(Set(text)) \in Nat
    BY <2>2, <2>4, <2>5, FS_Subset, FS_CardinalityType
  <2>9. Cardinality(Set(whole)) <= Cardinality(Set(text)) + Len(v)
    BY <2>1, <2>3, <2>5, <2>6, <2>7, <2>8
  <2>10. QED
    BY <1>1, <2>4, <2>9 DEF whole
<1>7. QED
  BY <1>4, <1>5, <1>6

\* The size counts what is kept but for the line ends between the values.
Counted(values, count) ==
  IF values = <<>> THEN count = 0 ELSE Len(Join[values]) = count + (Len(values) - 1)

\* The values of what is read are counted and stay within the limit, unless
\* reading raised.
Bounded(r) ==
  /\ ~r.raised =>
       /\ r.size <= max
       /\ Characters(Join[r.data]) <= r.size
       /\ Counted(r.data, r.size)
  /\ \A i \in DOMAIN r.events : Characters(r.events[i]) <= max

\* The values returned and kept stay within the limit, which leaves out the
\* line ends between them.
DecoderInv ==
  /\ TypeOK
  /\ LargeEventsRefused
  /\ ~raised =>
       /\ Len(pending) <= max
       /\ size <= max
       /\ Characters(Join[data]) <= size
       /\ Counted(data, size)

\* A round of the loop stays within the limit.
LEMMA ReadLineBounded ==
  ASSUME max \in Nat, NEW r \in Readings(Alphabet), Bounded(r), NEW line \in Seq(Alphabet)
  PROVE  ReadLine(r, line) \in Readings(Alphabet) /\ Bounded(ReadLine(r, line))
<1>1. /\ r.data \in Seq(Text) /\ Join[r.data] \in Text
      /\ Append(r.events, Join[r.data]) \in Seq(Text)
      /\ Value(line) \in Seq(Alphabet)
      /\ ReadLine(r, line) \in Readings(Alphabet)
  <2>1. Alphabet \in SUBSET Char
    BY DEF Char
  <2>2. QED
    BY <2>1, ReadLineTyped
<1>2. /\ r.data \in Seq(Seq(Alphabet)) /\ r.size \in Nat /\ r.events \in Seq(Text)
      /\ Seq(Alphabet) \subseteq Text
  <2>1. Alphabet \subseteq Char /\ Text = Seq(Char)
    BY DEF Char, Text
  <2>2. Seq(Alphabet) \subseteq Text
    BY <2>1, SeqMonotonic
  <2>3. QED
    BY <2>2 DEF Readings
<1>3. ASSUME ~r.raised PROVE Bounded(BlankLine(r))
  <2> DEFINE q == BlankLine(r)
  <2>1. /\ q.data = <<>> /\ q.size = 0
        /\ q.events = IF r.data = <<>> THEN r.events ELSE Append(r.events, Join[r.data])
    BY <1>1, BlankLineFields
  <2> HIDE DEF q
  <2>2. Characters(Join[r.data]) <= max
    <3>1. r.size <= max /\ Characters(Join[r.data]) <= r.size
      BY <1>3 DEF Bounded
    <3>2. Characters(Join[r.data]) \in Nat
      BY <1>1, CharactersBounds
    <3>3. QED
      BY <1>2, <3>1, <3>2
  <2>3. \A i \in DOMAIN q.events : Characters(q.events[i]) <= max
    <3>1. \A i \in DOMAIN r.events : Characters(r.events[i]) <= max
      BY DEF Bounded
    <3>2. \A i \in DOMAIN Append(r.events, Join[r.data]) :
            \/ i \in DOMAIN r.events /\ Append(r.events, Join[r.data])[i] = r.events[i]
            \/ Append(r.events, Join[r.data])[i] = Join[r.data]
      BY <1>2
    <3>3. QED
      BY <2>1, <2>2, <3>1, <3>2
  <2>4. Characters(Join[q.data]) = 0
    BY <2>1, JoinEquations, CharactersBounds
  <2>5. QED
    BY <2>1, <2>3, <2>4 DEF Bounded, Counted, q
<1>4. ASSUME ~r.raised PROVE Bounded(DataLine(r, Value(line)))
  <2> DEFINE value == Value(line)
             q == DataLine(r, value)
  <2>1. value \in Seq(Alphabet) /\ value \in Text
    BY <1>1, <1>2
  <2> HIDE DEF value
  <2>2. /\ q.data = Append(r.data, value) /\ q.size = r.size + Len(value)
        /\ q.events = r.events /\ (q.raised <=> r.size + Len(value) > max)
    BY <2>1, DataLineFields
  <2> HIDE DEF q
  <2>3. Characters(Join[Append(r.data, value)]) <= r.size + Len(value)
    <3>1. Join[Append(r.data, value)] =
            IF r.data = <<>> THEN value ELSE Join[r.data] \o <<"lf">> \o value
      BY <1>1, <2>1, JoinEquations
    <3>2. /\ Characters(value) \in Nat /\ Characters(value) <= Len(value)
          /\ Len(value) \in Nat
      BY <2>1, CharactersBounds
    <3>3. /\ Characters(Join[r.data]) \in Nat /\ Characters(Join[r.data]) <= r.size
      BY <1>1, <1>4, CharactersBounds DEF Bounded
    <3>4. CASE r.data = <<>>
      BY <1>2, <3>1, <3>2, <3>4
    <3>5. CASE r.data # <<>>
      <4>1. Characters(Join[r.data] \o <<"lf">> \o value)
              <= Characters(Join[r.data]) + Len(value)
        BY <1>1, <2>1, CharactersBounds
      <4>2. Characters(Join[Append(r.data, value)])
              <= Characters(Join[r.data]) + Len(value)
        BY <3>1, <3>5, <4>1
      <4>3. Characters(Join[Append(r.data, value)]) \in Nat
        <5>1. Append(r.data, value) \in Seq(Text)
          BY <1>1, <2>1, AppendParts
        <5>2. QED
          BY <5>1, JoinEquations, CharactersBounds
      <4>4. QED
        BY <1>2, <3>2, <3>3, <4>2, <4>3
    <3>6. QED
      BY <3>4, <3>5
  <2>4. Len(value) \in Nat
    BY <2>1
  <2>5. ~q.raised => q.size <= max
    BY <1>2, <2>2, <2>4
  <2>6. \A i \in DOMAIN q.events : Characters(q.events[i]) <= max
    BY <2>2 DEF Bounded
  <2>7. Counted(q.data, q.size)
    <3> DEFINE joined == Join[Append(r.data, value)]
               start == Join[r.data]
               kept == Len(r.data)
    <3>1. /\ joined = IF r.data = <<>> THEN value ELSE start \o <<"lf">> \o value
          /\ Len(Append(r.data, value)) = kept + 1 /\ kept \in Nat
          /\ Append(r.data, value) # <<>>
      <4>1. joined = IF r.data = <<>> THEN value ELSE start \o <<"lf">> \o value
        BY <1>1, <2>1, JoinEquations
      <4>2. r.data \in Seq(Text) /\ value \in Text
        BY <1>1, <2>1
      <4> HIDE DEF joined, start, Text
      <4>3. Len(Append(r.data, value)) = kept + 1 /\ kept \in Nat
        BY <4>2
      <4>4. Append(r.data, value) # <<>>
        BY <4>2, AppendParts
      <4>5. QED
        BY <4>1, <4>3, <4>4
    <3>2. Counted(r.data, r.size)
      BY <1>4 DEF Bounded
    <3>3. Len(joined) = r.size + Len(value) + kept
      <4>1. CASE r.data = <<>>
        <5>1. kept = 0 /\ r.size = 0 /\ joined = value
          BY <3>1, <3>2, <4>1 DEF Counted
        <5> HIDE DEF joined, kept
        <5>2. QED
          BY <2>4, <5>1
      <4>2. CASE r.data # <<>>
        <5>1. /\ Len(start) = r.size + (kept - 1)
              /\ joined = start \o <<"lf">> \o value
          BY <3>1, <3>2, <4>2 DEF Counted
        <5>2. /\ start \in Text /\ value \in Text
              /\ <<"lf">> \in Text /\ Len(<<"lf">>) = 1
          BY <1>1, <2>1 DEF Text
        <5> HIDE DEF joined, start, kept
        <5>3. start \o <<"lf">> \in Text /\ Len(start \o <<"lf">>) = Len(start) + 1
          BY <5>2, ConcatProperties DEF Text
        <5>4. Len(start \o <<"lf">> \o value) = Len(start \o <<"lf">>) + Len(value)
          BY <5>2, <5>3, ConcatProperties DEF Text
        <5>5. Len(start) \in Nat
          BY <5>2 DEF Text
        <5>6. Len(joined) = Len(start) + 1 + Len(value)
          BY <5>1, <5>3, <5>4
        <5>7. QED
          BY <1>2, <2>4, <3>1, <5>1, <5>5, <5>6
      <4>3. QED
        BY <4>1, <4>2
    <3> HIDE DEF kept
    <3>4. r.size + Len(value) + kept = q.size + (Len(q.data) - 1)
      BY <1>2, <2>2, <2>4, <3>1
    <3>5. QED
      BY <2>2, <3>1, <3>3, <3>4 DEF Counted
  <2>8. QED
    BY <2>2, <2>3, <2>5, <2>6, <2>7 DEF Bounded, q, value
<1>5. QED
  BY <1>1, <1>3, <1>4 DEF ReadLine

\* Settled is what feed splits into lines, and the held CR the rest.
LEMMA SettledParts ==
  ASSUME NEW S, NEW text \in Seq(S)
  PROVE  /\ Settled(text) \in Seq(S) /\ Held(text) \in Seq(S)
         /\ SubSeq(text, 1, Len(text) - Len(Held(text))) = Settled(text)
         /\ text = Settled(text) \o Held(text)
<1>1. CASE EndsWithCR(text)
  <2>1. text # <<>> /\ Last(text) = "cr" /\ Held(text) = <<"cr">> /\ Len(Held(text)) = 1
    BY <1>1 DEF EndsWithCR, Held
  <2>2. /\ Front(text) \in Seq(S) /\ Last(text) \in S
        /\ text = Append(Front(text), Last(text))
    BY <2>1, FrontParts
  <2>3. Settled(text) = Front(text)
    BY <1>1 DEF Settled
  <2>4. SubSeq(text, 1, Len(text) - Len(Held(text))) = Settled(text)
    BY <2>1, <2>3 DEF Front
  <2>5. Append(Front(text), "cr") = Front(text) \o <<"cr">>
    BY <2>2
  <2>6. QED
    BY <2>1, <2>2, <2>3, <2>4, <2>5
<1>2. CASE ~EndsWithCR(text)
  <2>1. Settled(text) = text /\ Held(text) = <<>> /\ Len(Held(text)) = 0
    BY <1>2 DEF Settled, Held
  <2>2. SubSeq(text, 1, Len(text)) = text
    BY SubSeqFull
  <2>3. Len(text) - 0 = Len(text)
    OBVIOUS
  <2>4. text \o <<>> = text
    BY ConcatEmptySeq
  <2>5. QED
    BY <2>1, <2>2, <2>3, <2>4, EmptySeq
<1>3. QED
  BY <1>1, <1>2

\* What a call of feed reads: clean lines of the settled text, which leave an
\* unfinished line.
LEMMA FeedParts ==
  ASSUME DecoderInv, ~raised, NEW chunk \in Seq(Alphabet)
  PROVE  LET text == pending \o chunk
             lines == SplitLines[Normalise[Settled(text)]]
         IN  /\ text \in Seq(Alphabet) /\ Settled(text) \in Text
             /\ SubSeq(text, 1, Len(text) - Len(Held(text))) = Settled(text)
             /\ Front(lines) \in Seq(Line) /\ Last(lines) \in Line
             /\ Last(lines) \o Held(text) \in Seq(Alphabet)
             /\ ReadLines[Front(lines)] \in Readings(Alphabet)
             /\ Bounded(ReadLines[Front(lines)])
<1> DEFINE text == pending \o chunk
           lines == SplitLines[Normalise[Settled(text)]]
<1>1. text \in Seq(Alphabet)
  BY ConcatProperties DEF DecoderInv, TypeOK
<1> HIDE DEF text
<1>2. Seq(Alphabet) \subseteq Text /\ Line \subseteq Seq(Alphabet) /\ Line \subseteq Text
  <2>1. /\ Alphabet \subseteq Char /\ Text = Seq(Char)
        /\ Alphabet \ {"cr", "lf"} \subseteq Alphabet
    BY DEF Char, Text
  <2>2. Seq(Alphabet) \subseteq Text
    BY <2>1, SeqMonotonic
  <2>3. Line \subseteq Seq(Alphabet)
    BY <2>1, SeqMonotonic DEF Line
  <2>4. QED
    BY <2>2, <2>3
<1>3. /\ Settled(text) \in Seq(Alphabet) /\ Held(text) \in Seq(Alphabet)
      /\ SubSeq(text, 1, Len(text) - Len(Held(text))) = Settled(text)
  BY <1>1, SettledParts
<1>4. lines \in Seq(Line) /\ lines # <<>>
  BY <1>2, <1>3, LinesClean
<1> HIDE DEF lines
<1>5. Front(lines) \in Seq(Line) /\ Last(lines) \in Line
  BY <1>4, FrontParts
<1>6. Last(lines) \o Held(text) \in Seq(Alphabet)
  BY <1>2, <1>3, <1>5, ConcatProperties
<1>7. \A s \in Seq(Line) : ReadLines[s] \in {r \in Readings(Alphabet) : Bounded(r)}
  <2> DEFINE D == {r \in Readings(Alphabet) : Bounded(r)}
  <2>1. ReadLines[<<>>] \in D
    <3>1. Reading \in Readings(Alphabet)
      BY EmptySeq DEF DecoderInv, TypeOK, Reading, Readings
    <3>2. Bounded(Reading)
      BY DEF DecoderInv, Bounded, Reading
    <3>3. ReadLines[<<>>] = Reading
      BY ReadLinesEquations DEF DecoderInv
    <3>4. QED
      BY <3>1, <3>2, <3>3
  <2>2. ASSUME NEW s \in Seq(Line), ReadLines[s] \in D, NEW line \in Line
        PROVE  ReadLines[Append(s, line)] \in D
    <3>1. s \in Seq(Text) /\ line \in Text /\ line \in Seq(Alphabet)
      <4> HIDE DEF Line, Text
      <4>1. QED
        BY <1>2, SeqMonotonic
    <3>2. ReadLines[Append(s, line)] = ReadLine(ReadLines[s], line)
      BY <3>1, ReadLinesEquations DEF DecoderInv
    <3>3. max \in Nat
      BY LimitsAssumption DEF DecoderInv, TypeOK
    <3>4. ReadLine(ReadLines[s], line) \in D
      BY <2>2, <3>1, <3>3, ReadLineBounded
    <3>5. QED
      BY <3>2, <3>4
  <2> HIDE DEF D
  <2>3. \A s \in Seq(Line) : ReadLines[s] \in D
    BY <2>1, <2>2, ValuesBySequence
  <2>4. QED
    BY <2>3 DEF D
<1>8. QED
  BY <1>1, <1>2, <1>3, <1>5, <1>6, <1>7 DEF text, lines

-----------------------------------------------------------------------------
(* The limits.                                                             *)

\* Every call of feed keeps the invariant.
LEMMA DecoderInvStep ==
  ASSUME DecoderInv, [Next]_vars
  PROVE  DecoderInv'
<1>1. ASSUME NEW chunk \in Chunks, Feed(chunk)
      PROVE  DecoderInv'
  <2> DEFINE text == pending \o chunk
             lines == SplitLines[Normalise[Settled(text)]]
             rest == Last(lines) \o Held(text)
             read == ReadLines[Front(lines)]
  <2>1. chunk \in Seq(Alphabet)
    BY <1>1 DEF Chunks
  <2>2. /\ ~raised /\ UNCHANGED max /\ received' = received \o chunk
    BY <1>1 DEF Feed
  <2>3. /\ SubSeq(text, 1, Len(text) - Len(Held(text))) = Settled(text)
        /\ rest \in Seq(Alphabet) /\ read \in Readings(Alphabet) /\ Bounded(read)
    BY <2>1, <2>2, FeedParts
  <2>4. /\ pending' = rest
        /\ IF Overflows(rest)
             THEN raised' = TRUE /\ UNCHANGED <<data, size, events>>
             ELSE /\ data' = read.data
                  /\ size' = read.size
                  /\ raised' = read.raised
                  /\ events' = IF read.raised THEN events ELSE events \o read.events
    BY <1>1, <2>3 DEF Feed
  <2> HIDE DEF rest, read
  <2>5. received' \in Seq(Alphabet)
    BY <2>1, <2>2, ConcatProperties DEF DecoderInv, TypeOK
  <2>6. CASE Overflows(rest)
    BY <2>2, <2>3, <2>4, <2>5, <2>6 DEF DecoderInv, TypeOK, LargeEventsRefused
  <2>7. CASE ~Overflows(rest)
    <3>1. /\ read.data \in Seq(Seq(Alphabet)) /\ read.size \in Nat
          /\ read.events \in Seq(Text) /\ read.raised \in BOOLEAN
          /\ events \in Seq(Text)
      BY <2>3 DEF Readings, DecoderInv, TypeOK
    <3>2. events \o read.events \in Seq(Text)
      BY <3>1, ConcatProperties
    <3>3. TypeOK'
      BY <2>2, <2>3, <2>4, <2>5, <2>7, <3>1, <3>2 DEF DecoderInv, TypeOK
    <3>4. \A i \in DOMAIN (events \o read.events) :
            \/ i \in DOMAIN events /\ (events \o read.events)[i] = events[i]
            \/ \E k \in DOMAIN read.events : (events \o read.events)[i] = read.events[k]
      BY <3>1
    <3>5. LargeEventsRefused'
      BY <2>2, <2>3, <2>4, <2>7, <3>4 DEF DecoderInv, LargeEventsRefused, Bounded
    <3>6. Len(rest) <= max
      <4>1. max \in Nat /\ size \in Nat /\ Len(rest) \in Nat
        BY <2>3, LimitsAssumption DEF DecoderInv, TypeOK
      <4>2. QED
        BY <2>7, <4>1 DEF Overflows
    <3>7. ~raised' => /\ Len(pending') <= max' /\ size' <= max'
                      /\ Characters(Join[data']) <= size' /\ Counted(data', size')
      BY <2>2, <2>3, <2>4, <2>7, <3>6 DEF Bounded
    <3>8. QED
      BY <3>3, <3>5, <3>7 DEF DecoderInv, Counted
  <2>8. QED
    BY <2>6, <2>7
<1>2. CASE UNCHANGED vars
  BY <1>2 DEF vars, DecoderInv, Counted, TypeOK, LargeEventsRefused
<1>3. QED
  BY <1>1, <1>2 DEF Next

\* DecoderInv is an invariant.
THEOREM DecoderInvariance == Spec => []DecoderInv
<1>1. Init => DecoderInv
  <2> SUFFICES ASSUME Init PROVE DecoderInv
    OBVIOUS
  <2>1. TypeOK
    BY EmptySeq DEF Init, TypeOK
  <2>2. LargeEventsRefused
    BY DEF Init, LargeEventsRefused
  <2>3. /\ Len(pending) <= max /\ size <= max /\ Characters(Join[data]) <= size
        /\ Counted(data, size)
    BY LimitsAssumption, JoinEquations, CharactersBounds DEF Init, Counted
  <2>4. QED
    BY <2>1, <2>2, <2>3 DEF DecoderInv
<1>2. DecoderInv /\ [Next]_vars => DecoderInv'
  BY DecoderInvStep
<1>3. QED
  BY <1>1, <1>2, PTL DEF Spec

\* TypeOK: the variables keep their types.
THEOREM DecoderTypeCorrect == Spec => []TypeOK
<1>1. DecoderInv => TypeOK
  BY DEF DecoderInv
<1>2. QED
  BY <1>1, DecoderInvariance, PTL

\* LargeEventsRefused: whatever the stream and its chunks, feed returns no
\* event whose values are together longer than the limit.
THEOREM EventsStayWithinLimit == Spec => []LargeEventsRefused
<1>1. DecoderInv => LargeEventsRefused
  BY DEF DecoderInv
<1>2. QED
  BY <1>1, DecoderInvariance, PTL

\* OnlyLineEndsUncounted: what the decoder keeps between two calls is larger
\* than the limit by line ends only, one for each value after the first.
THEOREM KeptButForLineEnds == Spec => []OnlyLineEndsUncounted
<1>1. DecoderInv => OnlyLineEndsUncounted
  <2> SUFFICES ASSUME DecoderInv, ~raised, data # <<>>
               PROVE  Len(Join[data]) <= max + (Len(data) - 1)
    BY DEF DecoderInv, OnlyLineEndsUncounted
  <2>1. size <= max /\ Len(Join[data]) = size + (Len(data) - 1)
    BY DEF DecoderInv, Counted
  <2>2. max \in Nat /\ size \in Nat /\ Len(data) \in Nat
    BY LimitsAssumption DEF DecoderInv, TypeOK
  <2>3. QED
    BY <2>1, <2>2
<1>2. QED
  BY <1>1, DecoderInvariance, PTL

-----------------------------------------------------------------------------
(* A line, read by both.                                                   *)

\* A clean line is left as it is.
LEMMA LineAlone ==
  ASSUME NEW line \in Line
  PROVE  /\ line \in Text /\ ~EndsWithCR(line)
         /\ Normalise[line] = line /\ SplitLines[line] = <<line>>
<1> DEFINE E == Alphabet \ {"cr", "lf"}
           P == {t \in Seq(E) : Normalise[t] = t /\ SplitLines[t] = <<t>>}
<1>1. E \subseteq Char /\ Text = Seq(Char) /\ Line = Seq(E)
  BY DEF Char, Text, Line
<1>2. \A t \in Seq(E) : t \in Text /\ ~EndsWithCR(t)
  <2>1. \A t \in Seq(E) : t \in Text
    BY <1>1, SeqMonotonic
  <2>2. \A t \in Seq(E) : t # <<>> => Last(t) \in E
    BY FrontParts
  <2>3. QED
    BY <2>1, <2>2 DEF EndsWithCR
<1>3. <<>> \in P
  BY EmptySeq, NormaliseEquations, SplitLinesEquations
<1>4. ASSUME NEW t \in P, NEW c \in E PROVE Append(t, c) \in P
  <2>1. /\ t \in Text /\ c \in Char /\ c # "lf" /\ c # "cr" /\ Append(t, c) \in Seq(E)
        /\ Normalise[t] = t /\ SplitLines[t] = <<t>>
    BY <1>1, <1>2, AppendParts
  <2>2. Normalise[Append(t, c)] = Append(t, c)
    BY <2>1, NormaliseEquations
  <2>3. SplitLines[Append(t, c)] = Append(Front(<<t>>), Append(Last(<<t>>), c))
    BY <2>1, SplitLinesEquations
  <2>4. Front(<<t>>) = <<>> /\ Last(<<t>>) = t
    <3>1. Append(<<>>, t) = <<t>> /\ <<>> \in Seq({t})
      OBVIOUS
    <3>2. Front(Append(<<>>, t)) = <<>> /\ Last(Append(<<>>, t)) = t
      BY <3>1, AppendParts
    <3>3. QED
      BY <3>1, <3>2
  <2>5. SplitLines[Append(t, c)] = <<Append(t, c)>>
    <3> DEFINE longer == Append(t, c)
    <3>1. Append(<<>>, longer) = <<longer>>
      OBVIOUS
    <3>2. SplitLines[longer] = Append(<<>>, longer)
      BY <2>3, <2>4
    <3> HIDE DEF longer
    <3>3. SplitLines[longer] = <<longer>>
      BY <3>1, <3>2
    <3>4. QED
      BY <3>3 DEF longer
  <2>6. QED
    BY <2>1, <2>2, <2>5
<1>5. P \in SUBSET Seq(E)
  OBVIOUS
<1> HIDE DEF P, E
<1>6. P = Seq(E)
  BY <1>3, <1>4, <1>5, SequenceInduction
<1>7. QED
  BY <1>1, <1>2, <1>6 DEF P

\* Splitting at the first colon finds the data lines that the reader finds,
\* and the same values.
LEMMA DataLinesAgree ==
  ASSUME NEW line \in Line, line # <<>>
  PROVE  /\ (Head(line) # "colon" /\ Field(line) = <<"data">>) <=> IsData(line)
         /\ IsData(line) => Value(line) = DataValue(line)
<1> DEFINE E == Alphabet \ {"cr", "lf"}
           k == Colon(line)
           n == Len(line)
<1>1. line \in Seq(E) /\ n \in Nat /\ n > 0 /\ Head(line) = line[1]
  BY DEF Line
<1>2. /\ k \in 0..n
      /\ k = 0 => \A i \in 1..n : line[i] # "colon"
      /\ k # 0 => line[k] = "colon" /\ \A i \in 1..n : line[i] = "colon" => k <= i
  BY <1>1, ColonFirst
<1>3. IsData(line) <=> line[1] = "data" /\ (n > 1 => line[2] = "colon")
  BY <1>1 DEF IsData
<1>4. k = 0 => Field(line) = line
  BY DEF Field
<1>5. k # 0 => /\ Len(Field(line)) = k - 1
               /\ \A i \in 1..(k - 1) : Field(line)[i] = line[i]
               /\ Field(line) \in Seq(E)
  <2> SUFFICES ASSUME k # 0
               PROVE  /\ Len(Field(line)) = k - 1
                      /\ \A i \in 1..(k - 1) : Field(line)[i] = line[i]
                      /\ Field(line) \in Seq(E)
    OBVIOUS
  <2> DEFINE m == k - 1
  <2>1. m \in Nat /\ \A i \in 1..m : line[i] \in E
    BY <1>1, <1>2
  <2>2. Field(line) = SubSeq(line, 1, m)
    BY DEF Field
  <2> HIDE DEF m, E, k, n
  <2>3. /\ SubSeq(line, 1, m) \in Seq(E)
        /\ Len(SubSeq(line, 1, m)) = IF 1 <= m THEN m - 1 + 1 ELSE 0
        /\ \A i \in 1..(m - 1 + 1) : SubSeq(line, 1, m)[i] = line[1 + i - 1]
    BY <2>1, SubSeqProperties
  <2>4. QED
    BY <2>1, <2>2, <2>3 DEF m
<1> HIDE DEF E, k, n
<1>6. ASSUME IsData(line)
      PROVE  /\ Head(line) # "colon" /\ Field(line) = <<"data">>
             /\ k = (IF n = 1 THEN 0 ELSE 2)
  <2>1. CASE n = 1
    <3>1. k = 0
      BY <1>1, <1>2, <1>3, <1>6, <2>1
    <3>2. line = <<"data">>
      BY <1>1, <1>3, <1>6, <2>1 DEF n
    <3>3. QED
      BY <1>1, <1>4, <2>1, <3>1, <3>2
  <2>2. CASE n # 1
    <3>1. k = 2
      BY <1>1, <1>2, <1>3, <1>6, <2>2
    <3>2. /\ Len(Field(line)) = 1 /\ Field(line)[1] = "data" /\ Field(line) \in Seq(E)
      BY <1>3, <1>5, <1>6, <3>1
    <3>3. Field(line) = <<"data">>
      BY <3>2
    <3>4. QED
      BY <1>1, <1>3, <1>6, <2>2, <3>1, <3>3
  <2>3. QED
    BY <2>1, <2>2
<1>7. ASSUME Field(line) = <<"data">> PROVE IsData(line)
  <2>1. Len(Field(line)) = 1 /\ Field(line)[1] = "data"
    BY <1>7
  <2>2. CASE k = 0
    <3>1. Len(line) = 1 /\ line[1] = "data"
      BY <1>4, <2>1, <2>2
    <3>2. QED
      BY <1>3, <3>1 DEF n
  <2>3. CASE k # 0
    <3>1. k = 2
      BY <1>1, <1>2, <1>5, <2>1, <2>3
    <3>2. line[1] = "data" /\ line[2] = "colon"
      BY <1>2, <1>5, <2>1, <3>1
    <3>3. QED
      BY <1>3, <3>2
  <2>4. QED
    BY <2>2, <2>3
<1>8. ASSUME IsData(line) PROVE Value(line) = DataValue(line)
  <2> DEFINE rest == DropFirst(2, line)
             spaced == n > 2 /\ line[3] = "space"
  <2>1. /\ rest \in Seq(E) /\ Len(rest) = IF 2 <= n THEN n - 2 ELSE 0
        /\ \A i \in 1..(n - 2) : rest[i] = line[2 + i]
    <3>1. \A m \in Nat :
            /\ DropFirst(m, line) \in Seq(E)
            /\ Len(DropFirst(m, line)) = IF m <= n THEN n - m ELSE 0
            /\ \A i \in 1..(n - m) : DropFirst(m, line)[i] = line[m + i]
      BY <1>1, Dropped DEF n
    <3>2. QED
      BY <3>1
  <2>2. DataValue(line) = IF spaced THEN DropFirst(3, line) ELSE rest
    BY DEF DataValue, n
  <2>3. Value(line) = IF rest # <<>> /\ Head(rest) = "space" THEN Tail(rest) ELSE rest
    <3>1. CASE k = 0
      <4>1. rest = <<>>
        BY <1>1, <1>6, <1>8, <2>1, <3>1
      <4>2. QED
        BY <3>1, <4>1 DEF Value, k
    <3>2. CASE k = 2
      BY <3>2 DEF Value, k
    <3>3. QED
      BY <1>6, <1>8, <3>1, <3>2
  <2>4. (rest # <<>> /\ Head(rest) = "space") <=> spaced
    <3>1. rest # <<>> <=> n > 2
      BY <1>1, <2>1
    <3>2. n > 2 => Head(rest) = line[3]
      BY <1>1, <2>1
    <3>3. QED
      BY <3>1, <3>2
  <2>5. spaced => Tail(rest) = DropFirst(3, line)
    <3> SUFFICES ASSUME spaced PROVE Tail(rest) = DropFirst(3, line)
      OBVIOUS
    <3> HIDE DEF rest
    <3>1. n > 2 /\ rest # <<>>
      BY <2>4
    <3>2. /\ Tail(rest) \in Seq(E) /\ Len(Tail(rest)) = n - 3
          /\ \A i \in 1..(n - 3) : Tail(rest)[i] = line[3 + i]
      <4>1. /\ Tail(rest) \in Seq(E) /\ Len(Tail(rest)) = Len(rest) - 1
            /\ \A i \in 1..Len(Tail(rest)) : Tail(rest)[i] = rest[i + 1]
        BY <2>1, <3>1, HeadTailProperties
      <4>2. Len(rest) = n - 2
        BY <1>1, <2>1, <3>1
      <4>3. \A i \in 1..(n - 3) : rest[i + 1] = line[3 + i]
        BY <1>1, <2>1
      <4>4. QED
        BY <1>1, <4>1, <4>2, <4>3
    <3>3. /\ DropFirst(3, line) \in Seq(E) /\ Len(DropFirst(3, line)) = n - 3
          /\ \A i \in 1..(n - 3) : DropFirst(3, line)[i] = line[3 + i]
      <4>1. \A m \in Nat :
              /\ DropFirst(m, line) \in Seq(E)
              /\ Len(DropFirst(m, line)) = IF m <= n THEN n - m ELSE 0
              /\ \A i \in 1..(n - m) : DropFirst(m, line)[i] = line[m + i]
        BY <1>1, Dropped DEF n
      <4>2. QED
        BY <1>1, <3>1, <4>1
    <3>4. QED
      BY <3>2, <3>3, SeqEqual
  <2> HIDE DEF rest, spaced
  <2>6. QED
    BY <2>2, <2>3, <2>4, <2>5
<1>9. QED
  BY <1>6, <1>7, <1>8

\* Appending to the second of two concatenated sequences appends to both.
LEMMA AppendAssociative ==
  \A a \in Seq(Text) : \A b \in Seq(Text) : \A x \in Text :
    Append(a \o b, x) = a \o Append(b, x)
<1> SUFFICES ASSUME NEW a \in Seq(Text), NEW b \in Seq(Text), NEW x \in Text
             PROVE  Append(a \o b, x) = a \o Append(b, x)
  OBVIOUS
<1>1. /\ Append(a \o b, x) \in Seq(Text) /\ a \o Append(b, x) \in Seq(Text)
      /\ Len(Append(a \o b, x)) = Len(a \o Append(b, x))
  OBVIOUS
<1>2. \A i \in 1..Len(Append(a \o b, x)) : Append(a \o b, x)[i] = (a \o Append(b, x))[i]
  OBVIOUS
<1>3. QED
  BY <1>1, <1>2, SeqEqual

\* The loop over the lines and the reader are in step.
Match(q, r) == r.values = q.data /\ r.events = events \o q.events

\* They are still in step after a line that does not raise.
LEMMA LinesMatch ==
  ASSUME max \in Nat, events \in Seq(Text),
         NEW q \in Readings(Char), NEW r \in ReaderStates, r.line \in Line,
         Match(q, r), ~ReadLine(q, r.line).raised
  PROVE  Match(ReadLine(q, r.line), EndLine(r)) /\ ~q.raised
<1> DEFINE line == r.line
           p == ReadLine(q, line)
           e == EndLine(r)
<1>1. ~q.raised
  BY DEF ReadLine
<1>2. /\ q.data \in Seq(Text) /\ Append(q.events, Join[q.data]) \in Seq(Text)
      /\ q.events \in Seq(Text) /\ Join[q.data] \in Text
      /\ line \in Text /\ line \in Seq(Char) /\ Value(line) \in Seq(Char)
  <2>1. line \in Seq(Char) /\ line \in Text /\ Char \in SUBSET Char
    BY LineAlone DEF Text, Char
  <2>2. QED
    BY <2>1, ReadLineTyped DEF Readings
<1>3. CASE line = <<>>
  <2>1. p = BlankLine(q)
    BY <1>1, <1>3 DEF ReadLine
  <2>2. /\ p.data = <<>>
        /\ p.events = IF q.data = <<>> THEN q.events ELSE Append(q.events, Join[q.data])
    BY <1>2, <2>1, BlankLineFields
  <2>3. /\ e.values = <<>>
        /\ e.events = IF r.values = <<>> THEN r.events ELSE Append(r.events, Join[r.values])
    BY <1>3, EndLineFields
  <2> DEFINE joined == Join[q.data]
  <2>4. Append(events \o q.events, joined) = events \o Append(q.events, joined)
    <3> DEFINE read == q.events
    <3>1. joined \in Text /\ read \in Seq(Text) /\ events \in Seq(Text)
      BY <1>2
    <3> HIDE DEF joined, read
    <3>2. Append(events \o read, joined) = events \o Append(read, joined)
      BY <3>1, AppendAssociative, Zenon
    <3>3. QED
      BY <3>2 DEF read
  <2> HIDE DEF p, e, joined
  <2>5. e.values = p.data /\ e.events = events \o p.events
    BY <2>2, <2>3, <2>4 DEF Match, joined
  <2>6. QED
    BY <1>1, <2>5 DEF Match, p, e
<1>4. CASE line # <<>> /\ IsData(line)
  <2>1. Head(line) # "colon" /\ Field(line) = <<"data">> /\ Value(line) = DataValue(line)
    BY <1>4, DataLinesAgree
  <2>2. p = DataLine(q, Value(line))
    BY <1>1, <1>4, <2>1 DEF ReadLine
  <2>3. p.data = Append(q.data, Value(line)) /\ p.events = q.events
    BY <1>2, <2>2, DataLineFields
  <2>4. e.values = Append(r.values, DataValue(line)) /\ e.events = r.events
    BY <1>4, EndLineFields
  <2> HIDE DEF p, e
  <2>5. e.values = p.data /\ e.events = events \o p.events
    BY <2>1, <2>3, <2>4 DEF Match
  <2>6. QED
    BY <1>1, <2>5 DEF Match, p, e
<1>5. CASE line # <<>> /\ ~IsData(line)
  <2>1. Head(line) = "colon" \/ Field(line) # <<"data">>
    BY <1>5, DataLinesAgree
  <2>2. p = q
    BY <1>5, <2>1 DEF ReadLine
  <2>3. e.values = r.values /\ e.events = r.events
    BY <1>5, EndLineFields
  <2> HIDE DEF p, e
  <2>4. QED
    BY <1>1, <2>2, <2>3 DEF Match, p, e
<1>6. QED
  BY <1>3, <1>4, <1>5

\* Whatever follows the unfinished line, the loop over its lines and the
\* reader that goes on character by character stay in step, unless the loop
\* raises.
LEMMA ReaderFollows ==
  ASSUME TypeOK, NEW line \in Line, NEW before \in Text,
         Reader[before].line = line, Reader[before].values = data,
         Reader[before].events = events
  PROVE  \A x \in Text :
           (Reader[before].afterCR /\ x # <<>> => x[1] = "cr") =>
             LET lines == SplitLines[Normalise[line \o x]]
                 q == ReadLines[Front(lines)]
                 r == Reader[before \o x]
             IN  /\ r.line = Last(lines)
                 /\ ~q.raised => Match(q, r)
                 /\ x # <<>> => (r.afterCR <=> EndsWithCR(x))
<1> DEFINE lines(x) == SplitLines[Normalise[line \o x]]
           q(x) == ReadLines[Front(lines(x))]
           r(x) == Reader[before \o x]
           Allowed(x) == Reader[before].afterCR /\ x # <<>> => x[1] = "cr"
           Follows(x) == /\ r(x).line = Last(lines(x))
                         /\ ~q(x).raised => Match(q(x), r(x))
                         /\ x # <<>> => (r(x).afterCR <=> EndsWithCR(x))
           P == {x \in Text : Allowed(x) => Follows(x)}
<1>1. /\ Text = Seq(Char) /\ <<>> \in Text /\ "lf" \in Char /\ <<>> \in Line
      /\ Line \subseteq Text /\ max \in Nat /\ events \in Seq(Text)
  <2>1. Text = Seq(Char) /\ <<>> \in Text /\ "lf" \in Char /\ <<>> \in Line
    BY DEF Text, Char, Line
  <2>2. Line \subseteq Text
    BY LineAlone
  <2>3. QED
    BY <2>1, <2>2, LimitsAssumption DEF TypeOK
<1>2. \A x \in Text : line \o x \in Text /\ before \o x \in Text
  <2>1. line \in Text
    BY <1>1
  <2>2. QED
    BY <1>1, <2>1, ConcatProperties
<1>3. \A x \in Text : /\ lines(x) \in Seq(Line) /\ lines(x) # <<>>
                      /\ r(x) \in ReaderStates
  BY <1>2, LinesClean, ReaderEquations
<1>4. Seq(Line) \subseteq Seq(Text)
  <2> HIDE DEF Line, Text
  <2>1. QED
    BY <1>1, SeqMonotonic
<1>5. \A x \in Text : /\ Front(lines(x)) \in Seq(Text) /\ Last(lines(x)) \in Line
                      /\ lines(x) = Append(Front(lines(x)), Last(lines(x)))
                      /\ q(x) \in Readings(Char)
  <2> SUFFICES ASSUME NEW x \in Text
               PROVE  /\ Front(lines(x)) \in Seq(Text) /\ Last(lines(x)) \in Line
                      /\ lines(x) = Append(Front(lines(x)), Last(lines(x)))
                      /\ q(x) \in Readings(Char)
    OBVIOUS
  <2> DEFINE ls == lines(x)
  <2>1. ls \in Seq(Line) /\ ls # <<>>
    BY <1>3
  <2> HIDE DEF ls
  <2>2. /\ Front(ls) \in Seq(Line) /\ Last(ls) \in Line
        /\ ls = Append(Front(ls), Last(ls))
    BY <2>1, FrontParts
  <2>3. ReadLines[Front(ls)] \in Readings(Char)
    BY <1>4, <2>2, ReadLinesEquations
  <2>4. QED
    BY <1>4, <2>2, <2>3 DEF ls
<1>6. <<>> \in P
  <2>1. line \in Text /\ line \o <<>> = line /\ before \o <<>> = before
    BY <1>1, ConcatEmptySeq
  <2>2. lines(<<>>) = <<line>>
    BY <2>1, LineAlone
  <2>3. Front(<<line>>) = <<>> /\ Last(<<line>>) = line
    <3>1. Append(<<>>, line) = <<line>> /\ <<>> \in Seq({line})
      OBVIOUS
    <3>2. Front(Append(<<>>, line)) = <<>> /\ Last(Append(<<>>, line)) = line
      BY <3>1, AppendParts
    <3>3. QED
      BY <3>1, <3>2
  <2>4. q(<<>>) = Reading /\ r(<<>>) = Reader[before]
    BY <2>1, <2>2, <2>3, ReadLinesEquations
  <2>5. Reading.data = data /\ events \o Reading.events = events
    <3>1. Reading.data = data /\ Reading.events = <<>>
      BY DEF Reading
    <3> HIDE DEF Text
    <3>2. QED
      BY <1>1, <3>1, ConcatEmptySeq
  <2> HIDE DEF q, r, lines
  <2>6. Follows(<<>>)
    BY <2>2, <2>3, <2>4, <2>5 DEF Match
  <2>7. QED
    BY <1>1, <2>6
<1>7. ASSUME NEW x \in P, NEW c \in Char PROVE Append(x, c) \in P
  <2> DEFINE y == Append(x, c)
             b == line \o x
  <2>1. /\ x \in Text /\ y \in Text /\ y # <<>> /\ b \in Text
        /\ (x # <<>> => y[1] = x[1]) /\ (x = <<>> => y[1] = c)
        /\ (EndsWithCR(y) <=> c = "cr")
        /\ line \o y = Append(b, c) /\ before \o y = Append(before \o x, c)
    <3>1. x \in Text /\ y \in Text /\ y # <<>> /\ Last(y) = c
      BY <1>1, AppendParts
    <3>2. (x # <<>> => y[1] = x[1]) /\ (x = <<>> => y[1] = c)
      BY <1>1, <3>1
    <3>3. line \o y = Append(b, c) /\ before \o y = Append(before \o x, c)
      <4>1. line \in Seq(Char) /\ before \in Seq(Char) /\ x \in Seq(Char)
        BY <1>1
      <4>2. QED
        BY <4>1
    <3>4. QED
      BY <1>2, <3>1, <3>2, <3>3 DEF EndsWithCR
  <2> HIDE DEF P
  <2>2. SUFFICES ASSUME Allowed(y) PROVE Follows(y)
    BY <2>1 DEF P
  <2>3. Allowed(x) /\ Follows(x)
    <3>1. Allowed(x)
      BY <2>1, <2>2
    <3>2. QED
      BY <3>1 DEF P
  <2>4. (c = "lf" /\ EndsWithCR(b)) <=> (c = "lf" /\ r(x).afterCR)
    <3>1. CASE x = <<>>
      <4>1. b = line /\ ~EndsWithCR(b)
        BY <1>1, <3>1, ConcatEmptySeq, LineAlone
      <4>2. r(x) = Reader[before]
        BY <3>1, ConcatEmptySeq
      <4>3. Reader[before].afterCR => c = "cr"
        BY <2>1, <2>2, <3>1
      <4>4. QED
        BY <4>1, <4>2, <4>3
    <3>2. CASE x # <<>>
      <4>1. Last(b) = Last(x) /\ b # <<>>
        <5>1. line \in Seq(Char) /\ x \in Seq(Char)
          BY <1>1, <2>1
        <5>2. QED
          BY <3>2, <5>1 DEF Last
      <4>2. EndsWithCR(b) <=> EndsWithCR(x)
        BY <3>2, <4>1 DEF EndsWithCR
      <4>3. QED
        BY <2>3, <3>2, <4>2
    <3>3. QED
      BY <3>1, <3>2
  <2>5. r(y) = ReadCharacter(r(x), c) /\ r(x) \in ReaderStates
    BY <1>2, <1>3, <2>1, ReaderEquations
  <2>6. Normalise[line \o y] =
          IF c = "lf" /\ EndsWithCR(b) THEN Normalise[b]
          ELSE Append(Normalise[b], IF c = "cr" THEN "lf" ELSE c)
    BY <2>1, NormaliseEquations
  <2>7. lines(x) = SplitLines[Normalise[b]] /\ Normalise[b] \in Text
    <3>1. Normalise[b] \in Seq(Char \ {"cr"}) /\ Char \ {"cr"} \subseteq Char
      BY <2>1, NormaliseEquations
    <3>2. QED
      BY <1>1, <3>1, SeqMonotonic
  <2>8. /\ lines(x) \in Seq(Line) /\ Front(lines(x)) \in Seq(Text)
        /\ lines(x) \in Seq(Text)
        /\ Last(lines(x)) \in Line /\ lines(x) = Append(Front(lines(x)), Last(lines(x)))
        /\ q(x) \in Readings(Char)
    BY <1>3, <1>4, <1>5, <2>1
  <2> HIDE DEF Allowed, r, b
  <2>9. CASE c = "lf" /\ r(x).afterCR
    <3>1. lines(y) = lines(x)
      BY <2>4, <2>6, <2>7, <2>9
    <3>2. q(y) = q(x)
      BY <3>1
    <3>3. /\ r(y).line = r(x).line /\ r(y).values = r(x).values
          /\ r(y).events = r(x).events /\ (r(y).afterCR <=> c = "cr")
      BY <2>5, <2>9, ReadCharacterFields
    <3> HIDE DEF lines, q
    <3>4. QED
      BY <2>1, <2>3, <3>1, <3>2, <3>3 DEF Match
  <2>10. CASE c = "cr" \/ (c = "lf" /\ ~r(x).afterCR)
    <3>1. Normalise[line \o y] = Append(Normalise[b], "lf")
      BY <2>4, <2>6, <2>10
    <3>2. lines(y) = Append(lines(x), <<>>)
      BY <1>1, <2>7, <3>1, SplitLinesEquations
    <3> DEFINE ls == lines(x)
    <3>3. Front(lines(y)) = ls /\ Last(lines(y)) = <<>>
      <4>1. ls \in Seq(Line) /\ lines(y) = Append(ls, <<>>)
        BY <2>8, <3>2
      <4> HIDE DEF ls, lines, Line
      <4>2. QED
        BY <1>1, <4>1, AppendParts
    <3>4. q(y) = ReadLine(q(x), Last(ls))
      <4>1. Front(ls) \in Seq(Text) /\ Last(ls) \in Text /\ ls = Append(Front(ls), Last(ls))
        BY <1>1, <2>8
      <4>2. ReadLines[Append(Front(ls), Last(ls))] = ReadLine(ReadLines[Front(ls)], Last(ls))
        BY <4>1, ReadLinesEquations
      <4>3. ReadLines[ls] = ReadLine(ReadLines[Front(ls)], Last(ls))
        BY <4>1, <4>2
      <4> HIDE DEF lines
      <4>4. QED
        BY <3>3, <4>3
    <3>5. /\ r(y).line = EndLine(r(x)).line /\ r(y).values = EndLine(r(x)).values
          /\ r(y).events = EndLine(r(x)).events /\ (r(y).afterCR <=> c = "cr")
          /\ EndLine(r(x)).line = <<>>
      BY <2>5, <2>10, ReadCharacterFields, EndLineFields
    <3>6. r(x).line = Last(ls) /\ Last(ls) \in Line
      BY <2>3, <2>8
    <3> HIDE DEF ls, lines, q
    <3>7. ASSUME ~q(y).raised PROVE Match(q(y), EndLine(r(x)))
      <4>1. ~q(x).raised
        BY <3>4, <3>7 DEF ReadLine
      <4>2. Match(q(x), r(x))
        BY <2>3, <4>1
      <4>3. QED
        BY <1>1, <2>5, <2>8, <3>4, <3>6, <3>7, <4>2, LinesMatch
    <3>8. QED
      BY <2>1, <3>3, <3>5, <3>7 DEF Match
  <2>11. CASE c \notin {"lf", "cr"}
    <3>1. Normalise[line \o y] = Append(Normalise[b], c)
      BY <2>6, <2>11
    <3> DEFINE ls == lines(x)
    <3>2. lines(y) = Append(Front(ls), Append(Last(ls), c))
      BY <2>7, <2>11, <3>1, SplitLinesEquations
    <3>3. Append(Last(ls), c) \in Text
      BY <1>1, <2>8, AppendParts
    <3>4. Front(lines(y)) = Front(ls) /\ Last(lines(y)) = Append(Last(ls), c)
      <4>1. Front(ls) \in Seq(Text)
        BY <2>8
      <4> DEFINE f == Front(ls)
                 l == Append(Last(ls), c)
      <4>2. lines(y) = Append(f, l) /\ f \in Seq(Text) /\ l \in Text
        BY <3>2, <3>3, <4>1
      <4> HIDE DEF f, l, lines, ls, Text
      <4>3. Front(lines(y)) = f /\ Last(lines(y)) = l
        BY <4>2, AppendParts
      <4>4. QED
        BY <4>3 DEF f, l
    <3>5. q(y) = q(x)
      BY <3>4
    <3>6. /\ r(y).line = Append(r(x).line, c) /\ r(y).values = r(x).values
          /\ r(y).events = r(x).events /\ (r(y).afterCR <=> c = "cr")
      BY <2>5, <2>11, ReadCharacterFields
    <3>7. r(x).line = Last(ls)
      BY <2>3
    <3> HIDE DEF ls, lines, q
    <3>8. QED
      BY <2>1, <2>3, <3>4, <3>5, <3>6, <3>7 DEF Match
  <2>12. QED
    BY <2>9, <2>10, <2>11
<1>8. P \in SUBSET Seq(Char)
  BY <1>1
<1>9. P = Seq(Char)
  <2> HIDE DEF P
  <2>1. QED
    BY <1>6, <1>7, <1>8, SequenceInduction
<1>10. \A x \in Text : Allowed(x) => Follows(x)
  BY <1>1, <1>9
<1>11. QED
  BY <1>10

-----------------------------------------------------------------------------
(* How the stream is cut.                                                  *)

\* What ends a text decides whether a CR is held back.
LEMMA SettledConcat ==
  ASSUME NEW S, NEW a \in Seq(S), NEW b \in Seq(S), b # <<>>
  PROVE  /\ EndsWithCR(a \o b) <=> EndsWithCR(b)
         /\ Settled(a \o b) = a \o Settled(b)
         /\ Held(a \o b) = Held(b)
<1> DEFINE f == Front(b)
           l == Last(b)
<1>1. f \in Seq(S) /\ l \in S /\ b = Append(f, l)
  BY FrontParts
<1> HIDE DEF f, l
<1>2. a \o f \in Seq(S) /\ a \o b = Append(a \o f, l)
  <2>1. a \o Append(f, l) = Append(a \o f, l) /\ a \o f \in Seq(S)
    BY <1>1
  <2>2. QED
    BY <1>1, <2>1
<1>3. a \o b # <<>> /\ Front(a \o b) = a \o f /\ Last(a \o b) = l
  <2> DEFINE g == a \o f
  <2>1. g \in Seq(S) /\ a \o b = Append(g, l)
    BY <1>2
  <2> HIDE DEF g
  <2>2. Append(g, l) # <<>> /\ Front(Append(g, l)) = g /\ Last(Append(g, l)) = l
    BY <1>1, <2>1, AppendParts
  <2>3. QED
    BY <2>1, <2>2 DEF g
<1>4. EndsWithCR(a \o b) <=> EndsWithCR(b)
  BY <1>3 DEF EndsWithCR, l
<1>5. QED
  BY <1>3, <1>4 DEF Settled, Held, f

\* Where the loop and the reader stand between two calls: the reader has seen
\* all but a held CR, and holds the unfinished line and event of the decoder.
Chunked ==
  ~raised =>
    /\ Settled(pending) \in Line
    /\ Reader[Settled(received)].line = Settled(pending)
    /\ Reader[Settled(received)].values = data
    /\ Reader[Settled(received)].events = events
    /\ EndsWithCR(pending) <=> EndsWithCR(received)
    /\ ~EndsWithCR(received) => ~Reader[Settled(received)].afterCR

\* A call of feed keeps them together.
LEMMA ChunkedFeed ==
  ASSUME DecoderInv, Chunked, NEW chunk \in Seq(Alphabet), Feed(chunk)
  PROVE  Chunked'
<1> DEFINE line == Settled(pending)
           before == Settled(received)
           held == Held(pending)
           more == held \o chunk
           x == Settled(more)
           text == pending \o chunk
           lines == SplitLines[Normalise[line \o x]]
           q == ReadLines[Front(lines)]
           r == Reader[before \o x]
<1>1. /\ ~raised /\ TypeOK /\ pending \in Seq(Alphabet) /\ received \in Seq(Alphabet)
      /\ received' = received \o chunk
  BY DEF Feed, DecoderInv, TypeOK
<1>2. /\ line \in Line /\ Reader[before].line = line
      /\ Reader[before].values = data /\ Reader[before].events = events
      /\ EndsWithCR(pending) <=> EndsWithCR(received)
      /\ ~EndsWithCR(received) => ~Reader[before].afterCR
  BY <1>1 DEF Chunked
<1>3. /\ line \in Seq(Alphabet) /\ held \in Seq(Alphabet) /\ before \in Seq(Alphabet)
      /\ pending = line \o held /\ received = before \o held
  <2>1. Held(received) = held
    BY <1>2 DEF Held
  <2>2. QED
    BY <1>1, <2>1, SettledParts
<1>4. Seq(Alphabet) \subseteq Text
  <2>1. Alphabet \subseteq Char /\ Text = Seq(Char)
    BY DEF Char, Text
  <2>2. QED
    BY <2>1, SeqMonotonic
<1>5. /\ more \in Seq(Alphabet) /\ text = line \o more /\ received' = before \o more
      /\ (more = <<>> => held = <<>> /\ chunk = <<>>)
  <2>1. (line \o held) \o chunk = line \o (held \o chunk)
    BY <1>3, ConcatAssociative
  <2>2. (before \o held) \o chunk = before \o (held \o chunk)
    BY <1>3, ConcatAssociative
  <2>3. more \in Seq(Alphabet) /\ Len(more) = Len(held) + Len(chunk)
    BY <1>3, ConcatProperties
  <2>4. more = <<>> => held = <<>> /\ chunk = <<>>
    <3>1. more = <<>> => Len(held) = 0 /\ Len(chunk) = 0
      <4>1. Len(held) \in Nat /\ Len(chunk) \in Nat /\ Len(<<>>) = 0
        BY <1>3
      <4> HIDE DEF held
      <4>2. QED
        BY <2>3, <4>1
    <3>2. QED
      BY <1>3, <3>1, EmptySeq
  <2>5. QED
    BY <1>1, <1>3, <2>1, <2>2, <2>3, <2>4
<1>6. x \in Seq(Alphabet) /\ (more = <<>> => x = <<>>) /\ (~EndsWithCR(more) => x = more)
  <2>1. x \in Seq(Alphabet)
    BY <1>5, SettledParts
  <2>2. ~EndsWithCR(more) => x = more
    BY DEF Settled
  <2>3. more = <<>> => ~EndsWithCR(more)
    BY DEF EndsWithCR
  <2>4. QED
    BY <2>1, <2>2, <2>3
<1>7. /\ Settled(text) = line \o x /\ Settled(received') = before \o x
      /\ EndsWithCR(text) <=> EndsWithCR(received')
      /\ more # <<>> => (EndsWithCR(received') <=> EndsWithCR(more))
      /\ more = <<>> => EndsWithCR(received') = EndsWithCR(received)
  <2>1. CASE more = <<>>
    <3>1. held = <<>> /\ x = <<>> /\ text = pending /\ received' = received
      <4>1. held = <<>> /\ chunk = <<>> /\ x = <<>>
        BY <1>5, <1>6, <2>1
      <4>2. pending \o <<>> = pending /\ received \o <<>> = received
        BY <1>1, ConcatEmptySeq
      <4>3. QED
        BY <1>1, <4>1, <4>2
    <3>2. line \o <<>> = line /\ before \o <<>> = before
      BY <1>3, ConcatEmptySeq
    <3>3. QED
      BY <1>2, <2>1, <3>1, <3>2
  <2>2. CASE more # <<>>
    <3> HIDE DEF line, before, more, text
    <3>1. /\ EndsWithCR(line \o more) <=> EndsWithCR(more)
          /\ Settled(line \o more) = line \o Settled(more)
      BY <1>3, <1>5, <2>2, SettledConcat
    <3>2. /\ EndsWithCR(before \o more) <=> EndsWithCR(more)
          /\ Settled(before \o more) = before \o Settled(more)
      BY <1>3, <1>5, <2>2, SettledConcat
    <3>3. QED
      BY <1>5, <2>2, <3>1, <3>2
  <2>3. QED
    BY <2>1, <2>2
<1>8. Reader[before].afterCR /\ x # <<>> => x[1] = "cr"
  <2> SUFFICES ASSUME Reader[before].afterCR, x # <<>> PROVE x[1] = "cr"
    OBVIOUS
  <2>1. held = <<"cr">> /\ more # <<>>
    BY <1>2, <1>6 DEF Held
  <2>2. more[1] = "cr"
    BY <2>1
  <2> HIDE DEF more
  <2>3. x[1] = more[1]
    <3>1. CASE EndsWithCR(more)
      <4>1. x = Front(more)
        BY <3>1 DEF Settled
      <4>2. /\ x \in Seq(Alphabet) /\ Len(x) = Len(more) - 1
            /\ more = Append(x, Last(more)) /\ Last(more) \in Alphabet
        BY <1>5, <2>1, <4>1, FrontParts
      <4> HIDE DEF x
      <4>3. Append(x, Last(more))[1] = x[1]
        BY <4>2
      <4>4. QED
        BY <4>2, <4>3
    <3>2. CASE ~EndsWithCR(more)
      BY <1>6, <3>2
    <3>3. QED
      BY <3>1, <3>2
  <2>4. QED
    BY <2>2, <2>3
<1>9. /\ r.line = Last(lines)
      /\ ~q.raised => Match(q, r)
      /\ x # <<>> => (r.afterCR <=> EndsWithCR(x))
  <2>1. before \in Text /\ x \in Text
    BY <1>3, <1>4, <1>6
  <2> HIDE DEF before, x, line
  <2>2. QED
    BY <1>1, <1>2, <1>8, <2>1, ReaderFollows
<1>10. Last(lines) \in Line /\ Last(lines) \in Seq(Alphabet) /\ ~EndsWithCR(Last(lines))
  <2>1. Last(lines) \in Line
    BY <1>1, <1>7, FeedParts
  <2> HIDE DEF lines
  <2>2. Line \subseteq Seq(Alphabet)
    BY SeqMonotonic DEF Line
  <2>3. QED
    BY <2>1, <2>2, LineAlone
<1>11. /\ SubSeq(text, 1, Len(text) - Len(Held(text))) = line \o x
       /\ text \in Seq(Alphabet)
  BY <1>1, <1>7, FeedParts
<1>12. /\ pending' = Last(lines) \o Held(text)
       /\ ~raised' => ~q.raised /\ data' = q.data /\ events' = events \o q.events
  <2>1. Feed(chunk) => /\ pending' = Last(lines) \o Held(text)
                       /\ IF Overflows(Last(lines) \o Held(text))
                            THEN raised' = TRUE /\ UNCHANGED <<data, size, events>>
                            ELSE /\ data' = q.data
                                 /\ raised' = q.raised
                                 /\ events' = IF q.raised THEN events ELSE events \o q.events
    BY <1>11 DEF Feed
  <2>2. QED
    BY <2>1
<1>13. /\ Settled(pending') = Last(lines)
       /\ EndsWithCR(pending') <=> EndsWithCR(text)
  <2> DEFINE last == Last(lines)
  <2>1. last \in Seq(Alphabet) /\ ~EndsWithCR(last) /\ pending' = last \o Held(text)
    BY <1>10, <1>12
  <2> HIDE DEF last, text
  <2>2. CASE EndsWithCR(text)
    <3>1. Held(text) = <<"cr">>
      BY <2>2 DEF Held
    <3>2. pending' = Append(last, "cr")
      BY <2>1, <3>1
    <3>3. "cr" \in Alphabet
      BY <1>11, <2>2, FrontParts DEF EndsWithCR
    <3>4. pending' # <<>> /\ Front(pending') = last /\ Last(pending') = "cr"
      BY <2>1, <3>2, <3>3, AppendParts
    <3>5. EndsWithCR(pending')
      BY <3>4 DEF EndsWithCR
    <3>6. QED
      BY <2>2, <3>4, <3>5 DEF Settled, last
  <2>3. CASE ~EndsWithCR(text)
    <3>1. Held(text) = <<>>
      BY <2>3 DEF Held
    <3>2. pending' = last
      BY <2>1, <3>1, ConcatEmptySeq
    <3>3. QED
      BY <2>1, <2>3, <3>2 DEF Settled, last
  <2>4. QED
    BY <2>2, <2>3
<1>14. ~EndsWithCR(received') => ~r.afterCR
  <2>1. CASE more = <<>>
    <3>1. r = Reader[before]
      <4>1. x = <<>> /\ before \o <<>> = before
        BY <1>3, <1>6, <2>1, ConcatEmptySeq
      <4>2. QED
        BY <4>1
    <3>2. QED
      BY <1>2, <1>7, <2>1, <3>1
  <2>2. CASE more # <<>>
    <3>1. ASSUME ~EndsWithCR(received') PROVE ~r.afterCR
      <4>1. ~EndsWithCR(more) /\ x = more
        BY <1>6, <1>7, <2>2, <3>1
      <4>2. QED
        BY <1>9, <2>2, <4>1
    <3>2. QED
      BY <3>1
  <2>3. QED
    BY <2>1, <2>2
<1>15. Settled(received') = before \o x
  BY <1>7
<1>16. ASSUME ~raised' PROVE r.values = data' /\ r.events = events'
  <2>1. Match(q, r)
    BY <1>9, <1>12, <1>16
  <2> HIDE DEF q, r
  <2>2. QED
    BY <1>12, <1>16, <2>1 DEF Match
<1> HIDE DEF line, before, held, more, x, text, lines, q
<1>17. QED
  BY <1>7, <1>9, <1>10, <1>13, <1>14, <1>15, <1>16 DEF Chunked, r

\* Chunked is an invariant.
THEOREM ChunkedInvariance == Spec => []Chunked
<1>1. Init => Chunked
  <2> SUFFICES ASSUME Init PROVE Chunked
    OBVIOUS
  <2>1. pending = <<>> /\ received = <<>> /\ data = <<>> /\ events = <<>>
    BY DEF Init
  <2>2. Settled(<<>>) = <<>> /\ ~EndsWithCR(<<>>)
    BY DEF Settled, EndsWithCR
  <2>3. Reader[<<>>] = Nothing
    BY ReaderEquations
  <2>4. Nothing.line = <<>> /\ Nothing.values = <<>> /\ Nothing.events = <<>> /\ ~Nothing.afterCR
    BY DEF Nothing
  <2>5. <<>> \in Line
    BY DEF Line
  <2>6. QED
    BY <2>1, <2>2, <2>3, <2>4, <2>5 DEF Chunked
<1>2. DecoderInv /\ Chunked /\ [Next]_vars => Chunked'
  <2> SUFFICES ASSUME DecoderInv, Chunked, [Next]_vars PROVE Chunked'
    OBVIOUS
  <2>1. ASSUME NEW chunk \in Chunks, Feed(chunk) PROVE Chunked'
    <3>1. chunk \in Seq(Alphabet)
      BY <2>1 DEF Chunks
    <3>2. QED
      BY <2>1, <3>1, ChunkedFeed
  <2>2. CASE UNCHANGED vars
    BY <2>2 DEF vars, Chunked
  <2>3. QED
    BY <2>1, <2>2 DEF Next
<1>3. QED
  BY <1>1, <1>2, DecoderInvariance, PTL DEF Spec

\* However the stream is cut, what feed returned are the events of what it was
\* given, as a reader that sees one character after the other finds them.
THEOREM ChunksDoNotMatter == Spec => []ChunkingIndependent
<1>1. Chunked => ChunkingIndependent
  BY DEF Chunked, ChunkingIndependent
<1>2. QED
  BY <1>1, ChunkedInvariance, PTL
=============================================================================
