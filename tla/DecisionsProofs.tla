-------------------------- MODULE DecisionsProofs --------------------------
(***************************************************************************)
(* Theorems about EventMatching and PageReading.  Every loop of both       *)
(* modules is a fold (SequenceFolds).                                      *)
(*                                                                         *)
(* The copy of the only version of a recent event joins an event, for      *)
(* every text and every row, of whatever length.  The reference of the     *)
(* event is built from that version alone (OnlyRow, ReferenceOfOne), and   *)
(* its text repeats the title, which the text of the article has once:     *)
(* this adds two shingles at most (ShinglesOfRepeated), so the worst score *)
(* is still 62.175 of the 62 a candidate needs (CopyScores); and the sort  *)
(* leaves the highest score first (SortedBest).                            *)
(*                                                                         *)
(* The parser reads every page as its nesting says, of whatever length and *)
(* depth.  Follows says what it must have kept of the page so far: on one  *)
(* stack the open regions that are skipped, on the other the open blocks,  *)
(* the text of each being its own pieces and then that of the block inside *)
(* it, and the texts of the blocks that have ended.  Every token keeps it  *)
(* (ReaderFollowsPage) as long as no end can be taken for another's, and   *)
(* the beginning of a page without such an end has none                    *)
(* (UnmistakableBefore); when every element has ended, both stacks are     *)
(* empty.  Sentences of a text that repeats nothing share nothing          *)
(* (SentencesRead), so no two of its claims are equal, and a text of       *)
(* different blocks repeats only what a block repeats or two share         *)
(* (KeptApart).                                                            *)
(***************************************************************************)
EXTENDS MCDecisions, SequenceTheorems, FiniteSetTheorems, TLAPS

(***************************************************************************)
(* EventMatching                                                           *)
(***************************************************************************)

\* The steps of the loops, in a context.
WithoutStep(dropped, done, x) == IF x \in dropped THEN done ELSE Append(done, x)

TextStep(c, done, r) == done \o Excerpt(r)

EventStep(c, events, r) ==
  IF r.event \in Range(events) THEN events ELSE Append(events, r.event)

RankStep(c, done, x) ==
  LET n == Cardinality({i \in DOMAIN done : done[i].score >= x.score})
  IN SubSeq(done, 1, n) \o <<x>> \o SubSeq(done, n + 1, Len(done))

FW == INSTANCE SequenceFolds WITH Step <- WithoutStep

FX == INSTANCE SequenceFolds WITH Step <- TextStep

FE == INSTANCE SequenceFolds WITH Step <- EventStep

FR == INSTANCE SequenceFolds WITH Step <- RankStep

\* The loops of EventMatching are folds of these steps.
LEMMA WithoutIsFold ==
  ASSUME NEW s, NEW dropped
  PROVE  Without(s, dropped) = FW!Fold(dropped, <<>>, s)
BY DEF Without, FW!Fold, FoldLeft, FW!FoldLeft, MapThenFoldSet, FW!MapThenFoldSet, Max, FW!Max, WithoutStep

\* The texts of the newest versions, put together.
LEMMA ReferenceIsFold ==
  ASSUME NEW rows
  PROVE  Reference(rows) =
           [event |-> rows[1].event,
            profile |-> Profile(rows[1].eventTitle,
                                FX!Fold(0, <<>>, SubSeq(rows, 1, Min({Len(rows), VersionsPerEvent}))),
                                Max({r.observed : r \in Range(rows)}))]
BY DEF Reference, FX!Fold, FoldLeft, FX!FoldLeft, MapThenFoldSet, FX!MapThenFoldSet, Max, FX!Max, TextStep

\* The events of the rows, each once.
LEMMA ReferencesIsFold ==
  ASSUME NEW rows
  PROVE  LET events == FE!Fold(0, <<>>, rows)
         IN  References(rows) = [i \in DOMAIN events |-> Reference(RowsOf(rows, events[i]))]
BY DEF References, FE!Fold, FoldLeft, FE!FoldLeft, MapThenFoldSet, FE!MapThenFoldSet, Max, FE!Max, EventStep

Scored(incoming, references) ==
  [i \in DOMAIN references |->
     [event |-> references[i].event, score |-> Score(incoming, references[i].profile)]]

\* The sort inserts one candidate after another.
LEMMA RankedIsFold ==
  ASSUME NEW incoming, NEW references
  PROVE  LET ranked == FR!Fold(0, <<>>, Scored(incoming, references))
         IN  Ranked(incoming, references) = SubSeq(ranked, 1, Min({Len(ranked), MaxCandidates}))
BY DEF Ranked, Scored, FR!Fold, FoldLeft, FR!FoldLeft, MapThenFoldSet, FR!MapThenFoldSet, Max, FR!Max, RankStep

-----------------------------------------------------------------------------
\* The members of a sequence that grows.
LEMMA RangeOfEmpty == Range(<<>>) = {}
BY DEF Range

\* One more member.
LEMMA RangeOfAppend ==
  ASSUME NEW S, NEW s \in Seq(S), NEW x \in S
  PROVE  Append(s, x) \in Seq(S) /\ Range(Append(s, x)) = Range(s) \cup {x}
<1> DEFINE o == <<x>>
<1>1. o \in Seq(S) /\ Len(o) = 1 /\ o[1] = x
  OBVIOUS
<1>2. Append(s, x) = s \o o
  BY AppendIsConcat
<1> HIDE DEF o
<1>3. Range(o) = {o[i] : i \in 1..Len(o)}
  BY <1>1, RangeEquality
<1>4. Range(o) = {x}
  BY <1>1, <1>3
<1> QED BY <1>1, <1>2, <1>4, RangeConcatenation, AppendProperties

\* Without leaves out the dropped elements one at a time.
LEMMA WithoutAppend ==
  ASSUME NEW S, NEW D, NEW s \in Seq(S)
  PROVE  /\ Without(s, D) \in Seq(S)
         /\ Without(<<>>, D) = <<>>
         /\ \A x \in S : Without(Append(s, x), D) =
              IF x \in D THEN Without(s, D) ELSE Append(Without(s, D), x)
<1> DEFINE A == Seq(S)
           a == <<>>
<1>1. a \in A
  BY EmptySeq
<1>2. FW!Closed(D, A, S)
  BY AppendProperties DEF FW!Closed, WithoutStep
<1> HIDE DEF A, a
<1>3. FW!Fold(D, a, s) \in A /\ FW!Fold(D, a, <<>>) = a
  BY <1>1, <1>2, FW!FoldType, FW!FoldEmpty
<1>4. \A x \in S : FW!Fold(D, a, Append(s, x)) = WithoutStep(D, FW!Fold(D, a, s), x)
  BY <1>1, <1>2, FW!FoldAppend
<1> QED BY <1>3, <1>4, WithoutIsFold DEF A, a, WithoutStep

\* What is left is what was not to be dropped.
LEMMA WithoutFacts ==
  ASSUME NEW S, NEW D, NEW s \in Seq(S)
  PROVE  Without(s, D) \in Seq(S) /\ Range(Without(s, D)) = Range(s) \ D
<1> DEFINE T == {t \in Seq(S) : Range(Without(t, D)) = Range(t) \ D}
<1>1. <<>> \in T
  BY EmptySeq, WithoutAppend, RangeOfEmpty, Zenon
<1>2. ASSUME NEW t \in Seq(S), NEW x \in S, t \in T PROVE Append(t, x) \in T
  <2> DEFINE v == Without(t, D)
             w == Without(Append(t, x), D)
  <2>1. v \in Seq(S) /\ w = IF x \in D THEN v ELSE Append(v, x)
    BY WithoutAppend
  <2>2. Append(t, x) \in Seq(S) /\ Range(Append(t, x)) = Range(t) \cup {x}
    BY RangeOfAppend
  <2>3. Range(v) = Range(t) \ D
    BY <1>2
  <2> HIDE DEF v, w
  <2>4. x \notin D => Range(w) = Range(v) \cup {x}
    BY <2>1, RangeOfAppend
  <2>5. Range(w) = Range(Append(t, x)) \ D
    BY <2>1, <2>2, <2>3, <2>4
  <2> QED BY <2>2, <2>5 DEF w
<1>3. s \in T
  <2> HIDE DEF T
  <2> QED BY <1>1, <1>2, FW!SequenceInduction
<1> QED BY <1>3, WithoutAppend

\* Without treats the parts of a sequence alike.
LEMMA WithoutConcat ==
  ASSUME NEW S, NEW D, NEW q \in Seq(S), NEW t \in Seq(S)
  PROVE  Without(q \o t, D) = Without(q, D) \o Without(t, D)
<1> DEFINE T == {s \in Seq(S) : Without(q \o s, D) = Without(q, D) \o Without(s, D)}
<1>1. <<>> \in T
  <2> DEFINE k == Without(q, D)
  <2>1. k \in Seq(S) /\ Without(<<>>, D) = <<>> /\ <<>> \in Seq(S) /\ q \o <<>> = q
    BY EmptySeq, WithoutAppend, ConcatEmptySeq
  <2>2. k \o <<>> = k
    <3> HIDE DEF k
    <3> QED BY <2>1, ConcatEmptySeq
  <2> QED BY <2>1, <2>2
<1>2. ASSUME NEW s \in Seq(S), NEW x \in S, s \in T PROVE Append(s, x) \in T
  <2> DEFINE u == q \o s
             k == Without(q, D)
             l == Without(s, D)
  <2>1. u \in Seq(S) /\ q \o Append(s, x) = Append(u, x) /\ Append(s, x) \in Seq(S)
    BY ConcatProperties, AppendProperties, FW!AppendToConcat
  <2>2. Without(u, D) = k \o l
    BY <1>2
  <2>3. k \in Seq(S) /\ l \in Seq(S)
        /\ Without(Append(s, x), D) = IF x \in D THEN l ELSE Append(l, x)
    BY WithoutAppend
  <2> HIDE DEF u
  <2>4. Without(Append(u, x), D) = IF x \in D THEN Without(u, D) ELSE Append(Without(u, D), x)
    BY <2>1, WithoutAppend
  <2> HIDE DEF k, l
  <2>5. k \o Append(l, x) = Append(k \o l, x)
    BY <2>3, FW!AppendToConcat
  <2>6. Without(Append(u, x), D) = k \o Without(Append(s, x), D)
    BY <2>2, <2>3, <2>4, <2>5, Zenon
  <2> QED BY <2>1, <2>6, Zenon DEF k
<1>3. t \in T
  <2> HIDE DEF T
  <2> QED BY <1>1, <1>2, FW!SequenceInduction
<1> QED BY <1>3

-----------------------------------------------------------------------------
\* At most one row is of the event.
Once(s, e) == \A i, j \in 1..Len(s) : s[i].event = e /\ s[j].event = e => i = j

\* Another row of the event or of another one.
LEMMA OnceOfAppend ==
  ASSUME NEW S, NEW s \in Seq(S), NEW x \in S, NEW e
  PROVE  Once(Append(s, x), e) <=>
           Once(s, e) /\ (x.event = e => \A y \in Range(s) : y.event # e)
<1> DEFINE t == Append(s, x)
           n == Len(s)
<1>1. /\ n \in Nat /\ Len(t) = n + 1 /\ t[n + 1] = x
      /\ \A i \in 1..n : t[i] = s[i]
  BY LenProperties, AppendProperties
<1>2. Range(s) = {s[i] : i \in 1..n}
  BY RangeEquality
<1> HIDE DEF t, n
<1>3. ASSUME Once(t, e) PROVE Once(s, e) /\ (x.event = e => \A y \in Range(s) : y.event # e)
  <2>1. Once(s, e)
    BY <1>1, <1>3 DEF Once, n
  <2>2. ASSUME x.event = e, NEW i \in 1..n, s[i].event = e PROVE FALSE
    <3>1. i \in 1..(n + 1) /\ n + 1 \in 1..(n + 1) /\ i # n + 1 /\ t[i].event = e /\ t[n + 1].event = e
      BY <1>1, <2>2
    <3> QED BY <1>1, <1>3, <3>1 DEF Once
  <2> QED BY <1>2, <2>1, <2>2
<1>4. ASSUME Once(s, e), x.event = e => \A y \in Range(s) : y.event # e PROVE Once(t, e)
  <2>1. \A i \in 1..n : x.event = e => s[i].event # e
    BY <1>2, <1>4
  <2>2. ASSUME NEW i \in 1..(n + 1), NEW j \in 1..(n + 1), t[i].event = e, t[j].event = e PROVE i = j
    <3>1. CASE i \in 1..n /\ j \in 1..n
      BY <1>1, <1>4, <2>2, <3>1 DEF Once, n
    <3>2. CASE i = n + 1 \/ j = n + 1
      <4>1. i \in 1..n => t[i] = s[i]
        BY <1>1
      <4>2. j \in 1..n => t[j] = s[j]
        BY <1>1
      <4>3. (i = n + 1 \/ i \in 1..n) /\ (j = n + 1 \/ j \in 1..n)
        BY <1>1
      <4> QED BY <1>1, <2>1, <2>2, <3>2, <4>1, <4>2, <4>3
    <3> QED BY <1>1, <3>1, <3>2
  <2> QED BY <1>1, <2>2 DEF Once
<1> QED BY <1>3, <1>4 DEF t

\* The limit on the rows keeps at most one row of the event.
LEMMA OncePrefix ==
  ASSUME NEW S, NEW s \in Seq(S), NEW e, Once(s, e), NEW n \in 0..Len(s)
  PROVE  SubSeq(s, 1, n) \in Seq(S) /\ Once(SubSeq(s, 1, n), e) /\ Len(SubSeq(s, 1, n)) = n
<1>1. Len(s) \in Nat /\ \A i \in 1..n : s[i] \in S
  BY LenProperties, ElementOfSeq
<1>2. /\ SubSeq(s, 1, n) \in Seq(S) /\ Len(SubSeq(s, 1, n)) = n
      /\ \A i \in 1..n : SubSeq(s, 1, n)[i] = s[i]
  BY <1>1, SubSeqProperties
<1> QED BY <1>1, <1>2 DEF Once

\* Leaving out rows keeps at most one row of the event.
LEMMA OnceWithout ==
  ASSUME NEW S, NEW s \in Seq(S), NEW e, Once(s, e), NEW D
  PROVE  Once(Without(s, D), e)
<1> DEFINE T == {t \in Seq(S) : Once(t, e) => Once(Without(t, D), e)}
<1>1. <<>> \in T
  <2>1. Once(<<>>, e)
    BY DEF Once
  <2>2. <<>> \in Seq(S) /\ Without(<<>>, D) = <<>>
    BY EmptySeq, WithoutAppend, Zenon
  <2> QED BY <2>1, <2>2
<1>2. ASSUME NEW t \in Seq(S), NEW x \in S, t \in T PROVE Append(t, x) \in T
  <2> DEFINE v == Without(t, D)
  <2>1. /\ v \in Seq(S) /\ Append(t, x) \in Seq(S)
        /\ Without(Append(t, x), D) = IF x \in D THEN v ELSE Append(v, x)
    BY WithoutAppend, AppendProperties
  <2>2. Range(v) \subseteq Range(t)
    BY WithoutFacts
  <2>3. Once(t, e) => Once(v, e)
    BY <1>2
  <2> HIDE DEF v
  <2>4. ASSUME Once(Append(t, x), e) PROVE Once(v, e) /\ Once(Append(v, x), e)
    <3>1. Once(t, e) /\ (x.event = e => \A y \in Range(t) : y.event # e)
      BY <2>4, OnceOfAppend
    <3>2. x.event = e => \A y \in Range(v) : y.event # e
      BY <2>2, <3>1
    <3>3. Once(v, e)
      BY <2>3, <3>1
    <3> QED BY <2>1, <3>2, <3>3, OnceOfAppend
  <2> QED BY <2>1, <2>4, Zenon
<1>3. s \in T
  <2> HIDE DEF T
  <2> QED BY <1>1, <1>2, FW!SequenceInduction
<1> QED BY <1>3

\* What is left of the only row of an event.
LEMMA OnlyRow ==
  ASSUME NEW S, NEW s \in Seq(S), NEW r \in Range(s), Once(s, r.event)
  PROVE  RowsOf(s, r.event) = <<r>>
<1> DEFINE R == Range(s)
           e == r.event
           D == {x \in R : x.event # e}
           T == {t \in Seq(R) : Once(t, e) =>
                   Without(t, D) = IF r \in Range(t) THEN <<r>> ELSE <<>>}
<1>0. s \in Seq(R)
  BY SeqOfRange
<1>1. <<>> \in T
  <2>1. <<>> \in Seq(R) /\ Without(<<>>, D) = <<>>
    BY EmptySeq, WithoutAppend, Zenon
  <2> QED BY <2>1, RangeOfEmpty
<1>2. ASSUME NEW t \in Seq(R), NEW x \in R, t \in T PROVE Append(t, x) \in T
  <2> DEFINE v == Without(t, D)
  <2>1. /\ Append(t, x) \in Seq(R) /\ Range(Append(t, x)) = Range(t) \cup {x}
        /\ Without(Append(t, x), D) = IF x \in D THEN v ELSE Append(v, x)
    BY WithoutAppend, RangeOfAppend
  <2>2. Once(t, e) => v = IF r \in Range(t) THEN <<r>> ELSE <<>>
    BY <1>2
  <2>3. x \in D <=> x.event # e
    OBVIOUS
  <2> HIDE DEF v, D
  <2>4. ASSUME Once(Append(t, x), e)
        PROVE  Without(Append(t, x), D) = IF r \in Range(Append(t, x)) THEN <<r>> ELSE <<>>
    <3>1. Once(t, e) /\ (x.event = e => \A y \in Range(t) : y.event # e)
      BY <2>4, OnceOfAppend
    <3>2. CASE x.event # e
      BY <2>1, <2>2, <2>3, <3>1, <3>2
    <3>3. CASE x.event = e
      <4>1. r \notin Range(t)
        BY <3>1, <3>3
      <4>2. Without(Append(t, x), D) = Append(<<>>, x)
        BY <2>1, <2>2, <2>3, <3>1, <3>3, <4>1
      <4>3. Without(Append(t, x), D) = <<x>>
        BY <4>2
      <4>4. x = r
        <5>1. PICK i \in 1..Len(s), j \in 1..Len(s) : s[i] = x /\ s[j] = r
          BY RangeEquality
        <5> QED BY <3>3, <5>1 DEF Once
      <4> QED BY <2>1, <4>3, <4>4, Zenon
    <3> QED BY <3>2, <3>3
  <2> QED BY <2>1, <2>4 DEF D
<1>3. s \in T
  <2> HIDE DEF T
  <2> QED BY <1>0, <1>1, <1>2, FW!SequenceInduction
<1> QED BY <1>3 DEF RowsOf

-----------------------------------------------------------------------------
\* The words of two texts in a row.
LEMMA TokensFacts ==
  ASSUME NEW W, NEW s \in Seq(W), NEW t \in Seq(W)
  PROVE  /\ Tokens(s) \in Seq(W)
         /\ Range(Tokens(s)) = Range(s) \ Stopwords
         /\ Tokens(s \o t) = Tokens(s) \o Tokens(t)
<1>1. Without(s, Stopwords) \in Seq(W) /\ Range(Without(s, Stopwords)) = Range(s) \ Stopwords
  BY WithoutFacts
<1>2. Without(s \o t, Stopwords) = Without(s, Stopwords) \o Without(t, Stopwords)
  BY WithoutConcat
<1> QED BY <1>1, <1>2 DEF Tokens

\* A text has finitely many words.
LEMMA FiniteRange ==
  ASSUME NEW S, NEW s \in Seq(S)
  PROVE  IsFiniteSet(Range(s))
<1>1. Len(s) \in Nat /\ s \in [1..Len(s) -> S]
  BY LenProperties
<1>2. Range(s) = {s[i] : i \in 1..Len(s)}
  BY RangeEquality
<1>3. s \in Surjection(1..Len(s), Range(s))
  BY <1>1, <1>2 DEF Surjection
<1>4. IsFiniteSet(1..Len(s))
  BY <1>1, FS_Interval
<1> QED BY <1>3, <1>4, FS_Surjection

\* A text has finitely many shingles.
LEMMA FiniteShingles ==
  ASSUME NEW W, NEW t \in Seq(W), NEW k \in Nat
  PROVE  IsFiniteSet(Shingles(t, k))
<1> DEFINE n == Len(t) - k + 1
           f == [i \in 1..n |-> SubSeq(t, i, i + k - 1)]
<1>1. n \in Int
  BY LenProperties
<1>2. f \in Surjection(1..n, Shingles(t, k))
  BY Zenon DEF Shingles, Surjection
<1>3. IsFiniteSet(1..n)
  <2> HIDE DEF n
  <2> QED BY <1>1, FS_Interval
<1> QED BY <1>2, <1>3, FS_Surjection

\* The phrases of a text are finitely many.
LEMMA FinitePhrases ==
  ASSUME NEW W, NEW t \in Seq(W)
  PROVE  IsFiniteSet(Phrases(t))
<1> DEFINE n == Len(t)
           at == {p \in (DOMAIN t) \X (DOMAIN t) : IsPhrase(t, p[1], p[2])}
           f == [p \in at |-> SubSeq(t, p[1], p[2])]
           all == {SubSeq(t, p[1], p[2]) : p \in at}
<1>1. n \in Nat /\ DOMAIN t = 1..n
  BY LenProperties
<1>2. IsFiniteSet(at)
  <2>1. IsFiniteSet(1..n)
    <3> HIDE DEF n
    <3> QED BY <1>1, FS_Interval
  <2>2. IsFiniteSet((DOMAIN t) \X (DOMAIN t))
    <3> HIDE DEF n
    <3> QED BY <1>1, <2>1, FS_Product
  <2> QED BY <2>2, FS_Subset
<1>3. f \in Surjection(at, all)
  <2> HIDE DEF at
  <2> QED BY Zenon DEF Surjection
<1>4. IsFiniteSet(all)
  <2> HIDE DEF at, f, all
  <2> QED BY <1>2, <1>3, FS_Surjection
<1>5. Phrases(t) = all \ {<<w>> : w \in Unnamed}
  BY DEF Phrases
<1> HIDE DEF all
<1> QED BY <1>4, <1>5, FS_Subset

\* What a member of Phrases is.
Occurs(t, s) == \E i, j \in 1..Len(t) : IsPhrase(t, i, j) /\ s = SubSeq(t, i, j)

LEMMA PhraseOf ==
  ASSUME NEW W, NEW t \in Seq(W), NEW s
  PROVE  s \in Phrases(t) <=> Occurs(t, s) /\ s \notin {<<w>> : w \in Unnamed}
<1> DEFINE at == {p \in (DOMAIN t) \X (DOMAIN t) : IsPhrase(t, p[1], p[2])}
           all == {SubSeq(t, p[1], p[2]) : p \in at}
<1>1. DOMAIN t = 1..Len(t)
  BY LenProperties
<1>2. s \in all <=> \E p \in at : s = SubSeq(t, p[1], p[2])
  <2> HIDE DEF at
  <2> QED BY Zenon
<1>3. ASSUME NEW p \in at
      PROVE  p[1] \in 1..Len(t) /\ p[2] \in 1..Len(t) /\ IsPhrase(t, p[1], p[2])
  BY <1>1
<1>4. ASSUME NEW i \in 1..Len(t), NEW j \in 1..Len(t), IsPhrase(t, i, j)
      PROVE  <<i, j>> \in at /\ <<i, j>>[1] = i /\ <<i, j>>[2] = j
  BY <1>1, <1>4
<1>5. Phrases(t) = all \ {<<w>> : w \in Unnamed}
  BY Zenon DEF Phrases
<1> HIDE DEF at, all
<1>6. (\E p \in at : s = SubSeq(t, p[1], p[2])) <=> Occurs(t, s)
  <2>1. ASSUME NEW p \in at, s = SubSeq(t, p[1], p[2]) PROVE Occurs(t, s)
    BY <1>3, <2>1, Zenon DEF Occurs
  <2>2. ASSUME NEW i \in 1..Len(t), NEW j \in 1..Len(t), IsPhrase(t, i, j), s = SubSeq(t, i, j)
        PROVE  \E p \in at : s = SubSeq(t, p[1], p[2])
    <3>1. PICK p \in at : p[1] = i /\ p[2] = j
      BY <1>4, <2>2, Zenon
    <3> QED BY <2>2, <3>1
  <2> QED BY <2>1, <2>2, Zenon DEF Occurs
<1> QED BY <1>2, <1>5, <1>6, Zenon

\* Positions lo to hi of s are a window: shifted by d they stand in u, and no capitalized
\* word is before them, in either text, nor behind them in u.
IsWindow(s, u, lo, hi, d) ==
  /\ lo \in Nat \ {0} /\ hi \in Nat /\ d \in Int /\ hi <= Len(s)
  /\ lo + d >= 1 /\ hi + d <= Len(u)
  /\ \A k \in lo..hi : u[k + d] = s[k]
  /\ Starts(s, lo) /\ Starts(u, lo + d) /\ Ends(u, hi + d)

\* A run that begins at b, up to a position of the window, begins in the window.
LEMMA RunMoves ==
  ASSUME NEW s, NEW u, NEW lo, NEW hi, NEW d, IsWindow(s, u, lo, hi, d),
         NEW i \in lo..hi, NEW j \in i..hi, NEW b \in 1..i,
         \A k \in b..j : s[k] \in Capitalized, Starts(s, b)
  PROVE  /\ b >= lo
         /\ \A k \in (b + d)..(j + d) : u[k] \in Capitalized
         /\ Starts(u, b + d)
<1>1. lo \in Nat \ {0} /\ hi \in Nat /\ d \in Int /\ Starts(s, lo) /\ Starts(u, lo + d)
  BY DEF IsWindow
<1>2. b >= lo
  <2> SUFFICES ASSUME b < lo PROVE FALSE
    BY <1>1
  <2>1. lo - 1 \in b..j /\ lo # 1
    BY <1>1
  <2>2. s[lo - 1] \notin Capitalized
    BY <1>1, <2>1, Zenon DEF Starts
  <2> QED BY <2>1, <2>2
<1>3. ASSUME NEW k \in (b + d)..(j + d) PROVE u[k] \in Capitalized
  <2>1. k - d \in b..j /\ k - d \in lo..hi /\ (k - d) + d = k
    BY <1>1, <1>2
  <2>2. u[(k - d) + d] = s[k - d]
    BY <2>1, Zenon DEF IsWindow
  <2>3. s[k - d] \in Capitalized
    BY <2>1
  <2> QED BY <2>1, <2>2, <2>3, Zenon
<1>4. Starts(u, b + d)
  <2>1. CASE b = lo
    BY <1>1, <2>1, Zenon
  <2>2. CASE b # lo
    <3>1. b - 1 \in lo..hi /\ (b - 1) + d = (b + d) - 1 /\ b # 1
      BY <1>1, <1>2, <2>2
    <3>2. u[(b - 1) + d] = s[b - 1]
      BY <3>1, Zenon DEF IsWindow
    <3>3. s[b - 1] \notin Capitalized
      BY <3>1, Zenon DEF Starts
    <3> QED BY <3>1, <3>2, <3>3, Zenon DEF Starts
  <2> QED BY <2>1, <2>2
<1> QED BY <1>2, <1>3, <1>4

\* The phrases inside a window are phrases of the other text.
LEMMA PhraseMoves ==
  ASSUME NEW s, NEW u, NEW lo, NEW hi, NEW d, IsWindow(s, u, lo, hi, d),
         NEW i \in lo..hi, NEW j \in lo..hi, IsPhrase(s, i, j)
  PROVE  Occurs(u, SubSeq(s, i, j))
<1>1. /\ lo \in Nat \ {0} /\ hi \in Nat /\ d \in Int /\ lo + d >= 1 /\ hi + d <= Len(u)
      /\ Ends(u, hi + d)
  BY DEF IsWindow
<1>2. hi <= Len(s)
  BY Zenon DEF IsWindow
<1>3. i \in Nat \ {0} /\ j \in Nat \ {0} /\ i <= j /\ j < i + 5 /\ j \in i..hi /\ j <= hi
  BY <1>1 DEF IsPhrase, PhraseWords
<1>4. PICK b \in 1..i :
        /\ \A k \in b..j : s[k] \in Capitalized
        /\ Starts(s, b)
        /\ (i - b) % 5 = 0
  BY Zenon DEF IsPhrase, PhraseWords
<1>5. /\ b >= lo
      /\ \A k \in (b + d)..(j + d) : u[k] \in Capitalized
      /\ Starts(u, b + d)
  BY <1>3, <1>4, RunMoves, Zenon
<1>6. j = i + 5 - 1 \/ Ends(s, j)
  BY Zenon DEF IsPhrase, PhraseWords
<1>7. j + d = (i + d) + 5 - 1 \/ Ends(u, j + d)
  <2>1. CASE j = hi
    BY <1>1, <2>1, Zenon
  <2>2. CASE j # hi /\ j = i + 5 - 1
    BY <1>1, <1>3, <2>2
  <2>3. CASE j # hi /\ Ends(s, j)
    <3>1. j + 1 \in lo..hi /\ (j + 1) + d = (j + d) + 1
      BY <1>1, <2>3
    <3>2. u[(j + 1) + d] = s[j + 1]
      BY <3>1, Zenon DEF IsWindow
    <3>3. j # Len(s)
      <4> SUFFICES ASSUME j = Len(s) PROVE FALSE
        OBVIOUS
      <4>1. hi <= j
        BY <1>2, Zenon
      <4> QED BY <1>1, <1>3, <2>3, <4>1
    <3>4. s[j + 1] \notin Capitalized
      BY <2>3, <3>3, Zenon DEF Ends
    <3> QED BY <3>1, <3>2, <3>4, Zenon DEF Ends
  <2> QED BY <1>6, <2>1, <2>2, <2>3, Zenon
<1>8. /\ b + d \in 1..(i + d) /\ (i + d) - (b + d) = i - b
      /\ i + d <= j + d /\ j + d < (i + d) + 5
  BY <1>1, <1>3, <1>5
<1>9. IsPhrase(u, i + d, j + d)
  <2>1. ((i + d) - (b + d)) % 5 = 0
    BY <1>4, <1>8, Zenon
  <2> QED BY <1>5, <1>7, <1>8, <2>1, Zenon DEF IsPhrase, PhraseWords
<1>10. SubSeq(u, i + d, j + d) = SubSeq(s, i, j)
  <2>1. SubSeq(s, i, j) = [k \in 1..(j - i + 1) |-> s[i + k - 1]]
    BY <1>3
  <2>2. SubSeq(u, i + d, j + d) = [k \in 1..(j - i + 1) |-> u[i + d + k - 1]]
    BY <1>1, <1>3
  <2>3. ASSUME NEW k \in 1..(j - i + 1) PROVE u[i + d + k - 1] = s[i + k - 1]
    <3>1. i + k - 1 \in lo..hi /\ (i + k - 1) + d = i + d + k - 1
      BY <1>1, <1>3
    <3>2. u[(i + k - 1) + d] = s[i + k - 1]
      BY <3>1, Zenon DEF IsWindow
    <3> QED BY <3>1, <3>2, Zenon
  <2> QED BY <2>1, <2>2, <2>3, Zenon
<1>11. i + d \in 1..Len(u) /\ j + d \in 1..Len(u)
  BY <1>1, <1>3
<1> QED BY <1>9, <1>10, <1>11, Zenon DEF Occurs

\* Two windows on both sides of a word without a capital hold every phrase of a text.
LEMMA PhrasesKept ==
  ASSUME NEW W, NEW s \in Seq(W), NEW u \in Seq(W), NEW m \in 1..Len(s), s[m] \notin Capitalized,
         NEW d, IsWindow(s, u, 1, m - 1, 0), IsWindow(s, u, m + 1, Len(s), d)
  PROVE  Phrases(s) \subseteq Phrases(u)
<1> SUFFICES ASSUME NEW p \in Phrases(s) PROVE p \in Phrases(u)
  OBVIOUS
<1>1. Occurs(s, p) /\ p \notin {<<w>> : w \in Unnamed}
  BY PhraseOf, Zenon
<1>2. PICK i \in 1..Len(s), j \in 1..Len(s) : IsPhrase(s, i, j) /\ p = SubSeq(s, i, j)
  BY <1>1, Zenon DEF Occurs
<1>3. i <= j
  BY <1>2, Zenon DEF IsPhrase
<1>4. PICK b \in 1..i : \A k \in b..j : s[k] \in Capitalized
  BY <1>2, Zenon DEF IsPhrase
<1>5. ~(m \in b..j)
  BY <1>4, Zenon
<1>6. Len(s) \in Nat
  BY LenProperties
<1>7. (i \in 1..(m - 1) /\ j \in 1..(m - 1)) \/ (i \in (m + 1)..Len(s) /\ j \in (m + 1)..Len(s))
  BY <1>3, <1>5, <1>6
<1>8. Occurs(u, p)
  <2>1. CASE i \in 1..(m - 1) /\ j \in 1..(m - 1)
    BY <1>2, <2>1, PhraseMoves, Zenon
  <2>2. CASE i \in (m + 1)..Len(s) /\ j \in (m + 1)..Len(s)
    BY <1>2, <2>2, PhraseMoves, Zenon
  <2> QED BY <1>7, <2>1, <2>2, Zenon
<1> QED BY <1>1, <1>8, PhraseOf, Zenon

\* A title and a text, and the title once more in front.  The phrases of the one are
\* phrases of the other, if a word of the title has no capital, and the two have the
\* same ones if this is the last word.
LEMMA PhrasesOfRepeated ==
  ASSUME NEW W, NEW title \in Seq(W), NEW text \in Seq(W),
         NEW m \in 1..Len(title), title[m] \notin Capitalized
  PROVE  /\ Phrases(title \o text) \subseteq Phrases(title \o (title \o text))
         /\ m = Len(title) => Phrases(title \o (title \o text)) \subseteq Phrases(title \o text)
<1> DEFINE s == title \o text
           u == title \o s
           l == Len(title)
           n == Len(text)
<1>1. l \in Nat /\ n \in Nat /\ m \in 1..l
  BY LenProperties
<1>2. /\ s \in Seq(W) /\ Len(s) = l + n
      /\ \A k \in 1..(l + n) : s[k] = IF k <= l THEN title[k] ELSE text[k - l]
  BY ConcatProperties
<1> HIDE DEF s
<1>3. /\ u \in Seq(W) /\ Len(u) = l + (l + n)
      /\ \A k \in 1..(l + (l + n)) : u[k] = IF k <= l THEN title[k] ELSE s[k - l]
  <2>1. Len(s) = l + n
    BY <1>2
  <2>2. s \in Seq(W)
    BY <1>2
  <2> QED BY <2>1, <2>2, ConcatProperties, ZenonT(30)
<1> HIDE DEF u, l, n
<1>4. \A k \in 1..l : s[k] = title[k] /\ u[k] = title[k]
  BY <1>1, <1>2, <1>3
<1>5. ASSUME NEW k \in 1..(l + n) PROVE u[k + l] = s[k]
  <2>1. k + l \in 1..(l + (l + n)) /\ ~(k + l <= l) /\ (k + l) - l = k
    BY <1>1
  <2> QED BY <1>3, <2>1, Zenon
<1>6. s[m] \notin Capitalized /\ u[m] \notin Capitalized /\ u[m + l] \notin Capitalized
  <2>1. m \in 1..(l + n)
    BY <1>1
  <2> QED BY <1>1, <1>4, <1>5, <2>1, Zenon
<1>7. /\ m \in 1..Len(s) /\ m \in 1..Len(u) /\ m - 1 \in Nat /\ m + 1 \in Nat \ {0}
      /\ m - 1 <= Len(s) /\ m - 1 <= Len(u) /\ Len(s) \in Nat /\ Len(u) \in Nat
      /\ 1 + 0 = 1 /\ (m - 1) + 0 = m - 1 /\ (m - 1) + 1 = m /\ (m + 1) - 1 = m
      /\ \A k \in 1..(m - 1) : k \in 1..l /\ k + 0 = k
  BY <1>1, <1>2, <1>3
<1>8. IsWindow(s, u, 1, m - 1, 0) /\ IsWindow(u, s, 1, m - 1, 0)
  <2>1. \A k \in 1..(m - 1) : u[k + 0] = s[k] /\ s[k + 0] = u[k]
    BY <1>4, <1>7, Zenon
  <2>2. Starts(s, 1) /\ Starts(u, 1) /\ Ends(s, m - 1) /\ Ends(u, m - 1)
    BY <1>6, <1>7, Zenon DEF Starts, Ends
  <2>3. 1 \in Nat \ {0} /\ 0 \in Int /\ 1 >= 1
    OBVIOUS
  <2> QED BY <1>7, <2>1, <2>2, <2>3 DEF IsWindow
<1>9. IsWindow(s, u, m + 1, Len(s), l)
  <2>1. /\ l \in Int /\ Len(s) <= Len(s) /\ (m + 1) + l >= 1 /\ Len(s) + l <= Len(u)
        /\ Len(s) + l = Len(u) /\ ((m + 1) + l) - 1 = m + l
    BY <1>1, <1>2, <1>3
  <2>2. \A k \in (m + 1)..Len(s) : u[k + l] = s[k]
    <3>1. \A k \in (m + 1)..Len(s) : k \in 1..(l + n)
      BY <1>1, <1>2
    <3> QED BY <1>5, <3>1, Zenon
  <2>3. Starts(s, m + 1)
    BY <1>6, <1>7, Zenon DEF Starts
  <2>4. Starts(u, (m + 1) + l)
    <3>1. u[((m + 1) + l) - 1] \notin Capitalized
      BY <1>6, <2>1, Zenon
    <3> QED BY <3>1, Zenon DEF Starts
  <2>5. Ends(u, Len(s) + l)
    BY <2>1, Zenon DEF Ends
  <2> QED BY <1>7, <2>1, <2>2, <2>3, <2>4, <2>5, Zenon DEF IsWindow
<1>10. Phrases(s) \subseteq Phrases(u)
  BY <1>2, <1>3, <1>6, <1>7, <1>8, <1>9, PhrasesKept, Zenon
<1>11. ASSUME m = l PROVE Phrases(u) \subseteq Phrases(s)
  <2>1. IsWindow(u, s, m + 1, Len(u), -l)
    <3>1. /\ -l \in Int /\ Len(u) <= Len(u) /\ (m + 1) + (-l) >= 1 /\ Len(u) + (-l) <= Len(s)
          /\ Len(u) + (-l) = Len(s) /\ (m + 1) + (-l) = 1
      BY <1>1, <1>2, <1>3, <1>11
    <3>2. ASSUME NEW k \in (m + 1)..Len(u) PROVE s[k + (-l)] = u[k]
      <4>1. k + (-l) \in 1..(l + n) /\ (k + (-l)) + l = k
        BY <1>1, <1>3, <1>11
      <4>2. u[(k + (-l)) + l] = s[k + (-l)]
        BY <1>5, <4>1, Zenon
      <4> QED BY <4>1, <4>2, Zenon
    <3>3. Starts(u, m + 1) /\ Starts(s, (m + 1) + (-l)) /\ Ends(s, Len(u) + (-l))
      BY <1>6, <1>7, <3>1, Zenon DEF Starts, Ends
    <3> QED BY <1>7, <3>1, <3>2, <3>3, Zenon DEF IsWindow
  <2> QED BY <1>2, <1>3, <1>6, <1>7, <1>8, <2>1, PhrasesKept, Zenon
<1> QED BY <1>10, <1>11 DEF s, u, l

IsProfile(p) ==
  /\ IsFiniteSet(p.titleTokens) /\ IsFiniteSet(p.contentTokens)
  /\ IsFiniteSet(p.titleShingles) /\ IsFiniteSet(p.contentShingles)
  /\ IsFiniteSet(p.entities) /\ IsFiniteSet(p.identifiers) /\ IsFiniteSet(p.locations)
  /\ p.time \in Int

\* The features of an article are finite sets.
LEMMA ProfileTypes ==
  ASSUME NEW W, NEW title \in Seq(W), NEW text \in Seq(W), NEW time \in Int
  PROVE  IsProfile(Profile(title, text, time))
<1> DEFINE both == title \o text
           T == Tokens(title)
           C == Tokens(both)
           p == Profile(title, text, time)
<1>1. both \in Seq(W)
  BY ConcatProperties
<1>2. T \in Seq(W) /\ C \in Seq(W)
  <2> HIDE DEF both
  <2> QED BY <1>1, TokensFacts
<1>3. IsFiniteSet(Range(both))
  BY <1>1, FiniteRange, Zenon
<1>4. IsFiniteSet(Range(T)) /\ IsFiniteSet(Range(C))
  <2> HIDE DEF T, C
  <2> QED BY <1>2, FiniteRange
<1>5. IsFiniteSet(Shingles(T, 2)) /\ IsFiniteSet(Shingles(C, 3))
  <2> HIDE DEF T, C
  <2> QED BY <1>2, FiniteShingles
<1>6. \A X : IsFiniteSet(Range(both) \cap X)
  BY <1>3, FS_Subset
<1>9. IsFiniteSet(Phrases(both))
  <2> HIDE DEF both
  <2> QED BY <1>1, FinitePhrases
<1>7. p = [titleTokens |-> Range(T), contentTokens |-> Range(C),
            titleShingles |-> Shingles(T, 2), contentShingles |-> Shingles(C, 3),
            entities |-> Phrases(both), identifiers |-> Range(both) \cap Identifiers,
            locations |-> Range(both) \cap Locations, time |-> time]
  BY DEF Profile
<1> HIDE DEF both, T, C, p
<1>8. /\ p.titleTokens = Range(T) /\ p.contentTokens = Range(C)
      /\ p.titleShingles = Shingles(T, 2) /\ p.contentShingles = Shingles(C, 3)
      /\ p.entities = Phrases(both)
      /\ p.identifiers = Range(both) \cap Identifiers
      /\ p.locations = Range(both) \cap Locations /\ p.time = time
  BY <1>7
<1> QED BY <1>4, <1>5, <1>6, <1>8, <1>9, Zenon DEF IsProfile, p

\* Division rounds down.
LEMMA Quotients ==
  ASSUME NEW a \in Nat, NEW b \in Nat, b > 0
  PROVE  /\ a \div b \in Nat
         /\ \A k \in Nat : a >= k * b => a \div b >= k
OBVIOUS

\* Min of two numbers.
LEMMA Smaller ==
  ASSUME NEW a \in Nat, NEW b \in Nat
  PROVE  Min({a, b}) = IF a <= b THEN a ELSE b
BY DEF Min

\* Features are numbers.
LEMMA JaccardTypes ==
  ASSUME NEW left, NEW right, IsFiniteSet(left), IsFiniteSet(right)
  PROVE  Jaccard(left, right) \in Nat
<1> DEFINE n == Cardinality(left \cap right)
           m == Cardinality(left \cup right)
<1>1. CASE left = {} \/ right = {}
  BY <1>1 DEF Jaccard
<1>2. CASE left # {} /\ right # {}
  <2>1. IsFiniteSet(left \cap right) /\ IsFiniteSet(left \cup right)
    BY FS_Subset, FS_Union, Zenon
  <2>2. n \in Nat /\ m \in Nat /\ m # 0
    BY <1>2, <2>1, FS_CardinalityType, FS_EmptySet
  <2> HIDE DEF n, m
  <2>3. Unit * n \in Nat /\ m > 0
    BY <2>2 DEF Unit
  <2>4. (Unit * n) \div m \in Nat
    BY <2>2, <2>3, Quotients
  <2> QED BY <1>2, <2>4 DEF Jaccard, n, m
<1> QED BY <1>1, <1>2

\* An overlap is a number.
LEMMA OverlapTypes ==
  ASSUME NEW left, NEW right, IsFiniteSet(left), IsFiniteSet(right), NEW z \in Nat
  PROVE  Overlap(left, right, z) \in Nat
<1> DEFINE n == Cardinality(left \cap right)
           k == Cardinality(left)
           m == Cardinality(right)
<1>1. CASE left = {} \/ right = {}
  BY <1>1 DEF Overlap, Unit
<1>2. CASE left # {} /\ right # {}
  <2>1. IsFiniteSet(left \cap right)
    BY FS_Subset
  <2>2. n \in Nat /\ m \in Nat /\ k \in Nat /\ m # 0 /\ k # 0
    BY <1>2, <2>1, FS_CardinalityType, FS_EmptySet
  <2> DEFINE d == Min({k, m})
  <2> HIDE DEF n, m, k
  <2>3. Unit * n \in Nat /\ d \in Nat /\ d > 0
    BY <2>2, Smaller DEF Unit
  <2> HIDE DEF d
  <2>4. (Unit * n) \div d \in Nat
    BY <2>3, Quotients
  <2> QED BY <1>2, <2>4 DEF Overlap, d, n, m, k
<1> QED BY <1>1, <1>2

\* The temporal feature is a number, and at least 40 hundredths within the window.
LEMMA TemporalTypes ==
  ASSUME NEW s \in Int, NEW t \in Int
  PROVE  /\ Temporal(s, t) \in Nat
         /\ Distance(s, t) <= LookbackDays => Temporal(s, t) >= 40
BY DEF Temporal, Distance, LookbackDays

\* A score is a number.
LEMMA ScoreTypes ==
  ASSUME NEW a, IsProfile(a), NEW b, IsProfile(b)
  PROVE  Score(a, b) \in Nat
<1> DEFINE shingles == Jaccard(a.contentShingles, b.contentShingles)
           tokens == Jaccard(a.contentTokens, b.contentTokens)
           titleTokens == Jaccard(a.titleTokens, b.titleTokens)
           titleShingles == Jaccard(a.titleShingles, b.titleShingles)
           entity == Overlap(a.entities, b.entities, 0)
           identifier == Overlap(a.identifiers, b.identifiers, 0)
           geographic == Overlap(a.locations, b.locations, Unit \div 5)
           temporal == Temporal(a.time, b.time)
<1>1. shingles \in Nat /\ tokens \in Nat /\ titleTokens \in Nat /\ titleShingles \in Nat
  BY JaccardTypes DEF IsProfile
<1>2. entity \in Nat /\ identifier \in Nat /\ geographic \in Nat
  <2>1. Unit \div 5 \in Nat
    BY DEF Unit
  <2> QED BY <2>1, OverlapTypes, Zenon DEF IsProfile
<1>3. temporal \in Nat
  BY TemporalTypes, Zenon DEF IsProfile
<1>4. Score(a, b) = 35 * (45 * tokens + 55 * shingles) + 10 * (70 * titleTokens + 30 * titleShingles)
        + 100 * (15 * entity + 15 * identifier + 10 * shingles + 5 * geographic + 3 * (Unit \div 2))
        + 7 * Unit * temporal
  BY DEF Score
<1> HIDE DEF shingles, tokens, titleTokens, titleShingles, entity, identifier, geographic, temporal
<1> QED BY <1>1, <1>2, <1>3, <1>4 DEF Unit

-----------------------------------------------------------------------------
\* A set is all of itself.
LEMMA JaccardOfSame ==
  ASSUME NEW X, IsFiniteSet(X), X # {}
  PROVE  Jaccard(X, X) = Unit
<1> DEFINE n == Cardinality(X)
<1>1. n \in Nat /\ n # 0
  BY FS_CardinalityType, FS_EmptySet
<1>2. X \cap X = X /\ X \cup X = X
  OBVIOUS
<1>3. Jaccard(X, X) = (Unit * n) \div n
  BY <1>2 DEF Jaccard
<1> HIDE DEF n
<1>4. (27720 * n) \div n = 27720
  BY <1>1
<1> QED BY <1>3, <1>4 DEF Unit

\* A set overlaps one that holds it by half at least, unless only the first is empty.
LEMMA OverlapOfPart ==
  ASSUME NEW X, NEW Y, IsFiniteSet(Y), X \subseteq Y, X = {} => Y = {}, NEW z
  PROVE  Overlap(X, Y, z) >= 13860
<1>1. CASE X = {}
  BY <1>1 DEF Overlap, Unit
<1>2. CASE X # {}
  <2> DEFINE n == Cardinality(X)
             k == Cardinality(Y)
  <2>1. n \in Nat /\ n # 0 /\ k \in Nat /\ n <= k
    BY <1>2, FS_CardinalityType, FS_EmptySet, FS_Subset
  <2>2. X \cap Y = X /\ Y # {}
    BY <1>2
  <2>3. Min({n, k}) = n
    <3> HIDE DEF n, k
    <3> QED BY <2>1, Smaller
  <2>4. Overlap(X, Y, z) = (Unit * n) \div n
    BY <1>2, <2>2, <2>3, Zenon DEF Overlap
  <2> HIDE DEF n
  <2>5. (27720 * n) \div n = 27720
    BY <2>1
  <2> QED BY <2>4, <2>5 DEF Unit
<1> QED BY <1>1, <1>2

\* A set overlaps itself by half at least, the empty one included.
LEMMA OverlapOfSame ==
  ASSUME NEW X, IsFiniteSet(X), NEW z
  PROVE  Overlap(X, X, z) >= 13860
BY OverlapOfPart

\* A set at most two larger than one of two or more.
LEMMA JaccardOfPart ==
  ASSUME NEW A, NEW B, IsFiniteSet(B), A \subseteq B,
         Cardinality(A) >= 2, Cardinality(B) <= Cardinality(A) + 2
  PROVE  Jaccard(A, B) >= 13860
<1> DEFINE n == Cardinality(A)
           m == Cardinality(B)
<1>1. IsFiniteSet(A) /\ n \in Nat /\ m \in Nat /\ n <= m
  BY FS_Subset, FS_CardinalityType
<1>2. A # {} /\ B # {}
  BY <1>1, FS_EmptySet
<1>3. A \cap B = A /\ A \cup B = B
  OBVIOUS
<1>4. Jaccard(A, B) = (Unit * n) \div m
  BY <1>2, <1>3 DEF Jaccard
<1>5. n >= 2 /\ m <= n + 2
  OBVIOUS
<1> HIDE DEF n, m
<1>6. 27720 * n \in Nat /\ 27720 * n >= 13860 * m /\ m > 0
  BY <1>1, <1>5
<1>7. (27720 * n) \div m >= 13860
  BY <1>1, <1>6, Quotients
<1> QED BY <1>4, <1>7 DEF Unit

\* A headline in front once more adds two shingles at most.
LEMMA ShinglesOfRepeated ==
  ASSUME NEW W, NEW p \in Seq(W), NEW q \in Seq(W), Len(p) >= 2
  PROVE  LET A == Shingles(p \o q, 3)
             B == Shingles(p \o (p \o q), 3)
         IN  A \subseteq B /\ Cardinality(B) <= Cardinality(A) + 2
<1> DEFINE c == p \o q
           d == p \o c
           k == Len(p)
           n == Len(c)
           A == Shingles(c, 3)
           B == Shingles(d, 3)
           x == SubSeq(d, k - 1, k + 1)
           y == SubSeq(d, k, k + 2)
<1>1. c \in Seq(W) /\ k \in Nat /\ n \in Nat /\ n = k + Len(q) /\ Len(q) \in Nat
  BY ConcatProperties, LenProperties
<1>2. /\ A = {SubSeq(c, i, i + 2) : i \in 1..(n - 2)}
  BY DEF Shingles
<1>3. d \in Seq(W) /\ Len(d) = k + n
  <2> HIDE DEF c
  <2> QED BY <1>1, ConcatProperties, Zenon DEF n
<1>4. B = {SubSeq(d, i, i + 2) : i \in 1..(k + n - 2)}
  <2> HIDE DEF d
  <2> DEFINE l == Len(d)
  <2>1. B = {SubSeq(d, i, i + 2) : i \in 1..(l - 2)}
    BY <1>1, <1>3 DEF Shingles
  <2> HIDE DEF l, B
  <2>2. l = k + n
    BY <1>3 DEF l
  <2> QED BY <2>1, <2>2
<1>5. \A i \in 1..(n - 2) : SubSeq(d, i + k, i + k + 2) = SubSeq(c, i, i + 2)
  <2> SUFFICES ASSUME NEW i \in 1..(n - 2) PROVE SubSeq(d, i + k, i + k + 2) = SubSeq(c, i, i + 2)
    BY Zenon
  <2>1. /\ i + k \in (k + 1)..(k + n) /\ i + k + 2 \in (k + 1)..(k + n)
        /\ i + k - k = i /\ i + k + 2 - k = i + 2
    BY <1>1
  <2> HIDE DEF c
  <2> QED BY <1>1, <2>1, SubSeqOfConcat2 DEF k, n
<1>6. \A i \in 1..(k - 2) : SubSeq(d, i, i + 2) = SubSeq(c, i, i + 2)
  <2> SUFFICES ASSUME NEW i \in 1..(k - 2) PROVE SubSeq(d, i, i + 2) = SubSeq(c, i, i + 2)
    OBVIOUS
  <2>1. i \in 1..k /\ i + 2 \in 1..k
    BY <1>1
  <2>2. SubSeq(c, i, i + 2) = SubSeq(p, i, i + 2)
    BY <2>1, SubSeqOfConcat1 DEF k
  <2> HIDE DEF c
  <2>3. SubSeq(d, i, i + 2) = SubSeq(p, i, i + 2)
    BY <1>1, <2>1, SubSeqOfConcat1 DEF k
  <2> QED BY <2>2, <2>3
<1> HIDE DEF c, d, n, A, B
<1>7. A \subseteq B
  <2> SUFFICES ASSUME NEW i \in 1..(n - 2) PROVE SubSeq(c, i, i + 2) \in B
    BY <1>2, Zenon
  <2>1. i + k \in 1..(k + n - 2)
    BY <1>1
  <2> QED BY <1>4, <1>5, <2>1, Zenon
<1>8. B \subseteq (A \cup {x}) \cup {y}
  <2> SUFFICES ASSUME NEW i \in 1..(k + n - 2) PROVE SubSeq(d, i, i + 2) \in (A \cup {x}) \cup {y}
    BY <1>4, Zenon
  <2>1. CASE i <= k - 2
    <3>1. i \in 1..(k - 2) /\ i \in 1..(n - 2)
      BY <1>1, <2>1
    <3> QED BY <1>2, <1>6, <3>1, Zenon
  <2>2. CASE i = k - 1
    <3>1. i + 2 = k + 1
      BY <1>1, <2>2
    <3> QED BY <2>2, <3>1
  <2>3. CASE i = k
    BY <2>3
  <2>4. CASE i > k
    <3> DEFINE j == i - k
    <3>1. j \in 1..(n - 2) /\ j + k = i /\ j + k + 2 = i + 2
      BY <1>1, <2>4
    <3> HIDE DEF j
    <3> QED BY <1>2, <1>5, <3>1, Zenon
  <2>5. i <= k - 2 \/ i = k - 1 \/ i = k \/ i > k
    BY <1>1
  <2> QED BY <2>1, <2>2, <2>3, <2>4, <2>5, Zenon
<1>9. IsFiniteSet(A)
  BY <1>1, FiniteShingles DEF A
<1> HIDE DEF x, y
<1>10. /\ Cardinality(A) \in Nat
       /\ IsFiniteSet((A \cup {x}) \cup {y})
       /\ Cardinality((A \cup {x}) \cup {y}) <= Cardinality(A) + 2
  <2> DEFINE Z == A \cup {x}
  <2>1. IsFiniteSet(Z) /\ Cardinality(A) \in Nat
        /\ (Cardinality(Z) = Cardinality(A) \/ Cardinality(Z) = Cardinality(A) + 1)
    BY <1>9, FS_AddElement, FS_CardinalityType, Zenon
  <2> HIDE DEF Z
  <2>2. IsFiniteSet(Z \cup {y})
        /\ (Cardinality(Z \cup {y}) = Cardinality(Z) \/ Cardinality(Z \cup {y}) = Cardinality(Z) + 1)
    BY <2>1, FS_AddElement, Zenon
  <2>3. Cardinality(Z \cup {y}) <= Cardinality(A) + 2
    BY <2>1, <2>2
  <2> QED BY <2>1, <2>2, <2>3 DEF Z
<1>11. IsFiniteSet(B) /\ Cardinality(B) <= Cardinality((A \cup {x}) \cup {y}) /\ Cardinality(B) \in Nat
       /\ Cardinality((A \cup {x}) \cup {y}) \in Nat
  BY <1>8, <1>10, FS_Subset, FS_CardinalityType
<1> QED BY <1>7, <1>10, <1>11 DEF A, B, c, d

\* The features of an article, one by one.
LEMMA ProfileFields ==
  ASSUME NEW title, NEW text, NEW time
  PROVE  LET p == Profile(title, text, time)
         IN  /\ p.titleTokens = Range(Tokens(title))
             /\ p.contentTokens = Range(Tokens(title \o text))
             /\ p.titleShingles = Shingles(Tokens(title), 2)
             /\ p.contentShingles = Shingles(Tokens(title \o text), 3)
             /\ p.entities = Phrases(title \o text)
             /\ p.identifiers = Range(title \o text) \cap Identifiers
             /\ p.locations = Range(title \o text) \cap Locations
             /\ p.time = time
<1> DEFINE T == Tokens(title)
           C == Tokens(title \o text)
           R == Range(title \o text)
           P == Phrases(title \o text)
<1>1. Profile(title, text, time) =
        [titleTokens |-> Range(T), contentTokens |-> Range(C),
         titleShingles |-> Shingles(T, 2), contentShingles |-> Shingles(C, 3),
         entities |-> P, identifiers |-> R \cap Identifiers,
         locations |-> R \cap Locations, time |-> time]
  BY DEF Profile
<1> HIDE DEF T, C, R, P
<1> QED BY <1>1 DEF T, C, R, P

\* An article and the event that its copy founded, whose first title is compared and
\* whose text has the title in front: the score reaches the threshold of a candidate.
LEMMA CopyScores ==
  ASSUME NEW W, NEW title \in Seq(W), NEW text \in Seq(W), NEW time \in Int, NEW seen \in Int,
         Distance(time, seen) <= LookbackDays,
         KeepsPhrases(title, Profile(title, text, time).entities),
         Profile(title, text, time).titleShingles # {},
         Cardinality(Profile(title, text, time).contentShingles) >= 2
  PROVE  Score(Profile(title, text, time), Profile(title, title \o text, seen)) >= CandidateThreshold
<1> DEFINE c == title \o text
           d == title \o c
           p == Tokens(title)
           q == Tokens(text)
           a == Profile(title, text, time)
           b == Profile(title, c, seen)
<1>1. c \in Seq(W) /\ Range(c) = Range(title) \cup Range(text)
  BY ConcatProperties, RangeConcatenation
<1>2. Range(d) = Range(c)
  <2> HIDE DEF c
  <2>1. Range(d) = Range(title) \cup Range(c)
    BY <1>1, RangeConcatenation
  <2> QED BY <1>1, <2>1
<1>3. p \in Seq(W) /\ q \in Seq(W) /\ Range(p) = Range(title) \ Stopwords
      /\ Tokens(c) = p \o q
  BY TokensFacts, Zenon
<1>4. Tokens(d) = p \o (p \o q)
  <2>1. Tokens(d) = p \o Tokens(c)
    <3> HIDE DEF c
    <3> QED BY <1>1, TokensFacts, Zenon
  <2> QED BY <1>3, <2>1
<1>5. Range(Tokens(d)) = Range(Tokens(c)) /\ Range(Tokens(c)) = Range(c) \ Stopwords
  <2>1. d \in Seq(W)
    <3> HIDE DEF c
    <3> QED BY <1>1, ConcatProperties
  <2> HIDE DEF c, d
  <2>2. Range(Tokens(d)) = Range(d) \ Stopwords /\ Range(Tokens(c)) = Range(c) \ Stopwords
    BY <1>1, <2>1, TokensFacts, Zenon
  <2> QED BY <1>2, <2>2
<1>6. IsProfile(a) /\ IsProfile(b)
  <2> HIDE DEF c
  <2> QED BY <1>1, ProfileTypes
<1> DEFINE A == Shingles(p \o q, 3)
           B == Shingles(p \o (p \o q), 3)
<1>7. /\ a.titleTokens = Range(p) /\ b.titleTokens = Range(p)
      /\ a.contentTokens = Range(Tokens(c)) /\ b.contentTokens = Range(Tokens(d))
      /\ a.titleShingles = Shingles(p, 2) /\ b.titleShingles = Shingles(p, 2)
      /\ a.contentShingles = Shingles(Tokens(c), 3) /\ b.contentShingles = Shingles(Tokens(d), 3)
      /\ a.entities = Phrases(c) /\ b.entities = Phrases(d)
      /\ a.identifiers = Range(c) \cap Identifiers /\ b.identifiers = Range(d) \cap Identifiers
      /\ a.locations = Range(c) \cap Locations /\ b.locations = Range(d) \cap Locations
      /\ a.time = time /\ b.time = seen
  BY ProfileFields
<1> HIDE DEF c, d, p, q, a, b
<1>8. /\ b.titleTokens = a.titleTokens /\ b.contentTokens = a.contentTokens
      /\ b.titleShingles = a.titleShingles
      /\ b.identifiers = a.identifiers /\ b.locations = a.locations
      /\ a.contentShingles = A /\ b.contentShingles = B
  BY <1>2, <1>3, <1>4, <1>5, <1>7
<1>9. a.titleShingles # {} /\ Cardinality(A) >= 2
  BY <1>8 DEF a
<1>10. Len(p) \in Nat /\ Len(p) >= 2
  <2>1. Len(p) \in Nat
    BY <1>3, LenProperties
  <2>2. 1..(Len(p) - 2 + 1) # {}
    BY <1>7, <1>9, Zenon DEF Shingles
  <2> QED BY <2>1, <2>2
<1>11. a.titleTokens # {} /\ a.contentTokens # {}
  <2>1. p[1] \in Range(p)
    BY <1>3, <1>10, RangeEquality
  <2> QED BY <1>1, <1>3, <1>5, <1>7, <2>1
<1>12. A \subseteq B /\ Cardinality(B) <= Cardinality(A) + 2
  BY <1>3, <1>10, ShinglesOfRepeated
<1> HIDE DEF A, B
<1> DEFINE shingles == Jaccard(a.contentShingles, b.contentShingles)
           tokens == Jaccard(a.contentTokens, b.contentTokens)
           titleTokens == Jaccard(a.titleTokens, b.titleTokens)
           titleShingles == Jaccard(a.titleShingles, b.titleShingles)
           entity == Overlap(a.entities, b.entities, 0)
           identifier == Overlap(a.identifiers, b.identifiers, 0)
           geographic == Overlap(a.locations, b.locations, Unit \div 5)
           temporal == Temporal(a.time, b.time)
<1>13. shingles >= 13860 /\ shingles \in Nat
  BY <1>6, <1>8, <1>9, <1>12, JaccardOfPart, JaccardTypes DEF IsProfile
<1>14. tokens = Unit /\ titleTokens = Unit /\ titleShingles = Unit
  BY <1>6, <1>8, <1>9, <1>11, JaccardOfSame DEF IsProfile
<1>15. entity >= 13860 /\ identifier >= 13860 /\ geographic >= 13860
  <2>1. identifier >= 13860 /\ geographic >= 13860
    BY <1>6, <1>8, OverlapOfSame DEF IsProfile
  <2>2. PICK m \in DOMAIN title : title[m] \notin Capitalized
    BY DEF KeepsPhrases
  <2>3. m \in 1..Len(title)
    BY LenProperties
  <2>4. a.entities \subseteq b.entities
    BY <1>7, <2>2, <2>3, PhrasesOfRepeated DEF c, d
  <2>5. a.entities = {} => b.entities = {}
    <3> SUFFICES ASSUME a.entities = {} PROVE b.entities = {}
      OBVIOUS
    <3>1. title[Len(title)] \notin Capitalized
      BY DEF KeepsPhrases, Last, a
    <3>2. Len(title) \in 1..Len(title)
      BY <2>3, LenProperties
    <3> QED BY <1>7, <3>1, <3>2, PhrasesOfRepeated DEF c, d
  <2>6. entity >= 13860
    BY <1>6, <2>4, <2>5, OverlapOfPart DEF IsProfile
  <2> QED BY <2>1, <2>6
<1>16. entity \in Nat /\ identifier \in Nat /\ geographic \in Nat
  <2>1. Unit \div 5 \in Nat
    BY DEF Unit
  <2> QED BY <1>6, <2>1, OverlapTypes, Zenon DEF IsProfile
<1>17. temporal \in Nat /\ temporal >= 40
  BY <1>7, TemporalTypes
<1>18. Score(a, b) = 35 * (45 * tokens + 55 * shingles) + 10 * (70 * titleTokens + 30 * titleShingles)
        + 100 * (15 * entity + 15 * identifier + 10 * shingles + 5 * geographic + 3 * (Unit \div 2))
        + 7 * Unit * temporal
  BY DEF Score
<1> HIDE DEF shingles, tokens, titleTokens, titleShingles, entity, identifier, geographic, temporal
<1>19. Score(a, b) >= CandidateThreshold
  BY <1>13, <1>14, <1>15, <1>16, <1>17, <1>18 DEF Unit, CandidateThreshold, Hundredths
<1> QED BY <1>19 DEF a, b, c

-----------------------------------------------------------------------------
\* The rows that _load_recent_event_references reads, whatever names and words there are.
RowsOver(E, W) ==
  [event : E, eventTitle : Seq(W), articleTitle : Seq(W), text : Seq(W), active : BOOLEAN,
   firstDetected : Int, observed : Int]

\* Some row has been observed last.
LEMMA LastObserved ==
  ASSUME NEW S, \A r \in S : r.observed \in Int, NEW s \in Seq(S), s # <<>>
  PROVE  Max({r.observed : r \in Range(s)}) \in Int
<1> DEFINE O(t) == {r.observed : r \in Range(t)}
           T == {t \in Seq(S) : t = <<>> \/ \E m \in O(t) : \A n \in O(t) : m >= n}
<1>1. <<>> \in T
  BY EmptySeq
<1>2. ASSUME NEW t \in Seq(S), NEW x \in S, t \in T PROVE Append(t, x) \in T
  <2> DEFINE y == x.observed
  <2>1. Append(t, x) \in Seq(S) /\ Range(Append(t, x)) = Range(t) \cup {x}
    BY RangeOfAppend
  <2>2. O(Append(t, x)) = O(t) \cup {y}
    BY <2>1
  <2>3. y \in Int /\ \A n \in O(t) : n \in Int
    BY RangeOfSeq
  <2>4. t = <<>> => O(t) = {}
    BY RangeOfEmpty
  <2>5. t = <<>> \/ \E m \in O(t) : \A n \in O(t) : m >= n
    BY <1>2
  <2> HIDE DEF O, y
  <2>6. \E m \in O(t) \cup {y} : \A n \in O(t) \cup {y} : m >= n
    <3>1. CASE t = <<>>
      <4>1. O(t) \cup {y} = {y} /\ y >= y
        BY <2>3, <2>4, <3>1
      <4> QED BY <4>1, Zenon
    <3>2. CASE t # <<>>
      <4>1. PICK m \in O(t) : \A n \in O(t) : m >= n
        BY <2>5, <3>2
      <4>2. CASE m >= y
        BY <4>1, <4>2
      <4>3. CASE ~(m >= y)
        <5>1. y >= y /\ \A n \in O(t) : y >= n
          BY <2>3, <4>1, <4>3
        <5> QED BY <5>1
      <4> QED BY <4>2, <4>3
    <3> QED BY <3>1, <3>2
  <2> QED BY <2>1, <2>2, <2>6, Zenon
<1>3. s \in T
  <2> HIDE DEF T
  <2> QED BY <1>1, <1>2, FW!SequenceInduction
<1>4. \E m \in O(s) : \A n \in O(s) : m >= n
  BY <1>3
<1>5. \A n \in O(s) : n \in Int
  BY RangeOfSeq
<1> HIDE DEF O
<1>6. Max(O(s)) \in O(s)
  BY <1>4 DEF Max
<1> QED BY <1>5, <1>6 DEF O

\* The texts of a reference are words.
LEMMA ExcerptTypes ==
  ASSUME NEW E, NEW W, NEW r \in RowsOver(E, W)
  PROVE  Excerpt(r) \in Seq(W)
<1> DEFINE t == r.text
           n == Min({Len(t), TextCap})
           x == SubSeq(t, 1, n)
           h == r.articleTitle
<1>1. t \in Seq(W) /\ h \in Seq(W)
  BY DEF RowsOver
<1> HIDE DEF t, h
<1>2. Len(t) \in Nat /\ n \in Nat /\ n <= Len(t)
  BY <1>1, LenProperties, Caps, Smaller
<1> HIDE DEF n
<1>3. x \in Seq(W)
  <2>1. \A i \in 1..n : t[i] \in W
    BY <1>1, <1>2, ElementOfSeq
  <2> QED BY <1>2, <2>1, SubSeqProperties
<1> HIDE DEF x
<1>4. h \o x \in Seq(W)
  BY <1>1, <1>3, ConcatProperties
<1> QED BY <1>4, Zenon DEF Excerpt, x, n, t, h

\* The first k elements of a sequence.
LEMMA FirstTypes ==
  ASSUME NEW S, NEW s \in Seq(S), NEW k \in Nat
  PROVE  LET n == Min({Len(s), k})
         IN  /\ n \in 0..Len(s) /\ SubSeq(s, 1, n) \in Seq(S) /\ Len(SubSeq(s, 1, n)) = n
             /\ \A i \in 1..n : SubSeq(s, 1, n)[i] = s[i]
             /\ Len(s) <= k => SubSeq(s, 1, n) = s
<1> DEFINE n == Min({Len(s), k})
<1>1. Len(s) \in Nat /\ n \in Nat /\ n <= Len(s) /\ (Len(s) <= k => n = Len(s))
  BY LenProperties, Smaller
<1> HIDE DEF n
<1>2. \A i \in 1..n : s[i] \in S
  BY <1>1, ElementOfSeq
<1>3. /\ SubSeq(s, 1, n) \in Seq(S) /\ Len(SubSeq(s, 1, n)) = n
      /\ \A i \in 1..n : SubSeq(s, 1, n)[i] = s[i]
  BY <1>1, <1>2, SubSeqProperties
<1>4. Len(s) <= k => SubSeq(s, 1, n) = s
  <2>1. SubSeq(s, 1, Len(s)) = s
    BY SubSeqFull
  <2> QED BY <1>1, <2>1
<1>5. n \in 0..Len(s)
  BY <1>1
<1> QED BY <1>3, <1>4, <1>5, Zenon DEF n

\* A reference of some rows can be compared.
LEMMA ReferenceTypes ==
  ASSUME NEW E, NEW W, NEW rows \in Seq(RowsOver(E, W)), rows # <<>>
  PROVE  IsProfile(Reference(rows).profile)
<1> DEFINE R == RowsOver(E, W)
           first == SubSeq(rows, 1, Min({Len(rows), VersionsPerEvent}))
           A == Seq(W)
           a == <<>>
           text == FX!Fold(0, a, first)
           title == rows[1].eventTitle
           time == Max({r.observed : r \in Range(rows)})
<1>1. a \in A
  BY EmptySeq
<1>2. FX!Closed(0, A, R)
  BY ExcerptTypes, ConcatProperties DEF FX!Closed, TextStep
<1>3. first \in Seq(R)
  <2>1. VersionsPerEvent \in Nat
    BY DEF VersionsPerEvent
  <2> HIDE DEF R
  <2> QED BY <2>1, FirstTypes DEF R
<1>4. rows[1] \in R
  <2>1. Len(rows) \in Nat \ {0}
    BY EmptySeq
  <2> QED BY <2>1, ElementOfSeq
<1>5. title \in Seq(W)
  BY <1>4, Zenon DEF RowsOver
<1>6. time \in Int
  <2>1. \A r \in R : r.observed \in Int
    BY DEF RowsOver
  <2> HIDE DEF R
  <2> QED BY <2>1, LastObserved DEF R
<1>7. Reference(rows) = [event |-> rows[1].event, profile |-> Profile(title, text, time)]
  BY ReferenceIsFold, Zenon
<1> HIDE DEF A, a, R, first
<1>8. text \in A
  BY <1>1, <1>2, <1>3, FX!FoldType
<1> HIDE DEF text, title, time
<1>9. IsProfile(Profile(title, text, time))
  BY <1>5, <1>6, <1>8, ProfileTypes DEF A
<1>10. Reference(rows).profile = Profile(title, text, time)
  BY <1>7
<1> QED BY <1>9, <1>10

\* The reference of an event with one row whose text is not cut.
LEMMA ReferenceOfOne ==
  ASSUME NEW E, NEW W, NEW r \in RowsOver(E, W), Len(r.text) <= TextCap
  PROVE  Reference(<<r>>).profile = Profile(r.eventTitle, r.articleTitle \o r.text, r.observed)
<1> DEFINE R == RowsOver(E, W)
           one == <<r>>
           first == SubSeq(one, 1, Min({Len(one), VersionsPerEvent}))
           A == Seq(W)
           a == <<>>
           x == Excerpt(r)
<1>1. a \in A
  BY EmptySeq
<1>2. FX!Closed(0, A, R)
  BY ExcerptTypes, ConcatProperties DEF FX!Closed, TextStep
<1>3. one \in Seq(R) /\ Len(one) = 1 /\ one[1] = r /\ one = Append(a, r) /\ a \in Seq(R)
  BY EmptySeq
<1>4. x \in A
  BY ExcerptTypes
<1>5. x = r.articleTitle \o r.text
  <2> DEFINE t == r.text
  <2>1. t \in Seq(W)
    BY DEF RowsOver
  <2> HIDE DEF t
  <2>2. SubSeq(t, 1, Min({Len(t), TextCap})) = t
    BY <2>1, Caps, FirstTypes DEF t
  <2> QED BY <2>2, Zenon DEF Excerpt, t
<1>6. first = one
  <2> HIDE DEF one, R
  <2>1. VersionsPerEvent \in Nat /\ Len(one) <= VersionsPerEvent
    BY <1>3 DEF VersionsPerEvent
  <2> QED BY <1>3, <2>1, FirstTypes, Zenon
<1>7. Max({s.observed : s \in Range(one)}) = r.observed
  <2>1. Range(one) = {r}
    <3> HIDE DEF one, R
    <3>1. Range(one) = {one[i] : i \in 1..Len(one)}
      BY <1>3, RangeEquality, Zenon
    <3> QED BY <1>3, <3>1
  <2>2. r.observed \in Int
    BY DEF RowsOver
  <2> DEFINE y == r.observed
  <2> HIDE DEF y
  <2>3. Max({y}) = y
    BY <2>2 DEF Max, y
  <2>4. {s.observed : s \in Range(one)} = {y}
    BY <2>1 DEF y
  <2> QED BY <2>3, <2>4, Zenon DEF y
<1> HIDE DEF A, R, a, x
<1>8. FX!Fold(0, a, Append(a, r)) = TextStep(0, FX!Fold(0, a, a), r)
  BY <1>1, <1>2, <1>3, FX!FoldAppend DEF R
<1>9. FX!Fold(0, a, <<>>) = a
  BY <1>1, <1>2, FX!FoldEmpty
<1>10. FX!Fold(0, a, first) = a \o x
  BY <1>3, <1>6, <1>8, <1>9, Zenon DEF TextStep, x, a
<1>11. a \o x = x
  BY <1>4, ConcatEmptySeq DEF a, A
<1> DEFINE text == FX!Fold(0, a, first)
           time == Max({s.observed : s \in Range(one)})
<1>12. Reference(one) = [event |-> one[1].event, profile |-> Profile(one[1].eventTitle, text, time)]
  BY ReferenceIsFold, Zenon DEF a
<1>13. text = x /\ time = r.observed /\ one[1] = r
  BY <1>3, <1>7, <1>10, <1>11
<1> HIDE DEF text, time, one
<1> QED BY <1>5, <1>12, <1>13 DEF one

-----------------------------------------------------------------------------
\* The references are those of the events of the rows, and every event has one.
LEMMA ReferencesFacts ==
  ASSUME NEW S, NEW rows \in Seq(S)
  PROVE  LET named == {r.event : r \in Range(rows)}
             all == {Reference(RowsOf(rows, e)) : e \in named}
         IN  References(rows) \in Seq(all) /\ Range(References(rows)) = all
<1> DEFINE N == {r.event : r \in S}
           A == Seq(N)
           a == <<>>
           events(t) == FE!Fold(0, a, t)
           named(t) == {r.event : r \in Range(t)}
           T == {t \in Seq(S) : Range(events(t)) = named(t)}
<1>1. a \in A
  BY EmptySeq
<1>2. FE!Closed(0, A, S)
  BY AppendProperties DEF FE!Closed, EventStep
<1>3. a = <<>> /\ Range(a) = {}
  BY RangeOfEmpty
<1> HIDE DEF A, a
<1>4. events(<<>>) = a
  BY <1>1, <1>2, FE!FoldEmpty
<1>5. <<>> \in T
  <2>1. named(<<>>) = {}
    BY RangeOfEmpty
  <2>2. <<>> \in Seq(S)
    BY EmptySeq
  <2> QED BY <1>3, <1>4, <2>1, <2>2
<1>6. ASSUME NEW t \in Seq(S), NEW x \in S, t \in T PROVE Append(t, x) \in T
  <2> DEFINE v == events(t)
             w == events(Append(t, x))
  <2>1. v \in Seq(N) /\ w = EventStep(0, v, x)
    BY <1>1, <1>2, FE!FoldAppend DEF A
  <2>2. Append(t, x) \in Seq(S) /\ Range(Append(t, x)) = Range(t) \cup {x}
    BY RangeOfAppend
  <2>3. named(Append(t, x)) = named(t) \cup {x.event}
    BY <2>2
  <2>4. Range(v) = named(t)
    BY <1>6
  <2>5. x.event \in N
    OBVIOUS
  <2> HIDE DEF v, w, N
  <2>6. Range(Append(v, x.event)) = Range(v) \cup {x.event}
    BY <2>1, <2>5, RangeOfAppend
  <2>7. Range(w) = Range(v) \cup {x.event}
    BY <2>1, <2>6 DEF EventStep
  <2> QED BY <2>2, <2>3, <2>4, <2>7 DEF w
<1>7. rows \in T
  <2> HIDE DEF T
  <2> QED BY <1>5, <1>6, FE!SequenceInduction
<1> DEFINE f == events(rows)
           all == {Reference(RowsOf(rows, e)) : e \in named(rows)}
           g == [i \in DOMAIN f |-> Reference(RowsOf(rows, f[i]))]
<1>8. f \in Seq(N)
  BY <1>1, <1>2, FE!FoldType DEF A
<1>9. Range(f) = named(rows)
  BY <1>7
<1>10. References(rows) = g
  BY ReferencesIsFold DEF a
<1> HIDE DEF f, N, named
<1>11. /\ Len(f) \in Nat /\ DOMAIN f = 1..Len(f) /\ Range(f) = {f[i] : i \in 1..Len(f)}
  BY <1>8, LenProperties, RangeEquality
<1>12. g \in Seq(all)
  <2>1. g \in [1..Len(f) -> all]
    BY <1>9, <1>11
  <2> QED BY <1>11, <2>1, SeqDef
<1>13. Range(g) = all
  <2>1. Range(g) = {g[i] : i \in DOMAIN f}
    BY DEF Range
  <2>2. Range(g) = {Reference(RowsOf(rows, f[i])) : i \in 1..Len(f)}
    BY <1>11, <2>1
  <2> QED BY <1>9, <1>11, <2>2
<1> QED BY <1>10, <1>12, <1>13 DEF named

\* Two sequences in a row.
LEMMA Interleaved ==
  ASSUME NEW S, NEW s \in Seq(S), NEW t \in Seq(S)
  PROVE  /\ s \o t \in Seq(S)
         /\ Len(s \o t) = Len(s) + Len(t)
         /\ Range(s \o t) = Range(s) \cup Range(t)
         /\ Len(s) # 0 => (s \o t)[1] = s[1]
         /\ Len(s) = 0 /\ Len(t) # 0 => (s \o t)[1] = t[1]
<1>1. /\ s \o t \in Seq(S) /\ Len(s \o t) = Len(s) + Len(t)
      /\ \A i \in 1..(Len(s) + Len(t)) : (s \o t)[i] = IF i <= Len(s) THEN s[i] ELSE t[i - Len(s)]
  BY ConcatProperties
<1>2. Len(s) \in Nat /\ Len(t) \in Nat
  BY LenProperties
<1>3. Range(s \o t) = Range(s) \cup Range(t)
  BY RangeConcatenation
<1>4. ASSUME Len(s) # 0 PROVE (s \o t)[1] = s[1]
  <2>1. 1 \in 1..(Len(s) + Len(t)) /\ 1 <= Len(s)
    BY <1>2, <1>4
  <2> QED BY <1>1, <2>1
<1>5. ASSUME Len(s) = 0, Len(t) # 0 PROVE (s \o t)[1] = t[1]
  <2>1. 1 \in 1..(Len(s) + Len(t)) /\ ~(1 <= Len(s)) /\ 1 - Len(s) = 1
    BY <1>2, <1>5
  <2> QED BY <1>1, <2>1
<1> QED BY <1>1, <1>3, <1>4, <1>5

\* An element between two sequences.
LEMMA Inserted ==
  ASSUME NEW S, NEW s \in Seq(S), NEW x \in S, NEW t \in Seq(S)
  PROVE  /\ s \o <<x>> \o t \in Seq(S)
         /\ Len(s \o <<x>> \o t) = Len(s) + 1 + Len(t)
         /\ Range(s \o <<x>> \o t) = Range(s) \cup {x} \cup Range(t)
         /\ (s \o <<x>> \o t)[1] = IF Len(s) = 0 THEN x ELSE s[1]
<1> DEFINE o == <<x>>
           f == s \o o
<1>1. o \in Seq(S) /\ Len(o) = 1 /\ o[1] = x
  OBVIOUS
<1> HIDE DEF o
<1>2. Range(o) = {x}
  <2>1. Range(o) = {o[i] : i \in 1..Len(o)}
    BY <1>1, RangeEquality
  <2> QED BY <1>1, <2>1
<1>3. Len(s) \in Nat /\ Len(t) \in Nat
  BY LenProperties
<1>4. /\ f \in Seq(S) /\ Len(f) = Len(s) + Len(o) /\ Range(f) = Range(s) \cup Range(o)
      /\ Len(s) # 0 => f[1] = s[1]
      /\ Len(s) = 0 /\ Len(o) # 0 => f[1] = o[1]
  <2>1. o \in Seq(S)
    BY <1>1
  <2> QED BY <2>1, Interleaved
<1> HIDE DEF f
<1>5. Len(f) # 0 /\ f \in Seq(S)
  BY <1>1, <1>3, <1>4
<1>6. /\ f \o t \in Seq(S) /\ Len(f \o t) = Len(f) + Len(t)
      /\ Range(f \o t) = Range(f) \cup Range(t)
      /\ (f \o t)[1] = f[1]
  BY <1>5, Interleaved
<1>7. s \o <<x>> \o t = f \o t
  BY DEF f, o
<1> HIDE DEF f
<1>8. Len(f \o t) = Len(s) + 1 + Len(t)
  BY <1>1, <1>3, <1>4, <1>6
<1>9. Range(f \o t) = Range(s) \cup {x} \cup Range(t)
  BY <1>2, <1>4, <1>6
<1>10. (f \o t)[1] = IF Len(s) = 0 THEN x ELSE s[1]
  BY <1>1, <1>4, <1>6
<1> QED BY <1>6, <1>7, <1>8, <1>9, <1>10, Zenon

\* Sorted or not, the first of the ranked has the highest score.
Best(done, seen) ==
  /\ seen # <<>> => done # <<>>
  /\ Range(done) \subseteq Range(seen)
  /\ \A x \in Range(seen) : done[1].score >= x.score

\* An insertion keeps the highest score first.
LEMMA BestStaysFirst ==
  ASSUME NEW C, \A x \in C : x.score \in Int, NEW done \in Seq(C), NEW seen \in Seq(C),
         NEW x \in C, Best(done, seen)
  PROVE  RankStep(0, done, x) \in Seq(C) /\ Best(RankStep(0, done, x), Append(seen, x))
<1> DEFINE I == {i \in DOMAIN done : done[i].score >= x.score}
           n == Cardinality(I)
           l == Len(done)
           front == SubSeq(done, 1, n)
           o == <<x>>
           back == SubSeq(done, n + 1, l)
           w == RankStep(0, done, x)
<1>1. l \in Nat /\ DOMAIN done = 1..l /\ \A i \in 1..l : done[i] \in C
  BY LenProperties, ElementOfSeq
<1>2. IsFiniteSet(I) /\ n \in Nat /\ n <= l
  <2> HIDE DEF I, l
  <2>1. IsFiniteSet(1..l) /\ Cardinality(1..l) = l
    BY <1>1, FS_Interval
  <2>2. I \subseteq 1..l
    BY <1>1 DEF I
  <2>3. IsFiniteSet(I) /\ Cardinality(I) <= Cardinality(1..l)
    BY <2>1, <2>2, FS_Subset, Zenon
  <2> QED BY <2>1, <2>3, FS_CardinalityType
<1>3. w = front \o o \o back
  BY DEF RankStep
<1>4. n = 0 <=> I = {}
  BY <1>2, FS_EmptySet, Zenon
<1>5. o \in Seq(C) /\ Len(o) = 1 /\ o[1] = x /\ Range(o) = {x}
  <2>1. o \in Seq(C) /\ Len(o) = 1 /\ o[1] = x
    OBVIOUS
  <2> HIDE DEF o
  <2>2. Range(o) = {o[i] : i \in 1..Len(o)}
    BY <2>1, RangeEquality
  <2> QED BY <2>1, <2>2
<1> HIDE DEF n, l, w, o
<1>6. /\ front \in Seq(C) /\ Len(front) = n /\ \A i \in 1..n : front[i] = done[i]
      /\ back \in Seq(C) /\ Len(back) = l - n
      /\ \A i \in 1..(l - n) : back[i] = done[i + n]
  <2>1. /\ \A i \in 1..n : done[i] \in C
        /\ \A i \in (n + 1)..l : done[i] \in C
    BY <1>1, <1>2
  <2>2. front \in Seq(C) /\ Len(front) = n /\ \A i \in 1..n : front[i] = done[i]
    BY <1>2, <2>1, SubSeqProperties
  <2>3. /\ back \in Seq(C) /\ Len(back) = (IF n + 1 <= l THEN l - (n + 1) + 1 ELSE 0)
        /\ \A i \in 1..(l - (n + 1) + 1) : back[i] = done[n + 1 + i - 1]
    BY <1>1, <1>2, <2>1, SubSeqProperties
  <2> HIDE DEF front, back
  <2> QED BY <1>1, <1>2, <2>2, <2>3
<1> HIDE DEF front, back
<1>7. Range(front) \subseteq Range(done) /\ Range(back) \subseteq Range(done)
  <2>1. Range(done) = {done[i] : i \in 1..l}
    BY RangeEquality DEF l
  <2>2. front \in Seq(C) /\ Len(front) = n /\ back \in Seq(C) /\ Len(back) = l - n
    BY <1>6
  <2>3. Range(front) = {front[i] : i \in 1..n} /\ Range(back) = {back[i] : i \in 1..(l - n)}
    BY <2>2, RangeEquality
  <2>4. \A i \in 1..(l - n) : i + n \in 1..l
    BY <1>1, <1>2
  <2>5. \A i \in 1..n : i \in 1..l
    BY <1>1, <1>2
  <2> QED BY <1>6, <2>1, <2>3, <2>4, <2>5, Zenon
<1>8. /\ w \in Seq(C) /\ Len(w) = l + 1 /\ Range(w) = Range(front) \cup {x} \cup Range(back)
      /\ w[1] = IF n = 0 THEN x ELSE front[1]
  <2>1. front \in Seq(C)
    BY <1>6
  <2>2. back \in Seq(C)
    BY <1>6
  <2>3. w = front \o <<x>> \o back
    BY <1>3 DEF o
  <2>4. /\ w \in Seq(C) /\ Len(w) = Len(front) + 1 + Len(back)
        /\ Range(w) = Range(front) \cup {x} \cup Range(back)
        /\ w[1] = IF Len(front) = 0 THEN x ELSE front[1]
    BY <2>1, <2>2, <2>3, Inserted
  <2> QED BY <1>1, <1>2, <1>6, <2>4
<1>10. Append(seen, x) \in Seq(C) /\ Range(Append(seen, x)) = Range(seen) \cup {x}
  BY RangeOfAppend
<1>11. w # <<>>
  BY <1>1, <1>8, EmptySeq
<1>12. Range(w) \subseteq Range(Append(seen, x))
  BY <1>7, <1>8, <1>10 DEF Best
<1>13. \A y \in Range(seen) : y.score \in Int
  BY RangeOfSeq
<1>14. ASSUME NEW y \in Range(seen) \cup {x} PROVE w[1].score >= y.score
  <2>1. CASE n = 0
    <3>1. w[1] = x /\ I = {}
      BY <1>4, <1>8, <2>1
    <3>2. CASE y = x
      BY <3>1, <3>2
    <3>3. CASE y \in Range(seen)
      <4>1. done # <<>> /\ done[1].score >= y.score
        <5>1. seen # <<>>
          BY <3>3, RangeOfEmpty
        <5> QED BY <3>3, <5>1 DEF Best
      <4>2. 1 \in DOMAIN done
        BY <1>1, <4>1, EmptySeq DEF l
      <4>3. ~(done[1].score >= x.score) /\ done[1].score \in Int
        BY <1>1, <3>1, <4>2
      <4> QED BY <1>13, <3>1, <3>3, <4>1, <4>3
    <3> QED BY <3>2, <3>3
  <2>2. CASE n # 0
    <3>1. w[1] = done[1]
      BY <1>2, <1>6, <1>8, <2>2
    <3>2. PICK i \in DOMAIN done : done[i].score >= x.score
      BY <1>4, <2>2
    <3>3. done[i] \in Range(seen)
      BY <3>2, Zenon DEF Best, Range
    <3>4. done[1].score >= done[i].score
      BY <3>3 DEF Best
    <3>5. done[1].score \in Int /\ done[i].score \in Int
      <4>1. 1 \in 1..l /\ i \in 1..l
        BY <1>1, <1>2, <2>2
      <4> QED BY <1>1, <4>1
    <3>6. done[1].score >= x.score
      BY <3>2, <3>4, <3>5
    <3> QED BY <3>1, <3>6 DEF Best
  <2> QED BY <2>1, <2>2
<1> QED BY <1>8, <1>10, <1>11, <1>12, <1>14 DEF Best, w

\* The sort puts the highest score first.
LEMMA SortedBest ==
  ASSUME NEW C, \A x \in C : x.score \in Int, NEW scored \in Seq(C)
  PROVE  FR!Fold(0, <<>>, scored) \in Seq(C) /\ Best(FR!Fold(0, <<>>, scored), scored)
<1> DEFINE A == {d \in Seq(C) : \E t \in Seq(C) : Best(d, t)}
           a == <<>>
           sorted(t) == FR!Fold(0, a, t)
           T == {t \in Seq(C) : Best(sorted(t), t)}
<1>1. a \in Seq(C) /\ Best(a, <<>>)
  BY EmptySeq, RangeOfEmpty DEF Best
<1>2. a \in A
  BY <1>1, EmptySeq, Zenon
<1>3. FR!Closed(0, A, C)
  <2> SUFFICES ASSUME NEW d \in A, NEW x \in C PROVE RankStep(0, d, x) \in A
    BY Zenon DEF FR!Closed
  <2>1. d \in Seq(C)
    OBVIOUS
  <2>2. PICK t \in Seq(C) : Best(d, t)
    OBVIOUS
  <2>3. RankStep(0, d, x) \in Seq(C) /\ Best(RankStep(0, d, x), Append(t, x))
    BY <2>1, <2>2, BestStaysFirst
  <2>4. Append(t, x) \in Seq(C)
    BY RangeOfAppend
  <2> QED BY <2>3, <2>4, Zenon
<1>4. \A d \in A : d \in Seq(C)
  OBVIOUS
<1> HIDE DEF A
<1>5. <<>> \in T
  <2>1. sorted(<<>>) = a
    BY <1>2, <1>3, FR!FoldEmpty
  <2> QED BY <1>1, <2>1
<1> HIDE DEF a
<1>6. ASSUME NEW t \in Seq(C), NEW x \in C, t \in T PROVE Append(t, x) \in T
  <2> DEFINE d == sorted(t)
             w == sorted(Append(t, x))
  <2>1. d \in A /\ w = RankStep(0, d, x)
    BY <1>2, <1>3, FR!FoldAppend
  <2>2. Best(d, t)
    BY <1>6
  <2> HIDE DEF d, w
  <2>3. d \in Seq(C)
    BY <1>4, <2>1
  <2>4. Best(w, Append(t, x))
    BY <2>1, <2>2, <2>3, BestStaysFirst
  <2>5. Append(t, x) \in Seq(C)
    BY RangeOfAppend
  <2> QED BY <2>4, <2>5 DEF w
<1>7. scored \in T
  <2> HIDE DEF T
  <2> QED BY <1>5, <1>6, FR!SequenceInduction
<1>8. sorted(scored) \in Seq(C)
  BY <1>2, <1>3, <1>4, FR!FoldType
<1> QED BY <1>7, <1>8 DEF a

\* The references, each with the score of its comparison.
IsReference(x) == IsProfile(x.profile)

\* The best candidate is at least as good as each reference.
LEMMA RankedFacts ==
  ASSUME NEW incoming, IsProfile(incoming), NEW Q, \A x \in Q : IsReference(x),
         NEW references \in Seq(Q), NEW q \in Range(references)
  PROVE  LET ranked == Ranked(incoming, references)
         IN  /\ ranked # <<>>
             /\ ranked[1].score \in Int
             /\ ranked[1].score >= Score(incoming, q.profile)
<1> DEFINE pair(x) == [event |-> x.event, score |-> Score(incoming, x.profile)]
           C == {pair(x) : x \in Q}
           scored == Scored(incoming, references)
           sorted == FR!Fold(0, <<>>, scored)
           ranked == Ranked(incoming, references)
           best == pair(q)
<1>1. \A x \in Q : pair(x).score \in Int
  BY ScoreTypes DEF IsReference
<1>2. \A x \in C : x.score \in Int
  BY <1>1
<1>3. /\ Len(references) \in Nat /\ DOMAIN references = 1..Len(references)
      /\ \A i \in 1..Len(references) : references[i] \in Q
  BY LenProperties, ElementOfSeq
<1>4. scored = [i \in 1..Len(references) |-> pair(references[i])]
  BY <1>3 DEF Scored
<1>5. scored \in Seq(C) /\ Len(scored) = Len(references)
  <2> HIDE DEF scored
  <2>1. scored \in [1..Len(references) -> C]
    BY <1>3, <1>4
  <2> QED BY <1>3, <2>1, SeqDef, LenProperties
<1>6. best \in Range(scored)
  <2>1. PICK i \in 1..Len(references) : references[i] = q
    BY <1>3 DEF Range
  <2>2. scored[i] = best /\ i \in DOMAIN scored
    <3> HIDE DEF scored
    <3> QED BY <1>4, <2>1
  <2> HIDE DEF scored, best
  <2> QED BY <2>2 DEF Range
<1>7. best.score = Score(incoming, q.profile)
  OBVIOUS
<1> HIDE DEF C, scored, best
<1>8. sorted \in Seq(C) /\ Best(sorted, scored)
  BY <1>2, <1>5, SortedBest
<1>9. ranked = SubSeq(sorted, 1, Min({Len(sorted), MaxCandidates}))
  BY RankedIsFold, Zenon DEF scored
<1> HIDE DEF sorted, ranked
<1>10. sorted # <<>> /\ sorted[1].score >= best.score
  <2>1. scored # <<>>
    BY <1>6, RangeOfEmpty
  <2> QED BY <1>6, <1>8, <2>1 DEF Best
<1>11. Len(sorted) \in Nat /\ Len(sorted) # 0
  BY <1>8, <1>10, LenProperties, EmptySeq
<1> DEFINE n == Min({Len(sorted), MaxCandidates})
<1>12. /\ n \in 0..Len(sorted) /\ ranked \in Seq(C) /\ Len(ranked) = n
       /\ \A i \in 1..n : ranked[i] = sorted[i]
  BY <1>8, <1>9, Caps, FirstTypes, Zenon
<1>13. n # 0
  BY <1>11, Caps, Smaller
<1> HIDE DEF n
<1>14. 1 \in 1..n /\ 1 \in 1..Len(sorted)
  BY <1>11, <1>12, <1>13
<1>15. ranked[1] = sorted[1] /\ sorted[1] \in C
  <2>1. ranked[1] = sorted[1]
    BY <1>12, <1>14
  <2>2. sorted[1] \in C
    BY <1>8, <1>14, ElementOfSeq
  <2> QED BY <2>1, <2>2
<1>16. ranked # <<>>
  BY <1>12, <1>13, EmptySeq
<1> QED BY <1>2, <1>7, <1>10, <1>15, <1>16 DEF ranked

-----------------------------------------------------------------------------
\* The rows that are left by the window and the limit are rows.
LEMMA LoadedFacts ==
  ASSUME NEW S, NEW rows \in Seq(S), NEW time
  PROVE  /\ Loaded(rows, time) \in Seq(S)
         /\ \A e : Once(rows, e) => Once(Loaded(rows, time), e)
<1> DEFINE D == {r \in Range(rows) : ~r.active \/ r.firstDetected < time - LookbackDays}
           recent == Without(rows, D)
           n == Min({Len(recent), MaxRows})
<1>1. recent \in Seq(S) /\ \A e : Once(rows, e) => Once(recent, e)
  <2> HIDE DEF D
  <2> QED BY WithoutFacts, OnceWithout
<1>2. Loaded(rows, time) = SubSeq(recent, 1, n)
  BY DEF Loaded
<1> HIDE DEF recent
<1>3. n \in 0..Len(recent) /\ SubSeq(recent, 1, n) \in Seq(S)
  BY <1>1, Caps, FirstTypes
<1> HIDE DEF n
<1>4. \A e : Once(recent, e) => Once(SubSeq(recent, 1, n), e)
  BY <1>1, <1>3, OncePrefix
<1> QED BY <1>1, <1>2, <1>3, <1>4

\* Every row is of some event, whose reference can be compared.
LEMMA ReferencesTypes ==
  ASSUME NEW E, NEW W, NEW rows \in Seq(RowsOver(E, W)), NEW e \in {r.event : r \in Range(rows)}
  PROVE  IsReference(Reference(RowsOf(rows, e)))
<1> DEFINE R == RowsOver(E, W)
           D == {r \in Range(rows) : r.event # e}
           own == Without(rows, D)
<1>1. PICK r \in Range(rows) : r.event = e
  OBVIOUS
<1>2. r \notin D
  BY <1>1
<1> HIDE DEF D, R
<1>3. own \in Seq(R) /\ Range(own) = Range(rows) \ D
  BY WithoutFacts DEF R
<1> HIDE DEF own
<1>4. own # <<>>
  BY <1>2, <1>3, RangeOfEmpty
<1>5. IsProfile(Reference(own).profile)
  BY <1>3, <1>4, ReferenceTypes DEF R
<1>6. RowsOf(rows, e) = own
  BY DEF RowsOf, own, D
<1> QED BY <1>5, <1>6 DEF IsReference

\* A candidate at the threshold or above decides for an event.
LEMMA DecideJoins ==
  ASSUME NEW ranked, ranked # <<>>, ranked[1].score >= CandidateThreshold,
         ranked[1].score \in Int
  PROVE  Decide(ranked).state # "provisional"
<1>1. CandidateThreshold \in Int
  BY DEF CandidateThreshold, Hundredths, Unit
<1>2. ~(ranked[1].score < CandidateThreshold)
  BY <1>1
<1> DEFINE a == Len(ranked) > 1 /\ ranked[1].score - ranked[2].score < AmbiguityMargin
           c == ranked[1].score >= ConfirmedThreshold /\ ~a
<1>3. Decide(ranked) = [state |-> IF c THEN "confirmed" ELSE "candidate", event |-> <<ranked[1].event>>]
  BY <1>2 DEF Decide
<1> HIDE DEF c
<1> QED BY <1>3

\* _decide_event, whatever the words, the events and the rows: the copy of the only
\* version of an event that it loads is assigned to some event and founds none, if its
\* phrases are not matched otherwise behind a second title.
THEOREM CopyIsAssigned ==
  ASSUME NEW E, NEW W, NEW rows \in Seq(RowsOver(E, W)), NEW observed \in Int,
         NEW title \in Seq(W), NEW text \in Seq(W), NEW published,
         NEW time \in Int, time = IF published = NoTime THEN observed ELSE published,
         NEW r \in Range(Loaded(rows, time)), Once(Loaded(rows, time), r.event),
         r.eventTitle = title, r.articleTitle = title, r.text = text,
         Len(text) <= TextCap, Distance(r.observed, time) <= LookbackDays,
         KeepsPhrases(title, Profile(title, text, time).entities),
         Profile(title, text, time).titleShingles # {},
         Cardinality(Profile(title, text, time).contentShingles) >= 2
  PROVE  DecideEvent([title |-> title, text |-> text, published |-> published], observed, rows).state
           # "provisional"
<1> DEFINE R == RowsOver(E, W)
           loaded == Loaded(rows, time)
           named == {s.event : s \in Range(loaded)}
           all == {Reference(RowsOf(loaded, e)) : e \in named}
           references == References(loaded)
           incoming == Profile(title, text, time)
           q == Reference(<<r>>)
           ranked == Ranked(incoming, references)
<1>1. loaded \in Seq(R)
  BY LoadedFacts
<1>2. r \in Range(loaded) /\ Once(loaded, r.event)
  OBVIOUS
<1>3. DecideEvent([title |-> title, text |-> text, published |-> published], observed, rows)
        = Decide(ranked)
  BY DEF DecideEvent
<1> HIDE DEF loaded
<1>4. r \in R
  BY <1>1, <1>2, RangeOfSeq
<1>5. RowsOf(loaded, r.event) = <<r>>
  BY <1>1, <1>2, OnlyRow
<1>6. references \in Seq(all) /\ Range(references) = all
  BY <1>1, ReferencesFacts, Zenon
<1>7. \A x \in all : IsReference(x)
  BY <1>1, ReferencesTypes
<1>8. q \in all
  BY <1>2, <1>5
<1>9. q.profile = Profile(title, title \o text, r.observed)
  BY <1>4, ReferenceOfOne
<1>10. IsProfile(incoming)
  BY ProfileTypes
<1>11. Score(incoming, q.profile) >= CandidateThreshold
  <2>1. r.observed \in Int
    BY <1>4 DEF RowsOver
  <2>2. Distance(time, r.observed) <= LookbackDays
    BY <2>1 DEF Distance
  <2> QED BY <1>9, <2>1, <2>2, CopyScores, SMTT(30)
<1>12. Score(incoming, q.profile) \in Int
  BY <1>7, <1>8, <1>10, ScoreTypes DEF IsReference
<1>13. CandidateThreshold \in Int
  BY DEF CandidateThreshold, Hundredths, Unit
<1> HIDE DEF incoming, references, all, q
<1>14. ranked # <<>> /\ ranked[1].score \in Int /\ ranked[1].score >= Score(incoming, q.profile)
  BY <1>6, <1>7, <1>8, <1>10, RankedFacts
<1> HIDE DEF ranked
<1>15. ranked[1].score >= CandidateThreshold
  BY <1>11, <1>12, <1>13, <1>14
<1> QED BY <1>3, <1>14, <1>15, DecideJoins

-----------------------------------------------------------------------------
\* An event that only the row in the middle is of.
LEMMA OnceBetween ==
  ASSUME NEW S, NEW s \in Seq(S), NEW x \in S, NEW t \in Seq(S),
         \A y \in Range(s) \cup Range(t) : y.event # x.event
  PROVE  s \o <<x>> \o t \in Seq(S) /\ Once(s \o <<x>> \o t, x.event)
<1> DEFINE o == Append(s, x)
           n == Len(o)
           l == Len(t)
           w == o \o t
<1>1. o = s \o <<x>>
  BY AppendIsConcat
<1>2. o \in Seq(S) /\ Range(o) = Range(s) \cup {x}
  BY RangeOfAppend
<1>3. Once(s, x.event)
  <2>1. \A i \in 1..Len(s) : s[i] \in Range(s)
    BY RangeEquality
  <2> QED BY <2>1 DEF Once
<1>4. Once(o, x.event)
  BY <1>3, OnceOfAppend
<1> HIDE DEF o
<1>5. n \in Nat /\ l \in Nat
  BY <1>2, LenProperties
<1>6. /\ w \in Seq(S) /\ Len(w) = n + l
      /\ \A i \in 1..(n + l) : w[i] = IF i <= n THEN o[i] ELSE t[i - n]
  BY <1>2, ConcatProperties
<1>7. \A i \in 1..l : t[i] \in Range(t)
  BY RangeEquality
<1> HIDE DEF n, l, w
<1>8. ASSUME NEW i \in 1..(n + l), w[i].event = x.event PROVE i \in 1..n /\ w[i] = o[i]
  <2>1. CASE i <= n
    BY <1>5, <1>6, <2>1
  <2>2. CASE ~(i <= n)
    <3>1. i - n \in 1..l
      BY <1>5, <2>2
    <3>2. w[i] \in Range(t)
      BY <1>6, <1>7, <2>2, <3>1
    <3> QED BY <1>8, <3>2
  <2> QED BY <2>1, <2>2
<1>9. Once(w, x.event)
  <2> SUFFICES ASSUME NEW i \in 1..(n + l), NEW j \in 1..(n + l),
                      w[i].event = x.event, w[j].event = x.event
               PROVE  i = j
    BY <1>6 DEF Once
  <2>1. i \in 1..n /\ j \in 1..n /\ o[i].event = x.event /\ o[j].event = x.event
    BY <1>8
  <2> QED BY <1>4, <2>1 DEF Once, n
<1> QED BY <1>1, <1>6, <1>9, Zenon DEF w

\* The sequences up to a length are sequences.
LEMMA BoundedSequences ==
  ASSUME NEW S, NEW n \in Nat
  PROVE  BoundedSeq(S, n) \subseteq Seq(S)
<1> SUFFICES ASSUME NEW s \in BoundedSeq(S, n) PROVE s \in Seq(S)
  OBVIOUS
<1>1. PICK m \in 0..n : s \in [1..m -> S]
  BY DEF BoundedSeq, SeqOf
<1> QED BY <1>1, SeqDef

\* Rows whose article has the title of its event.
RowsOfFirsts == {r \in RowsOver({"original", "rival", "other"}, Nat) : r.eventTitle = r.articleTitle}

IsCopy(a, rows) ==
  /\ a = [title |-> a.title, text |-> a.text, published |-> a.published]
  /\ a.title \in Seq(Nat) /\ a.text \in Seq(Nat) /\ a.published \in {NoTime, Today}
  /\ rows \in Seq(RowsOfFirsts) /\ Once(rows, "original")

\* The articles that the run enumerates are such.
LEMMA CopyTypes == \A copy \in Copies : IsCopy(copy.article, copy.rows)
<1> SUFFICES ASSUME NEW copy \in Copies PROVE IsCopy(copy.article, copy.rows)
  OBVIOUS
<1> DEFINE R == RowsOfFirsts
<1>1. PICK title \in Titles, text \in Texts, published \in {NoTime, Today}, seen \in Seen,
           before \in Rivals, after \in Others :
             copy = Copy(title, text, published, seen, before, after)
  BY DEF Copies
<1>2. title \in Seq(Nat)
  <2>1. /\ <<1>> \in Seq(Nat) /\ <<1, 2>> \in Seq(Nat) /\ <<1, 9>> \in Seq(Nat)
        /\ <<4, 1>> \in Seq(Nat) /\ <<1, 4>> \in Seq(Nat) /\ <<4, 5>> \in Seq(Nat)
    OBVIOUS
  <2>2. <<5, 1, 5>> \in Seq(Nat) /\ <<4, 5, 1, 4, 4, 4>> \in Seq(Nat)
    OBVIOUS
  <2> QED BY <2>1, <2>2, Zenon DEF Titles
<1>3. text \in Seq(Nat)
  <2>1. BoundedSeq({1, 3, 4, 9}, 3) \subseteq Seq({1, 3, 4, 9})
    BY BoundedSequences
  <2>2. Seq({1, 3, 4, 9}) \subseteq Seq(Nat)
    BY SeqMonotonic
  <2>3. <<4, 5, 3>> \in Seq(Nat) /\ <<5, 1, 2>> \in Seq(Nat) /\ <<1, 4, 4, 5>> \in Seq(Nat)
    OBVIOUS
  <2> QED BY <2>1, <2>2, <2>3, Zenon DEF Texts
<1>4. Today \in Int /\ seen \in Int
  BY DEF Today, Seen
<1>5. ASSUME NEW e \in {"original", "rival", "other"}, NEW h \in Seq(Nat), NEW t \in Seq(Nat), NEW d \in Int
      PROVE  Row(e, h, t, d) \in R /\ Row(e, h, t, d).event = e
  BY DEF Row, RowsOfFirsts, RowsOver
<1> DEFINE x == Row("original", title, text, seen)
           y == Row("rival", <<1, 2>>, <<3, 4, 8>>, Today)
           z == Row("other", <<6>>, <<3, 7>>, Today - 2)
<1>6. x \in R /\ x.event = "original"
  BY <1>2, <1>3, <1>4, <1>5
<1>7. y \in R /\ y.event = "rival"
  <2>1. <<1, 2>> \in Seq(Nat) /\ <<3, 4, 8>> \in Seq(Nat)
    OBVIOUS
  <2> QED BY <1>4, <1>5, <2>1, ZenonT(60)
<1>8. z \in R /\ z.event = "other"
  <2>1. <<6>> \in Seq(Nat) /\ <<3, 7>> \in Seq(Nat) /\ Today - 2 \in Int
    BY <1>4
  <2> QED BY <1>5, <2>1, Zenon
<1>9. before \in {<<>>, <<y>>} /\ after \in {<<>>, <<z>>}
  BY DEF Rivals, Others
<1> HIDE DEF x, y, z, R
<1>10. before \in Seq(R) /\ after \in Seq(R)
  <2>1. <<>> \in Seq(R) /\ <<y>> \in Seq(R) /\ <<z>> \in Seq(R)
    BY <1>7, <1>8
  <2> QED BY <1>9, <2>1, Zenon
<1>11. Range(before) \subseteq {y} /\ Range(after) \subseteq {z}
  <2>1. ASSUME NEW v PROVE Range(<<v>>) = {v}
    BY DEF Range
  <2> QED BY <1>9, <2>1, RangeOfEmpty
<1>12. \A v \in Range(before) \cup Range(after) : v.event # x.event
  BY <1>6, <1>7, <1>8, <1>11
<1>13. before \o <<x>> \o after \in Seq(R) /\ Once(before \o <<x>> \o after, "original")
  BY <1>6, <1>10, <1>12, OnceBetween
<1>14. copy.rows = before \o <<x>> \o after
  BY <1>1 DEF Copy, x
<1>15. copy.article = [title |-> title, text |-> text, published |-> published]
  BY <1>1 DEF Copy
<1> QED BY <1>2, <1>3, <1>13, <1>14, <1>15 DEF IsCopy, R

InputIsCopy == study = "event" => IsCopy(input.article, input.rows)

\* Next leaves the study of articles alone.
LEMMA CopyStays == Spec => []InputIsCopy
<1>1. Init => InputIsCopy
  BY CopyTypes DEF Init, InputIsCopy
<1>2. InputIsCopy /\ [Next]_vars => InputIsCopy'
  <2> SUFFICES ASSUME InputIsCopy, [Next]_vars PROVE InputIsCopy'
    OBVIOUS
  <2>1. CASE Next
    <3>1. study' = "page"
      BY <2>1, Zenon DEF Next, OpenElement, OpenNav, CloseElement, ReadText, Consume
    <3> QED BY <3>1 DEF InputIsCopy
  <2>2. CASE UNCHANGED vars
    BY <2>2 DEF vars, InputIsCopy, IsCopy, Once
  <2> QED BY <2>1, <2>2
<1> QED BY <1>1, <1>2, PTL DEF Spec

\* The copy of the only version of a recent event joins an event.
THEOREM CopyAlwaysJoinsItsEvent == Spec => []CopyJoinsItsEvent
<1>1. InputIsCopy => CopyJoinsItsEvent
  <2> DEFINE a == input.article
             time == IF a.published = NoTime THEN Today ELSE a.published
             profile == Profile(a.title, a.text, time)
             loaded == Loaded(input.rows, time)
  <2> SUFFICES ASSUME InputIsCopy, study = "event", NEW r \in Range(loaded),
                      r.event = "original", r.articleTitle = a.title, r.text = a.text,
                      Distance(r.observed, time) <= LookbackDays,
                      Len(a.text) <= TextCap, KeepsPhrases(a.title, profile.entities),
                      profile.titleShingles # {},
                      Cardinality(profile.contentShingles) >= 2
               PROVE  DecideEvent(a, Today, input.rows).state # "provisional"
    BY DEF CopyJoinsItsEvent
  <2>1. IsCopy(a, input.rows)
    BY DEF InputIsCopy
  <2> DEFINE title == a.title
             text == a.text
             published == a.published
             rows == input.rows
  <2>2. /\ a = [title |-> title, text |-> text, published |-> published]
        /\ title \in Seq(Nat) /\ text \in Seq(Nat) /\ published \in {NoTime, Today}
        /\ rows \in Seq(RowsOfFirsts) /\ Once(rows, "original")
    BY <2>1 DEF IsCopy
  <2>3. Today \in Int /\ time \in Int
    BY <2>2 DEF Today
  <2>4. r \in RowsOfFirsts /\ Once(loaded, r.event)
    <3>1. loaded \in Seq(RowsOfFirsts) /\ Once(loaded, "original")
      BY <2>2, LoadedFacts
    <3> HIDE DEF loaded
    <3> QED BY <3>1, RangeOfSeq
  <2>5. r.eventTitle = title
    BY <2>4 DEF RowsOfFirsts
  <2> DEFINE E == {"original", "rival", "other"}
  <2>6. rows \in Seq(RowsOver(E, Nat))
    <3>1. RowsOfFirsts \subseteq RowsOver(E, Nat)
      BY DEF RowsOfFirsts
    <3> HIDE DEF E, rows
    <3> QED BY <2>2, <3>1, SeqMonotonic
  <2> HIDE DEF E, time
  <2>7. DecideEvent([title |-> title, text |-> text, published |-> published], Today, rows).state
          # "provisional"
    <3>1. time = IF published = NoTime THEN Today ELSE published
      BY DEF time
    <3>2. r \in Range(Loaded(rows, time)) /\ Once(Loaded(rows, time), r.event)
      BY <2>4
    <3>3. r.eventTitle = title /\ r.articleTitle = title /\ r.text = text
      BY <2>5
    <3>4. /\ Len(text) <= TextCap /\ Distance(r.observed, time) <= LookbackDays
          /\ KeepsPhrases(title, Profile(title, text, time).entities)
          /\ Profile(title, text, time).titleShingles # {}
          /\ Cardinality(Profile(title, text, time).contentShingles) >= 2
      OBVIOUS
    <3> HIDE DEF title, text, published, rows, a, loaded, profile
    <3>5. title \in Seq(Nat) /\ text \in Seq(Nat) /\ rows \in Seq(RowsOver(E, Nat))
      BY <2>2, <2>6
    <3> QED BY <2>3, <3>1, <3>2, <3>3, <3>4, <3>5, CopyIsAssigned, ZenonT(60)
  <2> QED BY <2>2, <2>7
<1> QED BY <1>1, CopyStays, PTL

(***************************************************************************)
(* PageReading                                                             *)
(***************************************************************************)

\* The names of elements; a text has none.
ElementNames == SkipTags \cup BlockTags \cup NeverSkipped \cup {"", "div", "section", "span"}

\* What the parser is given, but for the title and the scripts, whose text is no block's.
PageTokens ==
  {t \in [kind : {"open", "close", "text"}, tag : ElementNames, marked : BOOLEAN, ld : BOOLEAN,
          text : Seq(Nat)] : t.tag \notin {"title", "script"}}

IsPage(page) == page \in Seq(PageTokens)

\* How much deeper a token leads.
Deeper(t) == IF t.kind = "open" THEN 1 ELSE IF t.kind = "close" THEN -1 ELSE 0

\* The last token of a longer page, and the others.
LEMMA LastToken ==
  ASSUME NEW page, IsPage(page), NEW t \in PageTokens
  PROVE  LET more == Append(page, t) IN
         /\ IsPage(more) /\ Len(page) \in Nat /\ Len(more) = Len(page) + 1
         /\ DOMAIN page = 1..Len(page) /\ DOMAIN more = 1..(Len(page) + 1)
         /\ more[Len(page) + 1] = t
         /\ \A i \in 1..Len(page) : more[i] = page[i] /\ page[i] \in PageTokens
BY AppendProperties, LenProperties, ElementOfSeq DEF IsPage

\* A set of positions counts one more when it gains one.
LEMMA CountNext ==
  ASSUME NEW k \in Nat, NEW S, S \subseteq 1..(k + 1)
  PROVE  /\ Cardinality(S) \in Nat /\ Cardinality(S \cap 1..k) \in Nat
         /\ Cardinality(S) = Cardinality(S \cap 1..k) + (IF k + 1 \in S THEN 1 ELSE 0)
<1> DEFINE T == S \cap 1..k
<1>1. IsFiniteSet(1..(k + 1))
  BY FS_Interval
<1>2. IsFiniteSet(S) /\ IsFiniteSet(T)
  BY <1>1, FS_Subset, Zenon
<1>3. Cardinality(S) \in Nat /\ Cardinality(T) \in Nat
  BY <1>2, FS_CardinalityType
<1>0. 1..(k + 1) = 1..k \cup {k + 1} /\ k + 1 \notin 1..k
  OBVIOUS
<1>4. S \ {k + 1} = T
  BY <1>0, Zenon
<1>5. k + 1 \notin T
  BY <1>0
<1> HIDE DEF T
<1>6. Cardinality(S) = Cardinality(T) + (IF k + 1 \in S THEN 1 ELSE 0)
  <2>1. CASE k + 1 \in S
    <3>1. S = T \cup {k + 1}
      BY <1>4, <2>1
    <3>2. Cardinality(S) = Cardinality(T) + 1
      BY <1>2, <1>5, <3>1, FS_AddElement
    <3> QED BY <2>1, <3>2
  <2>2. CASE k + 1 \notin S
    <3>1. S = T
      BY <1>4, <2>2
    <3> QED BY <1>3, <2>2, <3>1
  <2> QED BY <2>1, <2>2
<1> QED BY <1>3, <1>6 DEF T

\* Depth counts the tags, token by token.
LEMMA DepthNext ==
  ASSUME NEW page, IsPage(page), NEW k \in Nat, k + 1 \in 1..Len(page)
  PROVE  Depth(page, k + 1) = Depth(page, k) + Deeper(page[k + 1]) /\ Depth(page, k) \in Int
<1> DEFINE at(kind, n) == {i \in 1..n : page[i].kind = kind}
<1>1. \A kind : at(kind, k + 1) \subseteq 1..(k + 1) /\ at(kind, k) = at(kind, k + 1) \cap 1..k
  OBVIOUS
<1>2. \A kind : k + 1 \in at(kind, k + 1) <=> page[k + 1].kind = kind
  OBVIOUS
<1> HIDE DEF at
<1>3. ASSUME NEW kind
      PROVE  /\ Cardinality(at(kind, k)) \in Nat
             /\ Cardinality(at(kind, k + 1))
                  = Cardinality(at(kind, k)) + (IF page[k + 1].kind = kind THEN 1 ELSE 0)
  BY <1>1, <1>2, CountNext
<1>4. /\ Depth(page, k) = Cardinality(at("open", k)) - Cardinality(at("close", k))
      /\ Depth(page, k + 1) = Cardinality(at("open", k + 1)) - Cardinality(at("close", k + 1))
  BY DEF Depth, at
<1> QED BY <1>3, <1>4 DEF Deeper

\* No token, no depth.
LEMMA DepthStart == \A page : Depth(page, 0) = 0
<1>1. \A page : {i \in 1..0 : page[i].kind = "open"} = {} /\ {i \in 1..0 : page[i].kind = "close"} = {}
  OBVIOUS
<1> QED BY <1>1, FS_EmptySet DEF Depth

\* What was read stays as deep as it was.
LEMMA DepthStays ==
  ASSUME NEW page, IsPage(page), NEW t \in PageTokens, NEW k \in 0..Len(page)
  PROVE  Depth(Append(page, t), k) = Depth(page, k)
<1> DEFINE more == Append(page, t)
<1>1. \A i \in 1..k : more[i] = page[i]
  BY LastToken
<1>2. \A kind : {i \in 1..k : more[i].kind = kind} = {i \in 1..k : page[i].kind = kind}
  BY <1>1
<1> QED BY <1>2, Zenon DEF Depth

\* The depth of the page, and of the page with one more token.
LEMMA DepthLast ==
  ASSUME NEW page, IsPage(page), NEW t \in PageTokens
  PROVE  /\ Depth(Append(page, t), Len(page) + 1) = Depth(page, Len(page)) + Deeper(t)
         /\ Depth(page, Len(page)) \in Int
<1> DEFINE more == Append(page, t)
           n == Len(page)
<1>1. IsPage(more) /\ n \in Nat /\ Len(more) = n + 1 /\ more[n + 1] = t
  BY LastToken
<1>2. Depth(more, n) = Depth(page, n)
  BY <1>1, DepthStays
<1> HIDE DEF more, n
<1>3. Depth(more, n + 1) = Depth(more, n) + Deeper(more[n + 1]) /\ Depth(more, n) \in Int
  BY <1>1, DepthNext
<1> QED BY <1>1, <1>2, <1>3 DEF more, n

-----------------------------------------------------------------------------
\* What was open stays so, whatever comes later.
LEMMA OpenStays ==
  ASSUME NEW page, IsPage(page), NEW t \in PageTokens, NEW k \in 0..Len(page), NEW i \in Nat \ {0}
  PROVE  IsOpen(Append(page, t), i, k) <=> IsOpen(page, i, k)
<1> DEFINE more == Append(page, t)
<1>1. CASE i <= k
  <2>1. more[i] = page[i] /\ Len(page) \in Nat
    BY <1>1, LastToken
  <2>2. \A j \in i..k : j \in 0..Len(page)
    BY <2>1
  <2>3. i \in 0..Len(page)
    BY <1>1, <2>1
  <2>4. Depth(more, i) = Depth(page, i) /\ \A j \in i..k : Depth(more, j) = Depth(page, j)
    BY <2>2, <2>3, DepthStays
  <2> HIDE DEF more
  <2> QED BY <2>1, <2>4 DEF IsOpen, more
<1>2. CASE ~(i <= k)
  BY <1>2 DEF IsOpen
<1> QED BY <1>1, <1>2

\* What is open after one more token.
LEMMA OpenNext ==
  ASSUME NEW page, IsPage(page), NEW t \in PageTokens
  PROVE  LET n == Len(page)
             more == Append(page, t)
         IN  /\ \A i \in 1..n : IsOpen(more, i, n + 1)
                                 <=> IsOpen(page, i, n) /\ Depth(more, n + 1) >= Depth(page, i)
             /\ IsOpen(more, n + 1, n + 1) <=> t.kind = "open"
<1> DEFINE more == Append(page, t)
           n == Len(page)
<1>1. n \in Nat /\ more[n + 1] = t
  BY LastToken
<1>2. Depth(more, n + 1) \in Int
  BY DepthLast DEF Deeper
<1>3. ASSUME NEW i \in 1..n
      PROVE  IsOpen(more, i, n + 1) <=> IsOpen(page, i, n) /\ Depth(more, n + 1) >= Depth(page, i)
  <2>1. IsOpen(more, i, n) <=> IsOpen(page, i, n)
    BY <1>1, OpenStays
  <2>2. Depth(more, i) = Depth(page, i)
    BY <1>1, DepthStays
  <2>3. i..(n + 1) = i..n \cup {n + 1} /\ i <= n
    BY <1>1
  <2> HIDE DEF more, n
  <2>4. IsOpen(more, i, n + 1) <=> IsOpen(more, i, n) /\ Depth(more, n + 1) >= Depth(more, i)
    BY <1>1, <2>3 DEF IsOpen
  <2> QED BY <2>1, <2>2, <2>4
<1>4. IsOpen(more, n + 1, n + 1) <=> t.kind = "open"
  <2>1. (n + 1)..(n + 1) = {n + 1}
    BY <1>1
  <2> HIDE DEF more, n
  <2> QED BY <1>1, <1>2, <2>1 DEF IsOpen
<1> QED BY <1>3, <1>4

\* A page that ends nothing it has not begun, and whose open elements stand one in the other.
Nested(page) ==
  /\ \A k \in 0..Len(page) : Depth(page, k) \in Nat
  /\ \A d \in 1..Depth(page, Len(page)) : \E i \in Unclosed(page) : Depth(page, i) = d

\* An open element is in those that were opened before it.
LEMMA Nesting ==
  ASSUME NEW page, IsPage(page), Nested(page), NEW i \in Unclosed(page)
  PROVE  /\ i \in 1..Len(page) /\ Depth(page, i) \in 1..Depth(page, Len(page))
         /\ \A j \in Unclosed(page) : i < j => Depth(page, i) < Depth(page, j)
<1> DEFINE n == Len(page)
<1>1. n \in Nat /\ DOMAIN page = 1..n
  BY LenProperties DEF IsPage
<1>2. ASSUME NEW j \in Unclosed(page)
      PROVE  /\ j \in 1..n /\ j - 1 \in 0..n /\ page[j].kind = "open"
             /\ Depth(page, j) \in Nat /\ Depth(page, j - 1) \in Nat
             /\ Depth(page, j) = Depth(page, j - 1) + 1
             /\ \A m \in j..n : Depth(page, m) >= Depth(page, j)
  <2>1. j \in 1..n /\ page[j].kind = "open" /\ \A m \in j..n : Depth(page, m) >= Depth(page, j)
    BY <1>1 DEF Unclosed, IsOpen
  <2> DEFINE k == j - 1
  <2>2. k \in Nat /\ k + 1 = j /\ k \in 0..n /\ j \in 0..n
    BY <1>1, <2>1
  <2> HIDE DEF k
  <2>3. Depth(page, k + 1) = Depth(page, k) + Deeper(page[k + 1])
    BY <2>1, <2>2, DepthNext
  <2>4. Depth(page, k) \in Nat /\ Depth(page, j) \in Nat
    BY <2>2 DEF Nested
  <2> QED BY <2>1, <2>2, <2>3, <2>4 DEF Deeper, k
<1>3. Depth(page, i) \in 1..Depth(page, n)
  <2>1. n \in i..n /\ n \in 0..n
    BY <1>1, <1>2
  <2>2. Depth(page, n) \in Nat
    BY <2>1 DEF Nested
  <2> QED BY <1>2, <2>1, <2>2
<1>4. ASSUME NEW j \in Unclosed(page), i < j PROVE Depth(page, i) < Depth(page, j)
  <2>1. i \in 1..n /\ j \in 1..n
    BY <1>2
  <2>2. j - 1 \in i..n
    BY <1>1, <1>4, <2>1
  <2>3. Depth(page, j - 1) >= Depth(page, i)
    BY <1>2, <2>2
  <2> QED BY <1>2, <2>3
<1> QED BY <1>2, <1>3, <1>4

\* The innermost element is the last of those that are open.
LEMMA InnermostOpen ==
  ASSUME NEW page, IsPage(page), Nested(page), Depth(page, Len(page)) > 0
  PROVE  LET top == Max(Unclosed(page)) IN
         /\ top \in Unclosed(page) /\ \A i \in Unclosed(page) : i <= top
         /\ Depth(page, top) = Depth(page, Len(page))
<1> DEFINE n == Len(page)
           d == Depth(page, n)
<1>1. n \in Nat /\ n \in 0..n
  BY LenProperties DEF IsPage
<1>2. d \in Nat /\ d \in 1..d
  BY <1>1 DEF Nested
<1>3. PICK top \in Unclosed(page) : Depth(page, top) = d
  BY <1>2 DEF Nested
<1>4. \A i \in Unclosed(page) : i \in 1..n /\ Depth(page, i) \in 1..d
  BY Nesting
<1>5. ASSUME NEW i \in Unclosed(page) PROVE i <= top
  <2>1. top < i => Depth(page, top) < Depth(page, i)
    BY Nesting
  <2> QED BY <1>2, <1>3, <1>4, <2>1
<1>6. top = Max(Unclosed(page))
  <2>1. \A x \in Unclosed(page) : (\A y \in Unclosed(page) : x >= y) => x = top
    BY <1>4, <1>5
  <2>2. \A y \in Unclosed(page) : top >= y
    BY <1>4, <1>5
  <2> QED BY <2>1, <2>2 DEF Max
<1> QED BY <1>3, <1>5, <1>6

\* The elements that are open after one more token.
LEMMA UnclosedNext ==
  ASSUME NEW page, IsPage(page), Nested(page), NEW t \in PageTokens,
         t.kind = "close" => Depth(page, Len(page)) > 0
  PROVE  /\ Nested(Append(page, t))
         /\ t.kind = "open" => Unclosed(Append(page, t)) = Unclosed(page) \cup {Len(page) + 1}
         /\ t.kind = "text" => Unclosed(Append(page, t)) = Unclosed(page)
         /\ t.kind = "close" => Unclosed(Append(page, t)) = Unclosed(page) \ {Max(Unclosed(page))}
<1> DEFINE n == Len(page)
           more == Append(page, t)
           d == Depth(page, n)
           top == Max(Unclosed(page))
<1>1. n \in Nat /\ IsPage(more) /\ Len(more) = n + 1 /\ DOMAIN more = 1..(n + 1) /\ DOMAIN page = 1..n
  BY LastToken
<1>2. Depth(more, n + 1) = d + Deeper(t)
  BY DepthLast
<1>3. d \in Nat /\ \A k \in 0..n : Depth(page, k) \in Nat
  BY <1>1 DEF Nested
<1>4. \A k \in 0..n : Depth(more, k) = Depth(page, k)
  BY DepthStays
<1>5. \A i \in 1..n : IsOpen(more, i, n + 1) <=> IsOpen(page, i, n) /\ Depth(more, n + 1) >= Depth(page, i)
  BY OpenNext
<1>6. IsOpen(more, n + 1, n + 1) <=> t.kind = "open"
  BY OpenNext
<1>7. \A i \in Unclosed(page) : i \in 1..n /\ IsOpen(page, i, n) /\ Depth(page, i) \in 1..d
  BY Nesting DEF Unclosed
<1>8. \A i \in 1..n : i \in Unclosed(page) <=> IsOpen(page, i, n)
  BY <1>1 DEF Unclosed
<1>9. \A i : i \in Unclosed(more) <=> i \in 1..(n + 1) /\ IsOpen(more, i, n + 1)
  BY <1>1 DEF Unclosed
<1>10. t.kind \in {"open", "close", "text"}
  BY DEF PageTokens
<1>11. t.kind = "close" => /\ top \in Unclosed(page) /\ Depth(page, top) = d /\ d > 0
                           /\ \A i \in Unclosed(page) : i <= top
  BY InnermostOpen
<1>12. \A i, j \in Unclosed(page) : i < j => Depth(page, i) < Depth(page, j)
  BY Nesting
<1> HIDE DEF more, n, top, d
<1>13. 1..(n + 1) = 1..n \cup {n + 1}
  BY <1>1
<1>14. t.kind = "open" => Unclosed(more) = Unclosed(page) \cup {n + 1}
  <2> SUFFICES ASSUME t.kind = "open" PROVE Unclosed(more) = Unclosed(page) \cup {n + 1}
    OBVIOUS
  <2>1. \A i \in Unclosed(page) : Depth(more, n + 1) >= Depth(page, i)
    BY <1>2, <1>3, <1>7 DEF Deeper
  <2>2. ASSUME NEW i PROVE i \in Unclosed(more) <=> i \in Unclosed(page) \cup {n + 1}
    BY <1>1, <1>5, <1>6, <1>7, <1>8, <1>9, <1>13, <2>1
  <2> QED BY <2>2
<1>15. t.kind = "text" => Unclosed(more) = Unclosed(page)
  <2> SUFFICES ASSUME t.kind = "text" PROVE Unclosed(more) = Unclosed(page)
    OBVIOUS
  <2>1. \A i \in Unclosed(page) : Depth(more, n + 1) >= Depth(page, i)
    BY <1>2, <1>3, <1>7 DEF Deeper
  <2>2. ASSUME NEW i PROVE i \in Unclosed(more) <=> i \in Unclosed(page)
    BY <1>1, <1>5, <1>6, <1>7, <1>8, <1>9, <1>13, <2>1
  <2> QED BY <2>2
<1>16. t.kind = "close" => Unclosed(more) = Unclosed(page) \ {top}
  <2> SUFFICES ASSUME t.kind = "close" PROVE Unclosed(more) = Unclosed(page) \ {top}
    OBVIOUS
  <2>1. \A i \in Unclosed(page) : Depth(more, n + 1) >= Depth(page, i) <=> i # top
    <3> SUFFICES ASSUME NEW i \in Unclosed(page)
                 PROVE  Depth(more, n + 1) >= Depth(page, i) <=> i # top
      OBVIOUS
    <3>1. Depth(more, n + 1) = d - 1
      BY <1>2, <1>3 DEF Deeper
    <3>2. i # top => i < top
      BY <1>1, <1>7, <1>11
    <3>3. i # top => Depth(page, i) < d
      BY <1>11, <1>12, <3>2
    <3> QED BY <1>3, <1>7, <1>11, <3>1, <3>3
  <2>2. ASSUME NEW i PROVE i \in Unclosed(more) <=> i \in Unclosed(page) \ {top}
    BY <1>1, <1>5, <1>6, <1>7, <1>8, <1>9, <1>13, <2>1
  <2> QED BY <2>2
<1>17. Nested(more)
  <2>1. Depth(more, n + 1) \in Nat
    BY <1>2, <1>3, <1>10, <1>11 DEF Deeper
  <2>2. \A k \in 0..(n + 1) : k \in 0..n \/ k = n + 1
    BY <1>1
  <2>3. \A k \in 0..(n + 1) : Depth(more, k) \in Nat
    BY <1>3, <1>4, <2>1, <2>2
  <2>4. ASSUME NEW e \in 1..Depth(more, n + 1) PROVE \E i \in Unclosed(more) : Depth(more, i) = e
    <3>1. CASE e \in 1..d
      <4>1. PICK i \in Unclosed(page) : Depth(page, i) = e
        BY <3>1 DEF Nested, d, n
      <4>2. i \in Unclosed(more)
        BY <1>1, <1>5, <1>7, <1>9, <1>13, <4>1
      <4>3. Depth(more, i) = e
        BY <1>1, <1>4, <1>7, <4>1
      <4> QED BY <4>2, <4>3
    <3>2. CASE e \notin 1..d
      <4>1. e = d + 1 /\ t.kind = "open"
        BY <1>2, <1>3, <1>10, <3>2 DEF Deeper
      <4>2. n + 1 \in Unclosed(more) /\ Depth(more, n + 1) = e
        BY <1>2, <1>14, <4>1 DEF Deeper
      <4> QED BY <4>2
    <3> QED BY <3>1, <3>2
  <2> QED BY <1>1, <2>3, <2>4 DEF Nested
<1> QED BY <1>14, <1>15, <1>16, <1>17 DEF more, n, top

-----------------------------------------------------------------------------
\* What a longer page has more: elements, regions and blocks.
LEMMA RegionsNext ==
  ASSUME NEW page, IsPage(page), NEW t \in PageTokens
  PROVE  LET n == Len(page)
             more == Append(page, t)
         IN  /\ Elements(more) = Elements(page) \cup (IF t.kind = "open" THEN {n + 1} ELSE {})
             /\ Regions(more) = Regions(page) \cup (IF t.kind = "open" /\ Skips(t) THEN {n + 1} ELSE {})
             /\ Elements(page) \subseteq 1..n /\ Regions(page) \subseteq Elements(page)
<1> DEFINE more == Append(page, t)
           n == Len(page)
<1>1. /\ n \in Nat /\ DOMAIN more = 1..(n + 1) /\ DOMAIN page = 1..n /\ more[n + 1] = t
      /\ \A i \in 1..n : more[i] = page[i]
  BY LastToken
<1> HIDE DEF more, n
<1>2. 1..(n + 1) = 1..n \cup {n + 1} /\ n + 1 \notin 1..n
  BY <1>1
<1>3. \A i \in 1..n : i \in Elements(more) <=> i \in Elements(page)
  BY <1>1, <1>2 DEF Elements
<1>4. /\ n + 1 \in Elements(more) <=> t.kind = "open"
      /\ Elements(page) \subseteq 1..n /\ Elements(more) \subseteq 1..n \cup {n + 1}
  BY <1>1, <1>2 DEF Elements
<1>5. Elements(more) = Elements(page) \cup (IF t.kind = "open" THEN {n + 1} ELSE {})
  BY <1>3, <1>4
<1>6. \A i \in Elements(page) : Skips(more[i]) <=> Skips(page[i])
  BY <1>1, <1>4
<1>7. Regions(more) = Regions(page) \cup (IF t.kind = "open" /\ Skips(t) THEN {n + 1} ELSE {})
  BY <1>1, <1>5, <1>6 DEF Regions
<1> QED BY <1>4, <1>5, <1>7 DEF more, n, Regions

\* What stands in a region is decided when it is read.
LEMMA HiddenStays ==
  ASSUME NEW page, IsPage(page), NEW t \in PageTokens, NEW k \in 0..Len(page)
  PROVE  Hidden(Append(page, t), k) <=> Hidden(page, k)
<1> DEFINE n == Len(page)
           more == Append(page, t)
<1>1. n \in Nat
  BY LastToken
<1>2. /\ Regions(page) \subseteq 1..n /\ Regions(page) \subseteq Regions(more)
      /\ Regions(more) \subseteq Regions(page) \cup {n + 1}
  BY RegionsNext
<1>3. \A r \in Regions(page) \cup {n + 1} : IsOpen(more, r, k) <=> IsOpen(page, r, k)
  BY <1>1, <1>2, OpenStays
<1>4. ~IsOpen(more, n + 1, k)
  BY <1>1 DEF IsOpen
<1> QED BY <1>2, <1>3, <1>4 DEF Hidden

\* The next token is in a region when one is open.
LEMMA HiddenNext ==
  ASSUME NEW page, IsPage(page), Nested(page), NEW t \in PageTokens, t.kind # "close"
  PROVE  Hidden(Append(page, t), Len(page) + 1) <=> Regions(page) \cap Unclosed(page) # {}
<1> DEFINE n == Len(page)
           more == Append(page, t)
<1>1. n \in Nat /\ t.kind \in {"open", "text"} /\ DOMAIN more = 1..(n + 1) /\ Len(more) = n + 1
  BY LastToken DEF PageTokens
<1>2. /\ Regions(page) \subseteq 1..n /\ Regions(page) \subseteq Regions(more)
      /\ Regions(more) \subseteq Regions(page) \cup {n + 1}
  BY RegionsNext
<1>3. \A i \in 1..n : i \in Unclosed(more) <=> i \in Unclosed(page)
  BY <1>1, UnclosedNext
<1>4. \A i \in 1..(n + 1) : i \in Unclosed(more) <=> IsOpen(more, i, n + 1)
  BY <1>1 DEF Unclosed
<1> HIDE DEF n, more
<1>5. \A r \in Regions(page) : r # n + 1 /\ (IsOpen(more, r, n + 1) <=> r \in Unclosed(page))
  BY <1>1, <1>2, <1>3, <1>4
<1>6. Hidden(more, n + 1) <=> Regions(page) \cap Unclosed(page) # {}
  BY <1>2, <1>5 DEF Hidden
<1> QED BY <1>6 DEF n, more

\* A block is an element outside every region, and a start is one when it is read.
LEMMA BlocksNext ==
  ASSUME NEW page, IsPage(page), Nested(page), NEW t \in PageTokens
  PROVE  LET n == Len(page)
             more == Append(page, t)
         IN  /\ Blocks(page) \subseteq Elements(page) /\ Blocks(page) \cap Regions(page) = {}
             /\ Blocks(more) = Blocks(page) \cup
                  (IF /\ t.kind = "open" /\ t.tag \in BlockTags /\ ~Skips(t)
                      /\ Regions(page) \cap Unclosed(page) = {}
                   THEN {n + 1} ELSE {})
<1> DEFINE n == Len(page)
           more == Append(page, t)
           isNew == /\ t.kind = "open" /\ t.tag \in BlockTags /\ ~Skips(t)
                    /\ Regions(page) \cap Unclosed(page) = {}
<1>1. /\ n \in Nat /\ more[n + 1] = t /\ \A i \in 1..n : more[i] = page[i]
  BY LastToken
<1>2. /\ Elements(more) = Elements(page) \cup (IF t.kind = "open" THEN {n + 1} ELSE {})
      /\ Regions(more) = Regions(page) \cup (IF t.kind = "open" /\ Skips(t) THEN {n + 1} ELSE {})
      /\ Elements(page) \subseteq 1..n /\ Regions(page) \subseteq Elements(page)
  BY RegionsNext
<1>3. \A i \in 1..n : Hidden(more, i) <=> Hidden(page, i)
  BY <1>1, HiddenStays
<1>4. t.kind = "open" => (Hidden(more, n + 1) <=> Regions(page) \cap Unclosed(page) # {})
  BY HiddenNext
<1> HIDE DEF n, more
<1>5. n + 1 \notin 1..n
  BY <1>1
<1>6. ASSUME NEW i \in 1..n PROVE i \in Blocks(more) <=> i \in Blocks(page)
  BY <1>1, <1>2, <1>3, <1>5 DEF Blocks
<1>7. n + 1 \in Blocks(more) <=> isNew
  BY <1>1, <1>2, <1>4, <1>5 DEF Blocks
<1>8. Blocks(page) \subseteq 1..n /\ Blocks(more) \subseteq 1..n \cup {n + 1}
  BY <1>2 DEF Blocks
<1>9. Blocks(more) = Blocks(page) \cup (IF isNew THEN {n + 1} ELSE {})
  BY <1>6, <1>7, <1>8
<1>10. Blocks(page) \subseteq Elements(page) /\ Blocks(page) \cap Regions(page) = {}
  BY DEF Blocks
<1> QED BY <1>9, <1>10 DEF n, more

\* The beginning of a page whose ends cannot be mistaken is such a page.
LEMMA UnmistakableBefore ==
  ASSUME NEW page, IsPage(page), Nested(page), NEW t \in PageTokens, Unmistakable(Append(page, t))
  PROVE  Unmistakable(page)
<1> DEFINE n == Len(page)
           more == Append(page, t)
<1>1. n \in Nat /\ n + 1 \notin 1..n /\ \A i \in 1..n : more[i] = page[i]
  BY LastToken
<1>2. /\ Elements(page) \subseteq Elements(more) /\ Regions(page) \subseteq Regions(more)
      /\ Regions(more) \subseteq Regions(page) \cup {n + 1}
      /\ Elements(page) \subseteq 1..n /\ Regions(page) \subseteq Elements(page)
  BY RegionsNext
<1>3. Blocks(page) \subseteq Blocks(more) /\ Blocks(page) \subseteq Elements(page)
  BY BlocksNext
<1>4. \A e, i \in 1..n : IsOpen(more, e, i) <=> IsOpen(page, e, i)
  BY <1>1, OpenStays
<1> HIDE DEF n, more
<1>5. Elements(page) \ Regions(page) \subseteq Elements(more) \ Regions(more)
  BY <1>1, <1>2
<1>6. Unmistakable(more)
  BY DEF more
<1>7. ASSUME NEW r \in Regions(page), NEW i \in Elements(page) \ Regions(page), IsOpen(page, r, i)
      PROVE  /\ page[i].tag # page[r].tag
             /\ \A b \in Blocks(page) : IsOpen(page, b, i) => page[i].tag # page[b].tag
  <2>1. r \in 1..n /\ i \in 1..n /\ r \in Regions(more) /\ i \in Elements(more) \ Regions(more)
    BY <1>2, <1>5
  <2>2. IsOpen(more, r, i)
    BY <1>4, <1>7, <2>1
  <2>3. /\ more[i].tag # more[r].tag
        /\ \A b \in Blocks(more) : IsOpen(more, b, i) => more[i].tag # more[b].tag
    BY <1>6, <2>1, <2>2 DEF Unmistakable
  <2>4. \A b \in Blocks(page) : b \in 1..n /\ b \in Blocks(more)
    BY <1>2, <1>3
  <2> QED BY <1>1, <1>4, <2>1, <2>3, <2>4
<1> QED BY <1>7 DEF Unmistakable

-----------------------------------------------------------------------------
\* Of a page and an element of it.
PieceStep(c, text, k) ==
  IF c[1][k].kind = "text" /\ IsOpen(c[1], c[2], k) /\ ~Hidden(c[1], k)
  THEN text \o c[1][k].text ELSE text

PP == INSTANCE SequenceFolds WITH Step <- PieceStep

\* The texts of the blocks that end with a token.
EndedTexts(page, k) ==
  {BlockText(page, b) : b \in {x \in Blocks(page) : IsOpen(page, x, k - 1) /\ ~IsOpen(page, x, k)}}
    \ {<<>>}

\* One of them; a token ends one block at most.
AnyOf(texts) == CHOOSE t \in texts : TRUE

EndedStep(page, done, k) ==
  IF EndedTexts(page, k) = {} THEN done ELSE Append(done, AnyOf(EndedTexts(page, k)))

PE == INSTANCE SequenceFolds WITH Step <- EndedStep

\* The text of an element is a fold of the pieces inside it.
LEMMA BlockTextIsFold ==
  ASSUME NEW page, IsPage(page), NEW b
  PROVE  BlockText(page, b) = PP!Fold(<<page, b>>, <<>>, PP!Positions(Len(page)))
<1>1. DOMAIN page = 1..Len(page)
  BY LenProperties DEF IsPage
<1> QED BY <1>1, SMTT(30) DEF BlockText, PP!Fold, FoldLeft, PP!FoldLeft, MapThenFoldSet, PP!MapThenFoldSet,
                    Max, PP!Max, PieceStep, PP!Positions

\* The texts of a page are folds of the texts that end.
LEMMA BlockTextsIsFold ==
  ASSUME NEW page, IsPage(page)
  PROVE  BlockTexts(page) = PE!Fold(page, <<>>, PE!Positions(Len(page)))
<1>1. DOMAIN page = 1..Len(page)
  BY LenProperties DEF IsPage
<1> QED BY <1>1, SMTT(30) DEF BlockTexts, PE!Fold, FoldLeft, PE!FoldLeft, MapThenFoldSet, PE!MapThenFoldSet,
                    Max, PE!Max, EndedStep, AnyOf, EndedTexts, PE!Positions

\* The steps stay in their types.
LEMMA PieceCloses ==
  ASSUME NEW page, IsPage(page), NEW b
  PROVE  PP!Closed(<<page, b>>, Seq(Nat), 1..Len(page))
<1>1. \A k \in 1..Len(page) : page[k] \in PageTokens
  BY ElementOfSeq DEF IsPage
<1>2. \A k \in 1..Len(page) : page[k].text \in Seq(Nat)
  BY <1>1 DEF PageTokens
<1>3. \A v \in Seq(Nat), k \in 1..Len(page) : v \o page[k].text \in Seq(Nat)
  BY <1>2, ConcatProperties
<1> QED BY <1>3 DEF PP!Closed, PieceStep

\* The text of an element is one.
LEMMA BlockTextType ==
  ASSUME NEW page, IsPage(page), NEW b
  PROVE  BlockText(page, b) \in Seq(Nat)
<1>1. Len(page) \in Nat
  BY LenProperties DEF IsPage
<1>2. PP!Positions(Len(page)) \in Seq(1..Len(page))
  BY <1>1, PP!PositionsNext
<1>3. PP!Fold(<<page, b>>, <<>>, PP!Positions(Len(page))) \in Seq(Nat)
  BY <1>2, PieceCloses, PP!FoldType, EmptySeq, Zenon
<1> QED BY <1>3, BlockTextIsFold

\* What a token adds to the text of an element.
LEMMA BlockTextNext ==
  ASSUME NEW page, IsPage(page), NEW t \in PageTokens, NEW b \in Nat \ {0}
  PROVE  LET n == Len(page)
             more == Append(page, t)
         IN  BlockText(more, b) =
               IF t.kind = "text" /\ IsOpen(more, b, n + 1) /\ ~Hidden(more, n + 1)
               THEN BlockText(page, b) \o t.text ELSE BlockText(page, b)
<1> DEFINE n == Len(page)
           more == Append(page, t)
           c == <<page, b>>
           d == <<more, b>>
           ks == PP!Positions(n)
<1>1. /\ IsPage(more) /\ n \in Nat /\ Len(more) = n + 1
      /\ more[n + 1] = t
      /\ \A i \in 1..n : more[i] = page[i]
  BY LastToken
<1>2. \A k \in 1..n : (IsOpen(more, b, k) <=> IsOpen(page, b, k)) /\ (Hidden(more, k) <=> Hidden(page, k))
  BY <1>1, OpenStays, HiddenStays
<1>3. PP!Closed(c, Seq(Nat), 1..n)
  BY PieceCloses
<1>4. PP!Closed(d, Seq(Nat), 1..(n + 1))
  <2> HIDE DEF more, n
  <2> QED BY <1>1, PieceCloses
<1>5. ks \in Seq(1..n) /\ ks \in Seq(1..(n + 1)) /\ PP!Positions(n + 1) = Append(ks, n + 1)
  BY <1>1, PP!PositionsNext
<1>6. BlockText(page, b) = PP!Fold(c, <<>>, ks)
  BY BlockTextIsFold
<1>7. BlockText(more, b) = PP!Fold(d, <<>>, PP!Positions(n + 1))
  <2> HIDE DEF more, n
  <2> QED BY <1>1, BlockTextIsFold
<1>8. \A v \in Seq(Nat), k \in 1..n : PieceStep(c, v, k) = PieceStep(d, v, k)
  <2> HIDE DEF more, n
  <2> QED BY <1>1, <1>2 DEF PieceStep
<1>9. PieceStep(d, PP!Fold(c, <<>>, ks), n + 1) =
        IF t.kind = "text" /\ IsOpen(more, b, n + 1) /\ ~Hidden(more, n + 1)
        THEN PP!Fold(c, <<>>, ks) \o t.text ELSE PP!Fold(c, <<>>, ks)
  <2> HIDE DEF more, n, ks
  <2> QED BY <1>1 DEF PieceStep
<1>10. <<>> \in Seq(Nat) /\ n + 1 \in 1..(n + 1)
  BY <1>1, EmptySeq
<1> HIDE DEF more, n, ks, c, d
<1> DEFINE A == Seq(Nat)
           S == 1..n
           S1 == 1..(n + 1)
<1>14. PP!Closed(c, A, S) /\ PP!Closed(d, A, S1) /\ <<>> \in A /\ ks \in Seq(S) /\ ks \in Seq(S1)
       /\ n + 1 \in S1 /\ \A v \in A, k \in S : PieceStep(c, v, k) = PieceStep(d, v, k)
  BY <1>3, <1>4, <1>5, <1>8, <1>10
<1> HIDE DEF A, S, S1
<1>11. PP!Fold(c, <<>>, ks) = PP!Fold(d, <<>>, ks)
  BY <1>14, PP!FoldSame
<1>12. PP!Fold(d, <<>>, Append(ks, n + 1)) = PieceStep(d, PP!Fold(d, <<>>, ks), n + 1)
  BY <1>14, PP!FoldAppend
<1>13. BlockText(more, b) = PieceStep(d, PP!Fold(c, <<>>, ks), n + 1)
  BY <1>5, <1>7, <1>11, <1>12, Zenon
<1> QED BY <1>6, <1>9, <1>13 DEF n, more

\* An element that comes later has no text yet.
LEMMA BlockTextOfNew ==
  ASSUME NEW page, IsPage(page)
  PROVE  BlockText(page, Len(page) + 1) = <<>>
<1> DEFINE n == Len(page)
           c == <<page, n + 1>>
<1>1. n \in Nat
  BY LenProperties DEF IsPage
<1>2. \A k \in 1..n : ~IsOpen(page, n + 1, k)
  BY <1>1 DEF IsOpen
<1>3. PP!Closed(c, {<<>>}, 1..n)
  BY <1>2 DEF PP!Closed, PieceStep
<1>4. PP!Positions(n) \in Seq(1..n)
  BY <1>1, PP!PositionsNext
<1>5. BlockText(page, n + 1) = PP!Fold(c, <<>>, PP!Positions(n))
  BY BlockTextIsFold
<1> HIDE DEF n, c
<1>6. PP!Fold(c, <<>>, PP!Positions(n)) \in {<<>>}
  BY <1>3, <1>4, PP!FoldType, Zenon
<1> QED BY <1>5, <1>6 DEF n

\* What a token ends is a list of texts.
LEMMA EndedCloses ==
  ASSUME NEW page, IsPage(page)
  PROVE  PE!Closed(page, Seq(Seq(Nat)), 1..Len(page))
<1>1. \A k : EndedTexts(page, k) \subseteq Seq(Nat)
  BY BlockTextType DEF EndedTexts
<1>2. \A k : EndedTexts(page, k) # {} => AnyOf(EndedTexts(page, k)) \in Seq(Nat)
  BY <1>1 DEF AnyOf
<1>3. \A v \in Seq(Seq(Nat)), k \in 1..Len(page) : EndedTexts(page, k) # {}
        => Append(v, AnyOf(EndedTexts(page, k))) \in Seq(Seq(Nat))
  BY <1>2, AppendProperties
<1> QED BY <1>3 DEF PE!Closed, EndedStep

\* The texts of the blocks are texts.
LEMMA BlockTextsType ==
  ASSUME NEW page, IsPage(page)
  PROVE  BlockTexts(page) \in Seq(Seq(Nat))
<1>1. Len(page) \in Nat
  BY LenProperties DEF IsPage
<1>2. PE!Positions(Len(page)) \in Seq(1..Len(page))
  BY <1>1, PE!PositionsNext
<1>3. <<>> \in Seq(Seq(Nat))
  BY EmptySeq
<1>4. PE!Fold(page, <<>>, PE!Positions(Len(page))) \in Seq(Seq(Nat))
  BY <1>2, <1>3, EndedCloses, PE!FoldType, Zenon
<1> QED BY <1>4, BlockTextsIsFold

\* The texts that ended are final.
LEMMA EndedStays ==
  ASSUME NEW page, IsPage(page), Nested(page), NEW t \in PageTokens, NEW k \in 1..Len(page)
  PROVE  EndedTexts(Append(page, t), k) = EndedTexts(page, k)
<1> DEFINE n == Len(page)
           more == Append(page, t)
           now == {x \in Blocks(page) : IsOpen(page, x, k - 1) /\ ~IsOpen(page, x, k)}
           later == {x \in Blocks(more) : IsOpen(more, x, k - 1) /\ ~IsOpen(more, x, k)}
<1>1. n \in Nat /\ k - 1 \in 0..n /\ k \in 0..n
  BY LastToken
<1>2. /\ Blocks(page) \subseteq 1..n /\ Blocks(page) \subseteq Blocks(more)
      /\ Blocks(more) \subseteq Blocks(page) \cup {n + 1}
  BY BlocksNext, RegionsNext
<1>3. ~IsOpen(more, n + 1, k - 1)
  BY <1>1 DEF IsOpen
<1>4. \A b \in 1..n : /\ IsOpen(more, b, k - 1) <=> IsOpen(page, b, k - 1)
                      /\ IsOpen(more, b, k) <=> IsOpen(page, b, k)
  BY <1>1, OpenStays
<1>5. \A b \in 1..n : IsOpen(more, b, n + 1) => IsOpen(page, b, n)
  BY OpenNext
<1>6. \A b \in 1..n : BlockText(more, b) # BlockText(page, b) => IsOpen(more, b, n + 1)
  BY BlockTextNext
<1>7. \A b \in 1..n : IsOpen(page, b, k - 1) /\ IsOpen(page, b, n) => IsOpen(page, b, k)
  <2> SUFFICES ASSUME NEW b \in 1..n, IsOpen(page, b, k - 1), IsOpen(page, b, n) PROVE IsOpen(page, b, k)
    OBVIOUS
  <2> HIDE DEF n
  <2>1. b <= k /\ \A j \in b..k : j \in b..n
    BY <1>1 DEF IsOpen
  <2> QED BY <2>1 DEF IsOpen
<1> HIDE DEF n, more
<1>8. now = later
  BY <1>2, <1>3, <1>4
<1>9. \A b \in now : BlockText(more, b) = BlockText(page, b)
  BY <1>2, <1>5, <1>6, <1>7
<1>10. EndedTexts(page, k) = {BlockText(page, b) : b \in now} \ {<<>>}
  BY DEF EndedTexts
<1>11. EndedTexts(more, k) = {BlockText(more, b) : b \in later} \ {<<>>}
  BY DEF EndedTexts
<1> HIDE DEF now, later
<1>12. {BlockText(more, b) : b \in later} = {BlockText(page, b) : b \in now}
  BY <1>8, <1>9
<1> QED BY <1>10, <1>11, <1>12, Zenon DEF more

\* The end of a block adds its text, if it has one.
LEMMA BlockTextsNext ==
  ASSUME NEW page, IsPage(page), Nested(page), NEW t \in PageTokens,
         t.kind = "close" => Depth(page, Len(page)) > 0
  PROVE  LET top == Max(Unclosed(page)) IN
         BlockTexts(Append(page, t)) =
           IF t.kind = "close" /\ top \in Blocks(page) /\ BlockText(page, top) # <<>>
           THEN Append(BlockTexts(page), BlockText(page, top)) ELSE BlockTexts(page)
<1> DEFINE n == Len(page)
           more == Append(page, t)
           top == Max(Unclosed(page))
           ks == PE!Positions(n)
           ends == t.kind = "close" /\ top \in Blocks(page) /\ BlockText(page, top) # <<>>
<1>1. IsPage(more) /\ n \in Nat /\ Len(more) = n + 1 /\ (n + 1) - 1 = n
  BY LastToken
<1>2. /\ Blocks(page) \subseteq 1..n /\ Blocks(more) \subseteq Blocks(page) \cup {n + 1}
      /\ Blocks(page) \subseteq Blocks(more) /\ DOMAIN page = 1..n
  BY BlocksNext, RegionsNext, LastToken
<1>3. ~IsOpen(more, n + 1, n)
  BY <1>1 DEF IsOpen
<1>4. \A b \in 1..n : /\ IsOpen(more, b, n) <=> b \in Unclosed(page)
                      /\ IsOpen(more, b, n + 1) <=> b \in Unclosed(more)
  <2>1. \A b \in 1..n : IsOpen(more, b, n) <=> IsOpen(page, b, n)
    BY <1>1, OpenStays
  <2>2. DOMAIN more = 1..(n + 1) /\ \A b \in 1..n : b \in 1..(n + 1)
    BY <1>1, LastToken
  <2> HIDE DEF more, n
  <2> QED BY <1>1, <1>2, <2>1, <2>2 DEF Unclosed
<1>5. /\ t.kind = "open" => Unclosed(more) = Unclosed(page) \cup {n + 1}
      /\ t.kind = "text" => Unclosed(more) = Unclosed(page)
      /\ t.kind = "close" => Unclosed(more) = Unclosed(page) \ {top}
  BY UnclosedNext
<1>6. t.kind = "close" => top \in Unclosed(page)
  BY InnermostOpen
<1>7. t.kind \in {"open", "text", "close"}
  BY DEF PageTokens
<1>8. t.kind # "text" => \A b \in 1..n : BlockText(more, b) = BlockText(page, b)
  BY BlockTextNext
<1>22. \A k \in 1..n : EndedTexts(more, k) = EndedTexts(page, k)
  BY EndedStays
<1> HIDE DEF more, n, top
<1>9. {x \in Blocks(more) : IsOpen(more, x, n) /\ ~IsOpen(more, x, n + 1)}
        = IF t.kind = "close" /\ top \in Blocks(page) THEN {top} ELSE {}
  BY <1>2, <1>3, <1>4, <1>5, <1>6, <1>7
<1>10. EndedTexts(more, n + 1) = IF ends THEN {BlockText(page, top)} ELSE {}
  <2> DEFINE gone == {x \in Blocks(more) : IsOpen(more, x, n) /\ ~IsOpen(more, x, n + 1)}
  <2>1. EndedTexts(more, n + 1) = {BlockText(more, b) : b \in gone} \ {<<>>}
    BY <1>1 DEF EndedTexts
  <2>2. gone = IF t.kind = "close" /\ top \in Blocks(page) THEN {top} ELSE {}
    BY <1>9
  <2> HIDE DEF gone
  <2>3. CASE t.kind = "close" /\ top \in Blocks(page)
    <3>1. BlockText(more, top) = BlockText(page, top)
      BY <1>2, <1>8, <2>3
    <3>2. EndedTexts(more, n + 1) = {BlockText(page, top)} \ {<<>>}
      BY <2>1, <2>2, <2>3, <3>1
    <3> QED BY <2>3, <3>2, Zenon
  <2>4. CASE ~(t.kind = "close" /\ top \in Blocks(page))
    BY <2>1, <2>2, <2>4, Zenon
  <2> QED BY <2>3, <2>4
<1>11. PE!Closed(page, Seq(Seq(Nat)), 1..n)
  BY EndedCloses DEF n
<1>12. PE!Closed(more, Seq(Seq(Nat)), 1..(n + 1))
  BY <1>1, EndedCloses
<1>13. ks \in Seq(1..n) /\ ks \in Seq(1..(n + 1)) /\ PE!Positions(n + 1) = Append(ks, n + 1)
  BY <1>1, PE!PositionsNext, Zenon
<1>14. BlockTexts(page) = PE!Fold(page, <<>>, ks)
  BY BlockTextsIsFold DEF n
<1>15. BlockTexts(more) = PE!Fold(more, <<>>, PE!Positions(n + 1))
  BY <1>1, BlockTextsIsFold
<1>16. \A v \in Seq(Seq(Nat)), k \in 1..n : EndedStep(page, v, k) = EndedStep(more, v, k)
  BY <1>22 DEF EndedStep
<1>17. <<>> \in Seq(Seq(Nat)) /\ n + 1 \in 1..(n + 1)
  BY <1>1, EmptySeq
<1> HIDE DEF ks
<1> DEFINE A == Seq(Seq(Nat))
           S == 1..n
           S1 == 1..(n + 1)
<1>23. PE!Closed(page, A, S) /\ PE!Closed(more, A, S1) /\ <<>> \in A /\ ks \in Seq(S) /\ ks \in Seq(S1)
       /\ n + 1 \in S1 /\ \A v \in A, k \in S : EndedStep(page, v, k) = EndedStep(more, v, k)
  BY <1>11, <1>12, <1>13, <1>16, <1>17
<1> HIDE DEF A, S, S1
<1>18. PE!Fold(page, <<>>, ks) = PE!Fold(more, <<>>, ks)
  BY <1>23, PE!FoldSame
<1>19. PE!Fold(more, <<>>, Append(ks, n + 1)) = EndedStep(more, PE!Fold(more, <<>>, ks), n + 1)
  BY <1>23, PE!FoldAppend
<1>20. BlockTexts(more) = EndedStep(more, BlockTexts(page), n + 1)
  BY <1>13, <1>14, <1>15, <1>18, <1>19, Zenon
<1>21. BlockTexts(more) = IF ends THEN Append(BlockTexts(page), BlockText(page, top)) ELSE BlockTexts(page)
  <2> HIDE DEF ends
  <2> QED BY <1>10, <1>20 DEF EndedStep, AnyOf
<1> QED BY <1>21 DEF more, top

-----------------------------------------------------------------------------
\* A sequence without its last element.
LEMMA Shorter ==
  ASSUME NEW S, NEW s \in Seq(S), s # <<>>
  PROVE  /\ Len(s) \in Nat \ {0} /\ Len(s) \in 1..Len(s) /\ SubSeq(s, 1, Len(s) - 1) \in Seq(S)
         /\ Len(SubSeq(s, 1, Len(s) - 1)) = Len(s) - 1
         /\ \A j \in 1..(Len(s) - 1) : SubSeq(s, 1, Len(s) - 1)[j] = s[j] /\ s[j] \in S
         /\ s[Len(s)] \in S /\ RemoveAt(s, Len(s)) = SubSeq(s, 1, Len(s) - 1)
<1> DEFINE n == Len(s)
           u == SubSeq(s, 1, n - 1)
<1>1. n \in Nat \ {0} /\ \A j \in 1..n : s[j] \in S
  BY LenProperties, ElementOfSeq, EmptySeq
<1>2. n \in 1..n /\ n - 1 \in Nat /\ \A j \in 1..(n - 1) : j \in 1..n
  BY <1>1
<1>3. /\ u \in Seq(S)
      /\ Len(u) = IF 1 <= n - 1 THEN (n - 1) - 1 + 1 ELSE 0
      /\ \A j \in 1..((n - 1) - 1 + 1) : u[j] = s[1 + j - 1]
  <2>1. 1 \in 1..n /\ 1 \in Int /\ n - 1 \in Int /\ \A i \in 1..(n - 1) : i \in DOMAIN s
    BY <1>1, LenProperties
  <2> HIDE DEF n
  <2>2. \A i \in 1..(n - 1) : s[i] \in S
    BY <1>1, <1>2
  <2> QED BY <2>1, <2>2, SubSeqProperties
<1>4. Len(u) = n - 1 /\ \A j \in 1..(n - 1) : u[j] = s[j]
  <2> HIDE DEF n, u
  <2>1. (n - 1) - 1 + 1 = n - 1 /\ (1 <= n - 1 \/ n - 1 = 0)
    BY <1>1
  <2>2. \A j \in 1..(n - 1) : 1 + j - 1 = j
    BY <1>1
  <2> QED BY <1>3, <2>1, <2>2
<1>5. RemoveAt(s, n) = u
  <2>1. SubSeq(s, n + 1, n) = <<>>
    <3>1. n + 1 > n /\ n \in Int /\ n + 1 \in Int
      BY <1>1
    <3> HIDE DEF n
    <3> QED BY <3>1, SubSeqEmpty
  <2>2. u \o <<>> = u
    BY <1>3, ConcatEmptySeq
  <2> HIDE DEF u
  <2> QED BY <2>1, <2>2 DEF RemoveAt, u
<1> HIDE DEF u
<1> QED BY <1>1, <1>2, <1>3, <1>4, <1>5 DEF u

\* The positions of a set in order.
Lists(seq, S) ==
  /\ seq \in Seq(Nat)
  /\ \A i, j \in 1..Len(seq) : i < j => seq[i] < seq[j]
  /\ \A i \in 1..Len(seq) : seq[i] \in S
  /\ \A x \in S : \E i \in 1..Len(seq) : seq[i] = x

\* The list of a set that gains the largest element.
LEMMA ListGrows ==
  ASSUME NEW S, NEW seq, Lists(seq, S), NEW x \in Nat, \A y \in S : y < x
  PROVE  Lists(Append(seq, x), S \cup {x})
<1> DEFINE n == Len(seq)
           more == Append(seq, x)
<1>1. /\ n \in Nat /\ more \in Seq(Nat) /\ Len(more) = n + 1 /\ more[n + 1] = x
      /\ \A i \in 1..n : more[i] = seq[i]
  BY AppendProperties, LenProperties DEF Lists
<1>2. /\ \A i, j \in 1..n : i < j => seq[i] < seq[j]
      /\ \A i \in 1..n : seq[i] \in S
      /\ \A y \in S : \E i \in 1..n : seq[i] = y
  BY DEF Lists
<1> HIDE DEF n, more
<1>3. 1..(n + 1) = 1..n \cup {n + 1} /\ \A i \in 1..n : i < n + 1 /\ ~(n + 1 < i)
  BY <1>1
<1>4. \A i, j \in 1..(n + 1) : i < j => more[i] < more[j]
  <2> SUFFICES ASSUME NEW i \in 1..(n + 1), NEW j \in 1..(n + 1), i < j PROVE more[i] < more[j]
    OBVIOUS
  <2>1. CASE j \in 1..n
    <3>1. i \in 1..n
      BY <1>1, <2>1
    <3> QED BY <1>1, <1>2, <2>1, <3>1
  <2>2. CASE j = n + 1
    <3>1. i \in 1..n
      BY <1>1, <2>2
    <3> QED BY <1>1, <1>2, <2>2, <3>1
  <2> QED BY <1>3, <2>1, <2>2
<1>5. \A i \in 1..(n + 1) : more[i] \in S \cup {x}
  BY <1>1, <1>2, <1>3
<1>6. \A y \in S \cup {x} : \E i \in 1..(n + 1) : more[i] = y
  <2>1. more[n + 1] = x /\ n + 1 \in 1..(n + 1)
    BY <1>1, <1>3
  <2>2. \A y \in S : \E i \in 1..(n + 1) : more[i] = y
    BY <1>1, <1>2, <1>3
  <2> QED BY <2>1, <2>2
<1> QED BY <1>1, <1>4, <1>5, <1>6, Zenon DEF Lists, more

\* The list of a set that loses the largest element.
LEMMA ListShrinks ==
  ASSUME NEW S, NEW seq, Lists(seq, S), NEW x \in S, \A y \in S : y \in Nat /\ y <= x
  PROVE  /\ seq # <<>> /\ Len(seq) \in Nat \ {0} /\ seq[Len(seq)] = x
         /\ Lists(SubSeq(seq, 1, Len(seq) - 1), S \ {x})
<1> DEFINE n == Len(seq)
           less == SubSeq(seq, 1, n - 1)
<1>1. /\ seq \in Seq(Nat) /\ n \in Nat
      /\ \A i, j \in 1..n : i < j => seq[i] < seq[j]
      /\ \A i \in 1..n : seq[i] \in S
      /\ \A y \in S : \E i \in 1..n : seq[i] = y
  BY LenProperties DEF Lists
<1>2. PICK i \in 1..n : seq[i] = x
  BY <1>1
<1>3. n # 0 /\ n \in 1..n
  BY <1>1, <1>2
<1>4. seq # <<>>
  BY <1>3, EmptySeq
<1>5. i = n
  <2>1. seq[n] \in S /\ seq[n] \in Nat /\ seq[n] <= x /\ x \in Nat
    BY <1>1, <1>3
  <2>2. i < n => x < seq[n]
    BY <1>1, <1>2, <1>3
  <2> QED BY <1>1, <1>2, <2>1, <2>2
<1>6. /\ less \in Seq(Nat) /\ Len(less) = n - 1
      /\ \A j \in 1..(n - 1) : less[j] = seq[j]
  BY <1>1, <1>4, Shorter, Zenon
<1> HIDE DEF n, less
<1>7. 1..n = 1..(n - 1) \cup {n} /\ \A j \in 1..(n - 1) : j \in 1..n /\ j < n
  BY <1>1, <1>3
<1>8. \A j, k \in 1..(n - 1) : j < k => less[j] < less[k]
  BY <1>1, <1>6, <1>7
<1>9. \A j \in 1..(n - 1) : less[j] \in S \ {x}
  <2> SUFFICES ASSUME NEW j \in 1..(n - 1) PROVE less[j] \in S \ {x}
    OBVIOUS
  <2>1. j \in 1..n /\ seq[j] < seq[n] /\ seq[j] \in S /\ seq[j] \in Nat
    BY <1>1, <1>3, <1>7
  <2> QED BY <1>2, <1>5, <1>6, <2>1
<1>10. \A y \in S \ {x} : \E j \in 1..(n - 1) : less[j] = y
  <2> SUFFICES ASSUME NEW y \in S \ {x} PROVE \E j \in 1..(n - 1) : less[j] = y
    OBVIOUS
  <2>1. PICK j \in 1..n : seq[j] = y
    BY <1>1
  <2>2. j # n
    BY <1>2, <1>5, <2>1
  <2> QED BY <1>6, <1>7, <2>1, <2>2
<1>11. Lists(less, S \ {x})
  BY <1>6, <1>8, <1>9, <1>10 DEF Lists
<1> QED BY <1>1, <1>2, <1>3, <1>4, <1>5, <1>11 DEF n, less

\* The innermost of the elements of a tag is the last element if that has the tag, and
\* there is none if no element has it.
LEMMA InnermostLast ==
  ASSUME NEW tags, NEW n \in Nat, DOMAIN tags = 1..n, NEW tag
  PROVE  /\ n > 0 /\ tags[n] = tag => Innermost(tags, tag) = n
         /\ (\A i \in 1..n : tags[i] # tag) => Innermost(tags, tag) = 0
<1> DEFINE S == {i \in DOMAIN tags : tags[i] = tag} \cup {0}
<1>1. CASE n > 0 /\ tags[n] = tag
  <2>1. n \in S /\ \A i \in S : n >= i
    BY <1>1
  <2>2. \A x \in S : (\A i \in S : x >= i) => x = n
    BY <1>1
  <2> HIDE DEF S
  <2>3. Max(S) = n
    BY <2>1, <2>2, Zenon DEF Max
  <2>4. n \in 1..n
    BY <1>1
  <2> QED BY <1>1, <2>3, <2>4 DEF Innermost, S
<1>2. CASE \A i \in 1..n : tags[i] # tag
  <2>1. S = {0}
    BY <1>2
  <2>2. Max({0}) = 0
    BY DEF Max
  <2>3. Innermost(tags, tag) = 0
    BY <2>1, <2>2, Zenon DEF Innermost
  <2> QED BY <1>2, <2>3
<1> QED BY <1>1, <1>2

-----------------------------------------------------------------------------
\* What the parser keeps of an open block.
Open == [tag : ElementNames, pieces : Seq(Nat)]

\* A parser that reads no title and no script.
Readers ==
  [skips : Seq(ElementNames), open : Seq(Open), blocks : Seq(Seq(Nat)), inTitle : {FALSE},
   title : {<<>>}, capturing : {FALSE}, script : {<<>>}, scripts : {<<>>}]

\* A JSON-LD that is not collected notes nothing, and no text of a title is kept.
LEMMA NothingNoted ==
  ASSUME NEW s \in Readers, NEW t \in PageTokens
  PROVE  NoteStart(s, t) = s /\ NoteEnd(s, t) = s
<1>1. t.tag # "title" /\ t.tag # "script"
  BY DEF PageTokens
<1>2. NoteStart(s, t) = s
  BY <1>1, Zenon DEF NoteStart, Readers
<1>3. NoteEnd(s, t) = s
  BY <1>1, Zenon DEF NoteEnd, Readers
<1> QED BY <1>2, <1>3

\* What the start of an element does.
LEMMA StartCases ==
  ASSUME NEW s \in Readers, NEW t \in PageTokens
  PROVE  /\ Skips(t) => StartTag(s, t) = [s EXCEPT !.skips = Append(@, t.tag)]
         /\ ~Skips(t) /\ s.skips = <<>> /\ t.tag \in BlockTags =>
              StartTag(s, t) = [s EXCEPT !.open = Append(@, [tag |-> t.tag, pieces |-> <<>>])]
         /\ ~Skips(t) /\ ~(s.skips = <<>> /\ t.tag \in BlockTags) => StartTag(s, t) = s
<1>1. NoteStart(s, t) = s
  BY NothingNoted
<1>2. CASE Skips(t)
  BY <1>1, <1>2, Zenon DEF StartTag
<1>3. CASE ~Skips(t) /\ s.skips = <<>> /\ t.tag \in BlockTags
  BY <1>1, <1>3, Zenon DEF StartTag
<1>4. CASE ~Skips(t) /\ ~(s.skips = <<>> /\ t.tag \in BlockTags)
  BY <1>1, <1>4, Zenon DEF StartTag
<1> QED BY <1>2, <1>3, <1>4

\* What the end of an element does.
LEMMA EndCases ==
  ASSUME NEW s \in Readers, NEW t \in PageTokens
  PROVE  /\ t.tag \in Range(s.skips) => EndTag(s, t) = EndSkip(s, t.tag)
         /\ t.tag \notin Range(s.skips) /\ t.tag \in BlockTags => EndTag(s, t) = EndBlock(s, t.tag)
         /\ t.tag \notin Range(s.skips) /\ t.tag \notin BlockTags => EndTag(s, t) = s
<1>1. NoteEnd(s, t) = s
  BY NothingNoted
<1>2. CASE t.tag \in Range(s.skips)
  BY <1>1, <1>2, Zenon DEF EndTag
<1>3. CASE t.tag \notin Range(s.skips) /\ t.tag \in BlockTags
  BY <1>1, <1>3, Zenon DEF EndTag
<1>4. CASE t.tag \notin Range(s.skips) /\ t.tag \notin BlockTags
  BY <1>1, <1>4, Zenon DEF EndTag
<1> QED BY <1>2, <1>3, <1>4

\* What a text does.
LEMMA DataCases ==
  ASSUME NEW s \in Readers, NEW t \in PageTokens
  PROVE  /\ s.skips = <<>> /\ s.open # <<>> =>
              Data(s, t) = [s EXCEPT !.open[Len(s.open)].pieces = @ \o t.text]
         /\ ~(s.skips = <<>> /\ s.open # <<>>) => Data(s, t) = s
<1>1. ~s.capturing /\ ~s.inTitle
  BY Zenon DEF Readers
<1>2. CASE s.skips = <<>> /\ s.open # <<>>
  BY <1>1, <1>2, Zenon DEF Data
<1>3. CASE ~(s.skips = <<>> /\ s.open # <<>>)
  BY <1>1, <1>3, Zenon DEF Data
<1> QED BY <1>2, <1>3

\* The parser reads a token with one of the three handlers.
LEMMA ReadCases ==
  ASSUME NEW s, NEW t
  PROVE  /\ t.kind = "open" => Read(s, t) = StartTag(s, t)
         /\ t.kind = "close" => Read(s, t) = EndTag(s, t)
         /\ t.kind = "text" => Read(s, t) = Data(s, t)
<1>1. CASE t.kind = "open"
  BY <1>1, Zenon DEF Read
<1>2. CASE t.kind = "close"
  BY <1>2, Zenon DEF Read
<1>3. CASE t.kind = "text"
  BY <1>3, Zenon DEF Read
<1> QED BY <1>1, <1>2, <1>3

-----------------------------------------------------------------------------
\* The regions and the blocks that have not ended.
OpenRegions(page) == Regions(page) \cap Unclosed(page)

OpenBlocks(page) == Blocks(page) \cap Unclosed(page)

\* The stack of the skipped elements holds the open regions, from the outermost on.
SkipsFollow(page, skips) ==
  \E regions :
    /\ Lists(regions, OpenRegions(page))
    /\ Len(skips) = Len(regions)
    /\ \A j \in 1..Len(regions) : skips[j] = page[regions[j]].tag

\* The stack of the blocks holds the open ones, and the text of each is that of its own
\* pieces, and then that of the block inside it.
OpenFollow(page, open) ==
  \E blocks :
    /\ Lists(blocks, OpenBlocks(page))
    /\ Len(open) = Len(blocks)
    /\ \A j \in 1..Len(blocks) :
         /\ open[j].tag = page[blocks[j]].tag
         /\ BlockText(page, blocks[j]) =
              open[j].pieces \o (IF j = Len(blocks) THEN <<>> ELSE BlockText(page, blocks[j + 1]))

\* The state of a parser that has read the page.
Follows(page, s) ==
  /\ s \in Readers
  /\ SkipsFollow(page, s.skips)
  /\ OpenFollow(page, s.open)
  /\ s.blocks = BlockTexts(page)

\* Open elements are positions of the page.
LEMMA OpenPlaces ==
  ASSUME NEW page, IsPage(page)
  PROVE  /\ Len(page) \in Nat /\ OpenRegions(page) \subseteq 1..Len(page)
         /\ OpenBlocks(page) \subseteq 1..Len(page)
         /\ OpenRegions(page) \cap OpenBlocks(page) = {}
<1>1. Len(page) \in Nat /\ DOMAIN page = 1..Len(page)
  BY LenProperties DEF IsPage
<1> QED BY <1>1 DEF OpenRegions, OpenBlocks, Unclosed, Blocks, Regions

\* The stack of the skipped elements: how long it is, what it holds, and its end.
LEMMA SkipsFacts ==
  ASSUME NEW page, IsPage(page), NEW skips \in Seq(ElementNames), SkipsFollow(page, skips)
  PROVE  /\ skips = <<>> <=> OpenRegions(page) = {}
         /\ \A tag : tag \in Range(skips) <=> \E r \in OpenRegions(page) : page[r].tag = tag
<1>1. PICK regions : /\ Lists(regions, OpenRegions(page))
                     /\ Len(skips) = Len(regions)
                     /\ \A j \in 1..Len(regions) : skips[j] = page[regions[j]].tag
  BY DEF SkipsFollow
<1>2. /\ \A j \in 1..Len(regions) : regions[j] \in OpenRegions(page)
      /\ \A r \in OpenRegions(page) : \E j \in 1..Len(regions) : regions[j] = r
  BY <1>1 DEF Lists
<1>3. Len(skips) \in Nat /\ DOMAIN skips = 1..Len(skips) /\ (skips = <<>> <=> Len(skips) = 0)
  BY LenProperties, EmptySeq
<1>4. skips = <<>> <=> OpenRegions(page) = {}
  <2>1. Len(regions) = 0 => 1..Len(regions) = {}
    OBVIOUS
  <2>2. Len(regions) # 0 => 1 \in 1..Len(regions)
    BY <1>1, <1>3
  <2> QED BY <1>1, <1>2, <1>3, <2>1, <2>2
<1>5. ASSUME NEW tag PROVE tag \in Range(skips) <=> \E r \in OpenRegions(page) : page[r].tag = tag
  <2>1. tag \in Range(skips) <=> \E j \in 1..Len(regions) : page[regions[j]].tag = tag
    BY <1>1, <1>3 DEF Range
  <2> QED BY <1>2, <2>1
<1> QED BY <1>4, <1>5

\* The stack of the blocks: when it is empty, and what its tags are.
LEMMA OpenFacts ==
  ASSUME NEW page, IsPage(page), NEW open \in Seq(Open), OpenFollow(page, open)
  PROVE  /\ open = <<>> <=> OpenBlocks(page) = {}
         /\ \A j \in 1..Len(open) : \E b \in OpenBlocks(page) : open[j].tag = page[b].tag
<1>1. PICK blocks : /\ Lists(blocks, OpenBlocks(page))
                    /\ Len(open) = Len(blocks)
                    /\ \A j \in 1..Len(blocks) : open[j].tag = page[blocks[j]].tag
  BY Zenon DEF OpenFollow
<1>2. /\ \A j \in 1..Len(blocks) : blocks[j] \in OpenBlocks(page)
      /\ \A b \in OpenBlocks(page) : \E j \in 1..Len(blocks) : blocks[j] = b
  BY <1>1 DEF Lists
<1>3. Len(open) \in Nat /\ (open = <<>> <=> Len(open) = 0)
  BY LenProperties, EmptySeq
<1>4. open = <<>> <=> OpenBlocks(page) = {}
  <2>1. Len(blocks) = 0 => 1..Len(blocks) = {}
    OBVIOUS
  <2>2. Len(blocks) # 0 => 1 \in 1..Len(blocks)
    BY <1>1, <1>3
  <2> QED BY <1>1, <1>2, <1>3, <2>1, <2>2
<1> QED BY <1>1, <1>2, <1>4

\* The stacks follow a longer page whose open regions and blocks are the same.
LEMMA SkipsStay ==
  ASSUME NEW page, IsPage(page), NEW t \in PageTokens, NEW skips, SkipsFollow(page, skips),
         OpenRegions(Append(page, t)) = OpenRegions(page)
  PROVE  SkipsFollow(Append(page, t), skips)
<1> DEFINE more == Append(page, t)
<1>1. PICK regions : /\ Lists(regions, OpenRegions(page))
                     /\ Len(skips) = Len(regions)
                     /\ \A j \in 1..Len(regions) : skips[j] = page[regions[j]].tag
  BY DEF SkipsFollow
<1>2. \A j \in 1..Len(regions) : regions[j] \in 1..Len(page)
  BY <1>1, OpenPlaces DEF Lists
<1>3. \A i \in 1..Len(page) : more[i] = page[i]
  BY LastToken
<1> HIDE DEF more
<1>4. /\ Lists(regions, OpenRegions(more)) /\ Len(skips) = Len(regions)
      /\ \A j \in 1..Len(regions) : skips[j] = more[regions[j]].tag
  BY <1>1, <1>2, <1>3 DEF more
<1>5. SkipsFollow(more, skips)
  BY <1>4 DEF SkipsFollow
<1> QED BY <1>5 DEF more

\* The stack of the blocks, when the texts of the open blocks are the same too.
LEMMA OpenStay ==
  ASSUME NEW page, IsPage(page), NEW t \in PageTokens, NEW open, OpenFollow(page, open),
         OpenBlocks(Append(page, t)) = OpenBlocks(page),
         \A b \in OpenBlocks(page) : BlockText(Append(page, t), b) = BlockText(page, b)
  PROVE  OpenFollow(Append(page, t), open)
<1> DEFINE more == Append(page, t)
<1>1. PICK blocks :
         /\ Lists(blocks, OpenBlocks(page))
         /\ Len(open) = Len(blocks)
         /\ \A j \in 1..Len(blocks) :
              /\ open[j].tag = page[blocks[j]].tag
              /\ BlockText(page, blocks[j]) =
                   open[j].pieces \o (IF j = Len(blocks) THEN <<>> ELSE BlockText(page, blocks[j + 1]))
  BY Zenon DEF OpenFollow
<1>2. \A j \in 1..Len(blocks) : blocks[j] \in 1..Len(page) /\ blocks[j] \in OpenBlocks(page)
  BY <1>1, OpenPlaces DEF Lists
<1>3. \A i \in 1..Len(page) : more[i] = page[i]
  BY LastToken
<1>4. Len(blocks) \in Nat
  BY <1>1, LenProperties DEF Lists
<1>5. \A b \in OpenBlocks(page) : BlockText(more, b) = BlockText(page, b)
  OBVIOUS
<1>6. Lists(blocks, OpenBlocks(more))
  BY <1>1
<1> HIDE DEF more
<1>7. ASSUME NEW j \in 1..Len(blocks)
      PROVE  /\ open[j].tag = more[blocks[j]].tag
             /\ BlockText(more, blocks[j]) =
                   open[j].pieces \o (IF j = Len(blocks) THEN <<>> ELSE BlockText(more, blocks[j + 1]))
  <2>1. j # Len(blocks) => j + 1 \in 1..Len(blocks)
    BY <1>4
  <2>2. BlockText(more, blocks[j]) = BlockText(page, blocks[j])
    BY <1>2, <1>5
  <2>3. j # Len(blocks) => BlockText(more, blocks[j + 1]) = BlockText(page, blocks[j + 1])
    BY <1>2, <1>5, <2>1
  <2>4. open[j].tag = more[blocks[j]].tag
    BY <1>1, <1>2, <1>3, Zenon
  <2> QED BY <1>1, <2>2, <2>3, <2>4, Zenon
<1>8. OpenFollow(more, open)
  BY <1>1, <1>6, <1>7, Zenon DEF OpenFollow
<1> QED BY <1>8 DEF more

-----------------------------------------------------------------------------
\* The start of an element.
LEMMA FollowsOpen ==
  ASSUME NEW page, IsPage(page), Nested(page), NEW t \in PageTokens, t.kind = "open",
         NEW s, Follows(page, s)
  PROVE  Follows(Append(page, t), Read(s, t))
<1> DEFINE n == Len(page)
           more == Append(page, t)
           q == Read(s, t)
<1>1. s \in Readers /\ SkipsFollow(page, s.skips) /\ OpenFollow(page, s.open) /\ s.blocks = BlockTexts(page)
  BY DEF Follows
<1>2. /\ s.skips \in Seq(ElementNames) /\ s.open \in Seq(Open) /\ t.tag \in ElementNames
  BY <1>1 DEF Readers, PageTokens
<1>3. /\ IsPage(more) /\ n \in Nat /\ more[n + 1] = t /\ n + 1 \notin 1..n
      /\ \A i \in 1..n : more[i] = page[i]
  BY LastToken
<1>4. Unclosed(more) = Unclosed(page) \cup {n + 1}
  BY UnclosedNext
<1>5. /\ Regions(more) = Regions(page) \cup (IF Skips(t) THEN {n + 1} ELSE {})
      /\ Blocks(more) = Blocks(page) \cup
           (IF t.tag \in BlockTags /\ ~Skips(t) /\ OpenRegions(page) = {} THEN {n + 1} ELSE {})
      /\ Regions(page) \subseteq 1..n /\ Blocks(page) \subseteq 1..n
  BY RegionsNext, BlocksNext DEF OpenRegions
<1>6. Unclosed(page) \subseteq 1..n
  BY LastToken DEF Unclosed
<1>7. /\ OpenRegions(more) = OpenRegions(page) \cup (IF Skips(t) THEN {n + 1} ELSE {})
      /\ OpenBlocks(more) = OpenBlocks(page) \cup
           (IF t.tag \in BlockTags /\ ~Skips(t) /\ OpenRegions(page) = {} THEN {n + 1} ELSE {})
      /\ OpenRegions(page) \subseteq 1..n /\ OpenBlocks(page) \subseteq 1..n
  <2> HIDE DEF more, n
  <2> QED BY <1>3, <1>4, <1>5, <1>6 DEF OpenRegions, OpenBlocks
<1>8. BlockTexts(more) = s.blocks
  BY <1>1, BlockTextsNext
<1>9. \A b \in 1..n : BlockText(more, b) = BlockText(page, b)
  BY BlockTextNext
<1>10. BlockText(more, n + 1) = <<>>
  <2>1. BlockText(more, n + 1) = BlockText(page, n + 1)
    BY <1>3, BlockTextNext
  <2> QED BY <2>1, BlockTextOfNew
<1>11. s.skips = <<>> <=> OpenRegions(page) = {}
  BY <1>1, <1>2, SkipsFacts
<1>12. q = StartTag(s, t)
  BY ReadCases
<1>13. OpenRegions(more) = OpenRegions(page) => SkipsFollow(more, s.skips)
  BY <1>1, SkipsStay
<1>14. OpenBlocks(more) = OpenBlocks(page) => OpenFollow(more, s.open)
  BY <1>1, <1>7, <1>9, OpenStay
<1>19. ~Skips(t) => OpenRegions(more) = OpenRegions(page)
  BY <1>7
<1>20. ~(~Skips(t) /\ s.skips = <<>> /\ t.tag \in BlockTags) => OpenBlocks(more) = OpenBlocks(page)
  BY <1>7, <1>11
<1> SUFFICES Follows(more, q)
  OBVIOUS
<1> HIDE DEF more, n, q
<1>15. CASE Skips(t)
  <2>1. q = [s EXCEPT !.skips = Append(@, t.tag)]
    BY <1>1, <1>12, <1>15, StartCases, Zenon
  <2> DEFINE longer == Append(s.skips, t.tag)
  <2>2. longer \in Seq(ElementNames) /\ Len(longer) = Len(s.skips) + 1 /\ longer[Len(s.skips) + 1] = t.tag
        /\ \A j \in 1..Len(s.skips) : longer[j] = s.skips[j]
    BY <1>2, AppendProperties
  <2> HIDE DEF longer
  <2>3. q \in Readers /\ q.skips = longer /\ q.open = s.open /\ q.blocks = s.blocks
    BY <1>1, <2>1, <2>2, Zenon DEF Readers, longer
  <2>4. PICK regions : /\ Lists(regions, OpenRegions(page))
                       /\ Len(s.skips) = Len(regions)
                       /\ \A j \in 1..Len(regions) : s.skips[j] = page[regions[j]].tag
    BY <1>1 DEF SkipsFollow
  <2>5. Lists(Append(regions, n + 1), OpenRegions(page) \cup {n + 1})
    <3>1. \A y \in OpenRegions(page) : y < n + 1
      BY <1>3, <1>7
    <3> QED BY <1>3, <2>4, <3>1, ListGrows
  <2>6. /\ Len(regions) \in Nat /\ Len(Append(regions, n + 1)) = Len(regions) + 1
        /\ Append(regions, n + 1)[Len(regions) + 1] = n + 1
        /\ \A j \in 1..Len(regions) : Append(regions, n + 1)[j] = regions[j] /\ regions[j] \in 1..n
    BY <1>3, <1>7, <2>4, AppendProperties, LenProperties DEF Lists
  <2> DEFINE grown == Append(regions, n + 1)
  <2>7. ASSUME NEW j \in 1..Len(grown) PROVE longer[j] = more[grown[j]].tag
    <3>1. CASE j = Len(regions) + 1
      BY <1>3, <2>2, <2>4, <2>6, <3>1
    <3>2. CASE j # Len(regions) + 1
      <4>1. j \in 1..Len(regions)
        BY <2>6, <3>2
      <4>2. longer[j] = s.skips[j] /\ grown[j] = regions[j] /\ more[regions[j]] = page[regions[j]]
        BY <1>3, <2>2, <2>4, <2>6, <4>1
      <4> QED BY <2>4, <4>1, <4>2
    <3> QED BY <3>1, <3>2
  <2>8. Lists(grown, OpenRegions(more)) /\ Len(longer) = Len(grown)
    BY <1>7, <1>15, <2>2, <2>4, <2>5, <2>6
  <2> HIDE DEF grown
  <2>9. SkipsFollow(more, longer)
    BY <2>7, <2>8 DEF SkipsFollow
  <2> QED BY <1>8, <1>14, <1>15, <1>20, <2>3, <2>9 DEF Follows
<1>16. CASE ~Skips(t) /\ s.skips = <<>> /\ t.tag \in BlockTags
  <2>1. q = [s EXCEPT !.open = Append(@, [tag |-> t.tag, pieces |-> <<>>])]
    BY <1>1, <1>12, <1>16, StartCases
  <2> DEFINE begun == [tag |-> t.tag, pieces |-> <<>>]
             longer == Append(s.open, begun)
  <2>2. begun \in Open /\ begun.tag = t.tag /\ begun.pieces = <<>>
    BY <1>2, EmptySeq DEF Open
  <2> HIDE DEF begun
  <2>3. longer \in Seq(Open) /\ Len(longer) = Len(s.open) + 1 /\ longer[Len(s.open) + 1] = begun
        /\ \A j \in 1..Len(s.open) : longer[j] = s.open[j] /\ s.open[j] \in Open
    BY <1>2, <2>2, AppendProperties, ElementOfSeq
  <2> HIDE DEF longer
  <2>4. q \in Readers /\ q.skips = s.skips /\ q.open = longer /\ q.blocks = s.blocks
    BY <1>1, <2>1, <2>3, Zenon DEF Readers, longer, begun
  <2>5. PICK blocks :
         /\ Lists(blocks, OpenBlocks(page))
         /\ Len(s.open) = Len(blocks)
         /\ \A j \in 1..Len(blocks) :
              /\ s.open[j].tag = page[blocks[j]].tag
              /\ BlockText(page, blocks[j]) =
                   s.open[j].pieces \o (IF j = Len(blocks) THEN <<>> ELSE BlockText(page, blocks[j + 1]))
    BY <1>1, Zenon DEF OpenFollow
  <2>6. Lists(Append(blocks, n + 1), OpenBlocks(page) \cup {n + 1})
    <3>1. \A y \in OpenBlocks(page) : y < n + 1
      BY <1>3, <1>7
    <3> QED BY <1>3, <2>5, <3>1, ListGrows
  <2> DEFINE grown == Append(blocks, n + 1)
             m == Len(blocks)
  <2>7. /\ m \in Nat /\ Len(grown) = m + 1
        /\ grown[m + 1] = n + 1
        /\ \A j \in 1..m : grown[j] = blocks[j] /\ blocks[j] \in 1..n
    BY <1>3, <1>7, <2>5, AppendProperties, LenProperties DEF Lists
  <2>8. Lists(grown, OpenBlocks(more))
    BY <1>7, <1>11, <1>16, <2>6, Zenon
  <2> HIDE DEF grown
  <2>9. ASSUME NEW j \in 1..Len(grown)
        PROVE  /\ longer[j].tag = more[grown[j]].tag
               /\ BlockText(more, grown[j]) =
                   longer[j].pieces \o (IF j = Len(grown) THEN <<>> ELSE BlockText(more, grown[j + 1]))
    <3>0. <<>> \o <<>> = <<>>
      BY EmptySeq, ConcatEmptySeq
    <3>1. CASE j = m + 1
      BY <1>3, <1>10, <2>2, <2>3, <2>5, <2>7, <3>0, <3>1
    <3>2. CASE j = m /\ j \in 1..m
      <4>1. longer[j] = s.open[j] /\ grown[j] = blocks[j] /\ grown[j + 1] = n + 1 /\ j # Len(grown)
            /\ more[blocks[j]] = page[blocks[j]] /\ BlockText(more, blocks[j]) = BlockText(page, blocks[j])
        BY <1>3, <1>9, <2>3, <2>5, <2>7, <3>2
      <4> QED BY <1>10, <2>5, <3>2, <4>1, Zenon
    <3>3. CASE j \in 1..(m - 1)
      <4>0. j \in 1..m /\ j + 1 \in 1..m /\ j # m
        BY <2>7, <3>3
      <4>1. longer[j] = s.open[j] /\ grown[j] = blocks[j] /\ grown[j + 1] = blocks[j + 1] /\ j # Len(grown)
            /\ more[blocks[j]] = page[blocks[j]] /\ BlockText(more, blocks[j]) = BlockText(page, blocks[j])
            /\ BlockText(more, blocks[j + 1]) = BlockText(page, blocks[j + 1])
        BY <1>3, <1>9, <2>3, <2>5, <2>7, <4>0
      <4> QED BY <2>5, <4>0, <4>1, Zenon
    <3>4. j = m + 1 \/ (j = m /\ j \in 1..m) \/ j \in 1..(m - 1)
      BY <2>7
    <3> QED BY <3>1, <3>2, <3>3, <3>4, Zenon
  <2>10. Len(longer) = Len(grown)
    BY <2>3, <2>5, <2>7
  <2>11. OpenFollow(more, longer)
    BY <2>8, <2>9, <2>10, Zenon DEF OpenFollow
  <2> QED BY <1>8, <1>13, <1>16, <1>19, <2>4, <2>11 DEF Follows
<1>17. CASE ~Skips(t) /\ ~(s.skips = <<>> /\ t.tag \in BlockTags)
  <2>1. q = s
    BY <1>1, <1>12, <1>17, StartCases, Zenon
  <2> QED BY <1>1, <1>8, <1>13, <1>14, <1>17, <1>19, <1>20, <2>1 DEF Follows
<1> QED BY <1>15, <1>16, <1>17, Zenon

\* A text goes to the innermost block, and so to every open one.
LEMMA FollowsText ==
  ASSUME NEW page, IsPage(page), Nested(page), NEW t \in PageTokens, t.kind = "text",
         NEW s, Follows(page, s)
  PROVE  Follows(Append(page, t), Read(s, t))
<1> DEFINE n == Len(page)
           more == Append(page, t)
           q == Read(s, t)
<1>1. s \in Readers /\ SkipsFollow(page, s.skips) /\ OpenFollow(page, s.open) /\ s.blocks = BlockTexts(page)
  BY DEF Follows
<1>2. s.skips \in Seq(ElementNames) /\ s.open \in Seq(Open) /\ t.text \in Seq(Nat)
  BY <1>1 DEF Readers, PageTokens
<1>3. /\ IsPage(more) /\ n \in Nat /\ DOMAIN more = 1..(n + 1) /\ Len(more) = n + 1
      /\ \A i \in 1..n : more[i] = page[i]
  BY LastToken
<1>4. Unclosed(more) = Unclosed(page)
  BY UnclosedNext
<1>5. Regions(more) = Regions(page) /\ Blocks(more) = Blocks(page)
  <2>1. Regions(more) = Regions(page)
    BY RegionsNext, Zenon
  <2>2. Blocks(more) = Blocks(page)
    BY BlocksNext, Zenon
  <2> QED BY <2>1, <2>2
<1>6. OpenRegions(more) = OpenRegions(page) /\ OpenBlocks(more) = OpenBlocks(page)
  BY <1>4, <1>5 DEF OpenRegions, OpenBlocks
<1>7. BlockTexts(more) = s.blocks
  BY <1>1, BlockTextsNext
<1>8. Hidden(more, n + 1) <=> OpenRegions(page) # {}
  BY HiddenNext DEF OpenRegions
<1>9. \A b \in OpenBlocks(page) : b \in 1..n /\ IsOpen(more, b, n + 1)
  <2>1. \A b \in OpenBlocks(page) : b \in 1..n
    BY OpenPlaces
  <2>2. \A b \in Unclosed(more) : IsOpen(more, b, n + 1)
    BY <1>3 DEF Unclosed
  <2> HIDE DEF more, n
  <2> QED BY <1>4, <2>1, <2>2 DEF OpenBlocks
<1>10. \A b \in 1..n : BlockText(more, b) =
         IF IsOpen(more, b, n + 1) /\ ~Hidden(more, n + 1)
         THEN BlockText(page, b) \o t.text ELSE BlockText(page, b)
  BY BlockTextNext
<1>11. s.skips = <<>> <=> OpenRegions(page) = {}
  BY <1>1, <1>2, SkipsFacts
<1>12. s.open = <<>> <=> OpenBlocks(page) = {}
  BY <1>1, <1>2, OpenFacts
<1>13. q = Data(s, t)
  BY ReadCases
<1>14. SkipsFollow(more, s.skips)
  BY <1>1, <1>6, SkipsStay
<1>15. (\A b \in OpenBlocks(page) : BlockText(more, b) = BlockText(page, b)) => OpenFollow(more, s.open)
  BY <1>1, <1>6, OpenStay
<1> SUFFICES Follows(more, q)
  OBVIOUS
<1>0. \A b \in OpenBlocks(page) : BlockText(page, b) \in Seq(Nat)
  BY BlockTextType
<1> HIDE DEF more, n, q
<1>16. CASE s.skips = <<>> /\ s.open # <<>>
  <2>1. q = [s EXCEPT !.open[Len(s.open)].pieces = @ \o t.text]
    BY <1>1, <1>13, <1>16, DataCases, Zenon
  <2>2. \A b \in OpenBlocks(page) : BlockText(more, b) = BlockText(page, b) \o t.text
    BY <1>8, <1>9, <1>10, <1>11, <1>16, Zenon
  <2> DEFINE open == s.open
             m == Len(s.open)
             now == [open EXCEPT ![m].pieces = @ \o t.text]
  <2>3. /\ m \in Nat \ {0} /\ m \in 1..m /\ DOMAIN open = 1..m
        /\ \A j \in 1..m : open[j] \in Open
    BY <1>2, <1>16, LenProperties, ElementOfSeq, EmptySeq
  <2>4. \A j \in 1..m : open[j].pieces \in Seq(Nat) /\ open[j].tag \in ElementNames
    BY <2>3 DEF Open
  <2>5. open[m].pieces \o t.text \in Seq(Nat)
    BY <1>2, <2>3, <2>4, ConcatProperties
  <2>6. open \in [1..m -> Open]
    <3>1. open \in [1..Len(open) -> Open]
      BY <1>2, LenProperties
    <3> QED BY <3>1
  <2> HIDE DEF open, m
  <2>7. /\ now \in [1..m -> Open] /\ now[m].tag = open[m].tag /\ now[m].pieces = open[m].pieces \o t.text
        /\ \A j \in 1..m : j # m => now[j] = open[j]
    BY <2>3, <2>4, <2>5, <2>6, Zenon DEF Open
  <2> HIDE DEF now
  <2>8. now \in Seq(Open) /\ Len(now) = m
    BY <2>3, <2>7, SeqDef, LenProperties
  <2>9. q \in Readers /\ q.skips = s.skips /\ q.open = now /\ q.blocks = s.blocks
    BY <1>1, <2>1, <2>8, Zenon DEF Readers, now, open, m
  <2>10. PICK blocks :
         /\ Lists(blocks, OpenBlocks(page))
         /\ m = Len(blocks)
         /\ \A j \in 1..Len(blocks) :
              /\ open[j].tag = page[blocks[j]].tag
              /\ BlockText(page, blocks[j]) =
                   open[j].pieces \o (IF j = Len(blocks) THEN <<>> ELSE BlockText(page, blocks[j + 1]))
    BY <1>1, Zenon DEF OpenFollow, open, m
  <2>11. \A j \in 1..m : blocks[j] \in OpenBlocks(page) /\ blocks[j] \in 1..n
    BY <1>9, <2>10 DEF Lists
  <2>12. ASSUME NEW j \in 1..m
         PROVE  /\ now[j].tag = more[blocks[j]].tag
                /\ BlockText(more, blocks[j]) =
                   now[j].pieces \o (IF j = m THEN <<>> ELSE BlockText(more, blocks[j + 1]))
    <3>1. now[j].tag = more[blocks[j]].tag
      BY <1>3, <2>7, <2>10, <2>11, Zenon
    <3>2. BlockText(more, blocks[j]) = BlockText(page, blocks[j]) \o t.text
      BY <2>2, <2>11, Zenon
    <3>3. CASE j = m
      <4>1. BlockText(page, blocks[j]) = open[j].pieces \o <<>>
        BY <2>10, <3>3, Zenon
      <4>2. open[j].pieces \o <<>> = open[j].pieces /\ now[j].pieces \o <<>> = now[j].pieces
        BY <2>3, <2>4, <2>5, <2>7, <3>3, ConcatEmptySeq
      <4> QED BY <2>7, <3>1, <3>2, <3>3, <4>1, <4>2, Zenon
    <3>4. CASE j # m
      <4>1. j + 1 \in 1..m
        BY <2>3, <3>4
      <4>2. /\ BlockText(page, blocks[j]) = open[j].pieces \o BlockText(page, blocks[j + 1])
            /\ BlockText(more, blocks[j + 1]) = BlockText(page, blocks[j + 1]) \o t.text
            /\ now[j].pieces = open[j].pieces /\ open[j].pieces \in Seq(Nat)
            /\ BlockText(page, blocks[j + 1]) \in Seq(Nat)
        BY <1>0, <2>2, <2>4, <2>7, <2>10, <2>11, <3>4, <4>1, Zenon
      <4> DEFINE x == open[j].pieces
                 y == BlockText(page, blocks[j + 1])
                 z == t.text
      <4>3. x \in Seq(Nat) /\ y \in Seq(Nat) /\ z \in Seq(Nat)
        BY <1>2, <4>2
      <4>5. /\ BlockText(more, blocks[j]) = (x \o y) \o z
            /\ BlockText(more, blocks[j + 1]) = y \o z
            /\ now[j].pieces = x
        BY <3>2, <4>2
      <4> HIDE DEF x, y, z
      <4>4. (x \o y) \o z = x \o (y \o z)
        BY <4>3, ConcatAssociative, SMTT(30)
      <4> QED BY <3>1, <3>4, <4>4, <4>5, Zenon
    <3> QED BY <3>3, <3>4, Zenon
  <2>13. OpenFollow(more, now)
    <3>1. Lists(blocks, OpenBlocks(more)) /\ Len(now) = Len(blocks)
      BY <1>6, <2>8, <2>10
    <3> QED BY <2>10, <2>12, <3>1, Zenon DEF OpenFollow
  <2> QED BY <1>7, <1>14, <2>9, <2>13 DEF Follows
<1>17. CASE ~(s.skips = <<>> /\ s.open # <<>>)
  <2>1. q = s
    BY <1>1, <1>13, <1>17, DataCases, Zenon
  <2>2. \A b \in OpenBlocks(page) : BlockText(more, b) = BlockText(page, b)
    BY <1>8, <1>9, <1>10, <1>11, <1>12, <1>17
  <2>3. OpenFollow(more, s.open)
    BY <1>15, <2>2
  <2> QED BY <1>1, <1>7, <1>14, <2>1, <2>3 DEF Follows
<1> QED BY <1>16, <1>17

-----------------------------------------------------------------------------
\* The tag of the innermost element is that of the innermost region, or block, if that is
\* what it is, and of no open one if it is neither.
LEMMA InnermostNames ==
  ASSUME NEW page, IsPage(page), Nested(page), Unmistakable(page), Depth(page, Len(page)) > 0
  PROVE  LET top == Max(Unclosed(page)) IN
         /\ top \in Unclosed(page) /\ top \in 1..Len(page)
         /\ \A i \in Unclosed(page) : i \in Nat /\ i <= top
         /\ top \notin Regions(page) => \A r \in OpenRegions(page) : page[top].tag # page[r].tag
         /\ top \in Blocks(page) => OpenRegions(page) = {}
         /\ top \notin Regions(page) \cup Blocks(page) /\ page[top].tag \in BlockTags =>
              \A b \in OpenBlocks(page) : page[top].tag # page[b].tag
<1> DEFINE top == Max(Unclosed(page))
           n == Len(page)
<1>1. top \in Unclosed(page) /\ \A i \in Unclosed(page) : i <= top
  BY InnermostOpen
<1>2. n \in Nat /\ Unclosed(page) \subseteq 1..n
  BY LenProperties DEF Unclosed, IsPage
<1>3. \A i \in Unclosed(page) : page[i].kind = "open" /\ IsOpen(page, i, n)
  BY DEF Unclosed, IsOpen
<1> HIDE DEF top
<1>4. \A i \in Unclosed(page) : IsOpen(page, i, top)
  <2> SUFFICES ASSUME NEW i \in Unclosed(page) PROVE IsOpen(page, i, top)
    OBVIOUS
  <2>1. i <= top /\ IsOpen(page, i, n) /\ \A j \in i..top : j \in i..n
    BY <1>1, <1>2, <1>3
  <2> HIDE DEF n
  <2> QED BY <2>1 DEF IsOpen
<1>5. top \in Elements(page) /\ DOMAIN page = 1..n
  BY <1>1, <1>2, <1>3, LenProperties DEF Elements, IsPage, Unclosed
<1>6. ASSUME top \notin Regions(page), NEW r \in OpenRegions(page) PROVE page[top].tag # page[r].tag
  <2>1. IsOpen(page, r, top) /\ r \in Regions(page)
    BY <1>4 DEF OpenRegions
  <2> QED BY <1>5, <1>6, <2>1 DEF Unmistakable
<1>7. ASSUME top \in Blocks(page), NEW r \in OpenRegions(page) PROVE FALSE
  <2>1. IsOpen(page, r, top) /\ r \in Regions(page) /\ r # top
    BY <1>4, <1>7 DEF OpenRegions, Blocks
  <2> QED BY <1>7, <2>1 DEF Blocks, Hidden
<1>8. ASSUME top \notin Regions(page) \cup Blocks(page), page[top].tag \in BlockTags,
             NEW b \in OpenBlocks(page)
      PROVE  page[top].tag # page[b].tag
  <2>1. Hidden(page, top)
    BY <1>5, <1>8 DEF Blocks
  <2>2. PICK r \in Regions(page) : IsOpen(page, r, top)
    BY <2>1 DEF Hidden
  <2>3. IsOpen(page, b, top) /\ b \in Blocks(page)
    BY <1>4 DEF OpenBlocks
  <2>4. top \in Elements(page) \ Regions(page)
    BY <1>5, <1>8
  <2> QED BY <2>2, <2>3, <2>4 DEF Unmistakable
<1> QED BY <1>1, <1>2, <1>6, <1>7, <1>8 DEF top, n

\* The end of a block takes it off the stack, if the stack has one of that tag.
LEMMA EndBlockCases ==
  ASSUME NEW s \in Readers, NEW tag
  PROVE  LET m == Len(s.open)
             less == SubSeq(s.open, 1, m - 1)
             text == s.open[m].pieces
         IN  /\ (\A j \in 1..m : s.open[j].tag # tag) => EndBlock(s, tag) = s
             /\ s.open # <<>> /\ s.open[m].tag = tag =>
                  EndBlock(s, tag) =
                    IF text = <<>> THEN [s EXCEPT !.open = less]
                    ELSE [s EXCEPT !.blocks = Append(@, text),
                                   !.open = IF less = <<>> THEN <<>>
                                            ELSE [less EXCEPT ![Len(less)].pieces = @ \o text]]
<1> DEFINE m == Len(s.open)
           tags == [j \in DOMAIN s.open |-> s.open[j].tag]
           i == Innermost(tags, tag)
<1>1. s.open \in Seq(Open) /\ m \in Nat /\ DOMAIN s.open = 1..m
  BY LenProperties DEF Readers
<1>2. DOMAIN tags = 1..m /\ \A j \in 1..m : tags[j] = s.open[j].tag
  BY <1>1
<1> HIDE DEF tags
<1>3. /\ m > 0 /\ tags[m] = tag => i = m
      /\ (\A j \in 1..m : tags[j] # tag) => i = 0
  BY <1>1, <1>2, InnermostLast
<1>4. EndBlock(s, tag) =
        IF i = 0 THEN s
        ELSE IF s.open[i].pieces = <<>> THEN [s EXCEPT !.open = RemoveAt(s.open, i)]
        ELSE [s EXCEPT !.blocks = Append(@, s.open[i].pieces),
                       !.open = IF RemoveAt(s.open, i) = <<>> THEN <<>>
                                ELSE [RemoveAt(s.open, i) EXCEPT
                                       ![Len(RemoveAt(s.open, i))].pieces = @ \o s.open[i].pieces]]
  BY DEF EndBlock, tags
<1>5. s.open # <<>> => m > 0 /\ RemoveAt(s.open, m) = SubSeq(s.open, 1, m - 1)
  BY <1>1, Shorter
<1> HIDE DEF i
<1>6. (\A j \in 1..m : s.open[j].tag # tag) => EndBlock(s, tag) = s
  BY <1>2, <1>3, <1>4
<1>7. ASSUME s.open # <<>>, s.open[m].tag = tag
      PROVE  i = m /\ i # 0 /\ RemoveAt(s.open, i) = SubSeq(s.open, 1, m - 1)
  BY <1>1, <1>2, <1>3, <1>5, <1>7
<1>8. ASSUME s.open # <<>>, s.open[m].tag = tag
      PROVE  EndBlock(s, tag) =
                    IF s.open[m].pieces = <<>> THEN [s EXCEPT !.open = SubSeq(s.open, 1, m - 1)]
                    ELSE [s EXCEPT !.blocks = Append(@, s.open[m].pieces),
                                   !.open = IF SubSeq(s.open, 1, m - 1) = <<>> THEN <<>>
                                            ELSE [SubSeq(s.open, 1, m - 1) EXCEPT
                                                   ![Len(SubSeq(s.open, 1, m - 1))].pieces = @ \o s.open[m].pieces]]
  BY <1>4, <1>7, <1>8, Zenon
<1> QED BY <1>6, <1>8, Zenon

\* The end of a region, which is the innermost one.
LEMMA SkipEnds ==
  ASSUME NEW page, IsPage(page), Nested(page), Unmistakable(page), Depth(page, Len(page)) > 0,
         Max(Unclosed(page)) \in Regions(page), NEW t \in PageTokens, t.kind = "close",
         t.tag = page[Max(Unclosed(page))].tag, NEW s, Follows(page, s)
  PROVE  Follows(Append(page, t), EndTag(s, t))
<1> DEFINE n == Len(page)
           more == Append(page, t)
           top == Max(Unclosed(page))
           q == EndTag(s, t)
           k == Len(s.skips)
           less == SubSeq(s.skips, 1, k - 1)
<1>1. s \in Readers /\ SkipsFollow(page, s.skips) /\ OpenFollow(page, s.open) /\ s.blocks = BlockTexts(page)
  BY DEF Follows
<1>2. s.skips \in Seq(ElementNames)
  BY <1>1 DEF Readers
<1>3. n \in Nat /\ \A i \in 1..n : more[i] = page[i]
  BY LastToken
<1>4. /\ top \in Unclosed(page) /\ top \in 1..n
      /\ \A i \in Unclosed(page) : i \in Nat /\ i <= top
  BY InnermostNames
<1>5. Unclosed(more) = Unclosed(page) \ {top}
  BY UnclosedNext
<1>6. Regions(more) = Regions(page)
  BY RegionsNext, Zenon
<1>7. Blocks(more) = Blocks(page) /\ Blocks(page) \cap Regions(page) = {}
  BY BlocksNext, Zenon
<1>8. top \in Regions(page)
  OBVIOUS
<1>9. BlockTexts(more) = s.blocks
  BY <1>1, <1>7, <1>8, BlockTextsNext
<1>10. \A b \in OpenBlocks(page) : BlockText(more, b) = BlockText(page, b)
  BY OpenPlaces, BlockTextNext
<1>11. OpenBlocks(more) = OpenBlocks(page) => OpenFollow(more, s.open)
  BY <1>1, <1>10, OpenStay
<1>12. t.tag = page[top].tag
  OBVIOUS
<1> SUFFICES Follows(more, q)
  OBVIOUS
<1> HIDE DEF more, top
<1>13. OpenRegions(more) = OpenRegions(page) \ {top} /\ OpenBlocks(more) = OpenBlocks(page)
  BY <1>5, <1>6, <1>7, <1>8 DEF OpenRegions, OpenBlocks
<1>14. top \in OpenRegions(page) /\ \A y \in OpenRegions(page) : y \in Nat /\ y <= top
  BY <1>4, <1>8 DEF OpenRegions
<1>15. PICK regions : /\ Lists(regions, OpenRegions(page))
                      /\ Len(s.skips) = Len(regions)
                      /\ \A j \in 1..Len(regions) : s.skips[j] = page[regions[j]].tag
  BY <1>1 DEF SkipsFollow
<1> DEFINE fewer == SubSeq(regions, 1, k - 1)
<1>16. /\ k \in Nat \ {0} /\ regions[k] = top /\ Lists(fewer, OpenRegions(more))
  <2>1. /\ Len(regions) \in Nat \ {0} /\ regions[Len(regions)] = top
        /\ Lists(SubSeq(regions, 1, Len(regions) - 1), OpenRegions(page) \ {top})
    BY <1>14, <1>15, ListShrinks
  <2>2. k = Len(regions)
    BY <1>15
  <2> QED BY <1>13, <2>1, <2>2
<1>17. s.skips # <<>> /\ k \in 1..k /\ DOMAIN s.skips = 1..k
  BY <1>2, <1>16, EmptySeq, LenProperties
<1>18. s.skips[k] = t.tag
  BY <1>12, <1>15, <1>16, <1>17
<1>19. Innermost(s.skips, t.tag) = k
  BY <1>16, <1>17, <1>18, InnermostLast
<1>20. t.tag \in Range(s.skips)
  BY <1>17, <1>18 DEF Range
<1>21. q = [s EXCEPT !.skips = less]
  <2>1. q = EndSkip(s, t.tag)
    BY <1>1, <1>20, EndCases
  <2> QED BY <1>19, <2>1 DEF EndSkip
<1>22. less \in Seq(ElementNames) /\ Len(less) = k - 1 /\ \A j \in 1..(k - 1) : less[j] = s.skips[j]
  BY <1>2, <1>17, Shorter
<1>23. Len(fewer) = k - 1 /\ \A j \in 1..(k - 1) : fewer[j] = regions[j]
  <2>1. regions \in Seq(Nat) /\ regions # <<>>
    BY <1>15, <1>16, EmptySeq DEF Lists
  <2> QED BY <1>15, <2>1, Shorter
<1>24. \A j \in 1..k : regions[j] \in 1..n
  BY <1>15, OpenPlaces DEF Lists
<1> HIDE DEF less, fewer, k, q, n
<1>25. q \in Readers /\ q.skips = less /\ q.open = s.open /\ q.blocks = s.blocks
  BY <1>1, <1>21, <1>22, Zenon DEF Readers
<1>26. \A j \in 1..(k - 1) : less[j] = more[fewer[j]].tag
  <2> SUFFICES ASSUME NEW j \in 1..(k - 1) PROVE less[j] = more[fewer[j]].tag
    OBVIOUS
  <2>1. j \in 1..k
    BY <1>16
  <2>2. s.skips[j] = page[regions[j]].tag
    BY <1>15, <2>1 DEF k
  <2>3. more[regions[j]] = page[regions[j]]
    BY <1>3, <1>24, <2>1
  <2> QED BY <1>22, <1>23, <2>2, <2>3
<1>27. SkipsFollow(more, less)
  BY <1>16, <1>22, <1>23, <1>26 DEF SkipsFollow
<1> QED BY <1>9, <1>11, <1>13, <1>25, <1>27 DEF Follows

\* The end of what is neither a region nor a block changes nothing.
LEMMA OtherEnds ==
  ASSUME NEW page, IsPage(page), Nested(page), Unmistakable(page), Depth(page, Len(page)) > 0,
         Max(Unclosed(page)) \notin Regions(page) \cup Blocks(page), NEW t \in PageTokens, t.kind = "close",
         t.tag = page[Max(Unclosed(page))].tag, NEW s, Follows(page, s)
  PROVE  Follows(Append(page, t), EndTag(s, t))
<1> DEFINE more == Append(page, t)
           top == Max(Unclosed(page))
<1>1. s \in Readers /\ SkipsFollow(page, s.skips) /\ OpenFollow(page, s.open) /\ s.blocks = BlockTexts(page)
  BY DEF Follows
<1>2. s.skips \in Seq(ElementNames) /\ s.open \in Seq(Open)
  BY <1>1 DEF Readers
<1>3. /\ \A r \in OpenRegions(page) : t.tag # page[r].tag
      /\ t.tag \in BlockTags => \A b \in OpenBlocks(page) : t.tag # page[b].tag
  BY InnermostNames
<1>4. Unclosed(more) = Unclosed(page) \ {top}
  BY UnclosedNext
<1>5. Regions(more) = Regions(page)
  BY RegionsNext, Zenon
<1>6. Blocks(more) = Blocks(page)
  BY BlocksNext, Zenon
<1>7. BlockTexts(more) = s.blocks
  BY <1>1, BlockTextsNext
<1>8. \A b \in OpenBlocks(page) : BlockText(more, b) = BlockText(page, b)
  BY OpenPlaces, BlockTextNext
<1>9. top \notin Regions(page) \cup Blocks(page)
  OBVIOUS
<1>10. OpenBlocks(more) = OpenBlocks(page) => OpenFollow(more, s.open)
  BY <1>1, <1>8, OpenStay
<1>11. OpenRegions(more) = OpenRegions(page) => SkipsFollow(more, s.skips)
  BY <1>1, SkipsStay
<1>12. t.tag \notin Range(s.skips)
  BY <1>1, <1>2, <1>3, SkipsFacts
<1>13. t.tag \in BlockTags => \A j \in 1..Len(s.open) : s.open[j].tag # t.tag
  BY <1>1, <1>2, <1>3, OpenFacts
<1>14. EndTag(s, t) = s
  <2>1. CASE t.tag \in BlockTags
    <3>1. EndBlock(s, t.tag) = s
      BY <1>1, <1>13, <2>1, EndBlockCases, Zenon
    <3>2. EndTag(s, t) = EndBlock(s, t.tag)
      BY <1>1, <1>12, <2>1, EndCases
    <3> QED BY <3>1, <3>2
  <2>2. CASE t.tag \notin BlockTags
    BY <1>1, <1>12, <2>2, EndCases
  <2> QED BY <2>1, <2>2
<1> SUFFICES Follows(more, EndTag(s, t))
  OBVIOUS
<1> HIDE DEF more, top
<1>15. OpenRegions(more) = OpenRegions(page) /\ OpenBlocks(more) = OpenBlocks(page)
  BY <1>4, <1>5, <1>6, <1>9 DEF OpenRegions, OpenBlocks
<1> QED BY <1>1, <1>7, <1>10, <1>11, <1>14, <1>15 DEF Follows

\* The end of a block, which is the innermost one: its text goes to the page and to the
\* block around it.
LEMMA BlockEnds ==
  ASSUME NEW page, IsPage(page), Nested(page), Unmistakable(page), Depth(page, Len(page)) > 0,
         Max(Unclosed(page)) \in Blocks(page), NEW t \in PageTokens, t.kind = "close",
         t.tag = page[Max(Unclosed(page))].tag, NEW s, Follows(page, s)
  PROVE  Follows(Append(page, t), EndTag(s, t))
<1> DEFINE n == Len(page)
           more == Append(page, t)
           top == Max(Unclosed(page))
           q == EndTag(s, t)
           open == s.open
           m == Len(open)
           less == SubSeq(open, 1, m - 1)
           text == open[m].pieces
<1>1. s \in Readers /\ SkipsFollow(page, s.skips) /\ OpenFollow(page, open) /\ s.blocks = BlockTexts(page)
  BY DEF Follows
<1>2. s.skips \in Seq(ElementNames) /\ open \in Seq(Open) /\ s.blocks \in Seq(Seq(Nat))
  BY <1>1 DEF Readers
<1>3. n \in Nat /\ \A i \in 1..n : more[i] = page[i]
  BY LastToken
<1>4. /\ top \in Unclosed(page) /\ top \in 1..n
      /\ \A i \in Unclosed(page) : i \in Nat /\ i <= top
      /\ OpenRegions(page) = {}
  BY InnermostNames
<1>5. Unclosed(more) = Unclosed(page) \ {top}
  BY UnclosedNext
<1>6. Regions(more) = Regions(page)
  BY RegionsNext, Zenon
<1>7. Blocks(more) = Blocks(page) /\ Blocks(page) \cap Regions(page) = {}
  BY BlocksNext, Zenon
<1>8. top \in Blocks(page)
  OBVIOUS
<1>9. BlockTexts(more) =
        IF BlockText(page, top) # <<>> THEN Append(s.blocks, BlockText(page, top)) ELSE s.blocks
  BY <1>1, BlockTextsNext
<1>10. \A b \in OpenBlocks(page) :
         b \in 1..n /\ BlockText(more, b) = BlockText(page, b) /\ BlockText(page, b) \in Seq(Nat)
  BY OpenPlaces, BlockTextNext, BlockTextType
<1>11. OpenRegions(more) = OpenRegions(page) => SkipsFollow(more, s.skips)
  BY <1>1, SkipsStay
<1>12. t.tag = page[top].tag /\ page[top].tag \in BlockTags
  BY DEF Blocks
<1>13. t.tag \notin Range(s.skips)
  BY <1>1, <1>2, <1>4, SkipsFacts
<1>14. q = EndBlock(s, t.tag)
  BY <1>1, <1>12, <1>13, EndCases
<1> SUFFICES Follows(more, q)
  OBVIOUS
<1> HIDE DEF more, top, q, n
<1>15. OpenRegions(more) = OpenRegions(page) /\ OpenBlocks(more) = OpenBlocks(page) \ {top}
  BY <1>5, <1>6, <1>7, <1>8 DEF OpenRegions, OpenBlocks
<1>16. top \in OpenBlocks(page) /\ \A y \in OpenBlocks(page) : y \in Nat /\ y <= top
  BY <1>4, <1>8 DEF OpenBlocks
<1>17. PICK blocks :
         /\ Lists(blocks, OpenBlocks(page))
         /\ m = Len(blocks)
         /\ \A j \in 1..Len(blocks) :
              /\ open[j].tag = page[blocks[j]].tag
              /\ BlockText(page, blocks[j]) =
                   open[j].pieces \o (IF j = Len(blocks) THEN <<>> ELSE BlockText(page, blocks[j + 1]))
  BY <1>1, Zenon DEF OpenFollow
<1> DEFINE fewer == SubSeq(blocks, 1, m - 1)
<1>18. m \in Nat \ {0} /\ blocks[m] = top /\ Lists(fewer, OpenBlocks(more))
  <2>1. Lists(blocks, OpenBlocks(page)) /\ m = Len(blocks)
    BY <1>17
  <2>2. /\ m \in Nat \ {0} /\ blocks[m] = top
        /\ Lists(SubSeq(blocks, 1, m - 1), OpenBlocks(page) \ {top})
    BY <1>16, <2>1, ListShrinks
  <2> QED BY <1>15, <2>2
<1>19. open # <<>> /\ m \in 1..m
  BY <1>2, <1>18, EmptySeq
<1>20. open[m].tag = t.tag
  BY <1>12, <1>17, <1>18, <1>19, Zenon
<1>21. q = IF text = <<>> THEN [s EXCEPT !.open = less]
           ELSE [s EXCEPT !.blocks = Append(@, text),
                          !.open = IF less = <<>> THEN <<>> ELSE [less EXCEPT ![Len(less)].pieces = @ \o text]]
  BY <1>1, <1>14, <1>19, <1>20, EndBlockCases, Zenon
<1>22. /\ less \in Seq(Open) /\ Len(less) = m - 1
       /\ \A j \in 1..(m - 1) : less[j] = open[j] /\ open[j] \in Open
       /\ open[m] \in Open
  BY <1>2, <1>19, Shorter
<1>23. Len(fewer) = m - 1 /\ \A j \in 1..(m - 1) : fewer[j] = blocks[j]
  <2>1. blocks \in Seq(Nat) /\ blocks # <<>>
    BY <1>17, <1>18, EmptySeq DEF Lists
  <2> QED BY <1>17, <2>1, Shorter
<1>24. \A j \in 1..m : blocks[j] \in OpenBlocks(page) /\ blocks[j] \in 1..n
  BY <1>10, <1>17 DEF Lists
<1>25. text \in Seq(Nat) /\ BlockText(page, top) = text
  <2>1. text \in Seq(Nat)
    BY <1>22 DEF Open
  <2>2. BlockText(page, top) = text \o <<>>
    BY <1>17, <1>18, <1>19, Zenon
  <2>3. text \o <<>> = text
    <3> HIDE DEF text
    <3> QED BY <2>1, ConcatEmptySeq
  <2> QED BY <2>1, <2>2, <2>3
<1> DEFINE now == IF text = <<>> \/ less = <<>> THEN less ELSE [less EXCEPT ![Len(less)].pieces = @ \o text]
<1> HIDE DEF less, text, fewer, m, open
<1>26. ASSUME NEW j \in 1..(m - 1)
       PROVE  /\ fewer[j] = blocks[j] /\ less[j] = open[j] /\ more[blocks[j]] = page[blocks[j]]
              /\ BlockText(more, blocks[j]) = BlockText(page, blocks[j])
              /\ open[j].tag = page[blocks[j]].tag
              /\ open[j].pieces \in Seq(Nat) /\ open[j].tag \in ElementNames
              /\ BlockText(page, blocks[j]) = open[j].pieces \o BlockText(page, blocks[j + 1])
              /\ BlockText(page, blocks[j + 1]) \in Seq(Nat) /\ j + 1 \in 1..m
  <2>1. j \in 1..m /\ j + 1 \in 1..m /\ j # m
    BY <1>18
  <2>2. open[j].pieces \in Seq(Nat) /\ open[j].tag \in ElementNames
    BY <1>22 DEF Open
  <2>3. fewer[j] = blocks[j] /\ less[j] = open[j] /\ more[blocks[j]] = page[blocks[j]]
    BY <1>3, <1>22, <1>23, <1>24, <2>1
  <2>4. BlockText(more, blocks[j]) = BlockText(page, blocks[j]) /\ BlockText(page, blocks[j + 1]) \in Seq(Nat)
    BY <1>10, <1>24, <2>1
  <2>5. /\ open[j].tag = page[blocks[j]].tag
        /\ BlockText(page, blocks[j]) = open[j].pieces \o BlockText(page, blocks[j + 1])
    BY <1>17, <2>1, Zenon
  <2> QED BY <2>1, <2>2, <2>3, <2>4, <2>5
<1>27. /\ now \in Seq(Open) /\ Len(now) = m - 1
       /\ \A j \in 1..(m - 1) :
            /\ now[j].tag = open[j].tag
            /\ now[j].pieces = IF j = m - 1 THEN open[j].pieces \o text ELSE open[j].pieces
  <2>1. CASE text = <<>> \/ less = <<>>
    <3>1. now = less
      BY <2>1
    <3>2. \A j \in 1..(m - 1) : text = <<>>
      BY <1>18, <1>22, <2>1, EmptySeq
    <3>3. \A j \in 1..(m - 1) : open[j].pieces \o <<>> = open[j].pieces
      BY <1>26, ConcatEmptySeq
    <3> HIDE DEF now
    <3> QED BY <1>22, <3>1, <3>2, <3>3, Zenon
  <2>2. CASE ~(text = <<>> \/ less = <<>>)
    <3> DEFINE p == m - 1
    <3>1. p \in Nat \ {0} /\ p \in 1..p /\ less \in [1..p -> Open]
      <4>1. less \in [1..Len(less) -> Open] /\ Len(less) \in Nat /\ less # <<>>
        BY <1>22, <2>2, LenProperties
      <4>2. Len(less) # 0
        BY <1>22, <4>1, EmptySeq
      <4> QED BY <1>22, <4>1, <4>2
    <3>2. now = [less EXCEPT ![p].pieces = @ \o text]
      BY <1>22, <2>2
    <3>3. less[p] \in Open /\ less[p].pieces \in Seq(Nat) /\ less[p].pieces \o text \in Seq(Nat)
      <4>1. less[p] \in Open
        BY <3>1
      <4>2. less[p].pieces \in Seq(Nat)
        BY <4>1 DEF Open
      <4> QED BY <1>25, <4>1, <4>2, ConcatProperties
    <3> HIDE DEF now, p
    <3>4. /\ now \in [1..p -> Open] /\ now[p].tag = less[p].tag /\ now[p].pieces = less[p].pieces \o text
          /\ \A j \in 1..p : j # p => now[j] = less[j]
      BY <3>1, <3>2, <3>3, Zenon DEF Open
    <3>5. now \in Seq(Open) /\ Len(now) = p
      BY <3>1, <3>4, SeqDef, LenProperties
    <3>6. \A j \in 1..p : less[j] = open[j]
      BY <1>26, Zenon DEF p
    <3>7. \A j \in 1..p : /\ now[j].tag = open[j].tag
                          /\ now[j].pieces = IF j = p THEN open[j].pieces \o text ELSE open[j].pieces
      BY <3>1, <3>4, <3>6, Zenon
    <3> QED BY <3>5, <3>7 DEF p
  <2> QED BY <2>1, <2>2
<1>28. q \in Readers /\ q.skips = s.skips /\ q.open = now
       /\ q.blocks = IF text # <<>> THEN Append(s.blocks, text) ELSE s.blocks
  <2>1. Append(s.blocks, text) \in Seq(Seq(Nat))
    BY <1>2, <1>25, AppendProperties
  <2>2. CASE text = <<>>
    <3>1. q = [s EXCEPT !.open = less] /\ now = less
      BY <1>21, <2>2
    <3> HIDE DEF now
    <3> QED BY <1>1, <1>27, <2>2, <3>1, Zenon DEF Readers
  <2>3. CASE text # <<>>
    <3>1. q = [s EXCEPT !.blocks = Append(@, text), !.open = now]
      BY <1>21, <2>3, Zenon
    <3> HIDE DEF now
    <3> QED BY <1>1, <1>27, <2>1, <2>3, <3>1, Zenon DEF Readers
  <2> QED BY <2>2, <2>3
<1> HIDE DEF now
<1>29. ASSUME NEW j \in 1..(m - 1)
       PROVE  /\ now[j].tag = more[fewer[j]].tag
              /\ BlockText(more, fewer[j]) =
                   now[j].pieces \o (IF j = m - 1 THEN <<>> ELSE BlockText(more, fewer[j + 1]))
  <2>0. /\ now[j].tag = open[j].tag
        /\ now[j].pieces = IF j = m - 1 THEN open[j].pieces \o text ELSE open[j].pieces
    BY <1>27
  <2>4. /\ fewer[j] = blocks[j] /\ more[blocks[j]] = page[blocks[j]] /\ open[j].tag = page[blocks[j]].tag
        /\ BlockText(more, blocks[j]) = BlockText(page, blocks[j])
        /\ BlockText(page, blocks[j]) = open[j].pieces \o BlockText(page, blocks[j + 1])
        /\ BlockText(more, blocks[j]) \in Seq(Nat)
    <3>1. BlockText(page, blocks[j]) \in Seq(Nat)
      BY <1>10, <1>18, <1>24
    <3> QED BY <1>26, <3>1, Zenon
  <2>1. now[j].tag = more[fewer[j]].tag
    BY <2>0, <2>4
  <2>2. CASE j = m - 1
    <3>1. j + 1 = m /\ blocks[j + 1] = top
      BY <1>18, <2>2
    <3>2. BlockText(more, fewer[j]) = now[j].pieces
      BY <1>25, <2>0, <2>2, <2>4, <3>1, Zenon
    <3>3. now[j].pieces \in Seq(Nat)
      BY <2>4, <3>2, Zenon
    <3>4. now[j].pieces \o <<>> = now[j].pieces
      BY <3>3, ConcatEmptySeq
    <3> QED BY <2>1, <2>2, <3>2, <3>4
  <2>3. CASE j # m - 1
    <3>1. j + 1 \in 1..(m - 1)
      BY <1>18, <2>3
    <3>2. fewer[j + 1] = blocks[j + 1] /\ BlockText(more, blocks[j + 1]) = BlockText(page, blocks[j + 1])
      BY <1>26, <3>1, Zenon
    <3> QED BY <2>0, <2>1, <2>3, <2>4, <3>2, Zenon
  <2> QED BY <2>2, <2>3, Zenon
<1>30. OpenFollow(more, now)
  BY <1>18, <1>23, <1>27, <1>29, Zenon DEF OpenFollow
<1> QED BY <1>9, <1>11, <1>15, <1>25, <1>28, <1>30 DEF Follows

-----------------------------------------------------------------------------
\* A parser that follows a page follows it with one more token: any text, any start, and
\* the end of the innermost element.
THEOREM ReaderFollowsPage ==
  ASSUME NEW page, IsPage(page), Nested(page), NEW t \in PageTokens,
         t.kind = "close" => Depth(page, Len(page)) > 0 /\ t.tag = page[Max(Unclosed(page))].tag,
         Unmistakable(page), NEW s, Follows(page, s)
  PROVE  Follows(Append(page, t), Read(s, t))
<1>1. t.kind \in {"open", "close", "text"}
  BY DEF PageTokens
<1>2. CASE t.kind = "open"
  BY <1>2, FollowsOpen
<1>3. CASE t.kind = "text"
  BY <1>3, FollowsText
<1>4. CASE t.kind = "close"
  <2>1. Read(s, t) = EndTag(s, t)
    BY <1>4, ReadCases
  <2>2. Depth(page, Len(page)) > 0 /\ t.tag = page[Max(Unclosed(page))].tag
    BY <1>4
  <2>3. CASE Max(Unclosed(page)) \in Regions(page)
    BY <1>4, <2>1, <2>2, <2>3, SkipEnds
  <2>4. CASE Max(Unclosed(page)) \in Blocks(page)
    BY <1>4, <2>1, <2>2, <2>4, BlockEnds
  <2>5. CASE Max(Unclosed(page)) \notin Regions(page) \cup Blocks(page)
    BY <1>4, <2>1, <2>2, <2>5, OtherEnds
  <2> QED BY <2>3, <2>4, <2>5
<1> QED BY <1>1, <1>2, <1>3, <1>4

\* A fresh parser has read the empty page.
LEMMA FreshFollows == IsPage(<<>>) /\ Nested(<<>>) /\ Follows(<<>>, FreshReader)
<1>1. IsPage(<<>>) /\ Len(<<>>) = 0 /\ DOMAIN <<>> = {}
  BY EmptySeq DEF IsPage
<1>2. Unclosed(<<>>) = {} /\ Regions(<<>>) = {} /\ Blocks(<<>>) = {}
  BY <1>1 DEF Unclosed, Regions, Blocks, Elements
<1>3. Nested(<<>>)
  <2>1. \A k \in 0..0 : Depth(<<>>, k) \in Nat
    BY DepthStart
  <2>2. 1..Depth(<<>>, 0) = {}
    BY DepthStart
  <2> QED BY <1>1, <2>1, <2>2 DEF Nested
<1>4. Lists(<<>>, {})
  BY <1>1, EmptySeq DEF Lists
<1>5. SkipsFollow(<<>>, <<>>) /\ OpenFollow(<<>>, <<>>)
  <2>1. OpenRegions(<<>>) = {} /\ OpenBlocks(<<>>) = {}
    BY <1>2 DEF OpenRegions, OpenBlocks
  <2>2. \A j \in 1..Len(<<>>) : FALSE
    BY <1>1
  <2>3. SkipsFollow(<<>>, <<>>)
    BY <1>4, <2>1, <2>2, Zenon DEF SkipsFollow
  <2>4. OpenFollow(<<>>, <<>>)
    BY <1>4, <2>1, <2>2, Zenon DEF OpenFollow
  <2> QED BY <2>3, <2>4
<1>6. BlockTexts(<<>>) = <<>>
  <2>1. BlockTexts(<<>>) = PE!Fold(<<>>, <<>>, PE!Positions(0))
    BY <1>1, BlockTextsIsFold
  <2>2. PE!Positions(0) = <<>>
    <3>1. PE!Positions(0) \in Seq(1..0)
      BY PE!PositionsNext
    <3>2. Len(PE!Positions(0)) = 0
      BY SeqDef, <3>1, LenProperties DEF PE!Positions
    <3> QED BY <3>1, <3>2, EmptySeq
  <2>3. PE!Closed(<<>>, Seq(Seq(Nat)), 1..0) /\ <<>> \in Seq(Seq(Nat))
    BY <1>1, EndedCloses, EmptySeq
  <2> DEFINE A == Seq(Seq(Nat))
             S == 1..0
  <2>4. PE!Closed(<<>>, A, S) /\ <<>> \in A
    BY <2>3
  <2> HIDE DEF A, S
  <2>5. PE!Fold(<<>>, <<>>, <<>>) = <<>>
    BY <2>4, PE!FoldEmpty
  <2> QED BY <2>1, <2>2, <2>5
<1>7. FreshReader \in Readers
  BY EmptySeq DEF FreshReader, Readers
<1> QED BY <1>1, <1>3, <1>5, <1>6, <1>7 DEF Follows, FreshReader

-----------------------------------------------------------------------------
\* The parser follows the page as long as no end is mistaken.
PageInv ==
  study = "page" =>
    /\ IsPage(input) /\ Nested(input)
    /\ Unmistakable(input) => Follows(input, reader)

\* The tokens that Next reads are tokens of a page.
LEMMA TagIsToken ==
  ASSUME NEW kind \in {"open", "close"}, NEW tag \in ElementNames, tag \notin {"title", "script"},
         NEW marked \in BOOLEAN
  PROVE  /\ Tag(kind, tag, marked) \in PageTokens
         /\ Tag(kind, tag, marked).kind = kind /\ Tag(kind, tag, marked).tag = tag
BY EmptySeq DEF Tag, PageTokens

\* A text is one too.
LEMMA TextIsToken ==
  ASSUME NEW sentence \in Nat
  PROVE  Text(sentence) \in PageTokens /\ Text(sentence).kind = "text"
<1>1. <<sentence>> \in Seq(Nat)
  OBVIOUS
<1> DEFINE r == Tag("text", "", FALSE)
<1>2. "" \notin {"title", "script"} /\ "" \in ElementNames
  BY DEF ElementNames
<1>3. r \in PageTokens /\ r.kind = "text"
  BY <1>2, EmptySeq, Zenon DEF Tag, PageTokens
<1>4. Text(sentence) = [r EXCEPT !.text = <<sentence>>]
  BY DEF Text
<1> HIDE DEF r
<1>5. [r EXCEPT !.text = <<sentence>>] \in PageTokens /\ [r EXCEPT !.text = <<sentence>>].kind = "text"
  BY <1>1, <1>3, Zenon DEF PageTokens
<1> QED BY <1>4, <1>5

\* Consume reads one more token of the page.
LEMMA ConsumeFollows ==
  ASSUME study = "page", PageInv, NEW t \in PageTokens, Consume(t),
         t.kind = "close" => Depth(input, Len(input)) > 0 /\ t.tag = input[Max(Unclosed(input))].tag
  PROVE  PageInv'
<1>1. IsPage(input) /\ Nested(input) /\ (Unmistakable(input) => Follows(input, reader))
  BY DEF PageInv
<1>2. input' = Append(input, t) /\ reader' = Read(reader, t)
  BY DEF Consume
<1>3. IsPage(input') /\ Nested(input')
  <2>1. IsPage(Append(input, t))
    BY <1>1, LastToken
  <2>2. Nested(Append(input, t))
    BY <1>1, UnclosedNext
  <2> QED BY <1>2, <2>1, <2>2
<1>4. Unmistakable(input') => Follows(input', reader')
  <2>1. Unmistakable(Append(input, t)) => Unmistakable(input)
    BY <1>1, UnmistakableBefore
  <2>2. Unmistakable(input) => Follows(Append(input, t), Read(reader, t))
    BY <1>1, ReaderFollowsPage
  <2> QED BY <1>2, <2>1, <2>2
<1> QED BY <1>3, <1>4 DEF PageInv

\* Every reachable state of the study of pages has such a parser.
LEMMA PageStays == Spec => []PageInv
<1>1. Init => PageInv
  <2> SUFFICES ASSUME Init, study = "page" PROVE PageInv
    BY DEF PageInv
  <2>1. input = <<>> /\ reader = FreshReader
    BY DEF Init
  <2> QED BY <2>1, FreshFollows DEF PageInv
<1>2. PageInv /\ [Next]_vars => PageInv'
  <2> SUFFICES ASSUME PageInv, [Next]_vars PROVE PageInv'
    OBVIOUS
  <2>1. CASE OpenElement
    <3>1. PICK tag \in {"div", "p", "li"}, marked \in BOOLEAN : Consume(Tag("open", tag, marked))
      BY <2>1 DEF OpenElement
    <3>2. Tag("open", tag, marked) \in PageTokens /\ Tag("open", tag, marked).kind = "open"
      <4>1. tag \in ElementNames /\ tag \notin {"title", "script"}
        BY Zenon DEF ElementNames, BlockTags
      <4>2. "open" \in {"open", "close"}
        OBVIOUS
      <4> QED BY <4>1, <4>2, TagIsToken
    <3>3. study = "page"
      BY <2>1 DEF OpenElement
    <3> QED BY <3>1, <3>2, <3>3, ConsumeFollows
  <2>2. CASE OpenNav
    <3>1. Tag("open", "nav", FALSE) \in PageTokens /\ Tag("open", "nav", FALSE).kind = "open"
      <4>1. "nav" \in ElementNames /\ "nav" \notin {"title", "script"}
        BY DEF ElementNames, SkipTags
      <4>2. "open" \in {"open", "close"} /\ FALSE \in BOOLEAN
        OBVIOUS
      <4> QED BY <4>1, <4>2, TagIsToken, Zenon
    <3>2. study = "page" /\ Consume(Tag("open", "nav", FALSE))
      BY <2>2, Zenon DEF OpenNav
    <3> QED BY <3>1, <3>2, ConsumeFollows, Zenon
  <2>3. CASE CloseElement
    <3> DEFINE tag == input[Max(Unclosed(input))].tag
    <3>1. study = "page" /\ Depth(input, Len(input)) > 0 /\ Consume(Tag("close", tag, FALSE))
      BY <2>3, Zenon DEF CloseElement
    <3>2. tag \in ElementNames /\ tag \notin {"title", "script"}
      <4>1. IsPage(input) /\ Nested(input)
        BY <3>1 DEF PageInv
      <4>2. Max(Unclosed(input)) \in Unclosed(input)
        BY <3>1, <4>1, InnermostOpen
      <4>3. Max(Unclosed(input)) \in 1..Len(input)
        BY <4>1, <4>2, Nesting
      <4>4. input[Max(Unclosed(input))] \in PageTokens
        BY <4>1, <4>3, ElementOfSeq DEF IsPage
      <4> QED BY <4>4 DEF PageTokens
    <3>3. /\ Tag("close", tag, FALSE) \in PageTokens /\ Tag("close", tag, FALSE).kind = "close"
          /\ Tag("close", tag, FALSE).tag = tag
      <4> HIDE DEF tag
      <4> QED BY <3>2, TagIsToken, Zenon
    <3> QED BY <3>1, <3>3, ConsumeFollows, Zenon
  <2>4. CASE ReadText
    <3>1. PICK sentence \in {1, 2, 3} : Consume(Text(sentence))
      BY <2>4 DEF ReadText
    <3>2. Text(sentence) \in PageTokens /\ Text(sentence).kind = "text"
      BY TextIsToken
    <3>3. study = "page"
      BY <2>4 DEF ReadText
    <3> QED BY <3>1, <3>2, <3>3, ConsumeFollows
  <2>5. CASE UNCHANGED vars
    BY <2>5 DEF vars, PageInv
  <2> QED BY <2>1, <2>2, <2>3, <2>4, <2>5 DEF Next
<1> QED BY <1>1, <1>2, PTL DEF Spec

\* All elements of a page at depth zero have ended.
LEMMA NothingOpen ==
  ASSUME NEW page, IsPage(page), Nested(page), Depth(page, Len(page)) = 0
  PROVE  OpenRegions(page) = {} /\ OpenBlocks(page) = {}
<1>1. \A i \in Unclosed(page) : Depth(page, i) \in 1..0
  BY Nesting
<1>2. Unclosed(page) = {}
  BY <1>1
<1> QED BY <1>2 DEF OpenRegions, OpenBlocks

\* Whatever page is read: when its elements have ended and no end was mistaken, the parser
\* has found the text of every block outside the skipped regions, and its stacks are empty.
THEOREM ReadingAlwaysFollowsNesting == Spec => []ReadingFollowsNesting
<1>1. PageInv => ReadingFollowsNesting
  <2> SUFFICES ASSUME PageInv, ClosedPage
               PROVE  reader.blocks = BlockTexts(input) /\ reader.skips = <<>> /\ reader.open = <<>>
    BY DEF ReadingFollowsNesting
  <2>1. IsPage(input) /\ Nested(input) /\ Depth(input, Len(input)) = 0 /\ Follows(input, reader)
    BY DEF PageInv, ClosedPage
  <2>2. OpenRegions(input) = {} /\ OpenBlocks(input) = {}
    BY <2>1, NothingOpen
  <2>3. /\ reader.skips \in Seq(ElementNames) /\ reader.open \in Seq(Open)
        /\ SkipsFollow(input, reader.skips) /\ OpenFollow(input, reader.open)
        /\ reader.blocks = BlockTexts(input)
    BY <2>1 DEF Follows, Readers
  <2>4. reader.skips = <<>>
    BY <2>1, <2>2, <2>3, SkipsFacts
  <2>5. reader.open = <<>>
    BY <2>1, <2>2, <2>3, OpenFacts
  <2> QED BY <2>3, <2>4, <2>5
<1> QED BY <1>1, PageStays, PTL

-----------------------------------------------------------------------------
\* The steps of the loops over blocks, paragraphs, pieces and sentences.
AcceptStep(c, kept, block) ==
  IF block \in Range(kept) \/ IsBoilerplate(block) \/ IsShort(block)
  THEN kept ELSE Append(kept, block)

PA == INSTANCE SequenceFolds WITH Step <- AcceptStep

JoinStep(c, text, paragraph) == text \o paragraph

PJ == INSTANCE SequenceFolds WITH Step <- JoinStep

SentenceStep(c, s, piece) ==
  IF piece \in Fragments THEN [s EXCEPT !.begun = Append(@, piece)]
  ELSE [done |-> Append(s.done, Append(s.begun, piece)), begun |-> <<>>]

PS == INSTANCE SequenceFolds WITH Step <- SentenceStep

ClaimStep(c, claims, s) == IF Range(s) \cap Claimlike = {} THEN claims ELSE Append(claims, s)

PC == INSTANCE SequenceFolds WITH Step <- ClaimStep

\* Before the first piece.
NoSentence == [done |-> <<>>, begun |-> <<>>]

\* The kept blocks are a fold of the blocks.
LEMMA AcceptedIsFold ==
  ASSUME NEW blocks
  PROVE  Accepted(blocks) = PA!Fold(0, <<>>, blocks)
BY DEF Accepted, PA!Fold, FoldLeft, PA!FoldLeft, MapThenFoldSet, PA!MapThenFoldSet, Max, PA!Max, AcceptStep

\* The text is a fold of the paragraphs.
LEMMA JoinedIsFold ==
  ASSUME NEW paragraphs
  PROVE  Joined(paragraphs) = PJ!Fold(0, <<>>, paragraphs)
BY DEF Joined, PJ!Fold, FoldLeft, PJ!FoldLeft, MapThenFoldSet, PJ!MapThenFoldSet, Max, PJ!Max, JoinStep

\* The sentences are a fold of the pieces.
LEMMA SentencesIsFold ==
  ASSUME NEW text
  PROVE  LET read == PS!Fold(0, NoSentence, text) IN
         Sentences(text) = IF read.begun = <<>> THEN read.done ELSE Append(read.done, read.begun)
BY DEF Sentences, PS!Fold, FoldLeft, PS!FoldLeft, MapThenFoldSet, PS!MapThenFoldSet, Max, PS!Max,
       SentenceStep, NoSentence

\* The claims are a fold of the sentences.
LEMMA ClaimsIsFold ==
  ASSUME NEW text
  PROVE  LET claims == PC!Fold(0, <<>>, Sentences(text)) IN
         Claims(text) = SubSeq(claims, 1, Min({Len(claims), MaxClaims}))
BY DEF Claims, PC!Fold, FoldLeft, PC!FoldLeft, MapThenFoldSet, PC!MapThenFoldSet, Max, PC!Max, ClaimStep

-----------------------------------------------------------------------------
\* One more element, which is new, keeps a sequence injective.
LEMMA InjectiveAppend ==
  ASSUME NEW S, NEW s \in Seq(S), NEW x \in S
  PROVE  /\ Append(s, x) \in Seq(S)
         /\ Range(Append(s, x)) = Range(s) \cup {x}
         /\ IsInjective(Append(s, x)) <=> IsInjective(s) /\ x \notin Range(s)
<1> DEFINE n == Len(s)
           t == Append(s, x)
<1>1. /\ n \in Nat /\ DOMAIN s = 1..n /\ t \in Seq(S) /\ Len(t) = n + 1 /\ DOMAIN t = 1..(n + 1)
      /\ t[n + 1] = x /\ \A i \in 1..n : t[i] = s[i]
  BY AppendProperties, LenProperties
<1> HIDE DEF t, n
<1>2. 1..(n + 1) = 1..n \cup {n + 1} /\ n + 1 \notin 1..n
  BY <1>1
<1>3. Range(t) = Range(s) \cup {x}
  BY <1>1, <1>2 DEF Range
<1>4. IsInjective(t) <=> IsInjective(s) /\ x \notin Range(s)
  <2>1. ASSUME IsInjective(t) PROVE IsInjective(s) /\ x \notin Range(s)
    BY <1>1, <1>2, <2>1 DEF IsInjective, Range
  <2>2. ASSUME IsInjective(s), x \notin Range(s) PROVE IsInjective(t)
    BY <1>1, <1>2, <2>2 DEF IsInjective, Range
  <2> QED BY <2>1, <2>2
<1> QED BY <1>1, <1>3, <1>4 DEF t

\* Two sequences that repeat nothing and share nothing are one that repeats nothing.
LEMMA InjectiveConcat ==
  ASSUME NEW S, NEW s \in Seq(S), NEW t \in Seq(S)
  PROVE  /\ s \o t \in Seq(S) /\ Range(s \o t) = Range(s) \cup Range(t)
         /\ IsInjective(s) /\ IsInjective(t) /\ Range(s) \cap Range(t) = {} => IsInjective(s \o t)
<1> DEFINE m == Len(s)
           n == Len(t)
           u == s \o t
<1>1. /\ m \in Nat /\ n \in Nat /\ DOMAIN s = 1..m /\ DOMAIN t = 1..n /\ u \in Seq(S)
      /\ Len(u) = m + n /\ DOMAIN u = 1..(m + n)
      /\ \A i \in 1..(m + n) : u[i] = IF i <= m THEN s[i] ELSE t[i - m]
  BY ConcatProperties, LenProperties
<1> HIDE DEF m, n, u
<1>2. \A i \in 1..(m + n) : i \in 1..m \/ (~(i <= m) /\ i - m \in 1..n)
  BY <1>1
<1>3. \A i \in 1..m : i \in 1..(m + n) /\ i <= m
  BY <1>1
<1>4. \A i \in 1..n : i + m \in 1..(m + n) /\ ~(i + m <= m) /\ (i + m) - m = i
  BY <1>1
<1>5. Range(u) = Range(s) \cup Range(t)
  <2>1. \A i \in 1..(m + n) : u[i] \in Range(s) \cup Range(t)
    <3> SUFFICES ASSUME NEW i \in 1..(m + n) PROVE u[i] \in Range(s) \cup Range(t)
      OBVIOUS
    <3>1. CASE i \in 1..m
      <4>1. u[i] = s[i]
        BY <1>1, <1>3, <3>1
      <4> QED BY <1>1, <3>1, <4>1, Zenon DEF Range
    <3>2. CASE i \notin 1..m
      <4>1. u[i] = t[i - m] /\ i - m \in DOMAIN t
        BY <1>1, <1>2, <3>2
      <4> QED BY <4>1 DEF Range
    <3> QED BY <3>1, <3>2
  <2>2. \A i \in 1..m : s[i] \in Range(u)
    <3> SUFFICES ASSUME NEW i \in 1..m PROVE s[i] \in Range(u)
      OBVIOUS
    <3>1. u[i] = s[i] /\ i \in DOMAIN u
      BY <1>1, <1>3
    <3> QED BY <3>1 DEF Range
  <2>3. \A i \in 1..n : t[i] \in Range(u)
    <3> SUFFICES ASSUME NEW i \in 1..n PROVE t[i] \in Range(u)
      OBVIOUS
    <3>1. u[i + m] = t[i] /\ i + m \in DOMAIN u
      BY <1>1, <1>4
    <3> QED BY <3>1 DEF Range
  <2>4. Range(u) \subseteq Range(s) \cup Range(t)
    BY <1>1, <2>1 DEF Range
  <2>5. Range(s) \subseteq Range(u) /\ Range(t) \subseteq Range(u)
    BY <1>1, <2>2, <2>3 DEF Range
  <2> QED BY <2>4, <2>5
<1>6. ASSUME IsInjective(s), IsInjective(t), Range(s) \cap Range(t) = {} PROVE IsInjective(u)
  <2>1. \A i \in 1..m, j \in 1..n : s[i] # t[j]
    BY <1>1, <1>6, Zenon DEF Range
  <2>2. ASSUME NEW i \in 1..(m + n), NEW j \in 1..(m + n), u[i] = u[j] PROVE i = j
    <3>1. CASE i \in 1..m /\ j \in 1..m
      BY <1>1, <1>3, <1>6, <2>2, <3>1, Zenon DEF IsInjective
    <3>2. CASE i \in 1..m /\ j \notin 1..m
      BY <1>1, <1>2, <1>3, <2>1, <2>2, <3>2
    <3>3. CASE i \notin 1..m /\ j \in 1..m
      BY <1>1, <1>2, <1>3, <2>1, <2>2, <3>3
    <3>4. CASE i \notin 1..m /\ j \notin 1..m
      <4>1. i - m \in 1..n /\ j - m \in 1..n /\ u[i] = t[i - m] /\ u[j] = t[j - m]
        BY <1>1, <1>2, <3>4
      <4>2. i - m = j - m
        BY <1>1, <1>6, <2>2, <4>1, Zenon DEF IsInjective
      <4> QED BY <1>1, <4>2
    <3> QED BY <3>1, <3>2, <3>3, <3>4
  <2> QED BY <1>1, <2>2 DEF IsInjective
<1> QED BY <1>1, <1>5, <1>6 DEF u

\* The beginning of an injective sequence is injective.
LEMMA InjectiveStart ==
  ASSUME NEW S, NEW s \in Seq(S), IsInjective(s), NEW n \in 0..Len(s)
  PROVE  IsInjective(SubSeq(s, 1, n))
<1>1. Len(s) \in Nat /\ DOMAIN s = 1..Len(s)
  BY LenProperties
<1>2. \A i \in 1..n : s[i] \in S
  BY <1>1, ElementOfSeq
<1>3. /\ SubSeq(s, 1, n) \in Seq(S)
      /\ Len(SubSeq(s, 1, n)) = IF 1 <= n THEN n - 1 + 1 ELSE 0
      /\ \A i \in 1..(n - 1 + 1) : SubSeq(s, 1, n)[i] = s[1 + i - 1]
  BY <1>1, <1>2, SubSeqProperties
<1> DEFINE u == SubSeq(s, 1, n)
<1>4. u \in Seq(S) /\ DOMAIN u = 1..Len(u)
  BY <1>3, LenProperties
<1>5. n - 1 + 1 = n /\ (1 <= n \/ n = 0)
  BY <1>1
<1>6. \A i \in 1..n : 1 + i - 1 = i /\ i \in DOMAIN s
  BY <1>1
<1>7. Len(u) = n /\ \A i \in 1..n : u[i] = s[i]
  <2>1. \A i \in 1..n : u[i] = s[1 + i - 1]
    BY <1>3, <1>5
  <2> HIDE DEF u
  <2> QED BY <1>3, <1>5, <1>6, <2>1 DEF u
<1> HIDE DEF u
<1>8. IsInjective(u)
  BY <1>4, <1>6, <1>7 DEF IsInjective
<1> QED BY <1>8 DEF u

-----------------------------------------------------------------------------
\* Texts that repeat nothing, and share nothing with another.
Apart(texts) ==
  /\ \A i \in DOMAIN texts : IsInjective(texts[i])
  /\ \A i, j \in DOMAIN texts : i # j => Range(texts[i]) \cap Range(texts[j]) = {}

\* Texts joined are a text.
LEMMA JoinedType ==
  ASSUME NEW texts \in Seq(Seq(Nat))
  PROVE  Joined(texts) \in Seq(Nat)
<1> DEFINE A == Seq(Nat)
<1>1. PJ!Closed(0, A, A)
  <2> SUFFICES ASSUME NEW v \in A, NEW u \in A PROVE JoinStep(0, v, u) \in A
    BY DEF PJ!Closed
  <2> QED BY ConcatProperties DEF JoinStep
<1>2. <<>> \in A
  BY EmptySeq
<1> HIDE DEF A
<1>3. PJ!Fold(0, <<>>, texts) \in A
  BY <1>1, <1>2, PJ!FoldType DEF A
<1> QED BY <1>3, JoinedIsFold DEF A

\* Texts that are apart are joined to one that repeats nothing.
LEMMA JoinedApart ==
  ASSUME NEW S, NEW texts \in Seq(Seq(S)), Apart(texts)
  PROVE  Joined(texts) \in Seq(S) /\ IsInjective(Joined(texts))
<1> DEFINE A == Seq(S)
           J(u) == PJ!Fold(0, <<>>, u)
           T == {u \in Seq(A) : Apart(u) => /\ IsInjective(J(u))
                                            /\ \A x \in Range(J(u)) : \E i \in DOMAIN u : x \in Range(u[i])}
<1>1. PJ!Closed(0, A, A) /\ <<>> \in A
  BY ConcatProperties, EmptySeq DEF PJ!Closed, JoinStep
<1>2. \A u \in Seq(A) : J(u) \in A
  <2> HIDE DEF A
  <2> QED BY <1>1, PJ!FoldType
<1>3. J(<<>>) = <<>> /\ \A u \in Seq(A), x \in A : J(Append(u, x)) = J(u) \o x
  <2> HIDE DEF A
  <2>1. J(<<>>) = <<>>
    BY <1>1, PJ!FoldEmpty
  <2>2. \A u \in Seq(A), x \in A : J(Append(u, x)) = JoinStep(0, J(u), x)
    BY <1>1, PJ!FoldAppend
  <2> QED BY <2>1, <2>2 DEF JoinStep
<1> HIDE DEF J
<1>4. <<>> \in T
  <2>1. <<>> \in Seq(A) /\ DOMAIN <<>> = {}
    BY EmptySeq
  <2>2. Range(<<>>) = {} /\ IsInjective(<<>>)
    BY <2>1 DEF Range, IsInjective
  <2> QED BY <1>3, <2>1, <2>2
<1>5. ASSUME NEW u \in Seq(A), NEW x \in A, u \in T PROVE Append(u, x) \in T
  <2> DEFINE v == Append(u, x)
             n == Len(u)
  <2>1. /\ v \in Seq(A) /\ n \in Nat /\ DOMAIN u = 1..n /\ DOMAIN v = 1..(n + 1) /\ v[n + 1] = x
        /\ \A i \in 1..n : v[i] = u[i]
    BY AppendProperties, LenProperties
  <2> HIDE DEF v, n
  <2>2. 1..(n + 1) = 1..n \cup {n + 1} /\ n + 1 \notin 1..n
    BY <2>1
  <2>3. ASSUME Apart(v)
        PROVE  IsInjective(J(v)) /\ \A y \in Range(J(v)) : \E i \in DOMAIN v : y \in Range(v[i])
    <3>1. Apart(u) /\ IsInjective(x) /\ \A i \in 1..n : Range(u[i]) \cap Range(x) = {}
      <4>1. Apart(u)
        BY <2>1, <2>2, <2>3 DEF Apart
      <4>2. IsInjective(x)
        BY <2>1, <2>2, <2>3, Zenon DEF Apart
      <4>3. \A i \in 1..n : Range(u[i]) \cap Range(x) = {}
        BY <2>1, <2>2, <2>3, Zenon DEF Apart
      <4> QED BY <4>1, <4>2, <4>3
    <3>2. IsInjective(J(u)) /\ \A y \in Range(J(u)) : \E i \in DOMAIN u : y \in Range(u[i])
      BY <1>5, <3>1
    <3>3. Range(J(u)) \cap Range(x) = {}
      BY <2>1, <3>1, <3>2
    <3>4. J(u) \in Seq(S) /\ x \in Seq(S) /\ J(v) = J(u) \o x
      BY <1>2, <1>3 DEF v
    <3>5. IsInjective(J(v)) /\ Range(J(v)) = Range(J(u)) \cup Range(x)
      BY <3>1, <3>2, <3>3, <3>4, InjectiveConcat
    <3>6. \A y \in Range(J(v)) : \E i \in DOMAIN v : y \in Range(v[i])
      BY <2>1, <2>2, <3>2, <3>5, Zenon
    <3> QED BY <3>5, <3>6
  <2>4. v \in T
    BY <2>1, <2>3
  <2> QED BY <2>4 DEF v
<1>6. texts \in T
  <2>1. texts \in Seq(A)
    OBVIOUS
  <2> HIDE DEF T, A
  <2> QED BY <1>4, <1>5, <2>1, PJ!SequenceInduction
<1>7. Joined(texts) = J(texts)
  BY JoinedIsFold DEF J
<1> QED BY <1>2, <1>6, <1>7

\* The blocks that are kept are blocks of the page, none of them twice.
LEMMA AcceptedFacts ==
  ASSUME NEW S, NEW blocks \in Seq(S)
  PROVE  Accepted(blocks) \in Seq(S) /\ IsInjective(Accepted(blocks))
<1> DEFINE A == {s \in Seq(S) : IsInjective(s)}
<1>1. <<>> \in A
  <2>1. <<>> \in Seq(S) /\ DOMAIN <<>> = {}
    BY EmptySeq
  <2> QED BY <2>1 DEF IsInjective
<1>2. \A v \in A, x \in S : AcceptStep(0, v, x) \in A
  <2> SUFFICES ASSUME NEW v \in A, NEW x \in S PROVE AcceptStep(0, v, x) \in A
    OBVIOUS
  <2>1. x \notin Range(v) => Append(v, x) \in A
    BY InjectiveAppend
  <2> HIDE DEF A
  <2> QED BY <2>1 DEF AcceptStep
<1> HIDE DEF A
<1>3. PA!Fold(0, <<>>, blocks) \in A
  BY <1>1, <1>2, PA!FoldType DEF PA!Closed
<1> QED BY <1>3, AcceptedIsFold DEF A

-----------------------------------------------------------------------------
\* Sentences of a text that repeats nothing: none is empty, and no two share a piece.
ReadSentences(state, text) ==
  /\ state \in [done : Seq(Seq(Nat)), begun : Seq(Nat)]
  /\ Range(state.begun) \subseteq Range(text)
  /\ \A i \in DOMAIN state.done :
       /\ state.done[i] # <<>> /\ Range(state.done[i]) \subseteq Range(text)
       /\ Range(state.done[i]) \cap Range(state.begun) = {}
       /\ \A j \in DOMAIN state.done : i # j => Range(state.done[i]) \cap Range(state.done[j]) = {}

\* One more piece, which the text has not had, begins a sentence, adds to it or ends it.
LEMMA SentenceAdded ==
  ASSUME NEW done \in Seq(Seq(Nat)), NEW x \in Seq(Nat), x # <<>>, NEW all,
         \A i \in DOMAIN done :
           /\ done[i] # <<>> /\ Range(done[i]) \subseteq all
           /\ Range(done[i]) \cap Range(x) = {}
           /\ \A j \in DOMAIN done : i # j => Range(done[i]) \cap Range(done[j]) = {},
         Range(x) \subseteq all
  PROVE  LET more == Append(done, x) IN
         /\ more \in Seq(Seq(Nat))
         /\ \A i \in DOMAIN more :
              /\ more[i] # <<>> /\ Range(more[i]) \subseteq all
              /\ \A j \in DOMAIN more : i # j => Range(more[i]) \cap Range(more[j]) = {}
<1> DEFINE n == Len(done)
           more == Append(done, x)
<1>1. /\ more \in Seq(Seq(Nat)) /\ n \in Nat /\ DOMAIN done = 1..n /\ DOMAIN more = 1..(n + 1)
      /\ more[n + 1] = x /\ \A i \in 1..n : more[i] = done[i]
  BY AppendProperties, LenProperties
<1> HIDE DEF n, more
<1>2. 1..(n + 1) = 1..n \cup {n + 1} /\ n + 1 \notin 1..n
  BY <1>1
<1>3. \A i \in 1..(n + 1) : more[i] # <<>> /\ Range(more[i]) \subseteq all
  BY <1>1, <1>2, Zenon
<1>4. \A i \in 1..n, j \in 1..n : i # j => Range(more[i]) \cap Range(more[j]) = {}
  BY <1>1, Zenon
<1>5. \A i \in 1..n : /\ Range(more[i]) \cap Range(more[n + 1]) = {}
                     /\ Range(more[n + 1]) \cap Range(more[i]) = {}
  BY <1>1, Zenon
<1>6. \A i \in 1..(n + 1), j \in 1..(n + 1) : i # j => Range(more[i]) \cap Range(more[j]) = {}
  BY <1>2, <1>4, <1>5, Zenon
<1> QED BY <1>1, <1>3, <1>6, Zenon DEF more

\* Every text that repeats nothing is read so.
LEMMA SentencesRead ==
  ASSUME NEW text \in Seq(Nat), IsInjective(text)
  PROVE  ReadSentences(PS!Fold(0, NoSentence, text), text)
<1> DEFINE B == [done : Seq(Seq(Nat)), begun : Seq(Nat)]
           R(u) == PS!Fold(0, NoSentence, u)
           T == {u \in Seq(Nat) : IsInjective(u) => ReadSentences(R(u), u)}
<1>1. NoSentence \in B
  BY EmptySeq DEF NoSentence
<1>2. PS!Closed(0, B, Nat)
  <2> SUFFICES ASSUME NEW v \in B, NEW x \in Nat PROVE SentenceStep(0, v, x) \in B
    BY Zenon DEF PS!Closed
  <2>1. v.done \in Seq(Seq(Nat)) /\ v.begun \in Seq(Nat)
    OBVIOUS
  <2>2. Append(v.begun, x) \in Seq(Nat)
    BY <2>1, AppendProperties
  <2>3. Append(v.done, Append(v.begun, x)) \in Seq(Seq(Nat))
    BY <2>1, <2>2, AppendProperties
  <2> QED BY <2>1, <2>2, <2>3, EmptySeq, Zenon DEF SentenceStep
<1>3. /\ R(<<>>) = NoSentence
      /\ \A u \in Seq(Nat), x \in Nat : R(u) \in B /\ R(Append(u, x)) = SentenceStep(0, R(u), x)
  <2> HIDE DEF B
  <2>1. R(<<>>) = NoSentence
    BY <1>1, <1>2, PS!FoldEmpty
  <2>2. \A u \in Seq(Nat), x \in Nat : R(u) \in B /\ R(Append(u, x)) = SentenceStep(0, R(u), x)
    BY <1>1, <1>2, PS!FoldAppend
  <2> QED BY <2>1, <2>2
<1> HIDE DEF R
<1>4. <<>> \in T
  <2>1. <<>> \in Seq(Nat) /\ DOMAIN <<>> = {} /\ Range(<<>>) = {}
    BY EmptySeq DEF Range
  <2>2. R(<<>>).done = <<>> /\ R(<<>>).begun = <<>> /\ R(<<>>) \in B
    <3>1. R(<<>>) = NoSentence
      BY <1>3
    <3>2. NoSentence.done = <<>> /\ NoSentence.begun = <<>>
      BY DEF NoSentence
    <3> QED BY <1>1, <3>1, <3>2
  <2> QED BY <2>1, <2>2 DEF ReadSentences
<1>5. ASSUME NEW u \in Seq(Nat), NEW x \in Nat, u \in T PROVE Append(u, x) \in T
  <2> DEFINE t == Append(u, x)
             r == R(u)
             q == R(t)
             begun == Append(r.begun, x)
             done == Append(r.done, begun)
  <2>1. /\ t \in Seq(Nat) /\ Range(t) = Range(u) \cup {x}
        /\ IsInjective(t) <=> IsInjective(u) /\ x \notin Range(u)
    BY InjectiveAppend
  <2>2. r \in B /\ q = SentenceStep(0, r, x)
    BY <1>3
  <2>3. r.done \in Seq(Seq(Nat)) /\ r.begun \in Seq(Nat)
    BY <2>2
  <2>4. begun \in Seq(Nat) /\ begun # <<>> /\ Range(begun) = Range(r.begun) \cup {x}
    <3> DEFINE z == r.begun
    <3>1. z \in Seq(Nat)
      BY <2>3
    <3> HIDE DEF z, T, B, begun, done, q, r, t
    <3>2. Append(z, x) \in Seq(Nat) /\ Append(z, x) # <<>> /\ Range(Append(z, x)) = Range(z) \cup {x}
      <4>1. Append(z, x) # <<>>
        <5> DEFINE a == Append(z, x)
        <5>1. Len(z) \in Nat
          BY <3>1, LenProperties
        <5>2. Len(a) = Len(z) + 1
          BY <3>1, AppendProperties
        <5> HIDE DEF a
        <5>3. a # <<>>
          BY <5>1, <5>2, EmptySeq
        <5> QED BY <5>3 DEF a
      <4>2. Append(z, x) \in Seq(Nat)
        BY <3>1, InjectiveAppend
      <4>3. Range(Append(z, x)) = Range(z) \cup {x}
        BY <3>1, InjectiveAppend
      <4> QED BY <4>1, <4>2, <4>3
    <3> QED BY <3>2 DEF z, begun
  <2> HIDE DEF t, r, q, begun
  <2>5. ASSUME IsInjective(t) PROVE ReadSentences(q, t)
    <3>1. ReadSentences(r, u) /\ x \notin Range(u)
      BY <1>5, <2>1, <2>5 DEF r
    <3>2. /\ Range(r.begun) \subseteq Range(u)
          /\ \A i \in DOMAIN r.done :
               /\ r.done[i] # <<>> /\ Range(r.done[i]) \subseteq Range(u)
               /\ Range(r.done[i]) \cap Range(r.begun) = {}
               /\ \A j \in DOMAIN r.done : i # j => Range(r.done[i]) \cap Range(r.done[j]) = {}
      BY <3>1 DEF ReadSentences
    <3>3. Range(begun) \subseteq Range(t)
      BY <2>1, <2>4, <3>2
    <3>4. \A i \in DOMAIN r.done :
            /\ r.done[i] # <<>> /\ Range(r.done[i]) \subseteq Range(t)
            /\ Range(r.done[i]) \cap Range(begun) = {}
            /\ \A j \in DOMAIN r.done : i # j => Range(r.done[i]) \cap Range(r.done[j]) = {}
      <4> SUFFICES ASSUME NEW i \in DOMAIN r.done
                   PROVE  /\ r.done[i] # <<>> /\ Range(r.done[i]) \subseteq Range(t)
                          /\ Range(r.done[i]) \cap Range(begun) = {}
                          /\ \A j \in DOMAIN r.done : i # j => Range(r.done[i]) \cap Range(r.done[j]) = {}
        BY Zenon
      <4>1. /\ r.done[i] # <<>> /\ Range(r.done[i]) \subseteq Range(u)
            /\ Range(r.done[i]) \cap Range(r.begun) = {}
            /\ \A j \in DOMAIN r.done : i # j => Range(r.done[i]) \cap Range(r.done[j]) = {}
        BY <3>2, Zenon
      <4>2. Range(r.done[i]) \cap Range(begun) = {}
        BY <2>4, <3>1, <4>1
      <4> QED BY <2>1, <4>1, <4>2
    <3>5. CASE x \in Fragments
      <4>1. q = [r EXCEPT !.begun = begun]
        BY <2>2, <3>5 DEF SentenceStep, begun
      <4>2. q \in B /\ q.done = r.done /\ q.begun = begun
        BY <2>2, <2>4, <4>1
      <4> QED BY <3>3, <3>4, <4>2, Zenon DEF ReadSentences
    <3>6. CASE x \notin Fragments
      <4>1. q = [done |-> done, begun |-> <<>>]
        BY <2>2, <3>6 DEF SentenceStep, begun
      <4>2. /\ done \in Seq(Seq(Nat))
            /\ \A i \in DOMAIN done :
                 /\ done[i] # <<>> /\ Range(done[i]) \subseteq Range(t)
                 /\ \A j \in DOMAIN done : i # j => Range(done[i]) \cap Range(done[j]) = {}
        BY <2>3, <2>4, <3>3, <3>4, SentenceAdded, Zenon
      <4> HIDE DEF done
      <4>3. q \in B /\ q.done = done /\ q.begun = <<>>
        BY <4>1, <4>2, EmptySeq
      <4>4. Range(<<>>) = {}
        BY EmptySeq DEF Range
      <4> QED BY <4>2, <4>3, <4>4, Zenon DEF ReadSentences
    <3> QED BY <3>5, <3>6
  <2>6. t \in T
    <3> HIDE DEF q
    <3> QED BY <2>1, <2>5 DEF q
  <2> QED BY <2>6 DEF t
<1>6. text \in T
  <2> HIDE DEF T
  <2> QED BY <1>4, <1>5, PS!SequenceInduction
<1> QED BY <1>6 DEF R

\* Its sentences differ.
LEMMA SentencesDiffer ==
  ASSUME NEW text \in Seq(Nat), IsInjective(text)
  PROVE  Sentences(text) \in Seq(Seq(Nat)) /\ IsInjective(Sentences(text))
<1> DEFINE r == PS!Fold(0, NoSentence, text)
           s == Sentences(text)
<1>1. ReadSentences(r, text)
  BY SentencesRead
<1>2. s = IF r.begun = <<>> THEN r.done ELSE Append(r.done, r.begun)
  BY SentencesIsFold
<1> HIDE DEF r, s
<1>3. /\ r.done \in Seq(Seq(Nat)) /\ r.begun \in Seq(Nat)
      /\ Range(r.begun) \subseteq Range(text)
      /\ \A i \in DOMAIN r.done :
           /\ r.done[i] # <<>> /\ Range(r.done[i]) \subseteq Range(text)
           /\ Range(r.done[i]) \cap Range(r.begun) = {}
           /\ \A j \in DOMAIN r.done : i # j => Range(r.done[i]) \cap Range(r.done[j]) = {}
  BY <1>1 DEF ReadSentences
<1>4. /\ s \in Seq(Seq(Nat))
      /\ \A i \in DOMAIN s :
           /\ s[i] # <<>>
           /\ \A j \in DOMAIN s : i # j => Range(s[i]) \cap Range(s[j]) = {}
  <2>1. CASE r.begun = <<>>
    BY <1>2, <1>3, <2>1, Zenon
  <2>2. CASE r.begun # <<>>
    <3> DEFINE d == r.done
               b == r.begun
               all == Range(text)
    <3>1. s = Append(d, b)
      BY <1>2, <2>2
    <3>2. /\ d \in Seq(Seq(Nat)) /\ b \in Seq(Nat) /\ b # <<>> /\ Range(b) \subseteq all
          /\ \A i \in DOMAIN d :
               /\ d[i] # <<>> /\ Range(d[i]) \subseteq all
               /\ Range(d[i]) \cap Range(b) = {}
               /\ \A j \in DOMAIN d : i # j => Range(d[i]) \cap Range(d[j]) = {}
      BY <1>3, <2>2, Zenon
    <3> HIDE DEF d, b, all
    <3>3. LET more == Append(d, b) IN
         /\ more \in Seq(Seq(Nat))
         /\ \A i \in DOMAIN more :
              /\ more[i] # <<>> /\ Range(more[i]) \subseteq all
              /\ \A j \in DOMAIN more : i # j => Range(more[i]) \cap Range(more[j]) = {}
      BY <3>2, SentenceAdded, Zenon
    <3> QED BY <3>1, <3>3, Zenon
  <2> QED BY <2>1, <2>2
<1>5. ASSUME NEW i \in DOMAIN s, NEW j \in DOMAIN s, s[i] = s[j] PROVE i = j
  <2>1. s[i] \in Seq(Nat) /\ s[i] # <<>>
    BY <1>4, ElementOfSeq, LenProperties
  <2>2. Range(s[i]) # {}
    <3> DEFINE x == s[i]
    <3>1. x \in Seq(Nat) /\ x # <<>>
      BY <2>1
    <3> HIDE DEF x
    <3>2. Len(x) \in Nat \ {0} /\ DOMAIN x = 1..Len(x)
      BY <3>1, LenProperties, EmptySeq
    <3>3. 1 \in DOMAIN x
      BY <3>2
    <3>4. x[1] \in Range(x)
      BY <3>3 DEF Range
    <3> QED BY <3>4 DEF x
  <2>3. i # j => Range(s[i]) \cap Range(s[j]) = {}
    BY <1>4
  <2> QED BY <1>5, <2>2, <2>3
<1>6. IsInjective(s)
  BY <1>5 DEF IsInjective
<1> QED BY <1>4, <1>6 DEF s

\* Taking some of the sentences makes none of them twice.
LEMMA ChosenDiffer ==
  ASSUME NEW sentences \in Seq(Seq(Nat)), IsInjective(sentences)
  PROVE  PC!Fold(0, <<>>, sentences) \in Seq(Seq(Nat)) /\ IsInjective(PC!Fold(0, <<>>, sentences))
<1> DEFINE S == Seq(Nat)
           A == Seq(S)
           C(u) == PC!Fold(0, <<>>, u)
           T == {u \in A : IsInjective(u) => IsInjective(C(u)) /\ Range(C(u)) \subseteq Range(u)}
<1>1. PC!Closed(0, A, S) /\ <<>> \in A
  <2>1. \A v \in A, x \in S : Append(v, x) \in A
    <3> HIDE DEF S
    <3> QED BY AppendProperties
  <2>2. <<>> \in A
    <3> HIDE DEF S
    <3> QED BY EmptySeq
  <2> HIDE DEF A, S
  <2> QED BY <2>1, <2>2 DEF PC!Closed, ClaimStep
<1>2. C(<<>>) = <<>> /\ \A u \in A, x \in S : C(u) \in A /\ C(Append(u, x)) = ClaimStep(0, C(u), x)
  <2>1. C(<<>>) = <<>>
    <3> HIDE DEF A, S
    <3> QED BY <1>1, PC!FoldEmpty
  <2>2. \A u \in Seq(S), x \in S : C(u) \in A /\ C(Append(u, x)) = ClaimStep(0, C(u), x)
    <3> DEFINE B == A
    <3>1. PC!Closed(0, B, S) /\ <<>> \in B
      BY <1>1
    <3> HIDE DEF B, S
    <3>2. \A u \in Seq(S), x \in S : C(u) \in B /\ C(Append(u, x)) = ClaimStep(0, C(u), x)
      BY <3>1, PC!FoldAppend
    <3> QED BY <3>2 DEF B
  <2> QED BY <2>1, <2>2
<1> HIDE DEF C
<1>3. <<>> \in T
  <2>1. DOMAIN <<>> = {} /\ Range(<<>>) = {}
    BY EmptySeq DEF Range
  <2> QED BY <1>1, <1>2, <2>1
<1>4. ASSUME NEW u \in A, NEW x \in S, u \in T PROVE Append(u, x) \in T
  <2> DEFINE v == Append(u, x)
             c == C(u)
             d == C(v)
  <2>1. c \in A /\ d = ClaimStep(0, c, x)
    BY <1>2
  <2>2. v \in A /\ Range(v) = Range(u) \cup {x} /\ (IsInjective(v) <=> IsInjective(u) /\ x \notin Range(u))
    <3> HIDE DEF S
    <3> QED BY InjectiveAppend
  <2>3. /\ Range(Append(c, x)) = Range(c) \cup {x}
        /\ IsInjective(Append(c, x)) <=> IsInjective(c) /\ x \notin Range(c)
    <3> HIDE DEF S, c
    <3> QED BY <2>1, InjectiveAppend
  <2>4. IsInjective(u) => IsInjective(c) /\ Range(c) \subseteq Range(u)
    BY <1>4
  <2> HIDE DEF v, c, d, A
  <2>5. IsInjective(v) => IsInjective(d) /\ Range(d) \subseteq Range(v)
    BY <2>1, <2>2, <2>3, <2>4 DEF ClaimStep
  <2>6. v \in T
    BY <2>2, <2>5 DEF d
  <2> QED BY <2>6 DEF v
<1>5. \A u \in A : u \in T
  <2> HIDE DEF T, S
  <2> QED BY <1>3, <1>4, PC!SequenceInduction
<1>6. sentences \in A
  OBVIOUS
<1> QED BY <1>1, <1>2, <1>5, <1>6, PC!FoldType, Zenon DEF C

\* From a text that repeats no piece no two claims are equal, so that the database takes
\* them all, whatever the pieces are and however they make sentences.
THEOREM InjectiveTextHasNoTwins ==
  ASSUME NEW text \in Seq(Nat), IsInjective(text)
  PROVE  ~HasTwins(Claims(text))
<1> DEFINE claims == PC!Fold(0, <<>>, Sentences(text))
           n == Min({Len(claims), MaxClaims})
<1>1. claims \in Seq(Seq(Nat)) /\ IsInjective(claims)
  BY SentencesDiffer, ChosenDiffer
<1>2. Claims(text) = SubSeq(claims, 1, n)
  BY ClaimsIsFold
<1> HIDE DEF claims
<1>3. n \in 0..Len(claims)
  <2>1. Len(claims) \in Nat /\ MaxClaims \in Nat
    BY <1>1, LenProperties, PageBounds
  <2>2. \E x \in {Len(claims), MaxClaims} : \A y \in {Len(claims), MaxClaims} : x <= y
    BY <2>1
  <2>3. n \in {Len(claims), MaxClaims} /\ \A y \in {Len(claims), MaxClaims} : n <= y
    BY <2>2 DEF Min
  <2> HIDE DEF n
  <2> QED BY <2>1, <2>3
<1> HIDE DEF n
<1>4. IsInjective(SubSeq(claims, 1, n))
  BY <1>1, <1>3, InjectiveStart
<1> QED BY <1>2, <1>4 DEF HasTwins

-----------------------------------------------------------------------------
\* The texts that blocks have.
TextsOf(page) == {BlockText(page, b) : b \in Blocks(page)}

\* The parser finds no text that no block has.
LEMMA BlockTextsOfBlocks ==
  ASSUME NEW page, IsPage(page)
  PROVE  BlockTexts(page) \in Seq(TextsOf(page)) /\ TextsOf(page) \subseteq Seq(Nat)
<1> DEFINE W == TextsOf(page)
           A == Seq(W)
           S == 1..Len(page)
<1>1. PE!Positions(Len(page)) \in Seq(S)
  <2>1. Len(page) \in Nat
    BY LenProperties DEF IsPage
  <2> QED BY <2>1, PE!PositionsNext
<1>2. \A k : EndedTexts(page, k) \subseteq W
  BY DEF EndedTexts, TextsOf
<1> HIDE DEF W
<1>3. \A k : EndedTexts(page, k) # {} => AnyOf(EndedTexts(page, k)) \in W
  BY <1>2 DEF AnyOf
<1>4. PE!Closed(page, A, S)
  <2> SUFFICES ASSUME NEW v \in A, NEW k \in S PROVE EndedStep(page, v, k) \in A
    BY DEF PE!Closed
  <2> QED BY <1>3, AppendProperties DEF EndedStep
<1>5. <<>> \in A
  BY EmptySeq
<1>6. BlockTexts(page) = PE!Fold(page, <<>>, PE!Positions(Len(page)))
  BY BlockTextsIsFold
<1> HIDE DEF A, S
<1>7. PE!Fold(page, <<>>, PE!Positions(Len(page))) \in A
  BY <1>1, <1>4, <1>5, PE!FoldType
<1>8. W \subseteq Seq(Nat)
  BY BlockTextType DEF W, TextsOf
<1> QED BY <1>6, <1>7, <1>8 DEF A, W

\* The text is that of the JSON-LD, of the optional extractor or of the kept blocks.
LEMMA ExtractText ==
  ASSUME NEW s, NEW objects, NEW optional
  PROVE  LET article == ArticleObject(objects)
             text == Extract(s, objects, optional).text
         IN  \/ article # <<>> /\ text = article[1].body
             \/ optional # <<>> /\ text = Joined(optional)
             \/ text = Joined(Accepted(s.blocks))
<1> DEFINE article == ArticleObject(objects)
           kept == Accepted(s.blocks)
           refused == Len(s.blocks) - Len(kept)
           visible == Joined(kept)
           q(text, blocks, n) == Quality(text, blocks, n, article # <<>>)
           e == Extract(s, objects, optional)
           long == article # <<>> /\ Len(article[1].body) >= LongBody
           other == optional # <<>> /\ UseOptional(visible, q(visible, Len(kept), refused), Joined(optional))
<1>1. CASE long
  <2>1. e = [text |-> article[1].body, quality |-> q(article[1].body, 1, 0)]
    BY <1>1, Zenon DEF Extract
  <2> QED BY <1>1, <2>1
<1>2. CASE ~long /\ other
  <2>1. e = [text |-> Joined(optional), quality |-> q(Joined(optional), Len(optional), refused)]
    BY <1>2, Zenon DEF Extract
  <2> QED BY <1>2, <2>1
<1>3. CASE ~long /\ ~other
  <2>1. e = [text |-> visible, quality |-> q(visible, Len(kept), refused)]
    BY <1>3, Zenon DEF Extract
  <2> QED BY <2>1
<1> QED BY <1>1, <1>2, <1>3, Zenon

\* The texts of the study are sequences.
LEMMA BodyTypes == Bodies \subseteq Seq(Nat)
<1>1. <<2, 1>> \in Seq(Nat) /\ <<2, 1, 4>> \in Seq(Nat) /\ <<1, 2, 1>> \in Seq(Nat)
  OBVIOUS
<1> QED BY <1>1 DEF Bodies

\* The article of a JSON-LD has a text.
LEMMA ArticleBody ==
  ASSUME NEW objects \in JsonLd, ArticleObject(objects) # <<>>
  PROVE  ArticleObject(objects)[1].body \in Seq(Nat)
<1> DEFINE first == [article |-> TRUE, body |-> <<1>>, headline |-> <<1, 2>>]
           second == [article |-> FALSE, body |-> <<1, 1>>, headline |-> <<>>]
           third(body) == [article |-> TRUE, body |-> body, headline |-> <<1>>]
           size(o) == Len(o.body) + Len(o.headline)
           articles == {i \in DOMAIN objects : objects[i].article}
           longest == {i \in articles : \A j \in articles : size(objects[j]) <= size(objects[i])}
<1>1. ArticleObject(objects) = IF articles = {} THEN <<>> ELSE <<objects[Min(longest)]>>
  BY DEF ArticleObject
<1>2. articles # {}
  BY <1>1
<1>3. PICK text \in Bodies : objects = <<first, second, third(text)>>
  <2>1. objects = <<>> \/ \E body \in Bodies : objects = <<first, second, third(body)>>
    BY DEF JsonLd
  <2>2. objects # <<>>
    <3> SUFFICES ASSUME objects = <<>> PROVE FALSE
      OBVIOUS
    <3>1. DOMAIN objects = {}
      BY EmptySeq
    <3> QED BY <1>2, <3>1
  <2> QED BY <2>1, <2>2
<1> DEFINE last == third(text)
<1>4. /\ first.article = TRUE /\ second.article = FALSE /\ last.article = TRUE
      /\ first.body = <<1>> /\ last.body = text
  OBVIOUS
<1>5. size(first) \in Nat /\ size(last) \in Nat
  <2>1. first.headline = <<1, 2>> /\ last.headline = <<1>>
    OBVIOUS
  <2>2. Len(text) \in Nat
    BY BodyTypes, LenProperties
  <2>3. Len(<<1>>) = 1 /\ Len(<<1, 2>>) = 2
    OBVIOUS
  <2> HIDE DEF first, last
  <2> QED BY <1>4, <2>1, <2>2, <2>3
<1>6. text \in Seq(Nat) /\ <<1>> \in Seq(Nat)
  BY BodyTypes
<1> HIDE DEF first, second, last
<1>7. objects = <<first, second, last>>
  BY <1>3 DEF first, second, last
<1>8. DOMAIN objects = {1, 2, 3} /\ objects[1] = first /\ objects[2] = second /\ objects[3] = last
  BY <1>7
<1> HIDE DEF size
<1>9. articles = {1, 3}
  BY <1>4, <1>8
<1>10. longest = {1} \/ longest = {3} \/ longest = {1, 3}
  BY <1>5, <1>8, <1>9
<1>11. Min({1}) = 1 /\ Min({3}) = 3 /\ Min({1, 3}) = 1
  BY DEF Min
<1> HIDE DEF articles, longest
<1>12. Min(longest) \in {1, 3}
  BY <1>10, <1>11
<1>13. ArticleObject(objects)[1] = objects[Min(longest)]
  BY <1>1, <1>2
<1> QED BY <1>4, <1>6, <1>8, <1>12, <1>13

\* So has the optional extractor.
LEMMA OptionalText ==
  ASSUME NEW optional \in Optional
  PROVE  Joined(optional) \in Seq(Nat)
<1>1. <<1>> \in Seq(Nat) /\ <<2>> \in Seq(Nat) /\ <<1, 4, 2>> \in Seq(Nat)
  OBVIOUS
<1> DEFINE one == <<1>>
           two == <<2>>
           three == <<1, 4, 2>>
<1>2. optional \in {<<>>, <<three>>, <<one, two, one>>}
  BY DEF Optional
<1>3. one \in Seq(Nat) /\ two \in Seq(Nat) /\ three \in Seq(Nat)
  BY <1>1
<1> HIDE DEF one, two, three
<1>4. optional \in Seq(Seq(Nat))
  <2>1. <<>> \in Seq(Seq(Nat))
    BY EmptySeq
  <2> DEFINE S == Seq(Nat)
  <2>2. one \in S /\ two \in S /\ three \in S
    BY <1>3
  <2> HIDE DEF S
  <2>3. <<three>> \in Seq(S) /\ <<one, two, one>> \in Seq(S)
    BY <2>2
  <2> QED BY <1>2, <2>1, <2>3 DEF S
<1> QED BY <1>4, JoinedType

\* Blocks that repeat nothing, and share nothing with a block of another text, make a text
\* that repeats nothing.
LEMMA KeptApart ==
  ASSUME NEW page, IsPage(page),
         \A x \in TextsOf(page) : IsInjective(x),
         \A x, y \in TextsOf(page) : x # y => Range(x) \cap Range(y) = {}
  PROVE  LET text == Joined(Accepted(BlockTexts(page))) IN text \in Seq(Nat) /\ IsInjective(text)
<1> DEFINE kept == Accepted(BlockTexts(page))
           W == TextsOf(page)
<1>1. kept \in Seq(W) /\ IsInjective(kept) /\ W \subseteq Seq(Nat)
  BY BlockTextsOfBlocks, AcceptedFacts
<1>2. /\ \A x \in W : IsInjective(x)
      /\ \A x, y \in W : x # y => Range(x) \cap Range(y) = {}
  OBVIOUS
<1> HIDE DEF kept, W
<1>3. \A i \in DOMAIN kept : kept[i] \in W
  BY <1>1, ElementOfSeq, LenProperties
<1>4. kept \in Seq(Seq(Nat))
  <2>1. kept \in [1..Len(kept) -> W] /\ Len(kept) \in Nat
    BY <1>1, LenProperties
  <2>2. kept \in [1..Len(kept) -> Seq(Nat)]
    BY <1>1, <2>1
  <2> QED BY <2>1, <2>2, SeqDef
<1>5. Apart(kept)
  <2>1. \A i \in DOMAIN kept : IsInjective(kept[i])
    BY <1>2, <1>3
  <2>2. \A i, j \in DOMAIN kept : i # j => kept[i] # kept[j]
    BY <1>1 DEF IsInjective
  <2>3. \A i, j \in DOMAIN kept : i # j => Range(kept[i]) \cap Range(kept[j]) = {}
    BY <1>2, <1>3, <2>2
  <2> QED BY <2>1, <2>3 DEF Apart
<1>6. Joined(kept) \in Seq(Nat) /\ IsInjective(Joined(kept))
  BY <1>4, <1>5, JoinedApart
<1> QED BY <1>6 DEF kept

\* Whatever page is read, next to the JSON-LD and the optional texts of the study: twin claims
\* come from a JSON-LD or an optional text that repeats a sentence, or from a block that
\* repeats one or shares one with a block of another text.
THEOREM TwinClaimsAlwaysNeedOverlap == Spec => []TwinClaimsNeedOverlap
<1>1. PageInv => TwinClaimsNeedOverlap
  <2> SUFFICES ASSUME PageInv, ClosedPage, NEW objects \in JsonLd, NEW optional \in Optional,
                      HasTwins(Claims(Extract(reader, objects, optional).text)),
                      ArticleObject(objects) = <<>> \/ IsInjective(ArticleObject(objects)[1].body),
                      IsInjective(Joined(optional))
               PROVE  \E b, c \in Blocks(input) :
                        LET left == BlockText(input, b)
                            right == BlockText(input, c)
                        IN \/ ~IsInjective(left)
                           \/ left # right /\ Range(left) \cap Range(right) # {}
    BY DEF TwinClaimsNeedOverlap
  <2>1. IsPage(input) /\ reader.blocks = BlockTexts(input)
    BY DEF PageInv, ClosedPage, Follows
  <2> SUFFICES ASSUME ~ \E b, c \in Blocks(input) :
                        \/ ~IsInjective(BlockText(input, b))
                        \/ /\ BlockText(input, b) # BlockText(input, c)
                           /\ Range(BlockText(input, b)) \cap Range(BlockText(input, c)) # {}
               PROVE  FALSE
    OBVIOUS
  <2>2. /\ \A x \in TextsOf(input) : IsInjective(x)
        /\ \A x, y \in TextsOf(input) : x # y => Range(x) \cap Range(y) = {}
    BY DEF TextsOf
  <2> DEFINE text == Extract(reader, objects, optional).text
             article == ArticleObject(objects)
  <2>3. \/ article # <<>> /\ text = article[1].body
        \/ optional # <<>> /\ text = Joined(optional)
        \/ text = Joined(Accepted(reader.blocks))
    BY ExtractText
  <2>4. article # <<>> => article[1].body \in Seq(Nat) /\ IsInjective(article[1].body)
    BY ArticleBody
  <2>5. Joined(optional) \in Seq(Nat)
    BY OptionalText
  <2>6. Joined(Accepted(reader.blocks)) \in Seq(Nat) /\ IsInjective(Joined(Accepted(reader.blocks)))
    <3> DEFINE joined == Joined(Accepted(BlockTexts(input)))
    <3>1. joined \in Seq(Nat) /\ IsInjective(joined)
      BY <2>1, <2>2, KeptApart
    <3> HIDE DEF joined
    <3>2. joined = Joined(Accepted(reader.blocks))
      BY <2>1 DEF joined
    <3> QED BY <3>1, <3>2
  <2>7. HasTwins(Claims(text))
    OBVIOUS
  <2> HIDE DEF text, article
  <2>8. text \in Seq(Nat) /\ IsInjective(text)
    BY <2>3, <2>4, <2>5, <2>6
  <2> QED BY <2>7, <2>8, InjectiveTextHasNoTwins
<1> QED BY <1>1, PageStays, PTL
=============================================================================
