---------------------------- MODULE SequenceFolds ----------------------------
(***************************************************************************)
(* Induction over sequences, and what FoldLeft computes from a step.  The  *)
(* property that an induction is about is a set of numbers or sequences,   *)
(* and the induction the least member of its complement, since < is well   *)
(* founded.  FoldLeft is a recursive function on the sets of positions of  *)
(* its sequence; the proof is that this function exists, and that at the   *)
(* intervals 1..n its values follow the elements.                          *)
(***************************************************************************)
EXTENDS Integers, Sequences, SequencesExt, FiniteSetTheorems, SequenceTheorems, TLAPS

CONSTANT Step(_, _, _)  \* what a fold makes, in a context, of a value and the next element

Fold(c, a, s) == FoldLeft(LAMBDA v, x : Step(c, v, x), a, s)

\* A step leads from A to A.
Closed(c, A, S) == \A v \in A, x \in S : Step(c, v, x) \in A

\* Every set of natural numbers has a least member.
LEMMA LeastMember ==
  ASSUME NEW T, T \subseteq Nat, T # {}
  PROVE  \E n \in T : \A m \in T : n <= m
<1> DEFINE R == OpToRel(<, Nat)
<1>1. IsWellFoundedOn(R, Nat)
  BY NatLessThanWellFounded
<1>2. \A i, j \in Nat : i < j => <<i, j>> \in R
  BY DEF OpToRel
<1> HIDE DEF R
<1>3. PICK n \in T : \A m \in T : ~ (<<m, n>> \in R)
  BY <1>1, WFMin
<1>4. \A m \in T : ~ (m < n)
  BY <1>2, <1>3
<1> QED BY <1>4

\* Induction up to a number.
LEMMA UpTo ==
  ASSUME NEW N \in Nat, NEW T, 0 \in T, \A n \in 0..(N - 1) : n \in T => n + 1 \in T
  PROVE  \A n \in 0..N : n \in T
<1> DEFINE U == {n \in 0..N : n \notin T}
<1> SUFFICES ASSUME U # {} PROVE FALSE
  OBVIOUS
<1>1. PICK n \in U : \A m \in U : n <= m
  <2>1. U \subseteq Nat
    OBVIOUS
  <2> HIDE DEF U
  <2> QED BY <2>1, LeastMember
<1>2. n # 0 /\ n - 1 \in 0..(N - 1) /\ n - 1 \in T
  BY <1>1
<1> QED BY <1>1, <1>2

\* The sets of FoldLeft's recursion.
LEMMA InitialSegments ==
  ASSUME NEW n \in Nat, n # 0
  PROVE  /\ 1..n # {}
         /\ Max(1..n) = n
         /\ (1..n) \ {n} = 1..(n - 1)
<1>1. \A x \in 1..n : (\A y \in 1..n : x >= y) => x = n
  OBVIOUS
<1>2. n \in 1..n /\ \A y \in 1..n : n >= y
  OBVIOUS
<1>3. Max(1..n) = n
  BY <1>1, <1>2 DEF Max
<1> QED BY <1>3

\* A finite set of numbers has a greatest member.
LEMMA GreatestMember ==
  ASSUME NEW N \in Nat, NEW t \in SUBSET (1..N), t # {}
  PROVE  \E m \in t : \A n \in t : m >= n
<1> DEFINE U == {u \in 0..N : N - u \in t}
<1>1. PICK u \in U : \A v \in U : u <= v
  <2>1. PICK n : n \in t
    <3> HIDE DEF U
    <3> QED OBVIOUS
  <2>2. n \in 0..N /\ N - n \in 0..N /\ N - (N - n) = n
    BY <2>1
  <2>3. N - n \in U
    BY <2>1, <2>2
  <2>4. U \subseteq 0..N
    OBVIOUS
  <2>5. U # {} /\ U \subseteq Nat
    <3> HIDE DEF U
    <3> QED BY <2>3, <2>4
  <2> HIDE DEF U
  <2> QED BY <2>5, LeastMember
<1>2. \A n \in t : N - u >= n
  <2> SUFFICES ASSUME NEW n \in t PROVE N - u >= n
    OBVIOUS
  <2>1. n \in 1..N /\ N - n \in 0..N /\ N - (N - n) = n
    OBVIOUS
  <2>2. N - n \in U
    BY <2>1
  <2>3. u <= N - n /\ u \in 0..N
    BY <1>1, <2>2
  <2> QED BY <2>1, <2>3
<1>3. N - u \in t
  BY <1>1
<1> QED BY <1>2, <1>3

\* Max picks a member.
LEMMA MaxMember ==
  ASSUME NEW N \in Nat, NEW t \in SUBSET (1..N), t # {}
  PROVE  Max(t) \in t
BY GreatestMember DEF Max

\* step leads from A to A at each of N elements.
Maps(step, A, N) == \A v \in A, n \in 1..N : step[<<v, n>>] \in A

\* The functions that satisfy the equation of FoldLeft up to the n-th element, when step
\* says what the fold makes of a value and of an element.
Folds(A, a, step, n) ==
  {g \in [SUBSET (1..n) -> A] :
     \A s \in SUBSET (1..n) : g[s] = IF s = {} THEN a ELSE step[<<g[s \ {Max(s)}], Max(s)>>]}

\* There is such a function: its value at a set is that of a shorter one at the set without
\* its greatest member, and one more step.
LEMMA FoldExists ==
  ASSUME NEW A, NEW a \in A, NEW N \in Nat, NEW step, Maps(step, A, N)
  PROVE  Folds(A, a, step, N) # {}
<1> DEFINE T == {n \in 0..N : Folds(A, a, step, n) # {}}
<1>1. 0 \in T
  <2> DEFINE g == [s \in SUBSET (1..0) |-> a]
  <2>1. SUBSET (1..0) = {{}}
    OBVIOUS
  <2>2. g \in Folds(A, a, step, 0)
    BY <2>1 DEF Folds
  <2> QED BY <2>2
<1>2. ASSUME NEW n \in 0..(N - 1), n \in T PROVE n + 1 \in T
  <2>1. PICK g \in [SUBSET (1..n) -> A] :
          \A s \in SUBSET (1..n) : g[s] = IF s = {} THEN a ELSE step[<<g[s \ {Max(s)}], Max(s)>>]
    BY <1>2 DEF Folds
  <2>2. n \in Nat /\ n + 1 \in 1..N
    OBVIOUS
  <2> DEFINE h == [s \in SUBSET (1..(n + 1)) |->
                     IF n + 1 \in s THEN step[<<g[s \ {n + 1}], n + 1>>] ELSE g[s]]
  <2>3. ASSUME NEW s \in SUBSET (1..(n + 1))
        PROVE  s \ {n + 1} \in SUBSET (1..n)
    BY <2>2
  <2>4. ASSUME NEW s \in SUBSET (1..(n + 1)), n + 1 \notin s
        PROVE  s \in SUBSET (1..n)
    BY <2>2, <2>4
  <2>5. ASSUME NEW s \in SUBSET (1..(n + 1))
        PROVE  (IF n + 1 \in s THEN step[<<g[s \ {n + 1}], n + 1>>] ELSE g[s]) \in A
    BY <2>2, <2>3, <2>4 DEF Maps
  <2>6. h \in [SUBSET (1..(n + 1)) -> A]
    BY <2>5
  <2>7. ASSUME NEW s \in SUBSET (1..(n + 1)), n + 1 \in s PROVE Max(s) = n + 1
    <3>1. \A x \in s : (\A y \in s : x >= y) => x = n + 1
      BY <2>2, <2>7
    <3>2. \A y \in s : n + 1 >= y
      BY <2>2
    <3> QED BY <2>7, <3>1, <3>2 DEF Max
  <2>8. ASSUME NEW s \in SUBSET (1..(n + 1))
        PROVE  h[s] = IF s = {} THEN a ELSE step[<<h[s \ {Max(s)}], Max(s)>>]
    <3>1. CASE n + 1 \in s
      <4>1. Max(s) = n + 1 /\ s # {} /\ s \ {n + 1} \in SUBSET (1..(n + 1))
        BY <3>1, <2>7
      <4>2. h[s \ {n + 1}] = g[s \ {n + 1}]
        BY <4>1
      <4>3. h[s] = step[<<g[s \ {n + 1}], n + 1>>]
        BY <3>1
      <4> HIDE DEF h
      <4> QED BY <4>1, <4>2, <4>3
    <3>2. CASE n + 1 \notin s
      <4>1. s \in SUBSET (1..n) /\ h[s] = g[s]
        BY <2>4, <3>2
      <4>2. g[s] = IF s = {} THEN a ELSE step[<<g[s \ {Max(s)}], Max(s)>>]
        BY <2>1, <4>1
      <4>3. h[s \ {Max(s)}] = g[s \ {Max(s)}]
        <5>1. s \ {Max(s)} \in SUBSET (1..(n + 1)) /\ n + 1 \notin s \ {Max(s)}
          BY <3>2
        <5> QED BY <5>1
      <4> HIDE DEF h
      <4> QED BY <4>1, <4>2, <4>3
    <3> QED BY <3>1, <3>2
  <2>9. h \in Folds(A, a, step, n + 1)
    <3> HIDE DEF h
    <3> QED BY <2>6, <2>8 DEF Folds
  <2> QED BY <2>2, <2>9
<1>3. \A n \in 0..N : n \in T
  <2> HIDE DEF T
  <2> QED BY <1>1, <1>2, UpTo
<1> QED BY <1>3

\* The values that step leads through from a.
Runs(A, a, step, N) ==
  {r \in [0..N -> A] : r[0] = a /\ \A n \in 1..N : r[n] = step[<<r[n - 1], n>>]}

Follows(it, A, a, step, N) ==
  /\ it[{}] = a
  /\ \A n \in 1..N : it[1..(n - 1)] \in A => it[1..n] = step[<<it[1..(n - 1)], n>>]

\* The values of a fold after each element, from those that it gives initial segments.
LEMMA FoldSteps ==
  ASSUME NEW A, NEW a \in A, NEW N \in Nat, NEW step, Maps(step, A, N),
         NEW it, Follows(it, A, a, step, N)
  PROVE  \E r \in Runs(A, a, step, N) : it[1..N] = r[N]
<1> DEFINE r == [n \in 0..N |-> it[1..n]]
           T == {n \in 0..N : r[n] \in A}
<1>1. r[0] = a
  <2>1. 1..0 = {}
    OBVIOUS
  <2> QED BY <2>1 DEF Follows
<1>2. \A n \in 1..N : r[n - 1] \in A => r[n] = step[<<r[n - 1], n>>]
  BY DEF Follows
<1>3. \A n \in 0..N : n \in T
  <2>1. 0 \in T
    BY <1>1
  <2>2. \A n \in 0..(N - 1) : n \in T => n + 1 \in T
    <3> SUFFICES ASSUME NEW n \in 0..(N - 1), n \in T PROVE n + 1 \in T
      OBVIOUS
    <3>1. n + 1 \in 1..N /\ (n + 1) - 1 = n /\ r[n] \in A
      OBVIOUS
    <3>2. r[n + 1] = step[<<r[n], n + 1>>]
      <4> HIDE DEF r
      <4> QED BY <3>1, <1>2
    <3> QED BY <3>1, <3>2 DEF Maps
  <2> HIDE DEF T
  <2> QED BY <2>1, <2>2, UpTo
<1>4. r \in [0..N -> A] /\ it[1..N] = r[N]
  <2> HIDE DEF r
  <2>1. \A n \in 0..N : r[n] \in A
    BY <1>3
  <2> QED BY <2>1 DEF r
<1>5. \A n \in 1..N : n - 1 \in 0..N
  OBVIOUS
<1> HIDE DEF r
<1>6. r \in Runs(A, a, step, N)
  BY <1>1, <1>2, <1>4, <1>5 DEF Runs
<1> QED BY <1>4, <1>6

\* A sequence that is not empty is its front and its last element.
LEMMA FrontAndLast ==
  ASSUME NEW S, NEW s \in Seq(S), NEW x \in S
  PROVE  Front(Append(s, x)) = s /\ Last(Append(s, x)) = x
<1> DEFINE t == Append(s, x)
<1>1. /\ Len(s) \in Nat /\ Len(t) = Len(s) + 1 /\ t[Len(s) + 1] = x
      /\ \A n \in 1..Len(s) : t[n] = s[n] /\ s[n] \in S
  BY LenProperties, AppendProperties, ElementOfSeq
<1>2. SubSeq(t, 1, Len(s)) = s
  <2>1. /\ SubSeq(t, 1, Len(s)) \in Seq(S)
        /\ Len(SubSeq(t, 1, Len(s))) = IF 1 <= Len(s) THEN Len(s) - 1 + 1 ELSE 0
        /\ \A n \in 1..(Len(s) - 1 + 1) : SubSeq(t, 1, Len(s))[n] = t[1 + n - 1]
    <3> HIDE DEF t
    <3> QED BY <1>1, SubSeqProperties
  <2>2. Len(SubSeq(t, 1, Len(s))) = Len(s) /\ \A n \in 1..Len(s) : SubSeq(t, 1, Len(s))[n] = s[n]
    <3> HIDE DEF t
    <3>1. Len(s) - 1 + 1 = Len(s) /\ (1 <= Len(s) \/ Len(s) = 0) /\ \A n \in 1..Len(s) : 1 + n - 1 = n
      BY <1>1
    <3> QED BY <1>1, <2>1, <3>1
  <2> HIDE DEF t
  <2> QED BY <2>1, <2>2, SeqEqual
<1>3. Len(t) - 1 = Len(s)
  BY <1>1
<1> HIDE DEF t
<1> QED BY <1>1, <1>2, <1>3 DEF Front, Last, t

\* Induction over sequences.
LEMMA SequenceInduction ==
  ASSUME NEW S, NEW T, <<>> \in T, \A s \in Seq(S), x \in S : s \in T => Append(s, x) \in T
  PROVE  \A s \in Seq(S) : s \in T
<1> SUFFICES ASSUME NEW s \in Seq(S) PROVE s \in T
  OBVIOUS
<1> DEFINE N == Len(s)
           U == {n \in 0..N : SubSeq(s, 1, n) \in T}
<1>1. N \in Nat /\ \A n \in 1..N : s[n] \in S
  BY LenProperties, ElementOfSeq
<1>2. 0 \in U
  <2>1. SubSeq(s, 1, 0) = <<>> /\ 0 \in 0..N
    BY <1>1, SubSeqEmpty
  <2> QED BY <2>1
<1>3. ASSUME NEW n \in 0..(N - 1), n \in U PROVE n + 1 \in U
  <2>1. n + 1 \in 1..N /\ 1 \in 1..N /\ n + 1 \in 0..N /\ n + 1 \in 1..n+1
        /\ (n + 1) - 1 = n /\ s[n + 1] \in S
    BY <1>1
  <2>2. SubSeq(s, 1, n) \in Seq(S)
    BY <1>1, SubSeqProperties
  <2>3. SubSeq(s, 1, n + 1) = SubSeq(s, 1, n) \o <<s[n + 1]>>
    BY <2>1, SubSeqRecursiveSecond
  <2>4. SubSeq(s, 1, n) \o <<s[n + 1]>> = Append(SubSeq(s, 1, n), s[n + 1])
    BY <2>1, <2>2, AppendIsConcat
  <2>5. SubSeq(s, 1, n + 1) \in T
    BY <1>3, <2>1, <2>2, <2>3, <2>4
  <2> QED BY <2>1, <2>5
<1>4. N \in U
  <2>1. \A n \in 0..N : n \in U
    <3> HIDE DEF U, N
    <3> QED BY <1>1, <1>2, <1>3, UpTo
  <2> QED BY <1>1, <2>1
<1> QED BY <1>4, SubSeqFull, ZenonT(60)

\* What is appended to a concatenation is appended to its second part.
LEMMA AppendToConcat ==
  ASSUME NEW S, NEW s \in Seq(S), NEW t \in Seq(S), NEW x \in S
  PROVE  s \o Append(t, x) = Append(s \o t, x)
<1>1. <<x>> \in Seq(S) /\ s \o t \in Seq(S)
  BY ConcatProperties
<1>2. Append(t, x) = t \o <<x>> /\ Append(s \o t, x) = (s \o t) \o <<x>>
  BY <1>1, AppendIsConcat
<1> QED BY <1>1, <1>2, ConcatAssociative

\* The function that FoldLeft chooses.
Iterate(c, a, s) ==
  CHOOSE g : g = [t \in SUBSET (DOMAIN s) |->
                    IF t = {} THEN a ELSE Step(c, g[t \ {Max(t)}], s[Max(t)])]

Iterates(c, it, a, s) ==
  it = [t \in SUBSET (1..Len(s)) |-> IF t = {} THEN a ELSE Step(c, it[t \ {Max(t)}], s[Max(t)])]

\* The choice is of a function that exists, so it satisfies the equation.
LEMMA IterateSteps ==
  ASSUME NEW c, NEW S, NEW A, NEW a \in A, Closed(c, A, S), NEW s \in Seq(S)
  PROVE  Iterates(c, Iterate(c, a, s), a, s)
<1> DEFINE N == Len(s)
           step == [x \in A \X (1..N) |-> Step(c, x[1], s[x[2]])]
<1>1. N \in Nat /\ DOMAIN s = 1..N /\ \A n \in 1..N : s[n] \in S
  BY LenProperties, ElementOfSeq
<1>2. \A v \in A, n \in 1..N : step[<<v, n>>] = Step(c, v, s[n]) /\ step[<<v, n>>] \in A
  BY <1>1 DEF Closed
<1> HIDE DEF step, N
<1>3. PICK g \in [SUBSET (1..N) -> A] :
        \A t \in SUBSET (1..N) : g[t] = IF t = {} THEN a ELSE step[<<g[t \ {Max(t)}], Max(t)>>]
  <2>1. Folds(A, a, step, N) # {}
    BY <1>1, <1>2, FoldExists DEF Maps
  <2> QED BY <2>1 DEF Folds
<1>4. \A t \in SUBSET (1..N) : t # {} => Max(t) \in 1..N
  BY <1>1, MaxMember
<1>5. g = [t \in SUBSET (1..N) |-> IF t = {} THEN a ELSE Step(c, g[t \ {Max(t)}], s[Max(t)])]
  BY <1>2, <1>3, <1>4
<1> QED BY <1>1, <1>5 DEF Iterate, Iterates, N

\* The values of the fold of s, after each element.
Values(c, A, a, s) ==
  {r \in [0..Len(s) -> A] : r[0] = a /\ \A n \in 1..Len(s) : r[n] = Step(c, r[n - 1], s[n])}

\* A fold is the last of those values.
LEMMA FoldRun ==
  ASSUME NEW c, NEW S, NEW A, NEW a \in A, Closed(c, A, S), NEW s \in Seq(S)
  PROVE  \E r \in Values(c, A, a, s) : Fold(c, a, s) = r[Len(s)]
<1> DEFINE N == Len(s)
           step == [x \in A \X (1..N) |-> Step(c, x[1], s[x[2]])]
           it == Iterate(c, a, s)
<1>1. N \in Nat /\ DOMAIN s = 1..N /\ \A n \in 1..N : s[n] \in S
  BY LenProperties, ElementOfSeq
<1>2. \A v \in A, n \in 1..N : step[<<v, n>>] = Step(c, v, s[n]) /\ step[<<v, n>>] \in A
  BY <1>1 DEF Closed
<1>3. Fold(c, a, s) = it[1..N]
  BY <1>1 DEF Fold, FoldLeft, MapThenFoldSet, Iterate
<1>4. it = [t \in SUBSET (1..N) |-> IF t = {} THEN a ELSE Step(c, it[t \ {Max(t)}], s[Max(t)])]
  <2>1. Iterates(c, it, a, s)
    BY IterateSteps
  <2> HIDE DEF it
  <2> QED BY <2>1 DEF Iterates
<1> HIDE DEF step, it, N
<1>5. it[{}] = a
  BY <1>4
<1>6. \A n \in 1..N : it[1..n] = Step(c, it[1..(n - 1)], s[n])
  <2> SUFFICES ASSUME NEW n \in 1..N PROVE it[1..n] = Step(c, it[1..(n - 1)], s[n])
    OBVIOUS
  <2>1. n \in Nat /\ n # 0 /\ 1..n \in SUBSET (1..N)
    BY <1>1
  <2>2. 1..n # {} /\ Max(1..n) = n /\ (1..n) \ {n} = 1..(n - 1)
    BY <2>1, InitialSegments
  <2> QED BY <1>4, <2>1, <2>2
<1>7. \A n \in 1..N : it[1..(n - 1)] \in A => it[1..n] = step[<<it[1..(n - 1)], n>>]
  BY <1>2, <1>6
<1>8. PICK r \in Runs(A, a, step, N) : it[1..N] = r[N]
  <2>1. Maps(step, A, N)
    BY <1>2 DEF Maps
  <2>2. Follows(it, A, a, step, N)
    BY <1>5, <1>7 DEF Follows
  <2> QED BY <1>1, <2>1, <2>2, FoldSteps
<1>9. /\ r \in [0..N -> A] /\ r[0] = a
      /\ \A n \in 1..N : r[n] = step[<<r[n - 1], n>>]
  BY DEF Runs
<1>10. \A n \in 1..N : r[n] = Step(c, r[n - 1], s[n])
  <2> SUFFICES ASSUME NEW n \in 1..N PROVE r[n] = Step(c, r[n - 1], s[n])
    OBVIOUS
  <2>1. n - 1 \in 0..N
    BY <1>1
  <2> QED BY <1>2, <1>9, <2>1
<1>11. r \in Values(c, A, a, s)
  BY <1>9, <1>10 DEF Values, N
<1> QED BY <1>3, <1>8, <1>11 DEF N

\* A fold in terms of sequences: of nothing it is a, and an element adds one step.
LEMMA FoldEmpty ==
  ASSUME NEW c, NEW S, NEW A, NEW a \in A, Closed(c, A, S)
  PROVE  Fold(c, a, <<>>) = a
<1>1. <<>> \in Seq(S) /\ Len(<<>>) = 0
  BY EmptySeq
<1>2. \E r \in Values(c, A, a, <<>>) : Fold(c, a, <<>>) = r[Len(<<>>)]
  BY <1>1, FoldRun
<1> QED BY <1>1, <1>2 DEF Values

\* An element at the end adds one step.
LEMMA FoldAppend ==
  ASSUME NEW c, NEW S, NEW A, NEW a \in A, Closed(c, A, S), NEW s \in Seq(S), NEW x \in S
  PROVE  Fold(c, a, s) \in A /\ Fold(c, a, Append(s, x)) = Step(c, Fold(c, a, s), x)
<1> DEFINE N == Len(s)
           t == Append(s, x)
<1>1. N \in Nat /\ t \in Seq(S) /\ Len(t) = N + 1 /\ t[N + 1] = x /\ \A n \in 1..N : t[n] = s[n]
  BY LenProperties, AppendProperties
<1>2. PICK r \in Values(c, A, a, s) : Fold(c, a, s) = r[N]
  BY FoldRun
<1>3. PICK q \in Values(c, A, a, t) : Fold(c, a, t) = q[Len(t)]
  <2> HIDE DEF t
  <2> QED BY <1>1, FoldRun
<1> HIDE DEF t
<1>4. /\ r \in [0..N -> A] /\ r[0] = a
      /\ \A n \in 1..N : r[n] = Step(c, r[n - 1], s[n])
  BY DEF Values
<1>5. /\ q \in [0..N + 1 -> A] /\ q[0] = a
      /\ \A n \in 1..N + 1 : q[n] = Step(c, q[n - 1], t[n])
  BY <1>1 DEF Values
<1> HIDE DEF N
<1> DEFINE T == {n \in 0..N : r[n] = q[n]}
<1>6. \A n \in 0..(N - 1) : n \in T => n + 1 \in T
  <2> SUFFICES ASSUME NEW n \in 0..(N - 1), n \in T PROVE n + 1 \in T
    OBVIOUS
  <2>1. n + 1 \in 1..N /\ n + 1 \in 1..N + 1 /\ n + 1 \in 0..N /\ (n + 1) - 1 = n
    BY <1>1
  <2>2. r[n + 1] = Step(c, r[n], s[n + 1]) /\ q[n + 1] = Step(c, q[n], t[n + 1])
    BY <1>4, <1>5, <2>1
  <2> QED BY <1>1, <2>1, <2>2
<1>7. N \in T
  <2>1. 0 \in T
    BY <1>1, <1>4, <1>5
  <2> HIDE DEF T
  <2>2. \A n \in 0..N : n \in T
    BY <1>1, <1>6, <2>1, UpTo
  <2> QED BY <1>1, <2>2
<1>8. N + 1 \in 1..N + 1 /\ (N + 1) - 1 = N /\ N \in 0..N
  BY <1>1
<1>9. q[N + 1] = Step(c, q[N], t[N + 1])
  BY <1>5, <1>8
<1> QED BY <1>1, <1>2, <1>3, <1>4, <1>7, <1>8, <1>9 DEF t

\* What a fold computes stays where its steps lead.
LEMMA FoldType ==
  ASSUME NEW c, NEW S, NEW A, NEW a \in A, Closed(c, A, S), NEW s \in Seq(S)
  PROVE  Fold(c, a, s) \in A
<1>1. CASE s = <<>>
  BY <1>1, FoldEmpty
<1>2. CASE s # <<>>
  <2>1. PICK u \in Seq(S), x \in S : s = Append(u, x)
    BY <1>2, SequenceEmptyOrAppend
  <2>2. Fold(c, a, u) \in A /\ Fold(c, a, s) = Step(c, Fold(c, a, u), x)
    BY <2>1, FoldAppend
  <2> QED BY <2>2 DEF Closed
<1> QED BY <1>1, <1>2

\* The fold of a concatenation goes on from the fold of its first part.
LEMMA FoldConcat ==
  ASSUME NEW c, NEW S, NEW A, NEW a \in A, Closed(c, A, S), NEW s \in Seq(S), NEW t \in Seq(S)
  PROVE  Fold(c, a, s \o t) = Fold(c, Fold(c, a, s), t)
<1> DEFINE b == Fold(c, a, s)
           T == {u \in Seq(S) : Fold(c, a, s \o u) = Fold(c, b, u)}
<1>1. b \in A
  BY FoldType
<1> HIDE DEF b
<1>2. <<>> \in T
  <2>1. s \o <<>> = s /\ <<>> \in Seq(S) /\ Fold(c, b, <<>>) = b
    BY <1>1, ConcatEmptySeq, FoldEmpty, EmptySeq
  <2> QED BY <2>1 DEF b
<1>3. ASSUME NEW u \in Seq(S), NEW x \in S, u \in T PROVE Append(u, x) \in T
  <2>1. Append(u, x) \in Seq(S) /\ s \o u \in Seq(S) /\ s \o Append(u, x) = Append(s \o u, x)
    BY AppendProperties, ConcatProperties, AppendToConcat
  <2>2. Fold(c, a, Append(s \o u, x)) = Step(c, Fold(c, a, s \o u), x)
    <3> HIDE DEF T
    <3> DEFINE v == s \o u
    <3>1. v \in Seq(S)
      BY <2>1
    <3> HIDE DEF v
    <3>2. Fold(c, a, Append(v, x)) = Step(c, Fold(c, a, v), x)
      BY <3>1, FoldAppend
    <3> QED BY <3>2 DEF v
  <2>3. Fold(c, b, Append(u, x)) = Step(c, Fold(c, b, u), x)
    BY <1>1, FoldAppend
  <2> QED BY <1>3, <2>1, <2>2, <2>3
<1>4. t \in T
  <2> HIDE DEF T
  <2> QED BY <1>2, <1>3, SequenceInduction
<1> QED BY <1>4 DEF b

\* Contexts in which every step leads to the same make the same of a sequence.
LEMMA FoldSame ==
  ASSUME NEW c, NEW d, NEW S, NEW A, NEW a \in A, Closed(c, A, S),
         \A v \in A, x \in S : Step(c, v, x) = Step(d, v, x), NEW s \in Seq(S)
  PROVE  Fold(c, a, s) = Fold(d, a, s)
<1> DEFINE T == {u \in Seq(S) : Fold(c, a, u) = Fold(d, a, u)}
<1>1. Closed(d, A, S)
  BY DEF Closed
<1>2. <<>> \in T
  BY <1>1, FoldEmpty, EmptySeq
<1>3. ASSUME NEW u \in Seq(S), NEW x \in S, u \in T PROVE Append(u, x) \in T
  <2>1. Fold(c, a, u) \in A
    BY FoldType
  <2>2. Fold(c, a, Append(u, x)) = Step(c, Fold(c, a, u), x)
    BY FoldAppend
  <2>3. Fold(d, a, Append(u, x)) = Step(d, Fold(d, a, u), x)
    BY <1>1, FoldAppend
  <2>4. Append(u, x) \in Seq(S)
    BY AppendProperties
  <2> QED BY <1>3, <2>1, <2>2, <2>3, <2>4
<1>4. s \in T
  <2> HIDE DEF T
  <2> QED BY <1>2, <1>3, SequenceInduction
<1> QED BY <1>4

\* The positions 1..n in order.
Positions(n) == [k \in 1..n |-> k]

\* One more position comes last.
LEMMA PositionsNext ==
  ASSUME NEW n \in Nat
  PROVE  /\ Positions(n) \in Seq(1..n) /\ Positions(n) \in Seq(1..(n + 1))
         /\ Positions(n + 1) = Append(Positions(n), n + 1)
<1>0. 1..n \subseteq 1..(n + 1)
  OBVIOUS
<1>1. Positions(n) \in Seq(1..n) /\ Positions(n) \in Seq(1..(n + 1)) /\ Positions(n) \in Seq(Nat)
  BY <1>0, SeqDef DEF Positions
<1>2. Positions(n + 1) \in Seq(Nat) /\ Len(Positions(n + 1)) = n + 1
  BY SeqDef DEF Positions
<1>3. Len(Positions(n)) = n
  BY SeqDef DEF Positions
<1>4. Append(Positions(n), n + 1) \in Seq(Nat) /\ Len(Append(Positions(n), n + 1)) = n + 1
  BY <1>1, <1>3, AppendProperties
<1>5. ASSUME NEW k \in 1..(n + 1) PROVE Positions(n + 1)[k] = Append(Positions(n), n + 1)[k]
  <2>1. CASE k = n + 1
    BY <1>1, <1>3, <2>1, AppendProperties DEF Positions
  <2>2. CASE k # n + 1
    <3>1. k \in 1..n
      BY <2>2
    <3>2. Append(Positions(n), n + 1)[k] = Positions(n)[k]
      BY <1>1, <1>3, <3>1, AppendProperties
    <3> QED BY <3>1, <3>2 DEF Positions
  <2> QED BY <2>1, <2>2
<1> QED BY <1>1, <1>2, <1>4, <1>5, SeqEqual
=============================================================================
