---------------------------- MODULE UrlRulesProofs ---------------------------
(***************************************************************************)
(* Theorems about UrlRules and about EndpointDiscovery, which reads the    *)
(* addresses of a site with it.                                            *)
(*                                                                         *)
(* For every URL, the canonical form is stable, and the filter admits the  *)
(* canonical form of what it admits.  The loops of canonicalize_url and of *)
(* the filter are folds; SequenceFolds says what a fold computes, and the  *)
(* lemmas here what those loops do with paths and with queries:            *)
(*   - Names drops "", "." and "name/..", so that a path has one list of   *)
(*     names and the canonical path is a function of it, of its two        *)
(*     leading slashes and of its end;                                     *)
(*   - Insert puts a parameter where the order wants it, and two inserts   *)
(*     commute unless the parameters compare as equal, so that a query has *)
(*     one sorted form;                                                    *)
(*   - what the filter looks for, a slug, a date or a hint, is a part of   *)
(*     the path that is made of segments, which the canonical path keeps.  *)
(*                                                                         *)
(* For every list of tags, sitemaps and addresses typed in by hand and     *)
(* every answer to the requests, an endpoint that fails costs its own      *)
(* channel at most: an attempt validates what its own answer says,         *)
(* whatever the others found (ValidatedFacts), and a channel is written    *)
(* for every address that was validated, for no other (ChannelsFacts).     *)
(***************************************************************************)
EXTENDS MCDecisions, SequenceTheorems, FiniteSetTheorems, TLAPS

\* What a pass of each loop of UrlRules does; the first parameter is what it does not change.
FollowStep(c, done, segment) == Follow(done, segment)

InsertStep(c, done, p) == Insert(done, p)

KeepStep(drop, kept, p) == IF p.key \in drop THEN kept ELSE Append(kept, p)

FillStep(c, kept, segment) == IF segment = Empty THEN kept ELSE Append(kept, segment)

F == INSTANCE SequenceFolds WITH Step <- FollowStep

I == INSTANCE SequenceFolds WITH Step <- InsertStep

K == INSTANCE SequenceFolds WITH Step <- KeepStep

G == INSTANCE SequenceFolds WITH Step <- FillStep

\* The loops of UrlRules are folds of these steps.
LEMMA NamesIsFold ==
  ASSUME NEW path
  PROVE  Names(path) = F!Fold(0, <<>>, path)
BY DEF Names, F!Fold, FoldLeft, F!FoldLeft, MapThenFoldSet, F!MapThenFoldSet, Max, F!Max, FollowStep

LEMMA SortedIsFold ==
  ASSUME NEW query
  PROVE  Sorted(query) = I!Fold(0, <<>>, query)
BY DEF Sorted, I!Fold, FoldLeft, I!FoldLeft, MapThenFoldSet, I!MapThenFoldSet, Max, I!Max, InsertStep

LEMMA KeptIsFold ==
  ASSUME NEW query, NEW drop
  PROVE  Kept(query, drop) = K!Fold(drop, <<>>, query)
BY DEF Kept, K!Fold, FoldLeft, K!FoldLeft, MapThenFoldSet, K!MapThenFoldSet, Max, K!Max, KeepStep

LEMMA SegmentsIsFold ==
  ASSUME NEW path
  PROVE  Segments(path) = G!Fold(0, <<>>, path)
BY DEF Segments, G!Fold, FoldLeft, G!FoldLeft, MapThenFoldSet, G!MapThenFoldSet, Max, G!Max, FillStep

\* Segments that are names.
Plain(S) == S \ {Empty, Dot, DotDot}

\* What one segment of a path does to the names before it.
LEMMA FollowCases ==
  ASSUME NEW v, NEW x
  PROVE  /\ x \in {Empty, Dot} => Follow(v, x) = v
         /\ x = DotDot => Follow(v, x) = IF v = <<>> THEN v ELSE Front(v)
         /\ x \notin {Empty, Dot, DotDot} => Follow(v, x) = Append(v, x)
<1>1. DotDot \notin {Empty, Dot}
  BY DEF DotDot, Empty, Dot
<1>2. CASE x \in {Empty, Dot}
  BY <1>1, <1>2 DEF Follow
<1>3. CASE x = DotDot
  BY <1>1, <1>3 DEF Follow
<1>4. CASE x \notin {Empty, Dot, DotDot}
  BY <1>1, <1>4 DEF Follow
<1> QED BY <1>1, <1>2, <1>3, <1>4

\* The names of a path stay names.
LEMMA FollowCloses ==
  ASSUME NEW S
  PROVE  F!Closed(0, Seq(Plain(S)), S)
<1> SUFFICES ASSUME NEW v \in Seq(Plain(S)), NEW x \in S
             PROVE  Follow(v, x) \in Seq(Plain(S))
  BY DEF F!Closed, FollowStep
<1>1. CASE x \in {Empty, Dot}
  BY <1>1, FollowCases
<1>2. CASE x = DotDot
  <2>1. v # <<>> => Front(v) \in Seq(Plain(S))
    <3> SUFFICES ASSUME v # <<>> PROVE Front(v) \in Seq(Plain(S))
      OBVIOUS
    <3>1. PICK u \in Seq(Plain(S)), y \in Plain(S) : v = Append(u, y)
      BY SequenceEmptyOrAppend
    <3> QED BY <3>1, F!FrontAndLast DEF Front, F!Front
  <2> QED BY <1>2, <2>1, FollowCases
<1>3. CASE x \notin {Empty, Dot, DotDot}
  <2>1. x \in Plain(S)
    BY <1>3 DEF Plain
  <2>2. Follow(v, x) = Append(v, x)
    BY <1>3, FollowCases
  <2> QED BY <2>1, <2>2, AppendProperties
<1> QED BY <1>1, <1>2, <1>3

\* The names of a path, one segment at a time.
LEMMA NamesFacts ==
  ASSUME NEW S, NEW p \in Seq(S)
  PROVE  /\ Names(p) \in Seq(Plain(S))
         /\ Names(<<>>) = <<>>
         /\ \A x \in S : Names(Append(p, x)) = Follow(Names(p), x)
<1>1. <<>> \in Seq(Plain(S)) /\ F!Closed(0, Seq(Plain(S)), S)
  BY EmptySeq, FollowCloses
<1>2. F!Fold(0, <<>>, p) \in Seq(Plain(S)) /\ F!Fold(0, <<>>, <<>>) = <<>>
  BY <1>1, F!FoldType, F!FoldEmpty, Zenon
<1>3. ASSUME NEW x \in S
      PROVE  F!Fold(0, <<>>, Append(p, x)) = Follow(F!Fold(0, <<>>, p), x)
  <2> DEFINE A == Seq(Plain(S))
             a == <<>>
  <2> HIDE DEF A, a
  <2>1. a \in A /\ F!Closed(0, A, S)
    BY <1>1 DEF A, a
  <2>2. F!Fold(0, a, Append(p, x)) = FollowStep(0, F!Fold(0, a, p), x)
    BY <2>1, F!FoldAppend
  <2> QED BY <2>2 DEF FollowStep, a
<1> QED BY <1>2, <1>3, NamesIsFold

\* Paths that lead to the same names go on to the same names.
LEMMA NamesThen ==
  ASSUME NEW S, NEW p \in Seq(S), NEW q \in Seq(S), NEW t \in Seq(S), Names(p) = Names(q)
  PROVE  Names(p \o t) = Names(q \o t)
<1>1. <<>> \in Seq(Plain(S)) /\ F!Closed(0, Seq(Plain(S)), S)
  BY EmptySeq, FollowCloses
<1> DEFINE A == Seq(Plain(S))
           a == <<>>
<1> HIDE DEF A, a
<1>2. a \in A /\ F!Closed(0, A, S)
  BY <1>1 DEF A, a
<1>3. /\ F!Fold(0, a, p \o t) = F!Fold(0, F!Fold(0, a, p), t)
      /\ F!Fold(0, a, q \o t) = F!Fold(0, F!Fold(0, a, q), t)
  BY <1>2, F!FoldConcat
<1> QED BY <1>3, NamesIsFold DEF a

\* A path of names has those names, with a slash at either end or none.
LEMMA NamesOfPlain ==
  ASSUME NEW S, NEW n \in Seq(Plain(S)), Empty \in S
  PROVE  /\ Names(n) = n
         /\ Names(Append(n, Empty)) = n
         /\ Names(<<Empty>> \o n) = n
         /\ Names(<<Empty>> \o Append(n, Empty)) = n
<1> DEFINE T == {m \in Seq(Plain(S)) : Names(m) = m}
<1>1. Plain(S) \subseteq S /\ \A m \in Seq(Plain(S)) : m \in Seq(S)
  BY SeqMonotonic DEF Plain
<1>2. <<>> \in T
  BY EmptySeq, NamesFacts
<1>3. ASSUME NEW m \in Seq(Plain(S)), NEW x \in Plain(S), m \in T PROVE Append(m, x) \in T
  <2>1. Names(Append(m, x)) = Follow(m, x)
    BY <1>1, <1>3, NamesFacts
  <2>2. Follow(m, x) = Append(m, x)
    BY FollowCases DEF Plain
  <2> QED BY <2>1, <2>2, AppendProperties
<1>4. n \in T
  <2> HIDE DEF T
  <2> QED BY <1>2, <1>3, F!SequenceInduction
<1>5. Names(Append(n, Empty)) = n
  <2>1. Names(Append(n, Empty)) = Follow(n, Empty)
    BY <1>1, <1>4, NamesFacts
  <2> QED BY <2>1, FollowCases
<1>6. /\ <<>> \in Seq(S) /\ <<Empty>> \in Seq(S) /\ Append(n, Empty) \in Seq(S) /\ n \in Seq(S)
      /\ <<Empty>> = Append(<<>>, Empty)
  BY <1>1, EmptySeq, AppendProperties
<1>7. Names(<<Empty>>) = Names(<<>>)
  <2>1. Names(Append(<<>>, Empty)) = Follow(Names(<<>>), Empty)
    BY <1>6, NamesFacts, Zenon
  <2> QED BY <1>6, <2>1, FollowCases
<1>8. /\ Names(<<Empty>> \o n) = Names(<<>> \o n)
      /\ Names(<<Empty>> \o Append(n, Empty)) = Names(<<>> \o Append(n, Empty))
  BY <1>6, <1>7, NamesThen, Zenon
<1> QED BY <1>4, <1>5, <1>6, <1>8, ConcatEmptySeq

\* Where names begin and end: two slashes lead a path that begins with one empty segment,
\* and none that begins with a name.
LEMMA NamesInPath ==
  ASSUME NEW S, Empty \in S, NEW n \in Seq(Plain(S)), n # <<>>
  PROVE  LET t == Append(n, Empty) IN
         /\ n \in Seq(S) /\ t \in Seq(S) /\ <<Empty>> \o n \in Seq(S) /\ <<Empty>> \o t \in Seq(S)
         /\ <<Empty>> \o t = Append(<<Empty>> \o n, Empty)
         /\ t # <<>> /\ <<Empty>> \o n # <<>> /\ <<Empty>> \o t # <<>>
         /\ Last(n) # Empty /\ Last(<<Empty>> \o n) # Empty
         /\ Last(t) = Empty /\ Last(<<Empty>> \o t) = Empty
         /\ n # <<Empty>> /\ <<Empty>> \o n # <<Empty>>
         /\ ~TwoSlashes(n) /\ ~TwoSlashes(t)
         /\ TwoSlashes(<<Empty>> \o n) /\ TwoSlashes(<<Empty>> \o t)
<1> DEFINE t == Append(n, Empty)
           l == <<Empty>> \o n
           m == <<Empty>> \o t
<1>1. Plain(S) \subseteq S /\ n \in Seq(S) /\ <<Empty>> \in Seq(S)
  BY SeqMonotonic DEF Plain
<1>2. /\ Len(n) \in Nat /\ Len(n) >= 1
      /\ \A i \in 1..Len(n) : n[i] # Empty
  BY LenProperties, EmptySeq, ElementOfSeq DEF Plain
<1>3. t \in Seq(S) /\ Len(t) = Len(n) + 1 /\ t[Len(n) + 1] = Empty /\ t[1] = n[1]
  BY <1>1, <1>2, AppendProperties
<1> HIDE DEF t
<1>4. /\ l \in Seq(S) /\ Len(l) = Len(n) + 1 /\ l[1] = Empty /\ l[2] = n[1]
      /\ l[Len(n) + 1] = n[Len(n)]
  BY <1>1, <1>2, ConcatProperties
<1>5. /\ m \in Seq(S) /\ Len(m) = Len(n) + 2 /\ m[1] = Empty /\ m[2] = n[1]
      /\ m[Len(n) + 2] = Empty
  BY <1>1, <1>2, <1>3, ConcatProperties
<1>6. m = Append(l, Empty)
  BY <1>1, F!AppendToConcat DEF t
<1> HIDE DEF l, m
<1>7. n # <<>> /\ t # <<>> /\ l # <<>> /\ m # <<>> /\ n # <<Empty>> /\ l # <<Empty>>
  BY <1>2, <1>3, <1>4, <1>5
<1>8. Last(n) # Empty /\ Last(l) # Empty /\ Last(t) = Empty /\ Last(m) = Empty
  BY <1>2, <1>3, <1>4, <1>5 DEF Last
<1>9. ~TwoSlashes(n) /\ ~TwoSlashes(t) /\ TwoSlashes(l) /\ TwoSlashes(m)
  BY <1>2, <1>3, <1>4, <1>5 DEF TwoSlashes
<1> QED BY <1>1, <1>3, <1>4, <1>5, <1>6, <1>7, <1>8, <1>9, Zenon DEF t, l, m

\* The canonical path of a canonical path is itself.
LEMMA PathSettles ==
  ASSUME NEW S, Empty \in S, NEW p \in Seq(S)
  PROVE  OnlySlashes(CanonicalPath(p)) \/ CanonicalPath(CanonicalPath(p)) = CanonicalPath(p)
<1> DEFINE n == Names(p)
           c == CanonicalPath(p)
<1>1. n \in Seq(Plain(S))
  BY NamesFacts
<1>2. CASE n = <<>> /\ ~TwoSlashes(p)
  <2>1. <<>> \o <<Empty>> = <<Empty>>
    OBVIOUS
  <2>2. Resolved(p) = <<Empty>>
    BY <1>2, <2>1 DEF Resolved
  <2>3. c = <<Empty>>
    BY <2>2 DEF CanonicalPath
  <2>4. ~TwoSlashes(<<Empty>>)
    BY DEF TwoSlashes
  <2>5. Names(<<Empty>>) = <<>>
    <3>1. Names(Append(<<>>, Empty)) = <<>>
      BY EmptySeq, NamesOfPlain, Zenon
    <3>2. Append(<<>>, Empty) = <<Empty>>
      OBVIOUS
    <3> QED BY <3>1, <3>2
  <2>6. Resolved(<<Empty>>) = <<Empty>>
    BY <2>1, <2>4, <2>5 DEF Resolved
  <2>7. CanonicalPath(<<Empty>>) = <<Empty>>
    BY <2>6 DEF CanonicalPath
  <2> QED BY <2>3, <2>7
<1>3. CASE n = <<>> /\ TwoSlashes(p)
  <2>1. Resolved(p) = <<Empty>> \o <<Empty>>
    BY <1>3 DEF Resolved
  <2>2. ASSUME NEW s \in Seq({Empty}), Len(s) >= 2 PROVE OnlySlashes(s)
    <3>1. DOMAIN s = 1..Len(s) /\ 1 \in DOMAIN s /\ \A i \in DOMAIN s : s[i] = Empty
      BY <2>2, LenProperties, ElementOfSeq
    <3> QED BY <2>2, <3>1 DEF OnlySlashes, Range
  <2>3. <<Empty>> \in Seq({Empty}) /\ Len(<<Empty>>) = 1
    OBVIOUS
  <2> DEFINE s == <<Empty>> \o <<Empty>>
             d == Append(s, Empty)
  <2>4. s \in Seq({Empty}) /\ Len(s) = 2
    BY <2>3, ConcatProperties
  <2> HIDE DEF s
  <2>5. d \in Seq({Empty}) /\ Len(d) = 3
    <3> DEFINE E == {Empty}
    <3>1. Empty \in E /\ s \in Seq(E)
      BY <2>4
    <3> HIDE DEF E
    <3>2. Append(s, Empty) \in Seq(E) /\ Len(Append(s, Empty)) = Len(s) + 1
      BY <3>1, AppendProperties
    <3> QED BY <2>4, <3>2 DEF E
  <2>6. c \in {s, d}
    BY <2>1 DEF CanonicalPath, s
  <2> HIDE DEF d
  <2>7. OnlySlashes(s)
    BY <2>2, <2>4, SMTT(30)
  <2>8. OnlySlashes(d)
    BY <2>2, <2>5, SMTT(30)
  <2> QED BY <2>6, <2>7, <2>8
<1>4. CASE n # <<>>
  <2> DEFINE t == Append(n, Empty)
             l == <<Empty>> \o n
             m == <<Empty>> \o t
  <2>1. /\ l # <<>> /\ t # <<>> /\ m # <<>> /\ n # <<Empty>> /\ l # <<Empty>> /\ m = Append(l, Empty)
        /\ Last(n) # Empty /\ Last(l) # Empty /\ Last(t) = Empty /\ Last(m) = Empty
        /\ ~TwoSlashes(n) /\ ~TwoSlashes(t) /\ TwoSlashes(l) /\ TwoSlashes(m)
    BY <1>1, <1>4, NamesInPath, Zenon
  <2>2. Names(n) = n /\ Names(t) = n /\ Names(l) = n /\ Names(m) = n
    BY <1>1, NamesOfPlain
  <2>3. <<>> \o n = n
    BY <1>1, ConcatEmptySeq
  <2>4. c \in {n, t, l, m}
    <3>1. Resolved(p) = IF TwoSlashes(p) THEN l ELSE n
      BY <1>4, <2>3, Zenon DEF Resolved
    <3> QED BY <2>1, <3>1 DEF CanonicalPath
  <2> HIDE DEF n, c, l, t, m
  <2>5. Resolved(n) = n /\ Resolved(t) = n /\ Resolved(l) = l /\ Resolved(m) = l
    BY <1>4, <2>1, <2>2, <2>3, Zenon DEF Resolved, l
  <2>6. CanonicalPath(n) = n /\ CanonicalPath(t) = t /\ CanonicalPath(l) = l /\ CanonicalPath(m) = m
    BY <1>4, <2>1, <2>5 DEF CanonicalPath, t
  <2> QED BY <2>4, <2>6 DEF c
<1> QED BY <1>2, <1>3, <1>4

\* Paths with one list of names, one end and no leading pair of slashes have one form.
LEMMA PathsAgree ==
  ASSUME NEW p, NEW q, Names(p) = Names(q), ~TwoSlashes(p), ~TwoSlashes(q),
         p # <<>>, q # <<>>, Last(p) = Last(q)
  PROVE  CanonicalPath(p) = CanonicalPath(q)
<1>1. Resolved(p) = Resolved(q)
  BY Zenon DEF Resolved
<1> QED BY <1>1 DEF CanonicalPath

\* The same end after two paths that lead to the same names.
LEMMA SegmentsDropped ==
  ASSUME NEW S, NEW p \in Seq(S), NEW r \in Seq(S), NEW q \in Seq(S), q # <<>>,
         Names(r) = Names(p), ~TwoSlashes(p \o q), ~TwoSlashes(r \o q)
  PROVE  CanonicalPath(r \o q) = CanonicalPath(p \o q)
<1>1. Len(r) \in Nat /\ Len(p) \in Nat /\ Len(q) \in Nat /\ Len(q) >= 1
  BY LenProperties, EmptySeq
<1>2. Names(r \o q) = Names(p \o q)
  BY NamesThen
<1>3. ASSUME NEW t \in Seq(S), Len(t) \in Nat PROVE t \o q # <<>> /\ Last(t \o q) = q[Len(q)]
  <2>1. /\ Len(t \o q) = Len(t) + Len(q)
        /\ (t \o q)[Len(t) + Len(q)] = q[Len(t) + Len(q) - Len(t)]
    BY <1>1, <1>3, ConcatProperties
  <2> QED BY <1>1, <1>3, <2>1, EmptySeq DEF Last
<1> QED BY <1>1, <1>2, <1>3, PathsAgree, Zenon

(***************************************************************************)
(* Queries                                                                 *)
(***************************************************************************)

\* Parameters that can be compared.
Comparable(P) == \A p \in P : p.key \in Int /\ p.value \in Int

InOrder(d) == \A i, j \in 1..Len(d) : i < j => ~After(d[i], d[j])

OrderedQueries(P) == {d \in Seq(P) : InOrder(d)}

\* The order of parameters is a strict weak order.
LEMMA AfterOrders ==
  ASSUME NEW P, Comparable(P), NEW p \in P, NEW q \in P, NEW r \in P
  PROVE  /\ ~After(p, p)
         /\ After(p, q) => ~After(q, p)
         /\ ~After(p, q) /\ ~After(q, r) => ~After(p, r)
BY DEF After, Comparable

\* A set of positions that is closed downwards is an interval, as long as it is large.
LEMMA InitialPositions ==
  ASSUME NEW N \in Nat, NEW J, J \subseteq 1..N, \A i \in J, j \in 1..N : j <= i => j \in J
  PROVE  Cardinality(J) \in 0..N /\ J = 1..Cardinality(J)
<1> DEFINE T == {n \in 0..N : n + 1 \notin J}
<1>1. N \in T /\ T \subseteq Nat
  OBVIOUS
<1>2. PICK m \in T : \A n \in T : m <= n
  <2> HIDE DEF T
  <2> QED BY <1>1, F!LeastMember, Zenon
<1>3. \A j \in 1..m : j \in J
  <2> SUFFICES ASSUME NEW j \in 1..m, j \notin J PROVE FALSE
    OBVIOUS
  <2>1. j - 1 \in T /\ j - 1 < m
    BY <1>2
  <2> QED BY <1>2, <2>1
<1>4. \A i \in J : i \in 1..m
  BY <1>2
<1>5. J = 1..m /\ m \in 0..N
  BY <1>2, <1>3, <1>4, Zenon
<1>6. Cardinality(1..m) = m
  <2>1. m \in Nat /\ Cardinality(1..m) = IF 1 > m THEN 0 ELSE m - 1 + 1
    BY <1>5, FS_Interval
  <2> QED BY <2>1
<1> QED BY <1>5, <1>6

\* e is d with x put in after its n-th element, where it belongs.
Placed(d, x, e, n) ==
  /\ \A i \in 1..n : ~After(d[i], x)
  /\ \A i \in (n + 1)..Len(d) : After(d[i], x)
  /\ Len(e) = Len(d) + 1
  /\ \A i \in 1..n : e[i] = d[i]
  /\ e[n + 1] = x
  /\ \A i \in (n + 2)..(Len(d) + 1) : e[i] = d[i - 1]

\* Insert puts a parameter after those that it does not precede.
LEMMA InsertPlace ==
  ASSUME NEW P, Comparable(P), NEW d \in OrderedQueries(P), NEW x \in P
  PROVE  Insert(d, x) \in Seq(P) /\ \E n \in 0..Len(d) : Placed(d, x, Insert(d, x), n)
<1> DEFINE N == Len(d)
           J == {i \in 1..N : ~After(d[i], x)}
           n == Cardinality(J)
<1>1. N \in Nat /\ d \in Seq(P) /\ \A i \in 1..N : d[i] \in P
  BY LenProperties, ElementOfSeq DEF OrderedQueries
<1>2. \A i \in J, j \in 1..N : j <= i => j \in J
  <2> SUFFICES ASSUME NEW i \in J, NEW j \in 1..N, j <= i PROVE ~After(d[j], x)
    OBVIOUS
  <2>1. ~After(d[j], d[i])
    <3>1. CASE j = i
      BY <1>1, <3>1, AfterOrders
    <3>2. CASE j < i
      BY <3>2 DEF OrderedQueries, InOrder
    <3> QED BY <1>1, <3>1, <3>2
  <2> QED BY <1>1, <2>1, AfterOrders
<1>3. n \in 0..N /\ J = 1..n
  <2>1. J \subseteq 1..N
    OBVIOUS
  <2> HIDE DEF J, N
  <2> QED BY <1>1, <1>2, <2>1, InitialPositions, Zenon
<1>4. (\A i \in 1..n : ~After(d[i], x)) /\ (\A i \in (n + 1)..N : After(d[i], x))
  <2>1. \A i \in 1..N : i \in J <=> ~After(d[i], x)
    OBVIOUS
  <2> HIDE DEF J
  <2> QED BY <1>1, <1>3, <2>1
<1>5. Insert(d, x) = SubSeq(d, 1, n) \o <<x>> \o SubSeq(d, n + 1, N)
  BY DEF Insert
<1> HIDE DEF n, N, J
<1> DEFINE b == SubSeq(d, 1, n)
           e == SubSeq(d, n + 1, N)
<1>6. b \in Seq(P) /\ Len(b) = n /\ \A i \in 1..n : b[i] = d[i]
  <2>1. /\ \A i \in 1..n : d[i] \in P
        /\ n - 1 + 1 = n /\ (1 <= n \/ n = 0) /\ n \in Int
        /\ \A i \in 1..n : 1 + i - 1 = i
    BY <1>1, <1>3
  <2>2. /\ b \in Seq(P) /\ Len(b) = IF 1 <= n THEN n - 1 + 1 ELSE 0
        /\ \A i \in 1..n - 1 + 1 : b[i] = d[1 + i - 1]
    BY <2>1, SubSeqProperties
  <2> HIDE DEF b
  <2> QED BY <2>1, <2>2
<1>7. e \in Seq(P) /\ Len(e) = N - n /\ \A i \in 1..(N - n) : e[i] = d[n + i]
  <2>1. /\ \A i \in (n + 1)..N : d[i] \in P
        /\ N - (n + 1) + 1 = N - n /\ (n + 1 <= N \/ N = n) /\ n + 1 \in Int /\ N \in Int
        /\ \A i \in 1..(N - n) : n + 1 + i - 1 = n + i
    BY <1>1, <1>3
  <2>2. /\ e \in Seq(P) /\ Len(e) = IF n + 1 <= N THEN N - (n + 1) + 1 ELSE 0
        /\ \A i \in 1..N - (n + 1) + 1 : e[i] = d[n + 1 + i - 1]
    BY <2>1, SubSeqProperties
  <2> HIDE DEF e
  <2> QED BY <2>1, <2>2, <1>1, <1>3, SMTT(30)
<1> HIDE DEF b, e
<1> DEFINE f == b \o <<x>>
<1>8. f \in Seq(P) /\ Len(f) = n + 1 /\ (\A i \in 1..n : f[i] = d[i]) /\ f[n + 1] = x
  <2>1. f = Append(b, x)
    BY <1>6, AppendIsConcat
  <2> HIDE DEF f
  <2> QED BY <1>6, <2>1, AppendProperties
<1> HIDE DEF f
<1>9. /\ f \o e \in Seq(P) /\ Len(f \o e) = N + 1
      /\ \A i \in 1..(N + 1) : (f \o e)[i] = IF i <= n + 1 THEN f[i] ELSE e[i - (n + 1)]
  <2>1. /\ f \o e \in Seq(P) /\ Len(f \o e) = Len(f) + Len(e)
        /\ \A i \in 1..Len(f) + Len(e) : (f \o e)[i] = IF i <= Len(f) THEN f[i] ELSE e[i - Len(f)]
    BY <1>7, <1>8, ConcatProperties, Zenon
  <2>2. Len(f) + Len(e) = N + 1
    BY <1>1, <1>3, <1>7, <1>8
  <2> QED BY <2>1, <2>2, <1>8
<1>10. Insert(d, x) = f \o e
  BY <1>5 DEF f, b, e
<1>11. /\ \A i \in 1..n : (f \o e)[i] = d[i]
       /\ (f \o e)[n + 1] = x
       /\ \A i \in (n + 2)..(N + 1) : (f \o e)[i] = d[i - 1]
  <2>1. \A i \in 1..n : (f \o e)[i] = d[i]
    BY <1>1, <1>3, <1>8, <1>9
  <2>2. (f \o e)[n + 1] = x
    BY <1>1, <1>3, <1>8, <1>9
  <2>3. ASSUME NEW i \in (n + 2)..(N + 1) PROVE (f \o e)[i] = d[i - 1]
    <3>1. /\ i \in 1..(N + 1) /\ ~(i <= n + 1) /\ i - (n + 1) \in 1..(N - n)
          /\ n + (i - (n + 1)) = i - 1
      BY <1>1, <1>3
    <3> QED BY <1>7, <1>9, <3>1
  <2> QED BY <2>1, <2>2, <2>3, Zenon
<1>12. Placed(d, x, Insert(d, x), n)
  BY <1>4, <1>9, <1>10, <1>11, Zenon DEF Placed, N
<1> QED BY <1>3, <1>9, <1>10, <1>12 DEF N

\* A query in order stays in order when a parameter is inserted.
LEMMA InsertOrders ==
  ASSUME NEW P, Comparable(P), NEW d \in OrderedQueries(P), NEW x \in P
  PROVE  Insert(d, x) \in OrderedQueries(P)
<1> DEFINE N == Len(d)
           e == Insert(d, x)
<1>1. N \in Nat /\ (\A i \in 1..N : d[i] \in P) /\ \A i, j \in 1..N : i < j => ~After(d[i], d[j])
  BY LenProperties, ElementOfSeq DEF OrderedQueries, InOrder
<1>2. PICK n \in 0..N :
        /\ (\A i \in 1..n : ~After(d[i], x)) /\ (\A i \in (n + 1)..N : After(d[i], x))
        /\ e \in Seq(P) /\ Len(e) = N + 1
        /\ (\A i \in 1..n : e[i] = d[i]) /\ e[n + 1] = x
        /\ \A i \in (n + 2)..(N + 1) : e[i] = d[i - 1]
  <2>1. e \in Seq(P) /\ \E n \in 0..N : Placed(d, x, e, n)
    BY InsertPlace
  <2> HIDE DEF e
  <2> QED BY <2>1, Zenon DEF Placed
<1> HIDE DEF e, N
<1> SUFFICES ASSUME NEW i \in 1..(N + 1), NEW j \in 1..(N + 1), i < j
             PROVE  ~After(e[i], e[j])
  BY <1>2 DEF OrderedQueries, InOrder, e
<1>3. CASE j <= n
  BY <1>1, <1>2, <1>3
<1>4. CASE i <= n /\ j = n + 1
  BY <1>1, <1>2, <1>4
<1>5. CASE i <= n /\ j > n + 1
  <2>1. e[i] = d[i] /\ e[j] = d[j - 1] /\ i \in 1..N /\ j - 1 \in 1..N /\ i < j - 1
    BY <1>1, <1>2, <1>5
  <2> QED BY <1>1, <2>1
<1>6. CASE i = n + 1 /\ j > n + 1
  <2>1. e[i] = x /\ e[j] = d[j - 1] /\ j - 1 \in (n + 1)..N /\ d[j - 1] \in P
    BY <1>1, <1>2, <1>6
  <2> QED BY <1>2, <2>1, AfterOrders
<1>7. CASE i > n + 1
  <2>1. /\ e[i] = d[i - 1] /\ e[j] = d[j - 1] /\ i - 1 \in 1..N /\ j - 1 \in 1..N /\ i - 1 < j - 1
    BY <1>1, <1>2, <1>7
  <2> QED BY <1>1, <2>1
<1> QED BY <1>1, <1>2, <1>3, <1>4, <1>5, <1>6, <1>7

\* The place of a parameter is determined.
LEMMA PlaceUnique ==
  ASSUME NEW P, NEW d \in Seq(P), NEW x, NEW e \in Seq(P), NEW f \in Seq(P),
         NEW m \in 0..Len(d), NEW n \in 0..Len(d), Placed(d, x, e, m), Placed(d, x, f, n)
  PROVE  m = n /\ e = f
<1>1. Len(d) \in Nat
  BY LenProperties
<1>2. m = n
  <2>1. CASE m < n
    <3>1. m + 1 \in 1..n /\ m + 1 \in (m + 1)..Len(d)
      BY <1>1, <2>1
    <3> QED BY <3>1 DEF Placed
  <2>2. CASE n < m
    <3>1. n + 1 \in 1..m /\ n + 1 \in (n + 1)..Len(d)
      BY <1>1, <2>2
    <3> QED BY <3>1 DEF Placed
  <2> QED BY <1>1, <2>1, <2>2
<1>3. Len(e) = Len(d) + 1 /\ Len(f) = Len(d) + 1 /\ \A i \in 1..(Len(d) + 1) : e[i] = f[i]
  <2>1. ASSUME NEW i \in 1..(Len(d) + 1) PROVE e[i] = f[i]
    <3>1. CASE i \in 1..n
      BY <1>2, <3>1 DEF Placed
    <3>2. CASE i = n + 1
      BY <1>2, <3>2 DEF Placed
    <3>3. CASE i \in (n + 2)..(Len(d) + 1)
      BY <1>2, <3>3 DEF Placed
    <3> QED BY <1>1, <3>1, <3>2, <3>3
  <2> QED BY <2>1 DEF Placed
<1> QED BY <1>2, <1>3, SeqEqual

\* A parameter that precedes none is inserted at the end.
LEMMA InsertAfterAll ==
  ASSUME NEW P, Comparable(P), NEW d \in OrderedQueries(P), NEW x \in P,
         \A i \in 1..Len(d) : ~After(d[i], x)
  PROVE  Insert(d, x) = Append(d, x)
<1>1. d \in Seq(P) /\ Len(d) \in Nat
  BY LenProperties DEF OrderedQueries
<1>2. Append(d, x) \in Seq(P) /\ Placed(d, x, Append(d, x), Len(d))
  BY <1>1, AppendProperties DEF Placed
<1>3. Insert(d, x) \in Seq(P) /\ \E n \in 0..Len(d) : Placed(d, x, Insert(d, x), n)
  BY InsertPlace
<1>4. Len(d) \in 0..Len(d)
  BY <1>1
<1>5. PICK n \in 0..Len(d) : Placed(d, x, Insert(d, x), n)
  BY <1>3
<1> DEFINE e == Insert(d, x)
           f == Append(d, x)
<1> HIDE DEF e, f
<1>6. e = f
  <2>1. e \in Seq(P) /\ f \in Seq(P) /\ Placed(d, x, e, n) /\ Placed(d, x, f, Len(d))
    BY <1>2, <1>3, <1>5 DEF e, f
  <2> QED BY <1>1, <1>4, <2>1, PlaceUnique
<1> QED BY <1>6 DEF e, f

\* Two parameters that differ can be put in in either order.
LEMMA InsertCommutes ==
  ASSUME NEW P, Comparable(P), NEW d \in OrderedQueries(P), NEW x \in P, NEW y \in P, After(y, x)
  PROVE  Insert(Insert(d, x), y) = Insert(Insert(d, y), x)
<1> DEFINE N == Len(d)
           dx == Insert(d, x)
           dy == Insert(d, y)
           dxy == Insert(dx, y)
           dyx == Insert(dy, x)
<1>1. d \in Seq(P) /\ N \in Nat /\ \A i \in 1..N : d[i] \in P
  BY LenProperties, ElementOfSeq DEF OrderedQueries
<1>2. dx \in OrderedQueries(P) /\ dy \in OrderedQueries(P)
  BY InsertOrders
<1>3. dx \in Seq(P) /\ dy \in Seq(P) /\ Len(dx) = N + 1 /\ Len(dy) = N + 1
  BY InsertPlace DEF Placed
<1>4. PICK m \in 0..N : Placed(d, x, dx, m)
  BY InsertPlace
<1>5. PICK n \in 0..N : Placed(d, y, dy, n)
  BY InsertPlace
<1>6. dxy \in Seq(P) /\ Len(dxy) = N + 2 /\ dyx \in Seq(P) /\ Len(dyx) = N + 2
  <2> HIDE DEF dx, dy
  <2>1. /\ dxy \in Seq(P) /\ \E k \in 0..Len(dx) : Placed(dx, y, dxy, k)
        /\ dyx \in Seq(P) /\ \E k \in 0..Len(dy) : Placed(dy, x, dyx, k)
    BY <1>2, InsertPlace, Zenon
  <2>2. Len(dxy) = Len(dx) + 1 /\ Len(dyx) = Len(dy) + 1
    <3> HIDE DEF dxy, dyx
    <3> QED BY <2>1 DEF Placed
  <2>3. Len(dx) + 1 = N + 2 /\ Len(dy) + 1 = N + 2
    BY <1>1, <1>3
  <2> QED BY <2>1, <2>2, <2>3
<1>7. PICK k \in 0..(N + 1) : Placed(dx, y, dxy, k)
  <2> HIDE DEF dx, N
  <2> QED BY <1>2, <1>3, InsertPlace
<1>8. PICK l \in 0..(N + 1) : Placed(dy, x, dyx, l)
  <2> HIDE DEF dy, N
  <2> QED BY <1>2, <1>3, InsertPlace
<1> HIDE DEF N, dx, dy, dxy, dyx
<1>9. m <= n
  <2> SUFFICES ASSUME n < m PROVE FALSE
    BY <1>1
  <2>1. n + 1 \in 1..m /\ n + 1 \in (n + 1)..N /\ d[n + 1] \in P
    BY <1>1
  <2>2. ~After(d[n + 1], x) /\ After(d[n + 1], y)
    BY <1>4, <1>5, <2>1 DEF Placed, N
  <2> QED BY <2>1, <2>2 DEF After, Comparable
<1>10. k = n + 1
  <2>1. CASE k < n + 1
    <3>1. k + 1 \in (k + 1)..(N + 1) /\ k + 1 \in 1..(n + 1)
      BY <1>1, <2>1
    <3>2. After(dx[k + 1], y)
      BY <1>3, <1>7, <3>1 DEF Placed
    <3>3. CASE k + 1 <= m
      <4>1. dx[k + 1] = d[k + 1] /\ k + 1 \in 1..n
        BY <1>1, <1>4, <1>9, <3>3, <3>1 DEF Placed
      <4> QED BY <1>5, <3>2, <4>1 DEF Placed
    <3>4. CASE k + 1 = m + 1
      <4>1. dx[k + 1] = x
        BY <1>4, <3>4 DEF Placed
      <4> QED BY <3>2, <4>1, AfterOrders
    <3>5. CASE k + 1 > m + 1
      <4>1. dx[k + 1] = d[k] /\ k \in 1..n
        BY <1>1, <1>4, <3>1, <3>5 DEF Placed, N
      <4> QED BY <1>5, <3>2, <4>1 DEF Placed
    <3> QED BY <1>1, <3>3, <3>4, <3>5
  <2>2. CASE k > n + 1
    <3>1. n + 2 \in 1..k /\ n + 2 \in (m + 2)..(N + 1) /\ n + 1 \in (n + 1)..N
      BY <1>1, <1>9, <2>2
    <3>2. dx[n + 2] = d[n + 1]
      BY <1>4, <3>1 DEF Placed, N
    <3>3. ~After(d[n + 1], y) /\ After(d[n + 1], y)
      BY <1>5, <1>7, <3>1, <3>2 DEF Placed, N
    <3> QED BY <3>3
  <2> QED BY <1>1, <2>1, <2>2
<1>11. l = m
  <2>1. CASE l < m
    <3>1. l + 1 \in (l + 1)..(N + 1) /\ l + 1 \in 1..m /\ l + 1 \in 1..n
      BY <1>1, <1>9, <2>1
    <3>2. After(dy[l + 1], x) /\ dy[l + 1] = d[l + 1] /\ ~After(d[l + 1], x)
      BY <1>3, <1>4, <1>5, <1>8, <3>1 DEF Placed
    <3> QED BY <3>2
  <2>2. CASE l > m
    <3>1. m + 1 \in 1..l /\ ~After(dy[m + 1], x)
      BY <1>1, <1>8, <2>2 DEF Placed
    <3>2. CASE m = n
      <4>1. dy[m + 1] = y
        BY <1>5, <3>2 DEF Placed
      <4> QED BY <3>1, <4>1
    <3>3. CASE m < n
      <4>1. m + 1 \in 1..n /\ m + 1 \in (m + 1)..N
        BY <1>1, <3>3
      <4>2. dy[m + 1] = d[m + 1] /\ After(d[m + 1], x)
        BY <1>4, <1>5, <4>1 DEF Placed, N
      <4> QED BY <3>1, <4>2
    <3> QED BY <1>1, <1>9, <3>2, <3>3
  <2> QED BY <1>1, <2>1, <2>2
<1>12. ASSUME NEW i \in 1..(N + 2) PROVE dxy[i] = dyx[i]
  <2>1. CASE i <= m
    <3>1. i \in 1..m /\ i \in 1..n /\ i \in 1..k /\ i \in 1..l
      BY <1>1, <1>9, <1>10, <1>11, <2>1
    <3> QED BY <1>4, <1>5, <1>7, <1>8, <3>1 DEF Placed
  <2>2. CASE i = m + 1
    <3>1. i \in 1..k /\ i = l + 1
      BY <1>1, <1>9, <1>10, <1>11, <2>2
    <3> QED BY <1>4, <1>7, <1>8, <2>2, <3>1, Zenon DEF Placed
  <2>3. CASE i > m + 1 /\ i <= n + 1
    <3>1. i \in (m + 2)..(N + 1) /\ i \in 1..k /\ i \in (l + 2)..(N + 2) /\ i - 1 \in 1..n
      BY <1>1, <1>9, <1>10, <1>11, <2>3
    <3>2. dxy[i] = dx[i] /\ dx[i] = d[i - 1]
      BY <1>4, <1>7, <3>1 DEF Placed, N
    <3>3. dyx[i] = dy[i - 1] /\ dy[i - 1] = d[i - 1]
      <4>1. Len(dy) + 1 = N + 2
        BY <1>1, <1>3
      <4> QED BY <1>5, <1>8, <3>1, <4>1 DEF Placed
    <3> QED BY <3>2, <3>3
  <2>4. CASE i = n + 2
    <3>1. i = k + 1 /\ i \in (l + 2)..(N + 2) /\ i - 1 = n + 1
      BY <1>1, <1>9, <1>10, <1>11, <2>4
    <3>2. Len(dy) + 1 = N + 2
      BY <1>1, <1>3
    <3> QED BY <1>5, <1>7, <1>8, <3>1, <3>2 DEF Placed
  <2>5. CASE i > n + 2
    <3>1. /\ i \in (k + 2)..(N + 2) /\ i \in (l + 2)..(N + 2)
          /\ i - 1 \in (m + 2)..(N + 1) /\ i - 1 \in (n + 2)..(N + 1)
      BY <1>1, <1>9, <1>10, <1>11, <2>5
    <3>2. Len(dx) + 1 = N + 2 /\ Len(dy) + 1 = N + 2
      BY <1>1, <1>3
    <3>3. dxy[i] = dx[i - 1] /\ dyx[i] = dy[i - 1]
      BY <1>7, <1>8, <3>1, <3>2 DEF Placed
    <3>4. dx[i - 1] = d[i - 1 - 1] /\ dy[i - 1] = d[i - 1 - 1]
      BY <1>4, <1>5, <3>1, Zenon DEF Placed, N
    <3> QED BY <3>3, <3>4
  <2> QED BY <1>1, <1>9, <2>1, <2>2, <2>3, <2>4, <2>5
<1> QED BY <1>6, <1>12, SeqEqual DEF dxy, dyx, dx, dy

\* The sorted query, one parameter at a time.
LEMMA SortedFacts ==
  ASSUME NEW P, Comparable(P), NEW q \in Seq(P)
  PROVE  /\ Sorted(q) \in OrderedQueries(P)
         /\ Sorted(<<>>) = <<>>
         /\ \A x \in P : Sorted(Append(q, x)) = Insert(Sorted(q), x)
         /\ \A r, t \in Seq(P) : Sorted(q) = Sorted(r) => Sorted(q \o t) = Sorted(r \o t)
<1> DEFINE A == OrderedQueries(P)
           a == <<>>
<1>1. a \in A /\ I!Closed(0, A, P)
  <2>1. a \in A
    BY EmptySeq DEF OrderedQueries, InOrder
  <2>2. \A v \in A, x \in P : Insert(v, x) \in A
    BY InsertOrders
  <2> QED BY <2>1, <2>2 DEF I!Closed, InsertStep
<1> HIDE DEF A, a
<1>2. /\ I!Fold(0, a, q) \in A
      /\ I!Fold(0, a, <<>>) = a
  BY <1>1, I!FoldType, I!FoldEmpty
<1>3. ASSUME NEW x \in P PROVE I!Fold(0, a, Append(q, x)) = Insert(I!Fold(0, a, q), x)
  <2>1. I!Fold(0, a, Append(q, x)) = InsertStep(0, I!Fold(0, a, q), x)
    BY <1>1, I!FoldAppend
  <2> QED BY <2>1 DEF InsertStep
<1>4. ASSUME NEW r \in Seq(P), NEW t \in Seq(P), I!Fold(0, a, q) = I!Fold(0, a, r)
      PROVE  I!Fold(0, a, q \o t) = I!Fold(0, a, r \o t)
  BY <1>1, <1>4, I!FoldConcat
<1> QED BY <1>2, <1>3, <1>4, SortedIsFold DEF A, a

\* What is in order stays as it is.
LEMMA SortedOfOrdered ==
  ASSUME NEW P, Comparable(P), NEW d \in OrderedQueries(P)
  PROVE  Sorted(d) = d
<1> DEFINE T == {s \in Seq(P) : InOrder(s) => Sorted(s) = s}
<1>1. <<>> \in T
  BY EmptySeq, SortedFacts, Zenon
<1>2. ASSUME NEW s \in Seq(P), NEW x \in P, s \in T PROVE Append(s, x) \in T
  <2>1. /\ Append(s, x) \in Seq(P) /\ Len(s) \in Nat /\ Len(Append(s, x)) = Len(s) + 1
        /\ (\A i \in 1..Len(s) : Append(s, x)[i] = s[i]) /\ Append(s, x)[Len(s) + 1] = x
    BY LenProperties, AppendProperties
  <2>2. ASSUME InOrder(Append(s, x)) PROVE Sorted(Append(s, x)) = Append(s, x)
    <3> DEFINE u == Append(s, x)
    <3> HIDE DEF u
    <3>1. \A i, j \in 1..(Len(s) + 1) : i < j => ~After(u[i], u[j])
      BY <2>1, <2>2 DEF InOrder, u
    <3>2. InOrder(s)
      <4> SUFFICES ASSUME NEW i \in 1..Len(s), NEW j \in 1..Len(s), i < j
                   PROVE  ~After(s[i], s[j])
        BY DEF InOrder
      <4>1. i \in 1..(Len(s) + 1) /\ j \in 1..(Len(s) + 1) /\ u[i] = s[i] /\ u[j] = s[j]
        BY <2>1 DEF u
      <4> QED BY <3>1, <4>1
    <3>3. ASSUME NEW i \in 1..Len(s) PROVE ~After(s[i], x)
      <4>1. /\ i \in 1..(Len(s) + 1) /\ Len(s) + 1 \in 1..(Len(s) + 1) /\ i < Len(s) + 1
            /\ u[i] = s[i] /\ u[Len(s) + 1] = x
        BY <2>1 DEF u
      <4> QED BY <3>1, <4>1
    <3>4. Sorted(s) = s /\ s \in OrderedQueries(P)
      BY <1>2, <3>2 DEF OrderedQueries
    <3>5. Sorted(Append(s, x)) = Insert(s, x)
      BY <3>4, SortedFacts
    <3> QED BY <3>3, <3>4, <3>5, InsertAfterAll
  <2> QED BY <2>1, <2>2
<1>3. d \in T
  <2>1. d \in Seq(P)
    BY DEF OrderedQueries
  <2> HIDE DEF T
  <2> QED BY <1>1, <1>2, <2>1, F!SequenceInduction
<1> QED BY <1>3 DEF OrderedQueries

\* Neighbours that differ may change places.
LEMMA SortedSwap ==
  ASSUME NEW P, Comparable(P), NEW q \in Seq(P), NEW x \in P, NEW y \in P, NEW t \in Seq(P),
         After(x, y) \/ After(y, x)
  PROVE  Sorted(Append(Append(q, x), y) \o t) = Sorted(Append(Append(q, y), x) \o t)
<1>1. /\ Append(q, x) \in Seq(P) /\ Append(q, y) \in Seq(P)
      /\ Append(Append(q, x), y) \in Seq(P) /\ Append(Append(q, y), x) \in Seq(P)
  BY AppendProperties
<1> DEFINE d == Sorted(q)
<1>2. d \in OrderedQueries(P) /\ Sorted(Append(q, x)) = Insert(d, x) /\ Sorted(Append(q, y)) = Insert(d, y)
  BY SortedFacts
<1>3. /\ Sorted(Append(Append(q, x), y)) = Insert(Insert(d, x), y)
      /\ Sorted(Append(Append(q, y), x)) = Insert(Insert(d, y), x)
  BY <1>1, <1>2, SortedFacts, Zenon
<1>4. Insert(Insert(d, x), y) = Insert(Insert(d, y), x)
  <2> HIDE DEF d
  <2> QED BY <1>2, InsertCommutes
<1>5. Sorted(Append(Append(q, x), y)) = Sorted(Append(Append(q, y), x))
  BY <1>3, <1>4
<1> QED BY <1>1, <1>5, SortedFacts, Zenon

\* The parameters that stay.
Left(P, drop) == {p \in P : p.key \notin drop}

\* The parameters that are kept stay free of the dropped ones.
LEMMA KeepCloses ==
  ASSUME NEW P, NEW drop
  PROVE  <<>> \in Seq(Left(P, drop)) /\ K!Closed(drop, Seq(Left(P, drop)), P)
<1> DEFINE A == Seq(Left(P, drop))
<1>1. <<>> \in A
  BY EmptySeq
<1>2. ASSUME NEW v \in A, NEW x \in P, x.key \notin drop PROVE Append(v, x) \in A
  <2>1. x \in Left(P, drop)
    BY <1>2 DEF Left
  <2> QED BY <2>1, AppendProperties
<1> HIDE DEF A
<1>3. K!Closed(drop, A, P)
  BY <1>1, <1>2 DEF K!Closed, KeepStep
<1> QED BY <1>1, <1>3 DEF A

\* The kept parameters of a query, one at a time, and of two queries in a row.
LEMMA KeptFacts ==
  ASSUME NEW P, NEW drop, NEW q \in Seq(P)
  PROVE  Kept(q, drop) \in Seq(Left(P, drop)) /\ Kept(<<>>, drop) = <<>>
<1> DEFINE A == Seq(Left(P, drop))
           a == <<>>
<1>1. a \in A /\ K!Closed(drop, A, P)
  BY KeepCloses
<1> HIDE DEF A, a
<1>2. K!Fold(drop, a, q) \in A /\ K!Fold(drop, a, <<>>) = a
  BY <1>1, K!FoldType, K!FoldEmpty
<1> QED BY <1>2, KeptIsFold DEF A, a

LEMMA KeptOfAppend ==
  ASSUME NEW P, NEW drop, NEW q \in Seq(P), NEW x \in P
  PROVE  Kept(Append(q, x), drop) = IF x.key \in drop THEN Kept(q, drop) ELSE Append(Kept(q, drop), x)
<1> DEFINE A == Seq(Left(P, drop))
           a == <<>>
<1>1. a \in A /\ K!Closed(drop, A, P)
  BY KeepCloses
<1> HIDE DEF A, a
<1>2. K!Fold(drop, a, Append(q, x)) = KeepStep(drop, K!Fold(drop, a, q), x)
  BY <1>1, K!FoldAppend
<1> QED BY <1>2, KeptIsFold DEF a, KeepStep

LEMMA KeptOfConcat ==
  ASSUME NEW P, NEW drop, NEW q \in Seq(P), NEW t \in Seq(P)
  PROVE  Kept(q \o t, drop) = Kept(q, drop) \o Kept(t, drop)
<1> DEFINE T == {s \in Seq(P) : Kept(q \o s, drop) = Kept(q, drop) \o Kept(s, drop)}
<1>1. <<>> \in T
  <2> DEFINE k == Kept(q, drop)
  <2>1. k \in Seq(Left(P, drop)) /\ Kept(<<>>, drop) = <<>> /\ <<>> \in Seq(P) /\ q \o <<>> = q
    BY EmptySeq, KeptFacts, ConcatEmptySeq
  <2>2. k \o <<>> = k
    <3> HIDE DEF k
    <3> QED BY <2>1, ConcatEmptySeq
  <2> QED BY <2>1, <2>2
<1>2. ASSUME NEW s \in Seq(P), NEW x \in P, s \in T PROVE Append(s, x) \in T
  <2>1. Append(s, x) \in Seq(P) /\ q \o s \in Seq(P) /\ q \o Append(s, x) = Append(q \o s, x)
    BY AppendProperties, ConcatProperties, F!AppendToConcat
  <2> DEFINE k == Kept(q, drop)
             l == Kept(s, drop)
             m == q \o s
  <2>2. k \in Seq(Left(P, drop)) /\ l \in Seq(Left(P, drop)) /\ Kept(m, drop) = k \o l
    <3>1. Kept(q, drop) \in Seq(Left(P, drop)) /\ Kept(s, drop) \in Seq(Left(P, drop))
      BY KeptFacts
    <3> QED BY <1>2, <3>1
  <2>3. Kept(Append(s, x), drop) = IF x.key \in drop THEN l ELSE Append(l, x)
    <3> HIDE DEF T
    <3> QED BY KeptOfAppend
  <2> HIDE DEF m
  <2>4. Kept(Append(m, x), drop) = IF x.key \in drop THEN Kept(m, drop) ELSE Append(Kept(m, drop), x)
    <3> HIDE DEF T
    <3>1. m \in Seq(P)
      BY <2>1 DEF m
    <3> QED BY <3>1, KeptOfAppend
  <2> HIDE DEF k, l
  <2>5. ASSUME x.key \notin drop PROVE k \o Append(l, x) = Append(k \o l, x)
    <3>1. x \in Left(P, drop)
      BY <2>5 DEF Left
    <3> QED BY <2>2, <3>1, F!AppendToConcat
  <2>6. Kept(q \o Append(s, x), drop) = k \o Kept(Append(s, x), drop)
    BY <2>1, <2>2, <2>3, <2>4, <2>5, Zenon DEF m
  <2> QED BY <2>1, <2>6, Zenon DEF k
<1>3. t \in T
  <2> HIDE DEF T
  <2> QED BY <1>1, <1>2, F!SequenceInduction
<1> QED BY <1>3

\* Where nothing is to be dropped everything is kept.
LEMMA KeptOfLeft ==
  ASSUME NEW P, NEW drop, NEW d \in Seq(Left(P, drop))
  PROVE  Kept(d, drop) = d
<1> DEFINE T == {s \in Seq(Left(P, drop)) : Kept(s, drop) = s}
<1>1. <<>> \in T
  BY EmptySeq, KeptFacts, Zenon
<1>2. ASSUME NEW s \in Seq(Left(P, drop)), NEW x \in Left(P, drop), s \in T
      PROVE  Append(s, x) \in T
  <2>1. s \in Seq(P) /\ x \in P /\ x.key \notin drop
    <3>1. Left(P, drop) \subseteq P
      BY DEF Left
    <3>2. s \in Seq(P)
      BY <3>1, SeqMonotonic
    <3> QED BY <3>2 DEF Left
  <2>2. Kept(Append(s, x), drop) = Append(s, x)
    BY <1>2, <2>1, KeptOfAppend
  <2> QED BY <2>2, AppendProperties
<1>3. d \in T
  <2> HIDE DEF T
  <2> QED BY <1>1, <1>2, F!SequenceInduction
<1> QED BY <1>3

(***************************************************************************)
(* URLs                                                                    *)
(***************************************************************************)
Parameters == [key : Int, upper : BOOLEAN, value : Int]

\* The URLs of these hosts whose paths have these segments.
Urls(hosts, S) ==
  [scheme : {"http", "https"}, host : hosts, form : HostForms, port : Nat, path : Seq(S),
   query : Seq(Parameters), fragment : BOOLEAN]

\* The segments that a respelling may add.
Added == {Empty, Dot, DotDot, Word("z")}

\* Words are segments of one character class, so a word is none of "", "." and "..".
LEMMA OneWord ==
  ASSUME NEW w
  PROVE  Len(Word(w)) = 1 /\ Word(w)[1] = w
BY DEF Word

LEMMA WordIsPlain == Word("z") \in Plain(Added)
<1>1. Dot = Word(".") /\ DotDot = Word("..")
  BY DEF Dot, DotDot, Word
<1>2. "." # "z" /\ ".." # "z"
  OBVIOUS
<1>3. Word("z") # Dot /\ Word("z") # DotDot
  BY <1>1, <1>2, OneWord
<1>4. Word("z") # Empty
  BY OneWord DEF Empty
<1> QED BY <1>3, <1>4 DEF Plain, Added

\* Parameters can be compared.
LEMMA ParameterTypes == Comparable(Parameters)
BY DEF Comparable, Parameters

\* A canonical URL differs from its own canonical form in nothing but its parts.
LEMMA SameParts ==
  ASSUME NEW A, NEW B, NEW C, NEW D, NEW E,
         NEW c \in [scheme : A, host : B, form : {"plain"}, port : C, path : D, query : E,
                    fragment : BOOLEAN],
         c.fragment = FALSE
  PROVE  c = [c EXCEPT !.form = "plain", !.port = c.port, !.path = c.path, !.query = c.query,
                       !.fragment = FALSE]
BY Zenon

\* The canonical form of a canonical URL is itself, unless only slashes are left of its
\* path; that of an IPv6 literal, and of no other host, is refused.
THEOREM CanonicalOfCanonical ==
  ASSUME NEW hosts, NEW S, NEW u \in Urls(hosts, S), ~NotCanonical(u)
  PROVE  Settles(u)
<1> DEFINE c == Fingerprint(u)
           f == CanonicalForm(u)
           k == Kept(u.query, Tracking)
<1>1. /\ u.path \in Seq(S) /\ u.query \in Seq(Parameters) /\ u.port \in Nat
  BY DEF Urls
<1>2. /\ c = [u EXCEPT !.form = f, !.port = CanonicalPort(u), !.path = CanonicalPath(u.path),
                      !.query = Sorted(k), !.fragment = FALSE]
  BY DEF Fingerprint, Canonical
<1>3. Left(Parameters, Tracking) \subseteq Parameters /\ Comparable(Left(Parameters, Tracking))
  BY ParameterTypes DEF Left, Comparable
<1>4. k \in Seq(Left(Parameters, Tracking))
  BY <1>1, KeptFacts
<1> HIDE DEF k, f
<1>5. Sorted(k) \in OrderedQueries(Left(Parameters, Tracking))
  BY <1>3, <1>4, SortedFacts
<1>6. Kept(Sorted(k), Tracking) = Sorted(k)
  BY <1>5, KeptOfLeft DEF OrderedQueries
<1>7. Sorted(Sorted(k)) = Sorted(k)
  BY <1>3, <1>5, SortedOfOrdered
<1>8. /\ c.scheme = u.scheme /\ c.host = u.host /\ c.form = f /\ c.port = CanonicalPort(u)
      /\ c.path = CanonicalPath(u.path) /\ c.query = Sorted(k) /\ c.fragment = FALSE
  BY <1>2 DEF Urls
<1>9. CanonicalPort(c) = c.port
  BY <1>8 DEF CanonicalPort, DefaultPort
<1>10. OnlySlashes(c.path) \/ CanonicalPath(c.path) = c.path
  <2> HIDE DEF c
  <2>1. u.path \in Seq(S \cup Added)
    BY <1>1, SeqMonotonic, S \subseteq S \cup Added
  <2> QED BY <1>8, <2>1, PathSettles DEF Added
<1>11. c \in [scheme : {u.scheme}, host : {u.host}, form : {f}, port : {CanonicalPort(u)},
              path : {CanonicalPath(u.path)}, query : {Sorted(k)}, fragment : BOOLEAN]
  BY <1>2, Zenon DEF Urls
<1>12. NotCanonical(c) <=> u.form = "brackets"
  <2> HIDE DEF c
  <2>1. CanonicalPort(u) \in Nat /\ ~(CanonicalPort(u) > MaxPort)
    <3>1. ~(u.port > MaxPort)
      BY DEF NotCanonical
    <3> QED BY <1>1, <3>1 DEF CanonicalPort, MaxPort
  <2>2. f \in {"bare", "plain"} /\ (f = "bare" <=> u.form = "brackets")
    BY DEF f, CanonicalForm
  <2> QED BY <1>8, <2>1, <2>2 DEF NotCanonical
<1> HIDE DEF c
<1>13. CASE u.form # "brackets"
  <2>1. f = "plain"
    BY <1>13 DEF f, CanonicalForm
  <2>2. CanonicalForm(c) = "plain"
    BY <1>8, <2>1 DEF CanonicalForm
  <2>3. Fingerprint(c) =
          [c EXCEPT !.form = "plain", !.port = c.port, !.path = CanonicalPath(c.path),
                    !.query = c.query, !.fragment = FALSE]
    BY <1>6, <1>7, <1>8, <1>9, <2>2 DEF Fingerprint, Canonical
  <2>4. c = [c EXCEPT !.form = "plain", !.port = c.port, !.path = c.path, !.query = c.query,
                      !.fragment = FALSE]
    BY <1>8, <1>11, <2>1, SameParts, Zenon
  <2>5. CanonicalPath(c.path) = c.path => Fingerprint(c) = c
    BY <2>3, <2>4
  <2> QED BY <1>10, <1>12, <2>5 DEF Settles, c
<1>14. CASE u.form = "brackets"
  BY <1>12, <1>14 DEF Settles, c
<1> QED BY <1>13, <1>14

(***************************************************************************)
(* Respellings                                                             *)
(***************************************************************************)

\* a is the first n elements of q, and b the others.
IsSplit(q, n, a, b) == q = a \o b /\ Len(a) = n /\ Len(b) = Len(q) - n

\* A sequence is made of its first n elements and the rest.
LEMMA SplitAt ==
  ASSUME NEW P, NEW q \in Seq(P), NEW n \in 0..Len(q)
  PROVE  \E a, b \in Seq(P) : IsSplit(q, n, a, b)
<1> DEFINE a == SubSeq(q, 1, n)
           b == SubSeq(q, n + 1, Len(q))
<1>1. Len(q) \in Nat /\ n \in Nat /\ n <= Len(q)
  BY LenProperties
<1>2. a \in Seq(P) /\ Len(a) = n
  <2>1. \A i \in 1..n : q[i] \in P
    BY <1>1, ElementOfSeq
  <2> QED BY <1>1, <2>1, SubSeqProperties
<1>3. b \in Seq(P) /\ Len(b) = Len(q) - n
  <2>1. \A i \in (n + 1)..Len(q) : q[i] \in P
    BY <1>1, ElementOfSeq
  <2> QED BY <1>1, <2>1, SubSeqProperties
<1>4. a \o b = q
  <2>1. 1 \in 1..Len(q) + 1 /\ n \in 1 - 1..Len(q) /\ Len(q) \in n..Len(q)
    BY <1>1
  <2>2. SubSeq(q, 1, n) \o SubSeq(q, n + 1, Len(q)) = SubSeq(q, 1, Len(q))
    BY <2>1, ConcatAdjacentSubSeq, Zenon
  <2> QED BY <2>2, SubSeqFull, Zenon
<1> HIDE DEF a, b
<1> QED BY <1>2, <1>3, <1>4, Zenon DEF IsSplit

\* The two parts of a concatenation.
LEMMA PartsOfConcat ==
  ASSUME NEW P, NEW a \in Seq(P), NEW b \in Seq(P)
  PROVE  /\ SubSeq(a \o b, 1, Len(a)) = a
         /\ SubSeq(a \o b, Len(a) + 1, Len(a \o b)) = b
<1> DEFINE q == a \o b
           l == SubSeq(q, 1, Len(a))
           r == SubSeq(q, Len(a) + 1, Len(q))
<1>1. /\ Len(a) \in Nat /\ Len(b) \in Nat /\ q \in Seq(P) /\ Len(q) = Len(a) + Len(b)
      /\ \A i \in 1..Len(a) + Len(b) : q[i] = IF i <= Len(a) THEN a[i] ELSE b[i - Len(a)]
  BY LenProperties, ConcatProperties
<1> HIDE DEF q
<1>2. \A i \in 1..Len(q) : q[i] \in P
  BY <1>1, ElementOfSeq
<1>3. l \in Seq(P) /\ Len(l) = Len(a) /\ \A i \in 1..Len(a) : l[i] = q[i]
  <2> DEFINE n == Len(a)
  <2>1. n \in Nat /\ \A i \in 1..n : q[i] \in P
    BY <1>1, <1>2
  <2> HIDE DEF n
  <2>2. /\ SubSeq(q, 1, n) \in Seq(P) /\ Len(SubSeq(q, 1, n)) = IF 1 <= n THEN n - 1 + 1 ELSE 0
        /\ \A i \in 1..n - 1 + 1 : SubSeq(q, 1, n)[i] = q[1 + i - 1]
    BY <2>1, SubSeqProperties
  <2> HIDE DEF l
  <2>3. l = SubSeq(q, 1, n)
    BY DEF l, n
  <2>4. \A i \in 1..n : l[i] = q[i]
    BY <2>1, <2>2, <2>3
  <2> QED BY <2>1, <2>2, <2>3, <2>4 DEF n
<1>4. l = a
  <2> HIDE DEF l
  <2> QED BY <1>1, <1>3, SeqEqual
<1>5. r \in Seq(P) /\ Len(r) = Len(b) /\ \A i \in 1..Len(b) : r[i] = q[Len(a) + i]
  <2> DEFINE m == Len(a) + 1
             n == Len(q)
  <2>1. m \in Nat /\ n \in Nat /\ n + 1 - m = Len(b) /\ \A i \in m..n : q[i] \in P
    BY <1>1, <1>2
  <2>2. \A i \in 1..n - m + 1 : m + i - 1 = Len(a) + i
    BY <1>1, <2>1
  <2> HIDE DEF m, n
  <2>3. /\ SubSeq(q, m, n) \in Seq(P) /\ Len(SubSeq(q, m, n)) = IF m <= n THEN n - m + 1 ELSE 0
        /\ \A i \in 1..n - m + 1 : SubSeq(q, m, n)[i] = q[m + i - 1]
    BY <2>1, SubSeqProperties
  <2> HIDE DEF r
  <2>4. r = SubSeq(q, m, n)
    BY DEF r, m, n
  <2>5. n - m + 1 = Len(b) /\ Len(r) = Len(b)
    BY <1>1, <2>1, <2>3, <2>4
  <2>6. \A i \in 1..Len(b) : r[i] = q[Len(a) + i]
    BY <2>2, <2>3, <2>4, <2>5, Zenon
  <2> QED BY <2>3, <2>4, <2>5, <2>6, Zenon
<1>6. r = b
  <2> HIDE DEF r
  <2>1. ASSUME NEW i \in 1..Len(b) PROVE q[Len(a) + i] = b[i]
    <3>1. Len(a) + i \in 1..Len(a) + Len(b) /\ ~(Len(a) + i <= Len(a)) /\ Len(a) + i - Len(a) = i
      BY <1>1
    <3> QED BY <1>1, <3>1
  <2> QED BY <1>1, <1>5, <2>1, SeqEqual
<1> QED BY <1>4, <1>6 DEF q

\* Inserting between two parts.
LEMMA InsertAtConcat ==
  ASSUME NEW P, NEW a \in Seq(P), NEW b \in Seq(P), NEW e \in P, NEW i, i = Len(a) + 1
  PROVE  InsertAt(a \o b, i, e) = Append(a, e) \o b
<1>1. Len(a) \in Nat /\ i - 1 = Len(a)
  BY LenProperties
<1>2. InsertAt(a \o b, i, e) = (a \o <<e>>) \o b
  BY <1>1, PartsOfConcat, Zenon DEF InsertAt
<1> QED BY <1>2, AppendIsConcat

\* Paths: ".", "z/.." or a second slash, not at the end.
LEMMA DotDropped ==
  ASSUME NEW S, NEW a \in Seq(S), NEW x \in S \cap {Empty, Dot}
  PROVE  Names(Append(a, x)) = Names(a)
<1>1. Names(Append(a, x)) = Follow(Names(a), x)
  BY NamesFacts, Zenon
<1> QED BY <1>1, FollowCases

\* A name and the ".." after it leave the names before them.
LEMMA WordDropped ==
  ASSUME NEW S, NEW a \in Seq(S), NEW z \in Plain(S), DotDot \in S
  PROVE  Names(Append(Append(a, z), DotDot)) = Names(a)
<1> DEFINE n == Names(a)
<1>1. z \in S /\ z \notin {Empty, Dot, DotDot}
  BY DEF Plain
<1>2. Append(a, z) \in Seq(S)
  BY <1>1, AppendProperties
<1>3. n \in Seq(Plain(S)) /\ Names(Append(a, z)) = Follow(n, z)
  BY <1>1, NamesFacts
<1>4. Names(Append(Append(a, z), DotDot)) = Follow(Names(Append(a, z)), DotDot)
  BY <1>2, NamesFacts, Zenon
<1> HIDE DEF n
<1>5. Names(Append(a, z)) = Append(n, z)
  BY <1>1, <1>3, FollowCases
<1>6. Append(n, z) # <<>> /\ Front(Append(n, z)) = n
  BY <1>1, <1>3, AppendProperties, F!FrontAndLast DEF Front, F!Front, Plain
<1>7. Follow(Append(n, z), DotDot) = n
  BY <1>6, FollowCases, Zenon
<1> QED BY <1>4, <1>5, <1>7 DEF n

\* A tracking parameter is dropped wherever it stands.
LEMMA TrackedDropped ==
  ASSUME NEW P, NEW drop, NEW a \in Seq(P), NEW b \in Seq(P), NEW t \in P, t.key \in drop
  PROVE  Kept(Append(a, t) \o b, drop) = Kept(a \o b, drop)
<1>1. Append(a, t) \in Seq(P) /\ Kept(Append(a, t), drop) = Kept(a, drop)
  BY AppendProperties, KeptOfAppend
<1>2. /\ Kept(a \o b, drop) = Kept(a, drop) \o Kept(b, drop)
      /\ Kept(Append(a, t) \o b, drop) = Kept(Append(a, t), drop) \o Kept(b, drop)
  BY <1>1, KeptOfConcat, Zenon
<1> QED BY <1>1, <1>2

\* Two parameters that differ may change places before the query is sorted.
LEMMA SwapSorted ==
  ASSUME NEW P, Comparable(P), NEW drop, NEW a \in Seq(P), NEW b \in Seq(P), NEW x \in P, NEW y \in P,
         x.key # y.key \/ x.value # y.value
  PROVE  Sorted(Kept(Append(Append(a, x), y) \o b, drop)) = Sorted(Kept(Append(Append(a, y), x) \o b, drop))
<1> DEFINE k == Kept(a, drop)
           l == Kept(b, drop)
           kept(d, e) == IF e.key \in drop THEN d ELSE Append(d, e)
<1>1. /\ Append(a, x) \in Seq(P) /\ Append(a, y) \in Seq(P)
      /\ Append(Append(a, x), y) \in Seq(P) /\ Append(Append(a, y), x) \in Seq(P)
  BY AppendProperties
<1>2. k \in Seq(Left(P, drop)) /\ l \in Seq(Left(P, drop))
  BY KeptFacts
<1>3. Kept(Append(a, x), drop) = kept(k, x) /\ Kept(Append(a, y), drop) = kept(k, y)
  BY KeptOfAppend
<1>4. /\ Kept(Append(Append(a, x), y), drop) = kept(kept(k, x), y)
      /\ Kept(Append(Append(a, y), x), drop) = kept(kept(k, y), x)
  <2>1. ASSUME NEW c \in Seq(P), NEW z \in P
        PROVE  Kept(Append(c, z), drop) = kept(Kept(c, drop), z)
    BY KeptOfAppend
  <2> HIDE DEF kept
  <2> QED BY <1>1, <1>3, <2>1, Zenon
<1>5. /\ Kept(Append(Append(a, x), y) \o b, drop) = kept(kept(k, x), y) \o l
      /\ Kept(Append(Append(a, y), x) \o b, drop) = kept(kept(k, y), x) \o l
  <2>1. Kept(Append(Append(a, x), y) \o b, drop) = Kept(Append(Append(a, x), y), drop) \o l
    BY <1>1, KeptOfConcat, Zenon
  <2>2. Kept(Append(Append(a, y), x) \o b, drop) = Kept(Append(Append(a, y), x), drop) \o l
    BY <1>1, KeptOfConcat, Zenon
  <2> HIDE DEF kept, k, l
  <2> QED BY <1>4, <2>1, <2>2
<1> HIDE DEF k, l
<1>6. CASE x.key \in drop \/ y.key \in drop
  BY <1>5, <1>6
<1>7. CASE x.key \notin drop /\ y.key \notin drop
  <2>1. x \in Left(P, drop) /\ y \in Left(P, drop) /\ Comparable(Left(P, drop))
    BY <1>7 DEF Left, Comparable
  <2>2. After(x, y) \/ After(y, x)
    BY DEF After, Comparable
  <2>3. Sorted(Append(Append(k, x), y) \o l) = Sorted(Append(Append(k, y), x) \o l)
    BY <1>2, <2>1, <2>2, SortedSwap
  <2> QED BY <1>5, <1>7, <2>3
<1> QED BY <1>6, <1>7

\* Two neighbours of a sequence, and the sequence with them swapped.
IsSwap(q, i, a, b) ==
  /\ q = Append(Append(a, q[i]), q[i + 1]) \o b
  /\ [q EXCEPT ![i] = q[i + 1], ![i + 1] = q[i]] = Append(Append(a, q[i + 1]), q[i]) \o b

\* A query whose neighbours change places, in terms of its parts.
LEMMA Neighbours ==
  ASSUME NEW P, NEW q \in Seq(P), NEW i \in 1..(Len(q) - 1)
  PROVE  \E a, b \in Seq(P) : IsSwap(q, i, a, b)
<1>1. Len(q) \in Nat /\ i \in Nat /\ i >= 1 /\ i + 1 <= Len(q) /\ i + 1 \in 0..Len(q)
  <2> DEFINE n == Len(q)
  <2>1. n \in Nat /\ i \in 1..(n - 1)
    BY LenProperties
  <2> HIDE DEF n
  <2>2. i \in Nat /\ i >= 1 /\ i + 1 <= n
    BY <2>1
  <2>3. i + 1 \in 0..n
    BY <2>1, <2>2
  <2> QED BY <2>1, <2>2, <2>3 DEF n
<1>2. PICK d \in Seq(P), b \in Seq(P) : q = d \o b /\ Len(d) = i + 1 /\ Len(b) = Len(q) - (i + 1)
  <2> DEFINE n == i + 1
  <2>1. n \in 0..Len(q)
    BY <1>1
  <2> HIDE DEF n
  <2>2. \E d, b \in Seq(P) : IsSplit(q, n, d, b)
    BY <2>1, SplitAt
  <2> QED BY <2>2, Zenon DEF n, IsSplit
<1>3. PICK c \in Seq(P), y \in P : d = Append(c, y)
  <2>1. d # <<>>
    BY <1>1, <1>2, EmptySeq
  <2> QED BY <2>1, SequenceEmptyOrAppend
<1>4. Len(c) = i /\ d[i + 1] = y /\ \A j \in 1..i : d[j] = c[j]
  <2>1. Len(d) = Len(c) + 1 /\ Len(c) \in Nat /\ d[Len(c) + 1] = y
        /\ \A j \in 1..Len(c) : d[j] = c[j]
    BY <1>3, AppendProperties, LenProperties
  <2> QED BY <1>1, <1>2, <2>1
<1>5. PICK a \in Seq(P), x \in P : c = Append(a, x)
  <2>1. c # <<>>
    BY <1>1, <1>4, EmptySeq
  <2> QED BY <2>1, SequenceEmptyOrAppend
<1>6. Len(a) = i - 1 /\ c[i] = x /\ \A j \in 1..i - 1 : c[j] = a[j]
  <2>1. Len(c) = Len(a) + 1 /\ Len(a) \in Nat /\ c[Len(a) + 1] = x
        /\ \A j \in 1..Len(a) : c[j] = a[j]
    BY <1>5, AppendProperties, LenProperties
  <2> QED BY <1>1, <1>4, <2>1
<1>7. Len(b) \in Nat /\ \A j \in 1..Len(q) : q[j] = IF j <= i + 1 THEN d[j] ELSE b[j - (i + 1)]
  <2>1. Len(b) \in Nat /\ Len(q) = Len(d) + Len(b)
        /\ \A j \in 1..Len(d) + Len(b) : q[j] = IF j <= Len(d) THEN d[j] ELSE b[j - Len(d)]
    BY <1>2, ConcatProperties, LenProperties
  <2> QED BY <1>1, <1>2, <2>1, Zenon
<1>8. q[i] = x /\ q[i + 1] = y
  BY <1>1, <1>4, <1>6, <1>7
<1> DEFINE r == [q EXCEPT ![i] = y, ![i + 1] = x]
           e == Append(Append(a, y), x)
           w == e \o b
<1>9. /\ e \in Seq(P) /\ Len(e) = i + 1 /\ e[i] = y /\ e[i + 1] = x
      /\ \A j \in 1..i - 1 : e[j] = a[j]
  <2> DEFINE f == Append(a, y)
  <2>1. f \in Seq(P) /\ Len(f) = Len(a) + 1 /\ f[Len(a) + 1] = y /\ \A j \in 1..Len(a) : f[j] = a[j]
    BY AppendProperties
  <2> HIDE DEF f
  <2>2. /\ Append(f, x) \in Seq(P) /\ Len(Append(f, x)) = Len(f) + 1 /\ Append(f, x)[Len(f) + 1] = x
        /\ \A j \in 1..Len(f) : Append(f, x)[j] = f[j]
    BY <2>1, AppendProperties
  <2> DEFINE g == Append(f, x)
  <2> HIDE DEF g
  <2>3. Len(f) = i /\ f[i] = y /\ \A j \in 1..i - 1 : f[j] = a[j]
    <3>1. Len(a) = i - 1 /\ i \in Nat
      BY <1>1, <1>6
    <3> QED BY <2>1, <3>1, SMTT(30)
  <2>4. /\ g \in Seq(P) /\ Len(g) = Len(f) + 1 /\ g[Len(f) + 1] = x
        /\ \A j \in 1..Len(f) : g[j] = f[j]
    BY <2>2 DEF g
  <2>5. g[i] = y
    BY <1>1, <2>3, <2>4
  <2>6. ASSUME NEW j \in 1..i - 1 PROVE g[j] = a[j]
    <3>1. j \in 1..Len(f)
      <4>1. i \in Nat
        BY <1>1
      <4> QED BY <2>3, <4>1
    <3>2. g[j] = f[j]
      BY <2>4, <3>1
    <3> QED BY <2>3, <3>2
  <2> QED BY <2>3, <2>4, <2>5, <2>6 DEF f, g
<1> HIDE DEF e
<1>10. /\ w \in Seq(P) /\ Len(w) = Len(e) + Len(b)
       /\ \A j \in 1..Len(e) + Len(b) : w[j] = IF j <= Len(e) THEN e[j] ELSE b[j - Len(e)]
  BY <1>9, ConcatProperties, Zenon
<1>11. r \in Seq(P) /\ Len(r) = Len(q)
       /\ \A j \in 1..Len(q) : r[j] = IF j = i THEN y ELSE IF j = i + 1 THEN x ELSE q[j]
  <2>1. i \in 1..Len(q) /\ i + 1 \in 1..Len(q) /\ i # i + 1
    BY <1>1
  <2> DEFINE s == [q EXCEPT ![i] = y]
  <2>2. s \in Seq(P) /\ Len(s) = Len(q) /\ \A j \in 1..Len(q) : s[j] = IF j = i THEN y ELSE q[j]
    BY <2>1, ExceptSeq
  <2> HIDE DEF s
  <2>3. /\ [s EXCEPT ![i + 1] = x] \in Seq(P) /\ Len([s EXCEPT ![i + 1] = x]) = Len(s)
        /\ \A j \in 1..Len(s) : [s EXCEPT ![i + 1] = x][j] = IF j = i + 1 THEN x ELSE s[j]
    BY <2>1, <2>2, ExceptSeq
  <2>4. r = [s EXCEPT ![i + 1] = x]
    BY DEF s
  <2> HIDE DEF r
  <2> QED BY <2>1, <2>2, <2>3, <2>4
<1>12. r = w
  <2> HIDE DEF r, w
  <2>1. Len(r) = Len(w)
    BY <1>2, <1>9, <1>10, <1>11, <1>1, <1>7
  <2>2. ASSUME NEW j \in 1..Len(r) PROVE r[j] = w[j]
    <3>1. j \in Int /\ 1 <= j /\ j <= Len(q) /\ Len(e) + Len(b) = Len(q) /\ Len(b) \in Nat
      BY <1>1, <1>2, <1>7, <1>9, <1>11
    <3>2. CASE j <= i - 1
      <4>1. j \in 1..i - 1 /\ j \in 1..i /\ j \in 1..Len(q) /\ j <= i + 1 /\ j # i /\ j # i + 1
        BY <1>1, <3>1, <3>2
      <4>2. q[j] = a[j] /\ e[j] = a[j]
        BY <1>4, <1>6, <1>7, <1>9, <4>1, Zenon
      <4>3. r[j] = q[j]
        BY <1>11, <4>1, Zenon
      <4>4. w[j] = e[j]
        BY <1>9, <1>10, <3>1, <4>1
      <4> QED BY <4>2, <4>3, <4>4
    <3>3. CASE j = i \/ j = i + 1
      BY <1>1, <1>9, <1>10, <1>11, <3>1, <3>3
    <3>4. CASE j > i + 1
      BY <1>1, <1>7, <1>9, <1>10, <1>11, <3>1, <3>4
    <3> QED BY <1>1, <3>1, <3>2, <3>3, <3>4
  <2> QED BY <1>10, <1>11, <2>1, <2>2, SeqEqual
<1> QED BY <1>2, <1>3, <1>5, <1>8, <1>12, ZenonT(60) DEF e, IsSwap

\* URLs with equal fields are equal.
LEMMA SameRecord ==
  ASSUME NEW A, NEW B, NEW C, NEW D, NEW E, NEW Q, NEW R,
         NEW c \in [scheme : A, host : B, form : R, port : D, path : E, query : Q, fragment : C],
         NEW d \in [scheme : A, host : B, form : R, port : D, path : E, query : Q, fragment : C],
         c.scheme = d.scheme, c.host = d.host, c.form = d.form, c.port = d.port, c.path = d.path,
         c.query = d.query, c.fragment = d.fragment
  PROVE  c = d
OBVIOUS

\* What a canonical form depends on.
LEMMA FingerprintsAgree ==
  ASSUME NEW hosts, NEW S, NEW u \in Urls(hosts, S), NEW v \in Urls(hosts, S),
         u.scheme = v.scheme, u.host = v.host, CanonicalForm(u) = CanonicalForm(v),
         CanonicalPort(u) = CanonicalPort(v), CanonicalPath(u.path) = CanonicalPath(v.path),
         Sorted(Kept(u.query, Tracking)) = Sorted(Kept(v.query, Tracking))
  PROVE  Fingerprint(u) = Fingerprint(v)
<1> DEFINE f == CanonicalForm(u)
           n == CanonicalPort(u)
           p == CanonicalPath(u.path)
           q == Sorted(Kept(u.query, Tracking))
           c == [u EXCEPT !.form = f, !.port = n, !.path = p, !.query = q, !.fragment = FALSE]
           d == [v EXCEPT !.form = f, !.port = n, !.path = p, !.query = q, !.fragment = FALSE]
<1>1. Fingerprint(u) = c /\ Fingerprint(v) = d
  BY DEF Fingerprint, Canonical
<1> HIDE DEF f, n, p, q
<1>2. /\ c \in [scheme : {"http", "https"}, host : hosts, form : {f}, port : {n}, path : {p},
               query : {q}, fragment : BOOLEAN]
      /\ d \in [scheme : {"http", "https"}, host : hosts, form : {f}, port : {n}, path : {p},
               query : {q}, fragment : BOOLEAN]
  BY Zenon DEF Urls
<1>3. /\ c.scheme = d.scheme /\ c.host = d.host /\ c.form = d.form /\ c.port = d.port
      /\ c.path = d.path /\ c.query = d.query /\ c.fragment = d.fragment
  BY DEF Urls
<1> HIDE DEF c, d
<1>4. c = d
  BY <1>2, <1>3, SameRecord
<1> QED BY <1>1, <1>4

\* The segments that a respelling puts in.
LEMMA PathRespelled ==
  ASSUME NEW S, Added \subseteq S, NEW p \in Seq(S), NEW i \in 1..Len(p), ~TwoSlashes(p),
         NEW r \in {InsertAt(p, i, Dot), InsertAt(InsertAt(p, i, DotDot), i, Word("z")),
                    InsertAt(p, i, Empty)},
         ~TwoSlashes(r)
  PROVE  r \in Seq(S) /\ CanonicalPath(r) = CanonicalPath(p)
<1>1. Dot \in S /\ DotDot \in S /\ Empty \in S /\ Word("z") \in S /\ Word("z") \in Plain(S)
  BY WordIsPlain DEF Added, Plain
<1>2. PICK a \in Seq(S), b \in Seq(S) : p = a \o b /\ Len(a) + 1 = i /\ b # <<>>
  <2> DEFINE n == i - 1
  <2>1. Len(p) \in Nat /\ n \in 0..Len(p) /\ n + 1 = i /\ Len(p) - n # 0
    <3>1. Len(p) \in Nat
      BY LenProperties
    <3> QED BY <3>1
  <2> HIDE DEF n
  <2>2. PICK a \in Seq(S), b \in Seq(S) : IsSplit(p, n, a, b)
    BY <2>1, SplitAt
  <2>3. p = a \o b /\ Len(a) = n /\ Len(b) # 0
    BY <2>1, <2>2 DEF IsSplit
  <2>4. b # <<>> /\ Len(a) + 1 = i
    BY <2>1, <2>3, EmptySeq
  <2> QED BY <2>3, <2>4, Zenon
<1>3. \A e \in S : Append(a, e) \in Seq(S) /\ InsertAt(p, i, e) = Append(a, e) \o b
  BY <1>2, AppendProperties, InsertAtConcat, SMTT(30)
<1>4. ASSUME NEW e \in S \cap {Empty, Dot}, r = InsertAt(p, i, e)
      PROVE  r \in Seq(S) /\ CanonicalPath(r) = CanonicalPath(p)
  <2>1. r = Append(a, e) \o b /\ Append(a, e) \in Seq(S) /\ Names(Append(a, e)) = Names(a)
    BY <1>3, <1>4, DotDropped, Zenon
  <2>2. r \in Seq(S)
    BY <2>1, ConcatProperties
  <2> DEFINE ae == Append(a, e)
  <2>3. ae \in Seq(S) /\ Names(ae) = Names(a) /\ r = ae \o b
    BY <2>1
  <2> HIDE DEF ae
  <2>4. ~TwoSlashes(a \o b) /\ ~TwoSlashes(ae \o b)
    BY <1>2, <2>3
  <2>5. CanonicalPath(ae \o b) = CanonicalPath(a \o b)
    BY <1>2, <2>3, <2>4, SegmentsDropped
  <2> QED BY <1>2, <2>2, <2>3, <2>5
<1>5. ASSUME r = InsertAt(InsertAt(p, i, DotDot), i, Word("z"))
      PROVE  r \in Seq(S) /\ CanonicalPath(r) = CanonicalPath(p)
  <2> DEFINE z == Word("z")
             az == Append(a, z)
             t == Append(az, DotDot)
  <2>1. z \in S /\ z \in Plain(S) /\ az \in Seq(S)
    BY <1>1, <1>3
  <2> HIDE DEF z
  <2>2. t \in Seq(S)
    <3> HIDE DEF az
    <3> QED BY <1>1, <2>1, AppendProperties
  <2>3. Names(t) = Names(a)
    BY <1>1, <2>1, WordDropped
  <2>4. InsertAt(p, i, DotDot) = a \o (<<DotDot>> \o b) /\ <<DotDot>> \o b \in Seq(S)
    <3>1. <<DotDot>> \in Seq(S)
      BY <1>1
    <3>2. <<DotDot>> \o b \in Seq(S) /\ (a \o <<DotDot>>) \o b = a \o (<<DotDot>> \o b)
      BY <3>1, ConcatProperties, ConcatAssociative, SMTT(30)
    <3>3. InsertAt(p, i, DotDot) = Append(a, DotDot) \o b
      BY <1>1, <1>3
    <3>4. Append(a, DotDot) = a \o <<DotDot>>
      BY <1>1, AppendIsConcat
    <3> QED BY <3>2, <3>3, <3>4
  <2>5. r = az \o (<<DotDot>> \o b)
    <3> DEFINE e == <<DotDot>> \o b
    <3> HIDE DEF e
    <3>1. e \in Seq(S) /\ r = InsertAt(a \o e, i, z)
      BY <1>5, <2>4 DEF e, z
    <3>2. InsertAt(a \o e, i, z) = Append(a, z) \o e
      <4>1. i = Len(a) + 1
        BY <1>2
      <4>2. z \in S /\ e \in Seq(S)
        BY <2>1, <3>1
      <4> HIDE DEF az, t
      <4> QED BY <4>1, <4>2, InsertAtConcat, ZenonT(60)
    <3> QED BY <3>1, <3>2, Zenon DEF e
  <2>6. r = t \o b
    <3> HIDE DEF az
    <3>1. <<DotDot>> \in Seq(S)
      BY <1>1
    <3>2. (az \o <<DotDot>>) \o b = az \o (<<DotDot>> \o b)
      BY <2>1, <3>1, ConcatAssociative, SMTT(30)
    <3>3. t = az \o <<DotDot>>
      BY <1>1, <2>1, AppendIsConcat
    <3> QED BY <2>5, <3>2, <3>3, Zenon
  <2> HIDE DEF t
  <2>7. r \in Seq(S)
    BY <2>2, <2>6, ConcatProperties
  <2> QED BY <1>2, <2>2, <2>3, <2>6, <2>7, SegmentsDropped
<1> QED BY <1>1, <1>4, <1>5

\* Queries: a tracking parameter anywhere, and two parameters in the other order.
LEMMA QueryRespelled ==
  ASSUME NEW P, Comparable(P), NEW drop, NEW q \in Seq(P)
  PROVE  /\ \A i \in 1..(Len(q) + 1), t \in P :
              t.key \in drop => /\ InsertAt(q, i, t) \in Seq(P)
                               /\ Kept(InsertAt(q, i, t), drop) = Kept(q, drop)
         /\ \A i \in 1..(Len(q) - 1) :
              q[i].key # q[i + 1].key \/ q[i].value # q[i + 1].value
                => /\ [q EXCEPT ![i] = q[i + 1], ![i + 1] = q[i]] \in Seq(P)
                   /\ Sorted(Kept([q EXCEPT ![i] = q[i + 1], ![i + 1] = q[i]], drop))
                        = Sorted(Kept(q, drop))
<1>1. ASSUME NEW i \in 1..(Len(q) + 1), NEW t \in P, t.key \in drop
      PROVE  InsertAt(q, i, t) \in Seq(P) /\ Kept(InsertAt(q, i, t), drop) = Kept(q, drop)
  <2> DEFINE n == i - 1
  <2>1. n \in 0..Len(q) /\ i = n + 1
    <3>1. Len(q) \in Nat
      BY LenProperties
    <3> QED BY <3>1
  <2> HIDE DEF n
  <2>2. PICK a \in Seq(P), b \in Seq(P) : IsSplit(q, n, a, b)
    BY <2>1, SplitAt
  <2>3. q = a \o b /\ i = Len(a) + 1
    BY <2>1, <2>2 DEF IsSplit
  <2>4. InsertAt(q, i, t) = Append(a, t) \o b /\ Append(a, t) \in Seq(P)
    BY <2>3, InsertAtConcat, AppendProperties, Zenon
  <2>5. Append(a, t) \o b \in Seq(P)
    BY <2>4, ConcatProperties
  <2>6. Kept(Append(a, t) \o b, drop) = Kept(a \o b, drop)
    BY <1>1, TrackedDropped
  <2> QED BY <2>3, <2>4, <2>5, <2>6, Zenon
<1>2. ASSUME NEW i \in 1..(Len(q) - 1), q[i].key # q[i + 1].key \/ q[i].value # q[i + 1].value
      PROVE  /\ [q EXCEPT ![i] = q[i + 1], ![i + 1] = q[i]] \in Seq(P)
             /\ Sorted(Kept([q EXCEPT ![i] = q[i + 1], ![i + 1] = q[i]], drop))
                  = Sorted(Kept(q, drop))
  <2> DEFINE x == q[i]
             y == q[i + 1]
             r == [q EXCEPT ![i] = y, ![i + 1] = x]
  <2>1. PICK a \in Seq(P), b \in Seq(P) :
          q = Append(Append(a, x), y) \o b /\ r = Append(Append(a, y), x) \o b
    <3>1. PICK a \in Seq(P), b \in Seq(P) : IsSwap(q, i, a, b)
      BY Neighbours
    <3> QED BY <3>1, Zenon DEF IsSwap
  <2>2. x \in P /\ y \in P
    <3>1. Len(q) \in Nat
      BY LenProperties
    <3>2. i \in 1..Len(q) /\ i + 1 \in 1..Len(q)
      BY <3>1
    <3> QED BY <3>2, ElementOfSeq
  <2>3. x.key # y.key \/ x.value # y.value
    BY <1>2
  <2> HIDE DEF x, y, r
  <2>4. Append(a, y) \in Seq(P) /\ Append(Append(a, y), x) \in Seq(P)
    BY <2>2, AppendProperties
  <2>5. r \in Seq(P)
    BY <2>1, <2>4, ConcatProperties
  <2>6. Sorted(Kept(Append(Append(a, x), y) \o b, drop)) = Sorted(Kept(Append(Append(a, y), x) \o b, drop))
    BY <2>2, <2>3, SwapSorted
  <2>7. Sorted(Kept(r, drop)) = Sorted(Kept(q, drop))
    BY <2>1, <2>6
  <2> QED BY <2>5, <2>7 DEF r, x, y
<1> QED BY <1>1, <1>2

\* The three parts of Respellings.
LEMMA RespellingCases ==
  ASSUME NEW u, NEW v \in Respellings(u)
  PROVE  \/ v = [u EXCEPT !.fragment = TRUE]
         \/ \E f \in NamedForms : u.form \in NamedForms /\ v = [u EXCEPT !.form = f]
         \/ v = [u EXCEPT !.port = IF @ = 0 THEN DefaultPort(u.scheme) ELSE @]
         \/ \E i \in 1..(Len(u.query) + 1) :
              v = [u EXCEPT !.query = InsertAt(u.query, i, Param(3, TRUE, 7))]
         \/ \E i \in 1..(Len(u.query) - 1) :
              /\ \/ u.query[i].key # u.query[i + 1].key
                 \/ u.query[i].value # u.query[i + 1].value
              /\ v = [u EXCEPT !.query =
                       [u.query EXCEPT ![i] = u.query[i + 1], ![i + 1] = u.query[i]]]
         \/ \E i \in 1..Len(u.path) :
              \E r \in {InsertAt(u.path, i, Dot),
                       InsertAt(InsertAt(u.path, i, DotDot), i, Word("z")),
                       InsertAt(u.path, i, Empty)} :
                ~TwoSlashes(u.path) /\ ~TwoSlashes(r) /\ v = [u EXCEPT !.path = r]
<1> DEFINE q == u.query
           tracked == {InsertAt(q, i, Param(3, TRUE, 7)) : i \in 1..(Len(q) + 1)}
           swapped == {[q EXCEPT ![i] = q[i + 1], ![i + 1] = q[i]] :
                         i \in {j \in 1..(Len(q) - 1) :
                                 q[j].key # q[j + 1].key \/ q[j].value # q[j + 1].value}}
           at == IF TwoSlashes(u.path) THEN {} ELSE 1..Len(u.path)
           dots == {InsertAt(u.path, i, Dot) : i \in at}
           words == {InsertAt(InsertAt(u.path, i, DotDot), i, Word("z")) : i \in at}
           slashes == {InsertAt(u.path, i, Empty) : i \in at \ {1}}
           simple == {[u EXCEPT !.fragment = TRUE],
                      [u EXCEPT !.port = IF @ = 0 THEN DefaultPort(u.scheme) ELSE @]}
           forms == {[u EXCEPT !.form = f] : f \in {g \in NamedForms : u.form \in NamedForms}}
<1>1. v \in simple \cup forms \cup {[u EXCEPT !.query = w] : w \in tracked \cup swapped}
              \cup {[u EXCEPT !.path = r] : r \in {t \in dots \cup words \cup slashes : ~TwoSlashes(t)}}
  BY Zenon DEF Respellings
<1>2. CASE v \in simple
  BY <1>2, Zenon
<1>9. CASE v \in forms
  BY <1>9
<1>3. ASSUME NEW w \in tracked, v = [u EXCEPT !.query = w]
      PROVE  \E i \in 1..(Len(q) + 1) : v = [u EXCEPT !.query = InsertAt(q, i, Param(3, TRUE, 7))]
  BY <1>3, Zenon
<1>4. ASSUME NEW w \in swapped, v = [u EXCEPT !.query = w]
      PROVE  \E i \in 1..(Len(q) - 1) :
               /\ q[i].key # q[i + 1].key \/ q[i].value # q[i + 1].value
               /\ v = [u EXCEPT !.query = [q EXCEPT ![i] = q[i + 1], ![i + 1] = q[i]]]
  BY <1>4
<1>5. ASSUME NEW r \in dots \cup words \cup slashes, ~TwoSlashes(r), v = [u EXCEPT !.path = r]
      PROVE  \E i \in 1..Len(u.path) :
               \E t \in {InsertAt(u.path, i, Dot),
                        InsertAt(InsertAt(u.path, i, DotDot), i, Word("z")),
                        InsertAt(u.path, i, Empty)} :
                 ~TwoSlashes(u.path) /\ ~TwoSlashes(t) /\ v = [u EXCEPT !.path = t]
  <2>1. \E i \in at : r \in {InsertAt(u.path, i, Dot),
                            InsertAt(InsertAt(u.path, i, DotDot), i, Word("z")),
                            InsertAt(u.path, i, Empty)}
    <3> HIDE DEF at
    <3> QED BY <1>5
  <2>2. \A i \in at : i \in 1..Len(u.path) /\ ~TwoSlashes(u.path)
    OBVIOUS
  <2> HIDE DEF at
  <2> QED BY <1>5, <2>1, <2>2
<1>6. CASE \E w \in tracked \cup swapped : v = [u EXCEPT !.query = w]
  <2> HIDE DEF tracked, swapped
  <2> QED BY <1>3, <1>4, <1>6, Zenon
<1>7. CASE \E r \in dots \cup words \cup slashes : ~TwoSlashes(r) /\ v = [u EXCEPT !.path = r]
  <2> HIDE DEF dots, words, slashes
  <2> QED BY <1>5, <1>7, Zenon
<1> HIDE DEF simple, forms, tracked, swapped, dots, words, slashes
<1>8. \/ v \in simple \cup forms
      \/ \E w \in tracked \cup swapped : v = [u EXCEPT !.query = w]
      \/ \E r \in dots \cup words \cup slashes : ~TwoSlashes(r) /\ v = [u EXCEPT !.path = r]
  BY <1>1
<1> QED BY <1>2, <1>6, <1>7, <1>8, <1>9, Zenon

\* A respelling is not refused where the URL is not.
LEMMA RespellingIsTaken ==
  ASSUME NEW hosts, NEW S, NEW u \in Urls(hosts, S), ~NotCanonical(u), NEW v \in Respellings(u)
  PROVE  ~NotCanonical(v)
<1>1. DefaultPort(u.scheme) \in Nat /\ ~(DefaultPort(u.scheme) > MaxPort)
  BY DEF DefaultPort, MaxPort
<1>2. /\ v.scheme = u.scheme /\ v.host = u.host
      /\ v.form = u.form \/ v.form \in NamedForms
      /\ v.port = u.port \/ v.port = DefaultPort(u.scheme)
  <2>1. CASE \/ v = [u EXCEPT !.fragment = TRUE]
             \/ \E f \in NamedForms : u.form \in NamedForms /\ v = [u EXCEPT !.form = f]
             \/ v = [u EXCEPT !.port = IF @ = 0 THEN DefaultPort(u.scheme) ELSE @]
    BY <2>1 DEF Urls
  <2>2. CASE \E q : v = [u EXCEPT !.query = q]
    BY <2>2 DEF Urls
  <2>3. CASE \E p : v = [u EXCEPT !.path = p]
    BY <2>3 DEF Urls
  <2>4. CASE \E i \in 1..(Len(u.query) + 1) :
               v = [u EXCEPT !.query = InsertAt(u.query, i, Param(3, TRUE, 7))]
    BY <2>2, <2>4, Zenon
  <2>5. CASE \E i \in 1..(Len(u.query) - 1) :
               v = [u EXCEPT !.query = [u.query EXCEPT ![i] = u.query[i + 1], ![i + 1] = u.query[i]]]
    BY <2>2, <2>5, Zenon
  <2>6. CASE \E r : v = [u EXCEPT !.path = r]
    BY <2>3, <2>6, Zenon
  <2>7. CASE \E i \in 1..Len(u.path) :
               \E r \in {InsertAt(u.path, i, Dot),
                        InsertAt(InsertAt(u.path, i, DotDot), i, Word("z")),
                        InsertAt(u.path, i, Empty)} :
                 ~TwoSlashes(u.path) /\ ~TwoSlashes(r) /\ v = [u EXCEPT !.path = r]
    BY <2>6, <2>7, Zenon
  <2>8. CASE \E i \in 1..(Len(u.query) - 1) :
               /\ \/ u.query[i].key # u.query[i + 1].key
                  \/ u.query[i].value # u.query[i + 1].value
               /\ v = [u EXCEPT !.query =
                        [u.query EXCEPT ![i] = u.query[i + 1], ![i + 1] = u.query[i]]]
    BY <2>5, <2>8, Zenon
  <2> QED BY <2>1, <2>4, <2>7, <2>8, RespellingCases, Zenon
<1> QED BY <1>1, <1>2 DEF NotCanonical, NamedForms

\* Spellings that name one page have one canonical form.
THEOREM RespellingsAgree ==
  ASSUME NEW hosts, NEW S, NEW u \in Urls(hosts, S), 3 \in Tracking, NEW v \in Respellings(u)
  PROVE  Fingerprint(v) = Fingerprint(u)
<1> DEFINE T == S \cup Added
           U == Urls(hosts, T)
           q == u.query
           p == u.path
<1>1. p \in Seq(T) /\ Added \subseteq T
  <2>1. u.path \in Seq(S)
    BY DEF Urls
  <2> QED BY <2>1, SeqMonotonic, S \subseteq T
<1>2. u \in U /\ q \in Seq(Parameters) /\ u.port \in Nat /\ u.scheme \in {"http", "https"}
  BY <1>1 DEF Urls
<1> HIDE DEF T
<1>3. CASE v = [u EXCEPT !.fragment = TRUE]
  <2>1. /\ v \in U /\ v.scheme = u.scheme /\ v.host = u.host /\ v.form = u.form
        /\ v.port = u.port /\ v.path = u.path /\ v.query = u.query
    BY <1>2, <1>3, Zenon DEF Urls
  <2>2. CanonicalPort(v) = CanonicalPort(u) /\ CanonicalForm(v) = CanonicalForm(u)
    BY <2>1 DEF CanonicalPort, CanonicalForm
  <2> QED BY <1>2, <2>1, <2>2, FingerprintsAgree
<1>9. CASE \E f \in NamedForms : u.form \in NamedForms /\ v = [u EXCEPT !.form = f]
  <2>1. PICK f \in NamedForms : u.form \in NamedForms /\ v = [u EXCEPT !.form = f]
    BY <1>9
  <2>2. f \in HostForms
    BY DEF HostForms
  <2>3. /\ v \in U /\ v.scheme = u.scheme /\ v.host = u.host /\ v.form = f
        /\ v.port = u.port /\ v.path = u.path /\ v.query = u.query
    BY <1>2, <2>1, <2>2, Zenon DEF Urls
  <2>4. CanonicalPort(v) = CanonicalPort(u)
    BY <2>3 DEF CanonicalPort
  <2>5. CanonicalForm(v) = CanonicalForm(u)
    BY <2>1, <2>3 DEF CanonicalForm, NamedForms
  <2> QED BY <1>2, <2>3, <2>4, <2>5, FingerprintsAgree
<1>4. CASE v = [u EXCEPT !.port = IF @ = 0 THEN DefaultPort(u.scheme) ELSE @]
  <2> DEFINE n == DefaultPort(u.scheme)
  <2>1. n \in Nat /\ n # 0
    BY DEF DefaultPort
  <2> HIDE DEF n
  <2>2. /\ v \in U /\ v.scheme = u.scheme /\ v.host = u.host /\ v.form = u.form
        /\ v.port = (IF u.port = 0 THEN n ELSE u.port) /\ v.path = u.path /\ v.query = u.query
    BY <1>2, <1>4, <2>1 DEF Urls, n
  <2>3. CanonicalPort(v) = CanonicalPort(u) /\ CanonicalForm(v) = CanonicalForm(u)
    BY <2>1, <2>2 DEF CanonicalPort, CanonicalForm, n
  <2> QED BY <1>2, <2>2, <2>3, FingerprintsAgree
<1>5. ASSUME NEW r \in Seq(Parameters), v = [u EXCEPT !.query = r],
             Sorted(Kept(r, Tracking)) = Sorted(Kept(q, Tracking))
      PROVE  Fingerprint(v) = Fingerprint(u)
  <2>1. /\ v \in U /\ v.scheme = u.scheme /\ v.host = u.host /\ v.form = u.form
        /\ v.port = u.port /\ v.path = u.path /\ v.query = r
    BY <1>2, <1>5, Zenon DEF Urls
  <2>2. CanonicalPort(v) = CanonicalPort(u) /\ CanonicalForm(v) = CanonicalForm(u)
    BY <2>1 DEF CanonicalPort, CanonicalForm
  <2> HIDE DEF U
  <2>3. /\ CanonicalPath(v.path) = CanonicalPath(u.path)
        /\ Sorted(Kept(v.query, Tracking)) = Sorted(Kept(u.query, Tracking))
    BY <1>5, <2>1
  <2> QED BY <1>2, <2>1, <2>2, <2>3, FingerprintsAgree DEF U
<1>6. CASE \E i \in 1..(Len(q) + 1) : v = [u EXCEPT !.query = InsertAt(q, i, Param(3, TRUE, 7))]
  <2> DEFINE t == Param(3, TRUE, 7)
  <2>1. t \in Parameters /\ t.key \in Tracking
    BY DEF Param, Parameters
  <2> HIDE DEF t
  <2>2. PICK i \in 1..(Len(q) + 1) : v = [u EXCEPT !.query = InsertAt(q, i, t)]
    BY <1>6, Zenon DEF t
  <2> HIDE DEF q
  <2>3. InsertAt(q, i, t) \in Seq(Parameters) /\ Kept(InsertAt(q, i, t), Tracking) = Kept(q, Tracking)
    BY <1>2, <2>1, ParameterTypes, QueryRespelled
  <2> QED BY <1>5, <2>2, <2>3
<1>7. CASE \E i \in 1..(Len(q) - 1) :
             /\ q[i].key # q[i + 1].key \/ q[i].value # q[i + 1].value
             /\ v = [u EXCEPT !.query = [q EXCEPT ![i] = q[i + 1], ![i + 1] = q[i]]]
  <2>1. PICK i \in 1..(Len(q) - 1) :
             /\ q[i].key # q[i + 1].key \/ q[i].value # q[i + 1].value
             /\ v = [u EXCEPT !.query = [q EXCEPT ![i] = q[i + 1], ![i + 1] = q[i]]]
    BY <1>7
  <2> DEFINE r == [q EXCEPT ![i] = q[i + 1], ![i + 1] = q[i]]
  <2> HIDE DEF q
  <2>2. r \in Seq(Parameters) /\ Sorted(Kept(r, Tracking)) = Sorted(Kept(q, Tracking))
    BY <1>2, <2>1, ParameterTypes, QueryRespelled, Zenon
  <2>3. v = [u EXCEPT !.query = r]
    BY <2>1
  <2> HIDE DEF r
  <2> QED BY <1>5, <2>2, <2>3
<1>8. CASE \E i \in 1..Len(p) :
             \E r \in {InsertAt(p, i, Dot), InsertAt(InsertAt(p, i, DotDot), i, Word("z")),
                      InsertAt(p, i, Empty)} :
               ~TwoSlashes(p) /\ ~TwoSlashes(r) /\ v = [u EXCEPT !.path = r]
  <2>1. PICK i \in 1..Len(p) :
             \E r \in {InsertAt(p, i, Dot), InsertAt(InsertAt(p, i, DotDot), i, Word("z")),
                      InsertAt(p, i, Empty)} :
               ~TwoSlashes(p) /\ ~TwoSlashes(r) /\ v = [u EXCEPT !.path = r]
    BY <1>8
  <2>2. PICK r \in {InsertAt(p, i, Dot), InsertAt(InsertAt(p, i, DotDot), i, Word("z")),
                      InsertAt(p, i, Empty)} :
               ~TwoSlashes(p) /\ ~TwoSlashes(r) /\ v = [u EXCEPT !.path = r]
    BY <2>1
  <2>3. r \in Seq(T) /\ CanonicalPath(r) = CanonicalPath(p)
    <3> HIDE DEF p
    <3> QED BY <1>1, <2>2, PathRespelled
  <2>4. /\ v \in U /\ v.scheme = u.scheme /\ v.host = u.host /\ v.form = u.form
        /\ v.port = u.port /\ v.path = r /\ v.query = u.query
    BY <1>2, <2>2, <2>3, Zenon DEF Urls
  <2>5. CanonicalPort(v) = CanonicalPort(u) /\ CanonicalForm(v) = CanonicalForm(u)
    BY <2>4 DEF CanonicalPort, CanonicalForm
  <2> HIDE DEF U
  <2>6. CanonicalPath(v.path) = CanonicalPath(u.path)
    BY <2>3, <2>4
  <2> QED BY <1>2, <2>4, <2>5, <2>6, FingerprintsAgree DEF U
<1> QED BY <1>3, <1>4, <1>6, <1>7, <1>8, <1>9, RespellingCases, Zenon

(***************************************************************************)
(* Admission                                                               *)
(***************************************************************************)
Full(S) == S \ {Empty}

\* The segments of a path, one at a time, of two paths in a row, of a path without
\* empty segments and of one that has no others.
LEMMA FillCloses ==
  ASSUME NEW S
  PROVE  <<>> \in Seq(Full(S)) /\ G!Closed(0, Seq(Full(S)), S)
<1> DEFINE A == Seq(Full(S))
<1>1. <<>> \in A
  BY EmptySeq
<1>2. ASSUME NEW v \in A, NEW x \in S, x # Empty PROVE Append(v, x) \in A
  <2>1. x \in Full(S)
    BY <1>2 DEF Full
  <2> QED BY <2>1, AppendProperties
<1> HIDE DEF A
<1>3. G!Closed(0, A, S)
  BY <1>1, <1>2 DEF G!Closed, FillStep
<1> QED BY <1>1, <1>3 DEF A

LEMMA SegmentsFacts ==
  ASSUME NEW S, NEW p \in Seq(S)
  PROVE  Segments(p) \in Seq(Full(S)) /\ Segments(<<>>) = <<>>
<1> DEFINE A == Seq(Full(S))
           a == <<>>
<1>1. a \in A /\ G!Closed(0, A, S)
  BY FillCloses
<1> HIDE DEF A, a
<1>2. G!Fold(0, a, p) \in A /\ G!Fold(0, a, <<>>) = a
  BY <1>1, G!FoldType, G!FoldEmpty
<1> QED BY <1>2, SegmentsIsFold DEF A, a

LEMMA SegmentsOfAppend ==
  ASSUME NEW S, NEW p \in Seq(S), NEW x \in S
  PROVE  Segments(Append(p, x)) = IF x = Empty THEN Segments(p) ELSE Append(Segments(p), x)
<1> DEFINE A == Seq(Full(S))
           a == <<>>
<1>1. a \in A /\ G!Closed(0, A, S)
  BY FillCloses
<1> HIDE DEF A, a
<1>2. G!Fold(0, a, Append(p, x)) = FillStep(0, G!Fold(0, a, p), x)
  BY <1>1, G!FoldAppend
<1> QED BY <1>2, SegmentsIsFold DEF a, FillStep

LEMMA SegmentsOfConcat ==
  ASSUME NEW S, NEW p \in Seq(S), NEW t \in Seq(S)
  PROVE  Segments(p \o t) = Segments(p) \o Segments(t)
<1> DEFINE T == {s \in Seq(S) : Segments(p \o s) = Segments(p) \o Segments(s)}
           k == Segments(p)
<1>1. k \in Seq(Full(S)) /\ Segments(<<>>) = <<>>
  BY SegmentsFacts
<1>2. <<>> \in T
  <2>1. <<>> \in Seq(S) /\ p \o <<>> = p
    BY EmptySeq, ConcatEmptySeq
  <2>2. k \o <<>> = k
    <3> HIDE DEF k
    <3> QED BY <1>1, ConcatEmptySeq
  <2> QED BY <1>1, <2>1, <2>2
<1>3. ASSUME NEW s \in Seq(S), NEW x \in S, s \in T PROVE Append(s, x) \in T
  <2> DEFINE l == Segments(s)
  <2>1. l \in Seq(Full(S)) /\ Segments(p \o s) = k \o l
    BY <1>3, SegmentsFacts
  <2>2. Append(s, x) \in Seq(S) /\ p \o s \in Seq(S) /\ p \o Append(s, x) = Append(p \o s, x)
    BY AppendProperties, ConcatProperties, F!AppendToConcat
  <2>3. Segments(Append(s, x)) = IF x = Empty THEN l ELSE Append(l, x)
    BY SegmentsOfAppend
  <2>4. Segments(Append(p \o s, x)) = IF x = Empty THEN Segments(p \o s) ELSE Append(Segments(p \o s), x)
    BY <2>2, SegmentsOfAppend, Zenon
  <2> HIDE DEF k, l
  <2>5. ASSUME x # Empty PROVE k \o Append(l, x) = Append(k \o l, x)
    <3>1. x \in Full(S)
      BY <2>5 DEF Full
    <3> QED BY <1>1, <2>1, <3>1, F!AppendToConcat
  <2>6. Segments(p \o Append(s, x)) = k \o Segments(Append(s, x))
    BY <2>1, <2>2, <2>3, <2>4, <2>5, Zenon
  <2> QED BY <2>2, <2>6, Zenon DEF k
<1>4. t \in T
  <2> HIDE DEF T
  <2> QED BY <1>2, <1>3, F!SequenceInduction
<1> QED BY <1>4

LEMMA SegmentsOfFull ==
  ASSUME NEW S, NEW n \in Seq(Full(S))
  PROVE  Segments(n) = n
<1> DEFINE T == {s \in Seq(Full(S)) : Segments(s) = s}
<1>1. <<>> \in T
  BY EmptySeq, SegmentsFacts
<1>2. ASSUME NEW s \in Seq(Full(S)), NEW x \in Full(S), s \in T PROVE Append(s, x) \in T
  <2>1. Segments(Append(s, x)) = IF x = Empty THEN Segments(s) ELSE Append(Segments(s), x)
    BY SegmentsOfAppend
  <2> QED BY <1>2, <2>1, AppendProperties DEF Full
<1>3. n \in T
  <2> HIDE DEF T
  <2> QED BY <1>1, <1>2, F!SequenceInduction
<1> QED BY <1>3

LEMMA SegmentsOfSlashes ==
  ASSUME NEW e \in Seq({Empty})
  PROVE  Segments(e) = <<>>
<1>1. Segments(e) \in Seq(Full({Empty}))
  BY SegmentsFacts
<1>2. Full({Empty}) = {}
  BY DEF Full
<1>3. \A s \in Seq({}) : s = <<>>
  <2> SUFFICES ASSUME NEW s \in Seq({}), s # <<>> PROVE FALSE
    OBVIOUS
  <2>1. 1 \in 1..Len(s)
    BY EmptySeq
  <2>2. s[1] \in {}
    BY <2>1, ElementOfSeq
  <2> QED BY <2>2
<1> QED BY <1>1, <1>2, <1>3, Zenon

\* Paths without dot segments, of which normpath leaves the segments that are not empty.
Undotted(S) == S \ {Dot, DotDot}

\* Without dot segments the names of a path are its segments.
LEMMA NamesOfUndotted ==
  ASSUME NEW S, NEW p \in Seq(Undotted(S))
  PROVE  Names(p) = Segments(p)
<1> DEFINE T == {s \in Seq(Undotted(S)) : Names(s) = Segments(s)}
<1>1. <<>> \in T
  BY EmptySeq, SegmentsFacts, NamesFacts, Zenon
<1>2. ASSUME NEW s \in Seq(Undotted(S)), NEW x \in Undotted(S), s \in T PROVE Append(s, x) \in T
  <2>1. Segments(Append(s, x)) = IF x = Empty THEN Segments(s) ELSE Append(Segments(s), x)
    BY SegmentsOfAppend
  <2>2. Names(Append(s, x)) = Follow(Names(s), x)
    BY NamesFacts, Zenon
  <2>3. Names(Append(s, x)) = Segments(Append(s, x))
    BY <1>2, <2>1, <2>2, FollowCases DEF Undotted
  <2> QED BY <2>3, AppendProperties
<1>3. p \in T
  <2> HIDE DEF T
  <2> QED BY <1>1, <1>2, F!SequenceInduction
<1> QED BY <1>3

\* A sequence whose elements are in T.
LEMMA SeqOfValues ==
  ASSUME NEW S, NEW T, NEW s \in Seq(S), \A i \in 1..Len(s) : s[i] \in T
  PROVE  s \in Seq(T)
<1> DEFINE n == Len(s)
<1>1. n \in Nat /\ s \in [1..n -> S]
  BY LenProperties
<1>2. \A i \in 1..n : s[i] \in T
  OBVIOUS
<1> HIDE DEF n
<1>3. s \in [1..n -> T]
  BY <1>1, <1>2
<1> QED BY <1>1, <1>3, SeqDef

\* What is around one element of a path.
LEMMA AroundOne ==
  ASSUME NEW S, NEW p \in Seq(S), NEW l \in 1..Len(p)
  PROVE  \E a, b \in Seq(S) : IsSplit(p, l, Append(a, p[l]), b)
<1>1. Len(p) \in Nat /\ l \in 0..Len(p) /\ l \in Nat /\ l >= 1
  <2>1. Len(p) \in Nat
    BY LenProperties
  <2> QED BY <2>1
<1>2. PICK d \in Seq(S), b \in Seq(S) : IsSplit(p, l, d, b)
  BY <1>1, SplitAt
<1>3. p = d \o b /\ Len(d) = l /\ Len(b) \in Nat
  BY <1>2, LenProperties DEF IsSplit
<1>4. PICK a \in Seq(S), x \in S : d = Append(a, x)
  <2>1. d # <<>>
    BY <1>1, <1>3, EmptySeq
  <2> QED BY <2>1, SequenceEmptyOrAppend
<1>5. d[l] = x
  <2>1. Len(d) = Len(a) + 1 /\ d[Len(a) + 1] = x /\ Len(a) \in Nat
    BY <1>4, AppendProperties, LenProperties
  <2> QED BY <1>3, <2>1
<1>6. p[l] = d[l]
  <2>1. \A i \in 1..Len(d) + Len(b) : p[i] = IF i <= Len(d) THEN d[i] ELSE b[i - Len(d)]
    BY <1>3, ConcatProperties
  <2>2. l \in 1..Len(d) + Len(b) /\ l <= Len(d)
    BY <1>1, <1>3
  <2> QED BY <2>1, <2>2
<1> QED BY <1>2, <1>4, <1>5, <1>6

\* The segments of a path are those it has that are not empty.
LEMMA RangeOfSegments ==
  ASSUME NEW S, NEW p \in Seq(S)
  PROVE  Range(Segments(p)) = Range(p) \ {Empty}
<1> DEFINE R == Range(p)
           n == Segments(p)
<1>1. n \in Seq(Full(R))
  <2>1. p \in Seq(R)
    BY SeqOfRange
  <2> HIDE DEF R
  <2> QED BY <2>1, SegmentsFacts
<1>2. Range(n) \subseteq R \ {Empty}
  <2> HIDE DEF n
  <2>1. Range(n) \in SUBSET Full(R)
    BY <1>1, RangeOfSeq
  <2> QED BY <2>1 DEF Full
<1>3. ASSUME NEW x \in R, x # Empty PROVE x \in Range(n)
  <2>1. R = {p[j] : j \in 1..Len(p)}
    BY RangeEquality
  <2>2. PICK l \in 1..Len(p) : p[l] = x
    BY <2>1
  <2>3. PICK a \in Seq(S), b \in Seq(S) : IsSplit(p, l, Append(a, x), b)
    BY <2>2, AroundOne
  <2>4. p = Append(a, x) \o b /\ x \in S
    BY <2>2, <2>3, ElementOfSeq DEF IsSplit
  <2>5. Append(a, x) \in Seq(S) /\ Segments(Append(a, x)) = Append(Segments(a), x)
    BY <1>3, <2>4, AppendProperties, SegmentsOfAppend
  <2> DEFINE sa == Segments(a)
             sb == Segments(b)
  <2>6. sa \in Seq(Full(S)) /\ sb \in Seq(Full(S)) /\ x \in Full(S)
    BY <1>3, <2>4, SegmentsFacts, Zenon DEF Full
  <2>7. n = Append(sa, x) \o sb
    BY <2>4, <2>5, SegmentsOfConcat, Zenon
  <2> HIDE DEF sa, sb, n
  <2>8. Append(sa, x) \in Seq(Full(S)) /\ Append(sa, x)[Len(sa) + 1] = x /\ Len(sa) \in Nat
        /\ Len(Append(sa, x)) = Len(sa) + 1
    BY <2>6, AppendProperties, LenProperties
  <2>9. Range(n) = Range(Append(sa, x)) \cup Range(sb)
    BY <2>6, <2>7, <2>8, RangeConcatenation, ZenonT(60)
  <2>10. x \in Range(Append(sa, x))
    <3> DEFINE t == Append(sa, x)
    <3>1. t \in Seq(Full(S)) /\ Len(sa) + 1 \in 1..Len(t) /\ t[Len(sa) + 1] = x
      BY <2>8
    <3> HIDE DEF t
    <3>2. Range(t) = {t[j] : j \in 1..Len(t)}
      BY <3>1, RangeEquality
    <3> QED BY <3>1, <3>2 DEF t
  <2> QED BY <2>9, <2>10
<1> HIDE DEF R, n
<1>4. Range(n) = R \ {Empty}
  BY <1>2, <1>3
<1> QED BY <1>4 DEF R, n

\* Without its outer slashes a path ends with the last of its segments.
LEMMA StrippedFacts ==
  ASSUME NEW S, NEW p \in Seq(S)
  PROVE  /\ Stripped(p) = <<>> <=> Segments(p) = <<>>
         /\ Stripped(p) # <<>> => Last(Stripped(p)) = Last(Segments(p))
         /\ Stripped(p) # <<>> =>
              \E i \in 1..Len(p) : \E j \in i..Len(p) : Stripped(p) = SubSeq(p, i, j)
<1> DEFINE full == {i \in 1..Len(p) : p[i] # Empty}
           first == CHOOSE i \in full : \A j \in full : i <= j
           last == CHOOSE i \in full : \A j \in full : j <= i
<1>1. Len(p) \in Nat /\ \A i \in 1..Len(p) : p[i] \in S
  BY LenProperties, ElementOfSeq
<1>2. CASE full = {}
  <2>1. Stripped(p) = <<>>
    BY <1>2 DEF Stripped
  <2>2. p \in Seq({Empty})
    <3>1. \A i \in 1..Len(p) : p[i] \in {Empty}
      BY <1>2
    <3> QED BY <3>1, SeqOfValues
  <2> QED BY <2>1, <2>2, SegmentsOfSlashes
<1>3. CASE full # {}
  <2>1. full \subseteq Nat /\ full \in SUBSET (1..Len(p))
    OBVIOUS
  <2> HIDE DEF full
  <2>2. first \in full /\ \A j \in full : first <= j
    <3>1. \E i \in full : \A j \in full : i <= j
      BY <1>3, <2>1, F!LeastMember, Zenon
    <3> QED BY <3>1
  <2>3. last \in full /\ \A j \in full : j <= last
    <3>1. \E i \in full : \A j \in full : i >= j
      BY <1>1, <1>3, <2>1, F!GreatestMember, Zenon
    <3>2. \E i \in full : \A j \in full : j <= i
      BY <2>1, <3>1
    <3> QED BY <3>2
  <2>4. Stripped(p) = SubSeq(p, first, last)
    BY <1>3, Zenon DEF Stripped, full
  <2> HIDE DEF first, last
  <2>5. /\ first \in Nat /\ last \in Nat /\ 1 <= first /\ first <= last /\ last <= Len(p)
        /\ last \in 1..Len(p) /\ p[last] # Empty
    BY <1>1, <2>1, <2>2, <2>3 DEF full
  <2> DEFINE s == SubSeq(p, first, last)
             k == last - first + 1
  <2>6. s \in Seq(S) /\ Len(s) = k /\ \A i \in 1..k : s[i] = p[first + i - 1]
    <3>1. \A i \in first..last : p[i] \in S
      BY <1>1, <2>5
    <3>2. /\ s \in Seq(S) /\ Len(s) = IF first <= last THEN last - first + 1 ELSE 0
          /\ \A i \in 1..last - first + 1 : s[i] = p[first + i - 1]
      BY <2>5, <3>1, SubSeqProperties
    <3> HIDE DEF s
    <3> QED BY <2>5, <3>2
  <2>7. k \in 1..k /\ first + k - 1 = last /\ k # 0
    BY <2>5
  <2> HIDE DEF s, k
  <2>8. s # <<>> /\ Last(s) = p[last]
    BY <2>6, <2>7, EmptySeq DEF Last
  <2>9. Segments(p) # <<>> /\ Last(Segments(p)) = p[last]
    <3> DEFINE x == p[last]
    <3>1. x \in S /\ x # Empty
      BY <1>1, <2>5
    <3>2. PICK a \in Seq(S), b \in Seq(S) : IsSplit(p, last, Append(a, x), b)
      BY <2>5, AroundOne
    <3> HIDE DEF x
    <3> DEFINE d == Append(a, x)
    <3>3. p = d \o b /\ Len(d) = last /\ Len(b) \in Nat /\ d \in Seq(S)
      BY <3>1, <3>2, LenProperties, AppendProperties DEF IsSplit
    <3>4. b \in Seq({Empty})
      <4> HIDE DEF d
      <4>1. /\ Len(p) = Len(d) + Len(b)
            /\ \A i \in 1..Len(d) + Len(b) : p[i] = IF i <= Len(d) THEN d[i] ELSE b[i - Len(d)]
        BY <3>3, ConcatProperties
      <4>2. ASSUME NEW i \in 1..Len(b) PROVE b[i] = Empty
        <5>1. /\ last + i \in 1..Len(p) /\ last + i \in 1..Len(d) + Len(b)
              /\ ~(last + i <= Len(d)) /\ last + i - Len(d) = i
          BY <2>5, <3>3, <4>1
        <5>2. p[last + i] = b[i]
          <6> DEFINE j == last + i
          <6>1. j \in 1..Len(d) + Len(b) /\ ~(j <= Len(d)) /\ j - Len(d) = i
            BY <2>5, <3>3, <5>1
          <6> HIDE DEF j
          <6>2. p[j] = b[j - Len(d)]
            BY <4>1, <6>1
          <6> QED BY <6>1, <6>2 DEF j
        <5>3. last + i \notin full
          BY <2>3, <2>5
        <5> QED BY <5>1, <5>2, <5>3 DEF full
      <4>3. \A i \in 1..Len(b) : b[i] \in {Empty}
        BY <4>2
      <4> QED BY <4>3, SeqOfValues
    <3>5. Segments(d) = Append(Segments(a), x) /\ Segments(a) \in Seq(Full(S)) /\ x \in Full(S)
      BY <3>1, SegmentsOfAppend, SegmentsFacts, Zenon DEF Full
    <3> DEFINE n == Append(Segments(a), x)
    <3>6. n \in Seq(Full(S)) /\ n # <<>> /\ Last(n) = x
      <4> DEFINE m == Segments(a)
      <4>1. m \in Seq(Full(S))
        BY <3>5
      <4> HIDE DEF m
      <4> QED BY <3>5, <4>1, AppendProperties, F!FrontAndLast, SMTT(30) DEF m, Last, F!Last
    <3>7. Segments(p) = n \o Segments(b) /\ Segments(b) = <<>>
      BY <3>3, <3>4, <3>5, SegmentsOfConcat, SegmentsOfSlashes, Zenon
    <3> HIDE DEF n
    <3>8. Segments(p) = n
      BY <3>6, <3>7, ConcatEmptySeq
    <3> QED BY <3>6, <3>8 DEF x
  <2>10. first \in 1..Len(p) /\ last \in first..Len(p)
    BY <1>1, <2>5
  <2> QED BY <2>4, <2>8, <2>9, <2>10, Zenon DEF s
<1> QED BY <1>2, <1>3

\* The middle of three parts.
LEMMA MiddleOfConcat ==
  ASSUME NEW S, NEW a \in Seq(S), NEW m \in Seq(S), NEW b \in Seq(S)
  PROVE  SubSeq((a \o m) \o b, Len(a) + 1, Len(a) + Len(m)) = m
<1> DEFINE am == a \o m
           p == am \o b
           f == Len(a) + 1
           l == Len(a) + Len(m)
           s == SubSeq(p, f, l)
<1>1. /\ Len(a) \in Nat /\ Len(m) \in Nat /\ Len(b) \in Nat
      /\ am \in Seq(S) /\ Len(am) = Len(a) + Len(m)
      /\ \A i \in 1..Len(a) + Len(m) : am[i] = IF i <= Len(a) THEN a[i] ELSE m[i - Len(a)]
  BY LenProperties, ConcatProperties
<1> HIDE DEF am
<1>10. am \in Seq(S)
  BY <1>1
<1>2. /\ p \in Seq(S) /\ Len(p) = Len(am) + Len(b)
      /\ \A i \in 1..Len(am) + Len(b) : p[i] = IF i <= Len(am) THEN am[i] ELSE b[i - Len(am)]
  BY <1>10, ConcatProperties
<1> HIDE DEF p
<1>3. \A i \in f..l : p[i] \in S
  <2>1. \A i \in f..l : i \in 1..Len(p)
    BY <1>1, <1>2
  <2> QED BY <1>2, <2>1, ElementOfSeq
<1>4. f \in Int /\ l \in Int /\ l - f + 1 = Len(m)
  BY <1>1
<1>5. s \in Seq(S) /\ Len(s) = Len(m) /\ \A i \in 1..Len(m) : s[i] = p[f + i - 1]
  <2> HIDE DEF f, l
  <2>1. /\ s \in Seq(S) /\ Len(s) = IF f <= l THEN l - f + 1 ELSE 0
        /\ \A i \in 1..l - f + 1 : s[i] = p[f + i - 1]
    BY <1>3, <1>4, SubSeqProperties
  <2> HIDE DEF s
  <2> QED BY <1>1, <1>4, <2>1
<1>6. ASSUME NEW i \in 1..Len(m) PROVE p[f + i - 1] = m[i]
  <2> DEFINE j == f + i - 1
  <2>1. /\ j \in 1..Len(am) + Len(b) /\ j <= Len(am) /\ j \in 1..Len(a) + Len(m)
        /\ ~(j <= Len(a)) /\ j - Len(a) = i
    BY <1>1
  <2> HIDE DEF j
  <2>2. p[j] = am[j]
    BY <1>2, <2>1
  <2>3. am[j] = m[j - Len(a)]
    BY <1>1, <2>1
  <2> QED BY <2>1, <2>2, <2>3 DEF j
<1> HIDE DEF s, f
<1>7. s = m
  BY <1>5, <1>6, SeqEqual
<1> QED BY <1>7 DEF s, f, p, am

\* A path with a part m has this part around it.
IsPart(p, a, m, b) == p = (a \o m) \o b

\* What is around a part of a path.
LEMMA PartOf ==
  ASSUME NEW S, NEW p \in Seq(S), NEW i \in 1..Len(p), NEW j \in i..Len(p)
  PROVE  \E a, b \in Seq(S) : IsPart(p, a, SubSeq(p, i, j), b) /\ SubSeq(p, i, j) \in Seq(S)
<1> DEFINE m == SubSeq(p, i, j)
           n == j - i + 1
           h == i - 1
<1>1. Len(p) \in Nat /\ i \in Nat /\ j \in Nat /\ 1 <= i /\ i <= j /\ j <= Len(p)
  <2>1. Len(p) \in Nat
    BY LenProperties
  <2> QED BY <2>1
<1>2. PICK d \in Seq(S), b \in Seq(S) : IsSplit(p, j, d, b)
  <2>1. j \in 0..Len(p)
    BY <1>1
  <2> QED BY <2>1, SplitAt
<1>3. p = d \o b /\ Len(d) = j
  BY <1>2 DEF IsSplit
<1>4. PICK a \in Seq(S), t \in Seq(S) : IsSplit(d, h, a, t)
  <2>1. h \in 0..Len(d)
    BY <1>1, <1>3
  <2> HIDE DEF h
  <2> QED BY <2>1, SplitAt
<1>5. d = a \o t /\ Len(a) = i - 1 /\ Len(t) = j - (i - 1)
  BY <1>3, <1>4 DEF IsSplit
<1>6. Len(a) + 1 = i /\ Len(a) + Len(t) = j
  BY <1>1, <1>5
<1>7. SubSeq((a \o t) \o b, Len(a) + 1, Len(a) + Len(t)) = t
  BY MiddleOfConcat, Zenon
<1>8. SubSeq(p, i, j) = t
  BY <1>3, <1>5, <1>6, <1>7, Zenon
<1> QED BY <1>3, <1>5, <1>8, Zenon DEF IsPart

\* A part of a path that is a date.
DatePart(S, m) ==
  m \in Seq(Full(S)) /\ m # <<>> /\ IsDate(FlattenSeq(m))

\* A date is a part of the path.
LEMMA DateOfParts ==
  ASSUME NEW S, NEW p \in Seq(S)
  PROVE  HasDate(p) <=> \E m : DatePart(S, m) /\ \E a, b \in Seq(S) : IsPart(p, a, m, b)
<1>1. ASSUME HasDate(p)
      PROVE  \E m : DatePart(S, m) /\ \E a, b \in Seq(S) : IsPart(p, a, m, b)
  <2>1. PICK i \in 1..Len(p) : \E j \in i..Len(p) :
          (\A k \in i..j : p[k] # Empty) /\ IsDate(FlattenSeq(SubSeq(p, i, j)))
    BY <1>1 DEF HasDate
  <2>2. PICK j \in i..Len(p) :
          (\A k \in i..j : p[k] # Empty) /\ IsDate(FlattenSeq(SubSeq(p, i, j)))
    BY <2>1
  <2> DEFINE m == SubSeq(p, i, j)
  <2>3. m \in Seq(S) /\ \E a, b \in Seq(S) : IsPart(p, a, m, b)
    BY PartOf
  <2>4. Len(p) \in Nat /\ i \in Int /\ j \in Int /\ 1 <= i /\ i <= j /\ j <= Len(p)
    <3>1. Len(p) \in Nat
      BY LenProperties
    <3> QED BY <3>1
  <2>5. m \in Seq(Full(S)) /\ Len(m) = j - i + 1
    <3>1. \A k \in i..j : p[k] \in Full(S)
      <4>1. \A k \in i..j : k \in 1..Len(p)
        BY <2>4
      <4> QED BY <2>2, <4>1, ElementOfSeq DEF Full
    <3>2. m \in Seq(Full(S)) /\ Len(m) = IF i <= j THEN j - i + 1 ELSE 0
      BY <2>4, <3>1, SubSeqProperties
    <3> HIDE DEF m
    <3> QED BY <2>4, <3>2
  <2>6. m # <<>>
    <3> HIDE DEF m
    <3> QED BY <2>4, <2>5, EmptySeq
  <2> QED BY <2>2, <2>3, <2>5, <2>6, Zenon DEF DatePart
<1>2. ASSUME NEW m, DatePart(S, m), NEW a \in Seq(S), NEW b \in Seq(S), IsPart(p, a, m, b)
      PROVE  HasDate(p)
  <2> DEFINE i == Len(a) + 1
             j == Len(a) + Len(m)
  <2>1. m \in Seq(Full(S)) /\ m \in Seq(S) /\ m # <<>> /\ IsDate(FlattenSeq(m))
    <3>1. Full(S) \subseteq S
      BY DEF Full
    <3> QED BY <1>2, <3>1, SeqMonotonic DEF DatePart
  <2>2. /\ Len(a) \in Nat /\ Len(m) \in Nat \ {0} /\ Len(b) \in Nat
        /\ a \o m \in Seq(S) /\ Len(a \o m) = Len(a) + Len(m)
        /\ p = (a \o m) \o b
    BY <1>2, <2>1, LenProperties, EmptySeq, ConcatProperties DEF IsPart
  <2>3. Len(p) = Len(a) + Len(m) + Len(b)
    <3>1. Len(p) = Len(a \o m) + Len(b)
      BY <2>2, ConcatProperties
    <3> QED BY <2>2, <3>1
  <2>4. i \in 1..Len(p) /\ j \in i..Len(p)
    BY <2>2, <2>3
  <2>5. SubSeq(p, i, j) = m
    BY <2>1, <2>2, MiddleOfConcat
  <2>6. ASSUME NEW k \in i..j PROVE p[k] # Empty
    <3> DEFINE n == k - i + 1
    <3>1. /\ i \in Int /\ j \in Int /\ n \in 1..j - i + 1 /\ i + n - 1 = k
          /\ j - i + 1 = Len(m)
      BY <2>2
    <3> HIDE DEF i, j, n
    <3>2. \A x \in i..j : p[x] \in S
      <4>1. \A x \in i..j : x \in 1..Len(p)
        BY <2>2, <2>3, <2>4 DEF i, j
      <4> QED BY <4>1, ElementOfSeq
    <3>3. \A x \in 1..j - i + 1 : SubSeq(p, i, j)[x] = p[i + x - 1]
      BY <3>1, <3>2, SubSeqProperties
    <3>4. m[n] = p[k]
      BY <2>5, <3>1, <3>3, Zenon
    <3>5. m[n] \in Full(S)
      BY <2>1, <3>1, ElementOfSeq
    <3> QED BY <3>4, <3>5 DEF Full
  <2> HIDE DEF i, j
  <2> QED BY <2>1, <2>4, <2>5, <2>6, Zenon DEF HasDate
<1> QED BY <1>1, <1>2

\* The canonical path has the segments of an undotted path between slashes.
LEMMA CanonicalOfUndotted ==
  ASSUME NEW S, NEW p \in Seq(Undotted(S)), Segments(p) # <<>>
  PROVE  \E l, t \in Seq({Empty}) : IsPart(CanonicalPath(p), l, Segments(p), t)
<1> DEFINE n == Segments(p)
           r == IF TwoSlashes(p) THEN <<Empty>> ELSE <<>>
           T == S \cup {Empty}
<1>1. n \in Seq(T) /\ Names(p) = n
  <2>1. n \in Seq(Full(Undotted(S)))
    BY SegmentsFacts
  <2>2. Full(Undotted(S)) \subseteq T
    BY DEF Full, Undotted
  <2> HIDE DEF n, T
  <2>3. n \in Seq(T)
    BY <2>1, <2>2, SeqMonotonic
  <2> QED BY <2>3, NamesOfUndotted DEF n
<1>2. r \in Seq({Empty}) /\ r \in Seq(T)
  <2>1. Empty \in T /\ Empty \in {Empty}
    OBVIOUS
  <2> HIDE DEF T
  <2>2. <<>> \in Seq({Empty}) /\ <<>> \in Seq(T)
    BY EmptySeq
  <2>3. <<Empty>> \in Seq({Empty}) /\ <<Empty>> \in Seq(T)
    BY <2>1
  <2> QED BY <2>2, <2>3, Zenon
<1>3. Resolved(p) = r \o n
  BY <1>1 DEF Resolved
<1> HIDE DEF n, r, T
<1>4. r \o n \in Seq(T) /\ Empty \in T
  BY <1>1, <1>2, ConcatProperties DEF T
<1>5. CanonicalPath(p) \in {r \o n, Append(r \o n, Empty)}
  BY <1>3 DEF CanonicalPath
<1>6. (r \o n) \o <<>> = r \o n /\ (r \o n) \o <<Empty>> = Append(r \o n, Empty)
  BY <1>4, ConcatEmptySeq, AppendIsConcat
<1>7. <<>> \in Seq({Empty}) /\ <<Empty>> \in Seq({Empty})
  OBVIOUS
<1>8. \E t \in Seq({Empty}) : CanonicalPath(p) = (r \o n) \o t
  BY <1>5, <1>6, <1>7, Zenon
<1> QED BY <1>2, <1>8, Zenon DEF IsPart, n

IsRegrouped(x, y, z) == (x \o y) \o z = x \o (y \o z)

\* Concatenation is associative.
LEMMA Regroup ==
  ASSUME NEW S, NEW x \in Seq(S), NEW y \in Seq(S), NEW z \in Seq(S)
  PROVE  IsRegrouped(x, y, z)
BY ConcatAssociative DEF IsRegrouped

\* A part of a part is a part.
LEMMA PartOfPart ==
  ASSUME NEW S, NEW c, NEW n, NEW l \in Seq(S), NEW t \in Seq(S),
         NEW a \in Seq(S), NEW m \in Seq(S), NEW b \in Seq(S), IsPart(c, l, n, t), IsPart(n, a, m, b)
  PROVE  IsPart(c, l \o a, m, b \o t)
<1> DEFINE am == a \o m
           lam == l \o am
<1>1. am \in Seq(S)
  BY ConcatProperties
<1>2. IsRegrouped(l, a, m)
  BY Regroup, Zenon
<1> HIDE DEF am
<1>3. lam \in Seq(S)
  BY <1>1, ConcatProperties
<1>4. IsRegrouped(l, am, b)
  BY <1>1, Regroup, Zenon
<1> HIDE DEF lam
<1>5. IsRegrouped(lam, b, t)
  BY <1>3, Regroup, Zenon
<1>6. (l \o a) \o m = lam /\ l \o (am \o b) = lam \o b /\ (lam \o b) \o t = lam \o (b \o t)
  BY <1>2, <1>4, <1>5 DEF IsRegrouped, am, lam
<1>7. c = (l \o (am \o b)) \o t
  BY DEF IsPart, am
<1> QED BY <1>6, <1>7, Zenon DEF IsPart

\* The names the filter looks for are not empty.
LEMMA EmptyIsNoName == Empty \notin ExcludedSegments \cup HintSegments
<1>1. \A w : Word(w) # Empty
  BY OneWord DEF Empty
<1>2. <<"live", "tv">> # Empty /\ <<"web", "stories">> # Empty
  BY DEF Empty
<1> QED BY <1>1, <1>2 DEF ExcludedSegments, HintSegments

\* Names between slashes are what is left when those are stripped.
LEMMA StrippedOfNames ==
  ASSUME NEW S, NEW l \in Seq({Empty}), NEW n \in Seq(Full(S)), n # <<>>, NEW t \in Seq({Empty}),
         NEW c, IsPart(c, l, n, t)
  PROVE  Stripped(c) = n
<1> DEFINE T == S \cup {Empty}
           i == Len(l) + 1
           j == Len(l) + Len(n)
           full == {k \in 1..Len(c) : c[k] # Empty}
           ln == l \o n
<1>1. l \in Seq(T) /\ n \in Seq(T) /\ t \in Seq(T)
  <2>1. {Empty} \subseteq T /\ Full(S) \subseteq T
    BY DEF Full
  <2> HIDE DEF T
  <2> QED BY <2>1, SeqMonotonic
<1> HIDE DEF T
<1>2. Len(l) \in Nat /\ Len(n) \in Nat \ {0} /\ Len(t) \in Nat
  BY <1>1, EmptySeq, LenProperties
<1>3. /\ ln \in Seq(T) /\ Len(ln) = Len(l) + Len(n)
      /\ \A k \in 1..Len(l) + Len(n) : ln[k] = IF k <= Len(l) THEN l[k] ELSE n[k - Len(l)]
  BY <1>1, ConcatProperties
<1> HIDE DEF ln
<1>4. c = ln \o t /\ ln \in Seq(T)
  BY <1>3 DEF IsPart, ln
<1>5. /\ Len(c) = Len(ln) + Len(t)
      /\ \A k \in 1..Len(ln) + Len(t) : c[k] = IF k <= Len(ln) THEN ln[k] ELSE t[k - Len(ln)]
  BY <1>1, <1>4, ConcatProperties
<1>6. ASSUME NEW k \in 1..Len(c) PROVE c[k] # Empty <=> k \in i..j
  <2>1. k \in Int /\ 1 <= k /\ k <= Len(l) + Len(n) + Len(t) /\ k \in 1..Len(ln) + Len(t)
    BY <1>2, <1>3, <1>5
  <2>2. CASE k <= Len(l)
    <3>1. k \in 1..Len(l) /\ k <= Len(ln) /\ k \in 1..Len(l) + Len(n) /\ k \notin i..j
      BY <1>2, <1>3, <2>1, <2>2
    <3>2. c[k] = ln[k]
      BY <1>5, <2>1, <3>1
    <3>3. ln[k] = l[k]
      BY <1>3, <2>2, <3>1
    <3>4. l[k] \in {Empty}
      BY <3>1, ElementOfSeq
    <3> QED BY <3>1, <3>2, <3>3, <3>4
  <2>3. CASE k > Len(l) /\ k <= Len(ln)
    <3> DEFINE h == k - Len(l)
    <3>1. h \in 1..Len(n) /\ k \in 1..Len(l) + Len(n) /\ k \in i..j /\ ~(k <= Len(l))
      BY <1>2, <1>3, <2>1, <2>3
    <3>2. c[k] = ln[k]
      BY <1>5, <2>1, <2>3
    <3>3. ln[k] = n[h]
      BY <1>3, <3>1
    <3> HIDE DEF h
    <3>4. n[h] \in Full(S)
      BY <3>1, ElementOfSeq
    <3> QED BY <3>1, <3>2, <3>3, <3>4 DEF Full
  <2>4. CASE k > Len(ln)
    <3> DEFINE h == k - Len(ln)
    <3>1. h \in 1..Len(t) /\ k \notin i..j /\ ~(k <= Len(ln))
      BY <1>2, <1>3, <2>1, <2>4
    <3>2. c[k] = t[h]
      BY <1>5, <2>1, <3>1
    <3> HIDE DEF h
    <3>3. t[h] \in {Empty}
      BY <3>1, ElementOfSeq
    <3> QED BY <3>1, <3>2, <3>3
  <2> QED BY <1>2, <1>3, <2>1, <2>2, <2>3, <2>4
<1>7. /\ i \in Int /\ j \in Int /\ i \in i..j /\ j \in i..j /\ i..j \subseteq 1..Len(c)
      /\ \A x \in i..j : i <= x /\ x <= j
  BY <1>2, <1>3, <1>5
<1>8. full = i..j
  <2> HIDE DEF i, j
  <2> QED BY <1>6, <1>7
<1>9. SubSeq(c, i, j) = n
  BY <1>1, <1>4, MiddleOfConcat DEF ln
<1> HIDE DEF i, j, full
<1>10. full # {} /\ i \in full /\ j \in full /\ \A x \in full : i <= x /\ x <= j
  BY <1>7, <1>8, Zenon
<1>11. \A x, y \in full : x \in Int /\ y \in Int /\ (x <= y /\ y <= x => x = y)
  BY <1>7, <1>8
<1>12. (CHOOSE x \in full : \A y \in full : x <= y) = i
  BY <1>10, <1>11
<1>13. (CHOOSE x \in full : \A y \in full : y <= x) = j
  BY <1>10, <1>11
<1> QED BY <1>9, <1>10, <1>12, <1>13, Zenon DEF Stripped, full

\* The segments that are not empty, in terms of a part.
LEMMA SegmentsOfParts ==
  ASSUME NEW S, NEW p, NEW a \in Seq(S), NEW m \in Seq(S), NEW b \in Seq(S), IsPart(p, a, m, b)
  PROVE  IsPart(Segments(p), Segments(a), Segments(m), Segments(b))
<1>1. p = (a \o m) \o b /\ a \o m \in Seq(S)
  BY ConcatProperties DEF IsPart
<1>2. Segments(p) = Segments(a \o m) \o Segments(b)
  BY <1>1, SegmentsOfConcat, Zenon
<1>3. Segments(a \o m) = Segments(a) \o Segments(m)
  BY SegmentsOfConcat
<1> QED BY <1>2, <1>3 DEF IsPart

\* The segments of a path are segments of it.
LEMMA FullSegments ==
  ASSUME NEW S, NEW p \in Seq(S)
  PROVE  Segments(p) \in Seq(S) /\ Segments(p) \in Seq(Full(S))
<1> DEFINE n == Segments(p)
<1>1. n \in Seq(Full(S)) /\ Full(S) \subseteq S
  BY SegmentsFacts DEF Full
<1> HIDE DEF n
<1>2. n \in Seq(S)
  BY <1>1, SeqMonotonic
<1> QED BY <1>1, <1>2 DEF n

\* A date in a part of a path is in the segments of the path.
LEMMA DateKept ==
  ASSUME NEW S, NEW p \in Seq(S), NEW x \in Seq(S), NEW s \in Seq(S), NEW y \in Seq(S),
         IsPart(p, x, s, y), HasDate(s)
  PROVE  HasDate(Segments(p))
<1>1. PICK m : DatePart(S, m) /\ \E a, b \in Seq(S) : IsPart(s, a, m, b)
  BY DateOfParts
<1>2. PICK a \in Seq(S), b \in Seq(S) : IsPart(s, a, m, b)
  BY <1>1
<1>3. m \in Seq(Full(S)) /\ m \in Seq(S)
  <2>1. Full(S) \subseteq S
    BY DEF Full
  <2> QED BY <1>1, <2>1, SeqMonotonic DEF DatePart
<1> DEFINE xa == x \o a
           by == b \o y
<1>4. IsPart(p, xa, m, by) /\ xa \in Seq(S) /\ by \in Seq(S)
  BY <1>2, <1>3, PartOfPart, ConcatProperties
<1> HIDE DEF xa, by
<1>5. IsPart(Segments(p), Segments(xa), m, Segments(by))
  <2>1. Segments(m) = m
    BY <1>3, SegmentsOfFull
  <2> QED BY <1>3, <1>4, <2>1, SegmentsOfParts
<1>6. Segments(xa) \in Seq(S) /\ Segments(by) \in Seq(S) /\ Segments(p) \in Seq(S)
  BY <1>4, FullSegments, Zenon
<1>7. \E u, v \in Seq(S) : IsPart(Segments(p), u, m, v)
  BY <1>5, <1>6
<1> QED BY <1>1, <1>6, <1>7, DateOfParts, Zenon

\* A hint in a part of a path is one of the segments of the path.
LEMMA HintKept ==
  ASSUME NEW S, NEW p \in Seq(S), NEW x \in Seq(S), NEW s \in Seq(S), NEW y \in Seq(S),
         IsPart(p, x, s, y), HasHint(s)
  PROVE  HasHint(Segments(p))
<1> DEFINE n == Segments(p)
           m == Segments(s)
           a == Segments(x)
           b == Segments(y)
<1>1. /\ n \in Seq(S) /\ n \in Seq(Full(S)) /\ m \in Seq(S) /\ a \in Seq(S) /\ b \in Seq(S)
      /\ Segments(n) = n
  BY FullSegments, SegmentsOfFull, Zenon
<1>2. Range(m) = Range(s) \ {Empty}
  BY RangeOfSegments
<1>3. n = (a \o m) \o b
  <2>1. IsPart(n, a, m, b)
    BY SegmentsOfParts
  <2> HIDE DEF n, a, m, b
  <2> QED BY <2>1 DEF IsPart
<1>4. Len(m) >= 2 /\ Range(s) \cap HintSegments # {}
  BY DEF HasHint
<1> HIDE DEF n, m, a, b
<1> DEFINE am == a \o m
<1>5. am \in Seq(S) /\ Len(am) = Len(a) + Len(m) /\ Range(am) = Range(a) \cup Range(m)
  BY <1>1, ConcatProperties, RangeConcatenation
<1>6. Len(a) \in Nat /\ Len(m) \in Nat /\ Len(b) \in Nat
  BY <1>1, LenProperties
<1> HIDE DEF am
<1>7. Len(am \o b) = Len(am) + Len(b) /\ Range(am \o b) = Range(am) \cup Range(b)
  <2>1. Len(am \o b) = Len(am) + Len(b)
    BY <1>1, <1>5, ConcatProperties, Zenon
  <2>2. Range(am \o b) = Range(am) \cup Range(b)
    BY <1>1, <1>5, RangeConcatenation
  <2> QED BY <2>1, <2>2
<1>8. n = am \o b
  BY <1>3 DEF am
<1>9. Len(n) >= 2 /\ Range(m) \subseteq Range(n)
  BY <1>4, <1>5, <1>6, <1>7, <1>8
<1>10. Range(n) \cap HintSegments # {}
  BY <1>2, <1>4, <1>9, EmptyIsNoName
<1>11. HasHint(n)
  BY <1>1, <1>9, <1>10 DEF HasHint
<1> QED BY <1>11 DEF n

\* The filter judges the canonical URL no more harshly.
THEOREM CanonicalIsAdmitted ==
  ASSUME NEW hosts, NEW S, NEW u \in Urls(hosts, Undotted(S)), LooksLikeArticle(u)
  PROVE  ~HasExcludedSegment(Fingerprint(u).path) /\ LooksLikeArticle(Fingerprint(u))
<1> DEFINE p == u.path
           c == CanonicalPath(p)
           s == Stripped(p)
           n == Segments(p)
           R == Undotted(S)
           T == S \cup {Empty}
<1>1. p \in Seq(R) /\ Fingerprint(u).path = c
  BY DEF Urls, Fingerprint, Canonical
<1>2. /\ s # <<>> /\ Last(Last(s)) \notin Files /\ ~HasExcludedSegment(p)
      /\ IsSlug(Last(s)) \/ HasDate(s) \/ HasHint(s)
  BY DEF LooksLikeArticle
<1>3. /\ n # <<>> /\ Last(s) = Last(n)
      /\ \E i \in 1..Len(p) : \E j \in i..Len(p) : s = SubSeq(p, i, j)
  <2> HIDE DEF p
  <2> QED BY <1>1, <1>2, StrippedFacts
<1>4. n \in Seq(Full(R)) /\ Range(n) = Range(p) \ {Empty}
  BY <1>1, FullSegments, RangeOfSegments
<1>5. PICK l \in Seq({Empty}), t \in Seq({Empty}) : IsPart(c, l, n, t)
  <2> HIDE DEF p
  <2> QED BY <1>1, <1>3, CanonicalOfUndotted, Zenon
<1>6. PICK x \in Seq(R), y \in Seq(R) : IsPart(p, x, s, y) /\ s \in Seq(R)
  <2> HIDE DEF p, s, R
  <2> QED BY <1>1, <1>3, PartOf
<1> HIDE DEF p, c, s, n
<1>7. Stripped(c) = n
  <2> HIDE DEF R
  <2> QED BY <1>3, <1>4, <1>5, StrippedOfNames, Zenon
<1>8. IsSlug(Last(n)) \/ HasDate(n) \/ HasHint(n)
  <2>1. HasDate(s) => HasDate(n)
    <3> HIDE DEF R
    <3> QED BY <1>1, <1>6, DateKept DEF n
  <2>2. HasHint(s) => HasHint(n)
    <3> HIDE DEF R
    <3> QED BY <1>1, <1>6, HintKept DEF n
  <2> QED BY <1>2, <1>3, <2>1, <2>2
<1>9. ~HasExcludedSegment(c)
  <2>1. {Empty} \subseteq T /\ Full(R) \subseteq T
    BY DEF Full, Undotted
  <2> HIDE DEF R, T
  <2>2. l \in Seq(T) /\ n \in Seq(T) /\ t \in Seq(T)
    BY <1>4, <2>1, SeqMonotonic
  <2>3. Range(l) \in SUBSET {Empty} /\ Range(t) \in SUBSET {Empty}
    BY RangeOfSeq
  <2> DEFINE ln == l \o n
  <2>4. ln \in Seq(T) /\ Range(ln) = Range(l) \cup Range(n)
    BY <2>2, ConcatProperties, RangeConcatenation
  <2> HIDE DEF ln
  <2>5. Range(ln \o t) = Range(ln) \cup Range(t)
    BY <2>2, <2>4, RangeConcatenation
  <2>6. Range(c) \subseteq Range(p) \cup {Empty}
    BY <1>4, <1>5, <2>3, <2>4, <2>5 DEF IsPart, ln
  <2> QED BY <1>2, <2>6, EmptyIsNoName DEF HasExcludedSegment
<1> DEFINE f == Fingerprint(u)
<1>10. f.path = c
  BY <1>1
<1> HIDE DEF f
<1>11. LooksLikeArticle(f)
  BY <1>2, <1>3, <1>7, <1>8, <1>9, <1>10 DEF LooksLikeArticle
<1> QED BY <1>9, <1>10, <1>11 DEF f

-----------------------------------------------------------------------------
(* The specification *)

\* The segments of the spellings.
SpellingSegments == Added \cup {Word("a"), Word("b")}

\* What BoundedSeq enumerates are sequences.
LEMMA BoundedSequences ==
  ASSUME NEW S, NEW n \in Nat
  PROVE  BoundedSeq(S, n) \subseteq Seq(S)
<1> SUFFICES ASSUME NEW s \in BoundedSeq(S, n) PROVE s \in Seq(S)
  OBVIOUS
<1>1. PICK m \in 0..n : s \in [1..m -> S]
  BY DEF BoundedSeq, SeqOf
<1> QED BY <1>1, SeqDef

\* Those of the URLs that canonicalize_url takes.
Taken(hosts, S) == {u \in Urls(hosts, S) : ~NotCanonical(u)}

\* What the run enumerates are URLs, and canonicalize_url takes them.
LEMMA AddressIsTaken ==
  ASSUME NEW S, NEW s \in {"http", "https"}, NEW f \in HostForms, f \notin {"bare", "unencodable"},
         NEW n \in Nat, n <= MaxPort, NEW p \in Seq(S)
  PROVE  Address(s, f, n, p) \in Taken({"site"}, S)
<1> DEFINE v == Address(s, f, n, p)
<1>1. <<>> \in Seq(Parameters)
  BY EmptySeq
<1>2. v = [scheme |-> s, host |-> "site", form |-> f, port |-> n, path |-> p,
           query |-> <<>>, fragment |-> FALSE]
  BY DEF Address
<1> HIDE DEF v
<1>3. v \in Urls({"site"}, S)
  BY <1>1, <1>2 DEF Urls
<1>4. v.scheme = s /\ v.host = "site" /\ v.form = f /\ v.port = n
  BY <1>2
<1>5. ~(n > MaxPort) /\ "site" # "" /\ f \notin {"bare", "unencodable"}
  BY DEF MaxPort
<1>6. ~NotCanonical(v)
  BY <1>4, <1>5 DEF NotCanonical
<1> QED BY <1>3, <1>6 DEF Taken, v

\* Another query is no reason to refuse a URL.
LEMMA QueryIsTaken ==
  ASSUME NEW S, NEW u \in Taken({"site"}, S), NEW q \in Queries
  PROVE  [u EXCEPT !.query = q] \in Taken({"site"}, S)
<1> DEFINE E == {Param(1, FALSE, 1), Param(1, TRUE, 1), Param(1, FALSE, 2), Param(2, FALSE, 1),
                 Param(3, FALSE, 1)}
<1>1. E \subseteq Parameters
  BY DEF Param, Parameters
<1>2. q \in Seq(Parameters)
  <2>1. q \in BoundedSeq(E, 3)
    BY DEF Queries
  <2> HIDE DEF E
  <2>2. q \in Seq(E)
    BY <2>1, BoundedSequences
  <2> QED BY <1>1, <2>2, SeqMonotonic
<1> DEFINE v == [u EXCEPT !.query = q]
<1>3. u \in Urls({"site"}, S) /\ ~NotCanonical(u)
  BY DEF Taken
<1>4. v \in Urls({"site"}, S)
  BY <1>2, <1>3, Zenon DEF Urls
<1>5. v.scheme = u.scheme /\ v.host = u.host /\ v.form = u.form /\ v.port = u.port
  BY <1>3 DEF Urls
<1> HIDE DEF v
<1>6. ~NotCanonical(v)
  BY <1>3, <1>5 DEF NotCanonical
<1> QED BY <1>4, <1>6 DEF Taken, v

\* The bounded inputs are URLs, and Next leaves the study of spellings alone.
SpellingUrls == Taken({"site"}, SpellingSegments)

LEMMA SpellingTypes == Spellings \subseteq SpellingUrls
<1> DEFINE paths == BoundedSeq({Empty, Dot, DotDot, Word("a"), Word("b")}, 4)
<1>1. \A p \in Seq(SpellingSegments) : Url(p) \in SpellingUrls
  <2>1. "plain" \in HostForms /\ "plain" \notin {"bare", "unencodable"}
    BY DEF HostForms, NamedForms
  <2>2. "https" \in {"http", "https"} /\ 0 \in Nat /\ 0 <= MaxPort
    BY DEF MaxPort
  <2> QED BY <2>1, <2>2, AddressIsTaken, Zenon DEF Url, SpellingUrls
<1>2. \A p \in paths : p \in Seq(SpellingSegments)
  <2>1. {Empty, Dot, DotDot, Word("a"), Word("b")} \subseteq SpellingSegments
    BY DEF SpellingSegments, Added
  <2>2. paths \subseteq Seq({Empty, Dot, DotDot, Word("a"), Word("b")})
    BY BoundedSequences
  <2> QED BY <2>1, <2>2, SeqMonotonic
<1>3. /\ <<>> \in Seq(SpellingSegments) /\ <<Word("a")>> \in Seq(SpellingSegments)
      /\ <<Empty, Word("a")>> \in Seq(SpellingSegments)
  <2>1. Empty \in SpellingSegments /\ Word("a") \in SpellingSegments
    BY DEF SpellingSegments, Added
  <2> QED BY <2>1
<1>4. ASSUME NEW s \in {"http", "https"}, NEW f \in HostForms \ {"bare", "unencodable"},
             NEW n \in Ports, NEW p \in {<<>>, <<Word("a")>>}
      PROVE  Address(s, f, n, p) \in SpellingUrls
  <2>1. n \in Nat /\ n <= MaxPort
    BY DEF Ports, MaxPort
  <2>2. p \in Seq(SpellingSegments)
    BY <1>3, Zenon
  <2>3. f \in HostForms /\ f \notin {"bare", "unencodable"}
    OBVIOUS
  <2> QED BY <2>1, <2>2, <2>3, AddressIsTaken, Zenon DEF SpellingUrls
<1>5. ASSUME NEW u \in {Url(<<>>), Url(<<Empty, Word("a")>>)}, NEW q \in Queries
      PROVE  [u EXCEPT !.query = q] \in SpellingUrls
  <2>1. u \in SpellingUrls
    BY <1>1, <1>3, Zenon
  <2> QED BY <2>1, QueryIsTaken, Zenon DEF SpellingUrls
<1> SUFFICES ASSUME NEW x \in Spellings PROVE x \in SpellingUrls
  OBVIOUS
<1> DEFINE plain == {Url(p) : p \in paths}
           hosts == {Address(s, f, n, p) :
                       s \in {"http", "https"}, f \in HostForms \ {"bare", "unencodable"},
                       n \in Ports, p \in {<<>>, <<Word("a")>>}}
           queries == {[u EXCEPT !.query = q] :
                         u \in {Url(<<>>), Url(<<Empty, Word("a")>>)}, q \in Queries}
<1>6. x \in plain \/ x \in hosts \/ x \in queries
  <2>1. Spellings = plain \cup hosts \cup queries
    BY DEF Spellings
  <2> HIDE DEF plain, hosts, queries
  <2> QED BY <2>1
<1>7. CASE x \in plain
  <2>1. PICK p \in paths : x = Url(p)
    BY <1>7
  <2> QED BY <1>1, <1>2, <2>1, Zenon
<1>8. CASE x \in hosts
  <2>1. PICK s \in {"http", "https"}, f \in HostForms \ {"bare", "unencodable"},
             n \in Ports, p \in {<<>>, <<Word("a")>>} : x = Address(s, f, n, p)
    BY <1>8
  <2> QED BY <1>4, <2>1, Zenon
<1>9. CASE x \in queries
  <2>1. PICK u \in {Url(<<>>), Url(<<Empty, Word("a")>>)}, q \in Queries :
          x = [u EXCEPT !.query = q]
    BY <1>9
  <2> QED BY <1>5, <2>1, Zenon
<1> HIDE DEF plain, hosts, queries
<1> QED BY <1>6, <1>7, <1>8, <1>9

\* Of the studies only the last goes on.
SpellingIsUrl == study = "spelling" => input \in SpellingUrls

LEMMA SpellingStays == Spec => []SpellingIsUrl
<1>1. Init => SpellingIsUrl
  BY SpellingTypes DEF Init, SpellingIsUrl
<1>2. SpellingIsUrl /\ [Next]_vars => SpellingIsUrl'
  <2> SUFFICES ASSUME SpellingIsUrl, [Next]_vars PROVE SpellingIsUrl'
    OBVIOUS
  <2>1. CASE Next
    <3>1. study' = "page"
      BY <2>1, Zenon DEF Next, OpenElement, OpenNav, CloseElement, ReadText, Consume
    <3> QED BY <3>1 DEF SpellingIsUrl
  <2>2. CASE UNCHANGED vars
    BY <2>2 DEF vars, SpellingIsUrl
  <2> QED BY <2>1, <2>2
<1> QED BY <1>1, <1>2, PTL DEF Spec

\* The canonical form is stable for every URL.
THEOREM CanonicalIsAlwaysStable ==
  ASSUME 3 \in Tracking
  PROVE  Spec => []CanonicalIsStable
<1>1. SpellingIsUrl => CanonicalIsStable
  BY RespellingsAgree, RespellingIsTaken, CanonicalOfCanonical, Zenon
  DEF SpellingIsUrl, SpellingUrls, CanonicalIsStable, Taken
<1> QED BY <1>1, SpellingStays, PTL

\* The segments of the URLs that the filter is tried on.
AdmissionSegments ==
  {Empty, Dot, DotDot, Word("news"), Word("archive"), Word("2024"), Word("1"), Slug, Word("a.xml")}

AdmissionIsUrl == study = "admission" => input \in Urls({"site"}, AdmissionSegments)

\* The bounded inputs are URLs, and Next leaves the study of admission alone.
LEMMA AdmissionTypes == AdmissionUrls \subseteq Urls({"site"}, AdmissionSegments)
<1> DEFINE U == Urls({"site"}, AdmissionSegments)
           paths == BoundedSeq(AdmissionSegments, 3)
<1>1. \A p \in Seq(AdmissionSegments) : Url(p) \in U
  <2>1. <<>> \in Seq(Parameters)
    BY EmptySeq
  <2> QED BY <2>1 DEF Url, Address, Urls, HostForms, NamedForms
<1>2. paths \subseteq Seq(AdmissionSegments)
  BY BoundedSequences
<1>3. AdmissionUrls = {Url(p) : p \in paths}
  BY DEF AdmissionUrls, AdmissionSegments
<1> HIDE DEF U, paths
<1>4. AdmissionUrls \subseteq U
  BY <1>1, <1>2, <1>3
<1> QED BY <1>4 DEF U

LEMMA AdmissionStays == Spec => []AdmissionIsUrl
<1>1. Init => AdmissionIsUrl
  BY AdmissionTypes DEF Init, AdmissionIsUrl
<1>2. AdmissionIsUrl /\ [Next]_vars => AdmissionIsUrl'
  <2> SUFFICES ASSUME AdmissionIsUrl, [Next]_vars PROVE AdmissionIsUrl'
    OBVIOUS
  <2>1. CASE Next
    <3>1. study' = "page"
      BY <2>1, Zenon DEF Next, OpenElement, OpenNav, CloseElement, ReadText, Consume
    <3> QED BY <3>1 DEF AdmissionIsUrl
  <2>2. CASE UNCHANGED vars
    BY <2>2 DEF vars, AdmissionIsUrl
  <2> QED BY <2>1, <2>2
<1> QED BY <1>1, <1>2, PTL DEF Spec

\* What a verdict says of the URL and of the dates.
LEMMA AcceptedLooksRight ==
  ASSUME NEW u, NEW published, NEW observed, NEW window, NEW requireDate,
         Verdict(u, published, observed, window, requireDate) = "accepted"
  PROVE  /\ LooksLikeArticle(u)
         /\ ~(published # NoDate /\ published > observed + FutureTolerance)
BY DEF Verdict

LEMMA VerdictOfArticle ==
  ASSUME NEW u, NEW published, NEW observed, NEW window,
         LooksLikeArticle(u), ~HasExcludedSegment(u.path),
         ~(published # NoDate /\ published > observed + FutureTolerance)
  PROVE  Verdict(u, published, observed, window, FALSE) \in {"accepted", "too_old"}
BY DEF Verdict

\* An admitted URL is rejected before its fetch for its age only.
THEOREM AlwaysRejectedOnlyForAge == Spec => []RejectedOnlyForAge
<1>1. AdmissionIsUrl => RejectedOnlyForAge
  <2> SUFFICES ASSUME AdmissionIsUrl, study = "admission", Range(input.path) \cap {Dot, DotDot} = {},
                      NEW published \in Hours \cup {NoDate}, NEW polled \in Hours,
                      NEW requireDate \in BOOLEAN,
                      Verdict(input, published, polled, Window, requireDate) = "accepted",
                      NEW worked \in {t \in Hours : t >= polled}
               PROVE  Verdict(Fingerprint(input), published, worked, Window, FALSE)
                        \in {"accepted", "too_old"}
    BY Zenon DEF RejectedOnlyForAge
  <2> DEFINE u == input
             R == Range(u.path)
             f == Fingerprint(u)
  <2>1. u \in Urls({"site"}, Undotted(R))
    <3>1. u \in Urls({"site"}, AdmissionSegments)
      BY DEF AdmissionIsUrl
    <3>2. u.path \in Seq(R)
      <4>1. u.path \in Seq(AdmissionSegments)
        BY <3>1 DEF Urls
      <4> QED BY <4>1, SeqOfRange
    <3>3. Undotted(R) = R
      BY DEF Undotted
    <3> HIDE DEF u, R
    <3> QED BY <3>1, <3>2, <3>3 DEF Urls
  <2>2. /\ LooksLikeArticle(u)
        /\ ~(published # NoDate /\ published > polled + FutureTolerance)
    BY AcceptedLooksRight
  <2> HIDE DEF u, R
  <2>3. ~HasExcludedSegment(f.path) /\ LooksLikeArticle(f)
    BY <2>1, <2>2, CanonicalIsAdmitted
  <2> HIDE DEF f
  <2>4. ~(published # NoDate /\ published > worked + FutureTolerance)
    BY <2>2 DEF Hours, FutureTolerance
  <2>5. Verdict(f, published, worked, Window, FALSE) \in {"accepted", "too_old"}
    BY <2>3, <2>4, VerdictOfArticle, Zenon
  <2> QED BY <2>5, Zenon DEF f, u
<1> QED BY <1>1, AdmissionStays, PTL

(***************************************************************************)
(* EndpointDiscovery                                                       *)
(***************************************************************************)

(* The steps of the loops. *)

AlternateStep(c, done, t) ==
  IF t.tag = "link" /\ t.type \in {"rss", "atom"} /\ t.href # NoHref
  THEN Append(done, Endpoint(t.href, "html_alternate", t.type)) ELSE done

AnchorStep(c, s, t) ==
  CASE t.tag = "a" /\ t.href # NoHref -> [s EXCEPT !.open = Append(@, t.href)]
    [] t.tag = "/a" /\ s.open # <<>> ->
         [open |-> Front(s.open), links |-> Append(s.links, Last(s.open))]
    [] OTHER -> s

OwnStep(page, done, u) ==
  IF NotCanonical(u) \/ Origin(u) # Origin(page) THEN done ELSE Append(done, u)

ListingStep(c, done, u) ==
  IF LooksLikeListing(u) /\ AsGiven(u) \notin Range(done)
  THEN Append(done, AsGiven(u)) ELSE done

UniqueStep(c, done, e) ==
  IF NotCanonical(e.url) \/ (\E d \in Range(done) : d.url = AsGiven(e.url))
  THEN done ELSE Append(done, [e EXCEPT !.url = AsGiven(@)])

AttemptStep(c, done, e) == done \o Attempt(e, c[e.url])

ChannelStep(c, done, v) ==
  IF \E d \in Range(done) : d.url = AsGiven(v.url)
  THEN done ELSE Append(done, [v EXCEPT !.url = AsGiven(@)])

FA == INSTANCE SequenceFolds WITH Step <- AlternateStep

FN == INSTANCE SequenceFolds WITH Step <- AnchorStep

FO == INSTANCE SequenceFolds WITH Step <- OwnStep

FL == INSTANCE SequenceFolds WITH Step <- ListingStep

FU == INSTANCE SequenceFolds WITH Step <- UniqueStep

FT == INSTANCE SequenceFolds WITH Step <- AttemptStep

FC == INSTANCE SequenceFolds WITH Step <- ChannelStep

\* The loops of EndpointDiscovery are folds of these steps.
LEMMA AlternatesIsFold ==
  ASSUME NEW tags
  PROVE  Alternates(tags) = FA!Fold(0, <<>>, tags)
BY DEF Alternates, FA!Fold, FoldLeft, FA!FoldLeft, MapThenFoldSet, FA!MapThenFoldSet, Max, FA!Max, AlternateStep

LEMMA AnchorsIsFold ==
  ASSUME NEW tags
  PROVE  Anchors(tags) = FN!Fold(0, [open |-> <<>>, links |-> <<>>], tags).links
BY DEF Anchors, FN!Fold, FoldLeft, FN!FoldLeft, MapThenFoldSet, FN!MapThenFoldSet, Max, FN!Max, AnchorStep

LEMMA OwnLinksIsFold ==
  ASSUME NEW tags, NEW page
  PROVE  OwnLinks(tags, page) = FO!Fold(page, <<>>, Anchors(tags))
BY DEF OwnLinks, FO!Fold, FoldLeft, FO!FoldLeft, MapThenFoldSet, FO!MapThenFoldSet, Max, FO!Max, OwnStep

LEMMA ListingsIsFold ==
  ASSUME NEW tags, NEW page
  PROVE  LET pages == FL!Fold(0, <<>>, OwnLinks(tags, page))
         IN  Listings(tags, page) =
               [i \in 1..Min({Len(pages), MaxListings}) |->
                  Endpoint(pages[i], "homepage_listing_link", "category")]
BY DEF Listings, FL!Fold, FoldLeft, FL!FoldLeft, MapThenFoldSet, FL!MapThenFoldSet, Max, FL!Max, ListingStep

LEMMA UniqueIsFold ==
  ASSUME NEW endpoints
  PROVE  Unique(endpoints) = FU!Fold(0, <<>>, endpoints)
BY DEF Unique, FU!Fold, FoldLeft, FU!FoldLeft, MapThenFoldSet, FU!MapThenFoldSet, Max, FU!Max, UniqueStep

LEMMA ValidateIsFold ==
  ASSUME NEW endpoints, NEW answers
  PROVE  ValidateEndpoints(endpoints, answers)
           = FT!Fold(answers, <<>>, endpoints)
BY DEF ValidateEndpoints, FT!Fold, FoldLeft, FT!FoldLeft, MapThenFoldSet, FT!MapThenFoldSet, Max, FT!Max, AttemptStep

LEMMA ChannelsIsFold ==
  ASSUME NEW validated
  PROVE  Channels(validated) = FC!Fold(0, <<>>, validated)
BY DEF Channels, FC!Fold, FoldLeft, FC!FoldLeft, MapThenFoldSet, FC!MapThenFoldSet, Max, FC!Max, ChannelStep

-----------------------------------------------------------------------------
\* A sequence of whatever elements.
IsSequence(s) == \E S : s \in Seq(S)

\* Lists after one another are a list.
LEMMA SequencesConcat ==
  ASSUME NEW s, NEW t, IsSequence(s), IsSequence(t)
  PROVE  IsSequence(s \o t)
<1>1. PICK S : s \in Seq(S)
  BY DEF IsSequence
<1>2. PICK T : t \in Seq(T)
  BY DEF IsSequence
<1>3. s \in Seq(S \cup T) /\ t \in Seq(S \cup T)
  BY <1>1, <1>2, SeqMonotonic
<1>4. s \o t \in Seq(S \cup T)
  BY <1>3, ConcatProperties
<1> QED BY <1>4 DEF IsSequence

\* A function on 1..n is a list.
LEMMA SequenceOfFunction ==
  ASSUME NEW n \in Nat, NEW f, DOMAIN f = 1..n, f = [i \in 1..n |-> f[i]]
  PROVE  IsSequence(f)
<1> DEFINE S == {f[i] : i \in 1..n}
<1>1. f \in [1..n -> S]
  OBVIOUS
<1>2. f \in Seq(S)
  BY <1>1, SeqDef
<1> QED BY <1>2, Zenon DEF IsSequence

\* What the loops over the home page find are lists.
LEMMA AlternatesTypes ==
  ASSUME NEW T, NEW tags \in Seq(T)
  PROVE  IsSequence(Alternates(tags))
<1> DEFINE B == {Endpoint(t.href, "html_alternate", t.type) : t \in T}
           A == Seq(B)
           a == <<>>
<1>1. a \in A
  BY EmptySeq
<1>2. FA!Closed(0, A, T)
  BY AppendProperties DEF FA!Closed, AlternateStep
<1> HIDE DEF A, a
<1>3. FA!Fold(0, a, tags) \in A
  BY <1>1, <1>2, FA!FoldType
<1> QED BY <1>3, AlternatesIsFold DEF a, A, IsSequence

\* A link is an address that some tag names.
LEMMA AnchorsTypes ==
  ASSUME NEW T, NEW tags \in Seq(T)
  PROVE  Anchors(tags) \in Seq({t.href : t \in T})
<1> DEFINE H == {t.href : t \in T}
           A == [open : Seq(H), links : Seq(H)]
           a == [open |-> <<>>, links |-> <<>>]
<1>1. a \in A
  <2>1. <<>> \in Seq(H)
    BY EmptySeq
  <2> HIDE DEF H
  <2> QED BY <2>1
<1>2. ASSUME NEW s \in A, NEW t \in T PROVE AnchorStep(0, s, t) \in A
  <2>1. \/ AnchorStep(0, s, t) = [s EXCEPT !.open = Append(@, t.href)]
        \/ /\ s.open # <<>>
           /\ AnchorStep(0, s, t) = [open |-> Front(s.open), links |-> Append(s.links, Last(s.open))]
        \/ AnchorStep(0, s, t) = s
    BY Zenon DEF AnchorStep
  <2>2. t.href \in H
    OBVIOUS
  <2> HIDE DEF H
  <2>3. Append(s.open, t.href) \in Seq(H)
    BY <2>2, AppendProperties
  <2>4. s.open # <<>> => Front(s.open) \in Seq(H) /\ Last(s.open) \in H
    <3> SUFFICES ASSUME s.open # <<>> PROVE Front(s.open) \in Seq(H) /\ Last(s.open) \in H
      OBVIOUS
    <3>1. s.open \in Seq(H)
      OBVIOUS
    <3>2. PICK u \in Seq(H), y \in H : s.open = Append(u, y)
      BY <3>1, SequenceEmptyOrAppend
    <3> QED BY <3>2, FN!FrontAndLast DEF Front, FN!Front, Last, FN!Last
  <2>5. s.open # <<>> => Append(s.links, Last(s.open)) \in Seq(H)
    <3> DEFINE x == Last(s.open)
               l == s.links
    <3>1. l \in Seq(H)
      OBVIOUS
    <3> HIDE DEF x, l
    <3>2. x \in H => Append(l, x) \in Seq(H)
      BY <3>1, AppendProperties
    <3> QED BY <2>4, <3>2 DEF x, l
  <2>6. [s EXCEPT !.open = Append(@, t.href)] \in A
    BY <2>3, Zenon
  <2> DEFINE u == [open |-> Front(s.open), links |-> Append(s.links, Last(s.open))]
  <2>7. s.open # <<>> => u \in A
    <3> DEFINE o == Front(s.open)
               l == Append(s.links, Last(s.open))
    <3> HIDE DEF o, l
    <3>1. o \in Seq(H) /\ l \in Seq(H) => [open |-> o, links |-> l] \in A
      OBVIOUS
    <3> QED BY <2>4, <2>5, <3>1 DEF o, l
  <2> HIDE DEF A, u
  <2> QED BY <2>1, <2>6, <2>7, Zenon DEF u
<1>3. FN!Closed(0, A, T)
  BY <1>2 DEF FN!Closed
<1> HIDE DEF A, a, H
<1>4. FN!Fold(0, a, tags) \in A
  BY <1>1, <1>3, FN!FoldType
<1> QED BY <1>4, AnchorsIsFold DEF a, A, H

\* The listing pages are a list.
LEMMA ListingsTypes ==
  ASSUME NEW T, NEW tags \in Seq(T), NEW page
  PROVE  IsSequence(Listings(tags, page))
<1> DEFINE H == {t.href : t \in T}
           O == Seq(H)
           A == Seq({AsGiven(u) : u \in H})
           a == <<>>
           own == OwnLinks(tags, page)
           pages == FL!Fold(0, a, own)
           n == Min({Len(pages), MaxListings})
<1>1. a \in A /\ a \in O
  BY EmptySeq
<1>2. FL!Closed(0, A, H)
  BY AppendProperties DEF FL!Closed, ListingStep
<1>3. Anchors(tags) \in Seq(H)
  BY AnchorsTypes
<1> HIDE DEF H
<1>4. FO!Closed(page, O, H)
  BY AppendProperties DEF FO!Closed, OwnStep
<1> HIDE DEF A, O, a
<1>5. FO!Fold(page, a, Anchors(tags)) \in O
  BY <1>1, <1>3, <1>4, FO!FoldType
<1>6. own \in Seq(H)
  BY <1>5, OwnLinksIsFold DEF a, O
<1> HIDE DEF own
<1>7. pages \in A
  BY <1>1, <1>2, <1>6, FL!FoldType
<1> DEFINE f == [i \in 1..n |-> Endpoint(pages[i], "homepage_listing_link", "category")]
<1>8. Listings(tags, page) = f
  BY ListingsIsFold DEF a, own
<1> HIDE DEF pages
<1>9. Len(pages) \in Nat
  BY <1>7, LenProperties DEF A
<1>10. n \in Nat
  BY <1>9, ListingsBound DEF Min
<1> HIDE DEF n
<1>11. IsSequence(f)
  BY <1>10, SequenceOfFunction
<1> QED BY <1>8, <1>11 DEF n

\* What discover_publisher needs of the things it reads: lists of tags and of addresses.
IsSite(site) == IsSequence(site.tags) /\ IsSequence(site.robots.sitemaps) /\ IsSequence(site.manual)

\* A list with every element changed is a list.
LEMMA MapsAreSequences ==
  ASSUME NEW s, IsSequence(s), NEW f, DOMAIN f = DOMAIN s, f = [i \in DOMAIN f |-> f[i]]
  PROVE  IsSequence(f)
<1>1. PICK S : s \in Seq(S)
  BY DEF IsSequence
<1>2. Len(s) \in Nat /\ DOMAIN s = 1..Len(s)
  BY <1>1, LenProperties
<1> QED BY <1>2, SequenceOfFunction

\* The candidates of a site are a list.
LEMMA CandidatesTypes ==
  ASSUME NEW site, IsSite(site)
  PROVE  IsSequence(Candidates(site))
<1>1. PICK T : site.tags \in Seq(T)
  BY DEF IsSite, IsSequence
<1> DEFINE home == <<Endpoint(site.homepage, "homepage", "homepage")>>
           alternates == Alternates(site.tags)
           listings == Listings(site.tags, site.homepage)
           robots == RobotSitemaps(site.robots)
           common == CommonEndpoints(site.homepage)
           manual == [i \in DOMAIN site.manual |-> Endpoint(site.manual[i], "manual_fallback", "none")]
<1>2. IsSequence(home)
  <2>1. home \in Seq({Endpoint(site.homepage, "homepage", "homepage")})
    OBVIOUS
  <2> QED BY <2>1, Zenon DEF IsSequence
<1>3. IsSequence(alternates) /\ IsSequence(listings)
  BY <1>1, AlternatesTypes, ListingsTypes
<1>4. IsSequence(robots)
  <2>1. IsSequence(<<>>)
    <3>1. <<>> \in Seq({})
      BY EmptySeq
    <3> QED BY <3>1 DEF IsSequence
  <2> DEFINE all == [i \in DOMAIN site.robots.sitemaps |->
                       Endpoint(site.robots.sitemaps[i], "robots_txt", "sitemap")]
  <2>2. IsSequence(all)
    BY MapsAreSequences DEF IsSite
  <2>3. robots = <<>> \/ robots = all
    BY DEF RobotSitemaps
  <2> QED BY <2>1, <2>2, <2>3
<1>5. IsSequence(common)
  <2>1. DOMAIN CommonPaths = 1..8
    BY DEF CommonPaths
  <2> DEFINE e(i) == Endpoint([site.homepage EXCEPT !.path = <<CommonPaths[i]>>, !.query = <<>>,
                                 !.form = CanonicalForm(site.homepage),
                                 !.port = CanonicalPort(site.homepage), !.fragment = FALSE],
                              "common_path", IF i <= 4 THEN "sitemap" ELSE "rss")
  <2>2. common = [i \in 1..8 |-> e(i)]
    BY <2>1 DEF CommonEndpoints
  <2> HIDE DEF e
  <2> QED BY <2>2, SequenceOfFunction, Zenon
<1>6. IsSequence(manual)
  BY MapsAreSequences DEF IsSite
<1>7. Candidates(site) = home \o alternates \o listings \o robots \o common \o manual
  BY DEF Candidates
<1> HIDE DEF home, alternates, listings, robots, common, manual
<1> QED BY <1>2, <1>3, <1>4, <1>5, <1>6, <1>7, SequencesConcat

\* Without the duplicates they still are.
LEMMA UniqueTypes ==
  ASSUME NEW s, IsSequence(s)
  PROVE  IsSequence(Unique(s))
<1>1. PICK S : s \in Seq(S)
  BY DEF IsSequence
<1> DEFINE A == Seq({[e EXCEPT !.url = AsGiven(@)] : e \in S})
           a == <<>>
<1>2. a \in A
  BY EmptySeq
<1>3. FU!Closed(0, A, S)
  BY AppendProperties DEF FU!Closed, UniqueStep
<1> HIDE DEF A, a
<1>4. FU!Fold(0, a, s) \in A
  BY <1>1, <1>2, <1>3, FU!FoldType
<1> QED BY <1>4, UniqueIsFold DEF a, A, IsSequence

-----------------------------------------------------------------------------
\* What is appended joins the elements.
LEMMA AppendRange ==
  ASSUME NEW S, NEW s \in Seq(S), NEW x \in S
  PROVE  Append(s, x) \in Seq(S) /\ Range(Append(s, x)) = Range(s) \cup {x}
<1> DEFINE o == <<x>>
<1>1. o \in Seq(S) /\ Len(o) = 1 /\ o[1] = x
  OBVIOUS
<1>2. Append(s, x) = s \o o
  BY AppendIsConcat
<1> HIDE DEF o
<1>3. Range(o) = {o[i] : i \in 1..Len(o)}
  BY <1>1, RangeEquality
<1>4. Range(o) = {x}
  BY <1>1, <1>3
<1> QED BY <1>1, <1>2, <1>4, RangeConcatenation, AppendProperties

\* A page validates nothing, or one channel at the address it was asked for.
LEMMA ValidateCases ==
  ASSUME NEW page, NEW url, NEW source, NEW hint
  PROVE  \/ Validate(page, url, source, hint) = <<>>
         \/ \E type, from, count : Validate(page, url, source, hint) = Valid(url, type, from, count)
<1> DEFINE v == Validate(page, url, source, hint)
           articles == ArticleLinks(page.tags, url)
           breaks == hint \in HtmlTypes /\ \E t \in Range(page.tags) : t.tag = "a" /\ Breaks(t)
           isHtml == hint \in HtmlTypes /\ articles # <<>>
           isFeed == page.root \in FeedRoots /\ page.items > 0
           isMap == page.root \in SitemapRoots /\ page.items > 0
           html == Valid(url, hint, source, Len(articles))
           feed == Valid(url, IF page.root = "feed" THEN "atom" ELSE "rss", source, page.items)
           map == Valid(url, "sitemap", source, page.items)
<1>1. v = IF breaks THEN <<>> ELSE IF isHtml THEN html ELSE IF isFeed THEN feed
           ELSE IF isMap THEN map ELSE <<>>
  BY DEF Validate
<1>2. (\E type, from, count : html = Valid(url, type, from, count))
      /\ (\E type, from, count : feed = Valid(url, type, from, count))
      /\ (\E type, from, count : map = Valid(url, type, from, count))
  OBVIOUS
<1> HIDE DEF v, breaks, isHtml, isFeed, isMap, html, feed, map
<1>3. v \in {<<>>, html, feed, map}
  BY <1>1
<1> QED BY <1>2, <1>3 DEF v

\* What one attempt validates: nothing, or one channel at the address that answered.
LEMMA AttemptCases ==
  ASSUME NEW e, NEW answer
  PROVE  /\ answer.status # "ok" => Attempt(e, answer) = <<>>
         /\ Attempt(e, answer) # <<>> =>
              \E type, source, count : Attempt(e, answer) = Valid(answer.final, type, source, count)
<1>1. CASE answer.status # "ok"
  BY <1>1 DEF Attempt
<1>2. CASE answer.status = "ok"
  <2> DEFINE v == Validate(answer.page, answer.final, e.source, e.hint)
  <2>1. v = <<>> \/ \E type, source, count : v = Valid(answer.final, type, source, count)
    BY ValidateCases
  <2> QED BY <1>2, <2>1 DEF Attempt
<1> QED BY <1>1, <1>2

\* What an attempt validates has the address that answered.
LEMMA AttemptTypes ==
  ASSUME NEW e, NEW answer
  PROVE  /\ Attempt(e, answer) \in Seq(Range(Attempt(e, answer)))
         /\ \A v \in Range(Attempt(e, answer)) : v.url = answer.final /\ "url" \in DOMAIN v
<1> DEFINE a == Attempt(e, answer)
<1>1. CASE a = <<>>
  <2>1. Range(<<>>) = {} /\ <<>> \in Seq({})
    BY EmptySeq DEF Range
  <2> QED BY <1>1, <2>1
<1>2. CASE a # <<>>
  <2>1. PICK type, source, count : a = Valid(answer.final, type, source, count)
    BY <1>2, AttemptCases
  <2> DEFINE r == [url |-> answer.final, type |-> type, source |-> source, count |-> count]
  <2>2. r.url = answer.final /\ "url" \in DOMAIN r /\ a = <<r>>
    BY <2>1 DEF Valid
  <2> HIDE DEF a, r
  <2>3. Range(a) = {r} /\ a \in Seq({r})
    BY <2>2 DEF Range
  <2> QED BY <2>2, <2>3 DEF a
<1> QED BY <1>1, <1>2

\* The attempts follow one another and none depends on another.
LEMMA ValidatedFacts ==
  ASSUME NEW endpoints, IsSequence(endpoints), NEW answers
  PROVE  LET W == UNION {Range(Attempt(e, answers[e.url])) : e \in Range(endpoints)}
         IN  /\ ValidateEndpoints(endpoints, answers) \in Seq(W)
             /\ Range(ValidateEndpoints(endpoints, answers)) = W
<1> DEFINE at(e) == Attempt(e, answers[e.url])
           D == Range(endpoints)
           W == UNION {Range(at(e)) : e \in D}
           A == Seq(W)
           a == <<>>
           T == {s \in Seq(D) : Range(FT!Fold(answers, a, s)) = UNION {Range(at(e)) : e \in Range(s)}}
<1>1. ASSUME NEW e \in D PROVE at(e) \in A
  <2>1. at(e) \in Seq(Range(at(e)))
    BY AttemptTypes
  <2>2. Range(at(e)) \subseteq W
    OBVIOUS
  <2> HIDE DEF at, W
  <2> QED BY <2>1, <2>2, SeqMonotonic
<1>2. \A v, e : AttemptStep(answers, v, e) = v \o at(e)
  BY DEF AttemptStep
<1> HIDE DEF at, D
<1>3. FT!Closed(answers, A, D)
  BY <1>1, <1>2, ConcatProperties, Zenon DEF FT!Closed
<1>4. a \in A
  BY EmptySeq
<1> HIDE DEF A, W
<1>5. FT!Fold(answers, a, <<>>) = a
  BY <1>3, <1>4, FT!FoldEmpty
<1>6. <<>> \in T
  <2>1. Range(<<>>) = {} /\ <<>> \in Seq(D)
    BY EmptySeq DEF Range
  <2> QED BY <1>5, <2>1
<1> HIDE DEF a
<1>7. ASSUME NEW s \in Seq(D), NEW e \in D, s \in T PROVE Append(s, e) \in T
  <2> DEFINE v == FT!Fold(answers, a, s)
             w == FT!Fold(answers, a, Append(s, e))
  <2>1. v \in A /\ w = AttemptStep(answers, v, e)
    BY <1>3, <1>4, FT!FoldAppend
  <2>2. w = v \o at(e)
    BY <1>2, <2>1
  <2>3. Range(v) = UNION {Range(at(f)) : f \in Range(s)}
    BY <1>7
  <2>4. Append(s, e) \in Seq(D) /\ Range(Append(s, e)) = Range(s) \cup {e}
    BY AppendRange
  <2> HIDE DEF T, v, w
  <2>5. Range(w) = Range(v) \cup Range(at(e))
    BY <1>1, <2>1, <2>2, RangeConcatenation DEF A
  <2>6. Range(w) = UNION {Range(at(f)) : f \in Range(Append(s, e))}
    BY <2>3, <2>4, <2>5
  <2> QED BY <2>4, <2>6 DEF T, w
<1>8. endpoints \in Seq(D)
  <2>1. PICK S : endpoints \in Seq(S)
    BY DEF IsSequence
  <2>2. endpoints \in Seq(Range(endpoints))
    BY <2>1, LenProperties, SeqDef DEF Range
  <2> QED BY <2>2 DEF D
<1>9. endpoints \in T
  <2> HIDE DEF T
  <2> QED BY <1>6, <1>7, <1>8, FT!SequenceInduction
<1>10. Range(FT!Fold(answers, a, endpoints)) = W
  BY <1>9 DEF W, D
<1>11. FT!Fold(answers, a, endpoints) \in A
  BY <1>3, <1>4, <1>8, FT!FoldType
<1>12. ValidateEndpoints(endpoints, answers) = FT!Fold(answers, a, endpoints)
  BY ValidateIsFold DEF a
<1> QED BY <1>10, <1>11, <1>12 DEF A, W, at, D

\* Every validated address has its channel, and no channel another address.
LEMMA ChannelsFacts ==
  ASSUME NEW W, \A v \in W : "url" \in DOMAIN v, NEW validated \in Seq(W)
  PROVE  {d.url : d \in Range(Channels(validated))} = {AsGiven(v.url) : v \in Range(validated)}
<1> DEFINE new(v) == [v EXCEPT !.url = AsGiven(@)]
           A == Seq({new(v) : v \in W})
           a == <<>>
           urls(s) == {d.url : d \in Range(s)}
           T == {s \in Seq(W) : urls(FC!Fold(0, a, s)) = {AsGiven(v.url) : v \in Range(s)}}
<1>1. a \in A
  BY EmptySeq
<1>2. FC!Closed(0, A, W)
  BY AppendProperties DEF FC!Closed, ChannelStep
<1>3. \A v \in W : new(v).url = AsGiven(v.url)
  OBVIOUS
<1>4. FC!Fold(0, a, <<>>) = a
  <2> HIDE DEF A, a
  <2> QED BY <1>1, <1>2, FC!FoldEmpty
<1>5. <<>> \in T
  <2>1. Range(<<>>) = {} /\ <<>> \in Seq(W)
    BY EmptySeq DEF Range
  <2> QED BY <1>4, <2>1
<1>6. ASSUME NEW s \in Seq(W), NEW v \in W, s \in T PROVE Append(s, v) \in T
  <2> DEFINE d == FC!Fold(0, a, s)
             e == FC!Fold(0, a, Append(s, v))
  <2>1. d \in A /\ e = ChannelStep(0, d, v)
    <3> HIDE DEF A, a
    <3> QED BY <1>1, <1>2, FC!FoldAppend
  <2>2. urls(d) = {AsGiven(w.url) : w \in Range(s)}
    BY <1>6, Zenon
  <2>3. Append(s, v) \in Seq(W) /\ Range(Append(s, v)) = Range(s) \cup {v}
    BY AppendRange
  <2>4. IF \E x \in Range(d) : x.url = AsGiven(v.url) THEN e = d ELSE e = Append(d, new(v))
    BY <2>1 DEF ChannelStep
  <2> HIDE DEF d, e, T
  <2>5. Range(Append(d, new(v))) = Range(d) \cup {new(v)}
    <3> DEFINE N == {new(w) : w \in W}
               n == new(v)
    <3>1. n \in N /\ d \in Seq(N)
      BY <2>1, Zenon
    <3> HIDE DEF N, n
    <3>2. Range(Append(d, n)) = Range(d) \cup {n}
      BY <3>1, AppendRange
    <3> QED BY <3>2 DEF n
  <2>6. urls(e) = urls(d) \cup {AsGiven(v.url)}
    <3> DEFINE n == new(v)
    <3>1. n.url = AsGiven(v.url)
      BY <1>3
    <3> HIDE DEF n
    <3>2. CASE \E x \in Range(d) : x.url = AsGiven(v.url)
      BY <2>4, <3>2
    <3>3. CASE ~\E x \in Range(d) : x.url = AsGiven(v.url)
      BY <2>4, <2>5, <3>1, <3>3, Zenon DEF n
    <3> QED BY <3>2, <3>3, Zenon
  <2>7. urls(e) = {AsGiven(w.url) : w \in Range(Append(s, v))}
    BY <2>2, <2>3, <2>6, Zenon
  <2> QED BY <2>3, <2>7, Zenon DEF T, e
<1>7. validated \in T
  <2> HIDE DEF T
  <2> QED BY <1>5, <1>6, FC!SequenceInduction
<1> QED BY <1>7, ChannelsIsFold, Zenon

\* The addresses whose channels are written, one attempt by one.
LEMMA WrittenFacts ==
  ASSUME NEW site, IsSite(site), NEW answers
  PROVE  Written(site, answers) =
           IF HomepageBreaks(site) THEN {}
           ELSE UNION {{AsGiven(v.url) : v \in Range(Attempt(e, answers[e.url]))} :
                         e \in Range(Unique(Candidates(site)))}
<1> DEFINE endpoints == Unique(Candidates(site))
           at(e) == Attempt(e, answers[e.url])
           W == UNION {Range(at(e)) : e \in Range(endpoints)}
           validated == ValidateEndpoints(endpoints, answers)
<1>1. CASE HomepageBreaks(site)
  <2>1. Discovered(site, answers) = <<>> /\ Range(<<>>) = {}
    BY <1>1 DEF Discovered, Range
  <2> QED BY <1>1, <2>1 DEF Written
<1>2. CASE ~HomepageBreaks(site)
  <2>1. Discovered(site, answers) = Channels(validated)
    BY <1>2 DEF Discovered
  <2>2. IsSequence(endpoints)
    BY CandidatesTypes, UniqueTypes
  <2> HIDE DEF endpoints
  <2>3. validated \in Seq(W) /\ Range(validated) = W
    BY <2>2, ValidatedFacts
  <2>4. \A v \in W : "url" \in DOMAIN v
    BY AttemptTypes
  <2> HIDE DEF validated, W
  <2>5. Written(site, answers) = {AsGiven(v.url) : v \in W}
    BY <2>1, <2>3, <2>4, ChannelsFacts, Zenon DEF Written
  <2> HIDE DEF at
  <2>6. {AsGiven(v.url) : v \in W} = UNION {{AsGiven(v.url) : v \in Range(at(e))} : e \in Range(endpoints)}
    BY DEF W
  <2> QED BY <1>2, <2>5, <2>6 DEF endpoints, at
<1> QED BY <1>1, <1>2

\* An endpoint that fails costs its own channel at most, whatever the site.
THEOREM FailureCostsItself ==
  ASSUME NEW site, IsSite(site), NEW answers, NEW bad, NEW failed, failed.status # "ok"
  PROVE  LosesAtMost(
           Written(site, answers),
           Written(site, [u \in Tried(site) |-> IF u = bad THEN failed ELSE answers[u]]),
           {AsGiven(answers[bad].final)})
<1> DEFINE after == [u \in Tried(site) |-> IF u = bad THEN failed ELSE answers[u]]
           D == Range(Unique(Candidates(site)))
           at(e, ans) == Attempt(e, ans[e.url])
           got(e, ans) == {AsGiven(v.url) : v \in Range(at(e, ans))}
<1>1. CASE HomepageBreaks(site)
  BY <1>1, WrittenFacts DEF LosesAtMost
<1>2. CASE ~HomepageBreaks(site)
  <2>1. /\ Written(site, answers) = UNION {got(e, answers) : e \in D}
        /\ Written(site, after) = UNION {got(e, after) : e \in D}
    BY <1>2, WrittenFacts, Zenon
  <2>2. ASSUME NEW e \in D
        PROVE  \/ got(e, after) = got(e, answers)
               \/ got(e, after) = {} /\ got(e, answers) \subseteq {AsGiven(answers[bad].final)}
    <3> DEFINE u == e.url
    <3>1. u \in Tried(site)
      BY DEF Tried
    <3>2. after[u] = IF u = bad THEN failed ELSE answers[u]
      BY <3>1
    <3> HIDE DEF after
    <3>3. CASE u # bad
      BY <3>2, <3>3
    <3>4. CASE u = bad
      <4>1. at(e, after) = <<>> /\ Range(<<>>) = {}
        BY <3>2, <3>4, AttemptCases DEF Range
      <4>2. \A v \in Range(at(e, answers)) : v.url = answers[bad].final
        BY <3>4, AttemptTypes
      <4> QED BY <4>1, <4>2
    <3> QED BY <3>3, <3>4, Zenon
  <2> HIDE DEF got, D, after
  <2> QED BY <2>1, <2>2 DEF after, LosesAtMost
<1> QED BY <1>1, <1>2

-----------------------------------------------------------------------------
\* Short lists are lists.
LEMMA OneOrMore ==
  ASSUME NEW x, NEW y
  PROVE  IsSequence(<<>>) /\ IsSequence(<<x>>) /\ IsSequence(<<x, y>>)
<1>1. <<>> \in Seq({x, y}) /\ <<x>> \in Seq({x, y}) /\ <<x, y>> \in Seq({x, y})
  OBVIOUS
<1> QED BY <1>1, Zenon DEF IsSequence

\* The sites that the runs enumerate are made of lists.
LEMMA SiteTypes == \A site \in Sites : IsSite(site)
<1>1. ASSUME NEW type, NEW href PROVE IsSequence(Link(type, href)) /\ IsSequence(Anchor(href))
  BY OneOrMore, Zenon DEF Link, Anchor
<1>2. \A tags \in HomeTags : IsSequence(tags)
  <2> HIDE DEF IsSequence
  <2> QED BY <1>1, SequencesConcat, Zenon DEF HomeTags
<1>3. \A site \in Sites :
        /\ site.tags \in HomeTags
        /\ site.robots \in {[status |-> "ok", sitemaps |-> <<Map>>],
                            [status |-> "ok", sitemaps |-> <<Map, Broken>>],
                            [status |-> "error", sitemaps |-> <<Map>>]}
        /\ site.manual \in {<<>>, <<OtherFeed, [Home EXCEPT !.scheme = "ftp"]>>}
  BY DEF Sites
<1>4. ASSUME NEW site \in Sites PROVE IsSite(site)
  <2>1. IsSequence(site.tags)
    BY <1>2, <1>3
  <2>2. site.robots.sitemaps \in {<<Map>>, <<Map, Broken>>}
    BY <1>3
  <2>3. IsSequence(site.robots.sitemaps)
    BY <2>2, OneOrMore, Zenon
  <2>4. IsSequence(site.manual)
    BY <1>3, OneOrMore, Zenon
  <2> QED BY <2>1, <2>3, <2>4 DEF IsSite
<1> QED BY <1>4

InputIsSite == study = "site" => IsSite(input)

\* Next leaves the study of sites alone.
LEMMA SiteStays == Spec => []InputIsSite
<1>1. Init => InputIsSite
  BY SiteTypes DEF Init, InputIsSite
<1>2. InputIsSite /\ [Next]_vars => InputIsSite'
  <2> SUFFICES ASSUME InputIsSite, [Next]_vars PROVE InputIsSite'
    OBVIOUS
  <2>1. CASE Next
    <3>1. study' = "page"
      BY <2>1, Zenon DEF Next, OpenElement, OpenNav, CloseElement, ReadText, Consume
    <3> QED BY <3>1 DEF InputIsSite
  <2>2. CASE UNCHANGED vars
    BY <2>2 DEF vars, InputIsSite, IsSite
  <2> QED BY <2>1, <2>2
<1> QED BY <1>1, <1>2, PTL DEF Spec

\* An endpoint that fails costs the publisher its own channel at most.
THEOREM BadEndpointAlwaysLosesOnlyItself == Spec => []OneBadEndpointLosesOnlyItself
<1>1. InputIsSite => OneBadEndpointLosesOnlyItself
  <2> DEFINE answers(failed) ==
               [u \in Tried(input) |-> IF u \in failed THEN Failed ELSE Answer(input, u)]
             all == answers({})
  <2> SUFFICES ASSUME InputIsSite, study = "site", NEW bad \in {Home, Feed, OtherFeed, News, Map}
               PROVE  LosesAtMost(Written(input, all), Written(input, answers({bad})),
                                  {AsGiven(Answer(input, bad).final)})
    BY Zenon DEF OneBadEndpointLosesOnlyItself
  <2> DEFINE after == [u \in Tried(input) |-> IF u = bad THEN Failed ELSE all[u]]
  <2>1. IsSite(input) /\ Failed.status # "ok"
    BY DEF InputIsSite, Failed
  <2>2. answers({bad}) = after
    OBVIOUS
  <2>3. bad \in Tried(input) => all[bad] = Answer(input, bad)
    OBVIOUS
  <2>4. bad \notin Tried(input) => after = all
    OBVIOUS
  <2>5. LosesAtMost(Written(input, all), Written(input, after), {AsGiven(all[bad].final)})
    <3> HIDE DEF all
    <3> QED BY <2>1, FailureCostsItself, Zenon
  <2> HIDE DEF all, after
  <2>6. CASE bad \in Tried(input)
    BY <2>2, <2>3, <2>5, <2>6
  <2>7. CASE bad \notin Tried(input)
    BY <2>2, <2>4, <2>7 DEF LosesAtMost
  <2> QED BY <2>6, <2>7
<1> QED BY <1>1, SiteStays, PTL
=============================================================================
