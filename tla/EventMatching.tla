---------------------------- MODULE EventMatching ----------------------------
(***************************************************************************)
(* How the first version of an article is assigned to an event: the recent *)
(* events it is compared with, the features of each comparison, the score  *)
(* and the decision.                                                       *)
(*                                                                         *)
(* A text is a sequence of words.  A word keeps its capital, though tokens *)
(* and phrases are compared in lower case: one that is written both ways   *)
(* is two words.  Only blanks and newlines stand between two words: any    *)
(* other mark is a word, a stopword.  A location of two words is one word, *)
(* so that none is formed where a title and a text meet.                   *)
(*                                                                         *)
(* Ratios are integers: a feature is a fraction of Unit, a multiple of     *)
(* every number up to 12, so that overlaps of sets whose union has at most *)
(* 12 members are exact, and a score is a fraction of 10000 * Unit.  The   *)
(* code rounds to floating point numbers.  A time is in days.              *)
(***************************************************************************)
EXTENDS Integers, Sequences, FiniteSets, SequencesExt

CONSTANTS
  Stopwords,     \* words of _STOPWORDS or of less than three letters
  Capitalized,   \* words of two characters or more that begin with a capital
  Unnamed,       \* those that alone are no entity: ignored, or shorter than three
  Identifiers,   \* acronyms and numbers
  Locations,     \* _LOCATION_TERMS
  TextCap,       \* the words that 1500 characters hold
  MaxRows,       \* max_rows, 500
  MaxCandidates, \* limit of build_event_candidates, 20
  NoTime         \* an article without a publication date

ASSUME Caps == TextCap \in Nat /\ MaxRows \in Nat \ {0} /\ MaxCandidates \in Nat \ {0}

Unit == 27720

LookbackDays == 14

VersionsPerEvent == 3

\* A sequence without the elements that are in a set.
Without(s, dropped) ==
  LET step(done, x) == IF x \in dropped THEN done ELSE Append(done, x)
  IN FoldLeft(step, <<>>, s)

(***************************************************************************)
(* ArticleEventProfile                                                     *)
(***************************************************************************)
Tokens(text) == Without(text, Stopwords)

Shingles(tokens, size) == {SubSeq(tokens, i, i + size - 1) : i \in 1..(Len(tokens) - size + 1)}

PhraseWords == 5

\* No capitalized word stands before word i, or behind word j.
Starts(text, i) == i = 1 \/ text[i - 1] \notin Capitalized

Ends(text, j) == j = Len(text) \/ text[j + 1] \notin Capitalized

\* Capitalized words i to j of a text: one match of _CAPITALIZED_PHRASE_PATTERN.  The
\* words of a run that begins at b are matched five by five.
IsPhrase(text, i, j) ==
  /\ i <= j /\ j < i + PhraseWords
  /\ \E b \in 1..i :
       /\ \A k \in b..j : text[k] \in Capitalized
       /\ Starts(text, b)
       /\ (i - b) % PhraseWords = 0
  /\ j = i + PhraseWords - 1 \/ Ends(text, j)

\* _entities.
Phrases(text) ==
  {SubSeq(text, at[1], at[2]) :
     at \in {p \in (DOMAIN text) \X (DOMAIN text) : IsPhrase(text, p[1], p[2])}}
    \ {<<w>> : w \in Unnamed}

Profile(title, text, time) ==
  LET content == Tokens(title \o text)
      words == Range(title \o text)
  IN [titleTokens |-> Range(Tokens(title)), contentTokens |-> Range(content),
      titleShingles |-> Shingles(Tokens(title), 2), contentShingles |-> Shingles(content, 3),
      entities |-> Phrases(title \o text), identifiers |-> words \cap Identifiers,
      locations |-> words \cap Locations, time |-> time]

(***************************************************************************)
(* The features of a comparison.                                           *)
(***************************************************************************)
Jaccard(left, right) ==
  IF left = {} \/ right = {} THEN 0
  ELSE (Unit * Cardinality(left \cap right)) \div Cardinality(left \cup right)

UnknownIsZero(left, right, whenOneEmpty) ==
  IF left = {} \/ right = {} THEN 0
  ELSE (Unit * Cardinality(left \cap right)) \div Min({Cardinality(left), Cardinality(right)})

\* Two empty sets say nothing, one empty set speaks against.
Overlap(left, right, whenOneEmpty) ==
  IF left = {} /\ right = {} THEN Unit \div 2
  ELSE IF left = {} \/ right = {} THEN whenOneEmpty
  ELSE (Unit * Cardinality(left \cap right)) \div Min({Cardinality(left), Cardinality(right)})

Distance(s, t) == IF s > t THEN s - t ELSE t - s

\* Hundredths.
Temporal(s, t) ==
  LET days == Distance(s, t) IN
  IF days <= 1 THEN 100
  ELSE IF days <= 3 THEN 85
  ELSE IF days <= 7 THEN 65
  ELSE IF days <= 14 THEN 40
  ELSE IF days <= 30 THEN 20
  ELSE 5

\* _candidate_for_reference and EventCandidate.score.
Score(a, b) ==
  LET shingles == Jaccard(a.contentShingles, b.contentShingles)
      semantic == 45 * Jaccard(a.contentTokens, b.contentTokens) + 55 * shingles
      title == 70 * Jaccard(a.titleTokens, b.titleTokens)
               + 30 * Jaccard(a.titleShingles, b.titleShingles)
      entity == Overlap(a.entities, b.entities, 0)
      identifier == Overlap(a.identifiers, b.identifiers, 0)
      geographic == Overlap(a.locations, b.locations, Unit \div 5)
      eventType == Unit \div 2
  IN 35 * semantic + 10 * title
     + 100 * (15 * entity + 15 * identifier + 10 * shingles + 5 * geographic + 3 * eventType)
     + 7 * Unit * Temporal(a.time, b.time)

(***************************************************************************)
(* _load_recent_event_references: the newest versions of active events     *)
(* that were first detected in the window, grouped by event.  A row is a   *)
(* version with its article and event; rows are in descending order of     *)
(* their creation.                                                         *)
(***************************************************************************)
Loaded(rows, time) ==
  LET recent == Without(rows, {r \in Range(rows) :
                                 ~r.active \/ r.firstDetected < time - LookbackDays})
  IN SubSeq(recent, 1, Min({Len(recent), MaxRows}))

Excerpt(r) == r.articleTitle \o SubSeq(r.text, 1, Min({Len(r.text), TextCap}))

RowsOf(rows, event) == Without(rows, {r \in Range(rows) : r.event # event})

Reference(rows) ==
  LET step(done, r) == done \o Excerpt(r)
      text == FoldLeft(step, <<>>, SubSeq(rows, 1, Min({Len(rows), VersionsPerEvent})))
  IN [event |-> rows[1].event,
      profile |-> Profile(rows[1].eventTitle, text, Max({r.observed : r \in Range(rows)}))]

\* One reference per event, in the order in which the rows first name it.
References(rows) ==
  LET step(events, r) == IF r.event \in Range(events) THEN events ELSE Append(events, r.event)
      events == FoldLeft(step, <<>>, rows)
  IN [i \in DOMAIN events |-> Reference(RowsOf(rows, events[i]))]

\* build_event_candidates: a stable sort, highest score first, cut off at the limit.
Ranked(incoming, references) ==
  LET scored == [i \in DOMAIN references |->
                   [event |-> references[i].event,
                    score |-> Score(incoming, references[i].profile)]]
      insert(done, c) ==
        LET n == Cardinality({i \in DOMAIN done : done[i].score >= c.score})
        IN SubSeq(done, 1, n) \o <<c>> \o SubSeq(done, n + 1, Len(done))
      ranked == FoldLeft(insert, <<>>, scored)
  IN SubSeq(ranked, 1, Min({Len(ranked), MaxCandidates}))

Hundredths(n) == n * 100 * Unit

ConfirmedThreshold == Hundredths(78)

CandidateThreshold == Hundredths(62)

AmbiguityMargin == Hundredths(5)

\* decide_event_assignment: <<>> for no event.
Decide(ranked) ==
  LET ambiguous == Len(ranked) > 1 /\ ranked[1].score - ranked[2].score < AmbiguityMargin IN
  IF ranked = <<>> \/ ranked[1].score < CandidateThreshold
  THEN [state |-> "provisional", event |-> <<>>]
  ELSE [state |-> IF ranked[1].score >= ConfirmedThreshold /\ ~ambiguous
                  THEN "confirmed" ELSE "candidate",
        event |-> <<ranked[1].event>>]

\* _decide_event of an article [title, text, published] observed at a time.
DecideEvent(article, observed, rows) ==
  LET time == IF article.published = NoTime THEN observed ELSE article.published
  IN Decide(Ranked(Profile(article.title, article.text, time),
                   References(Loaded(rows, time))))
=============================================================================
