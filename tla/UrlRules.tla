------------------------------ MODULE UrlRules ------------------------------
(***************************************************************************)
(* What the poller and the worker decide from a URL alone: its canonical   *)
(* form, which is what the frontier is keyed by, and whether it is worth   *)
(* fetching as an article.                                                 *)
(*                                                                         *)
(* A URL is a record.  Its path is the sequence of the segments after the  *)
(* first slash, so that "/", "//" and "/a/" are <<"">>, <<"", "">> and     *)
(* <<"a", "">>; a segment is the sequence of the words that "-" separates. *)
(* A query is a sequence of parameters, whose keys and values are numbers  *)
(* because they are sorted.  The host is the one that is meant, and form   *)
(* how the URL writes it.  The scheme "broken" stands for the text         *)
(* urlsplit cannot split, such as an unclosed "[" in the host.             *)
(***************************************************************************)
EXTENDS Integers, Sequences, FiniteSets, SequencesExt

CONSTANTS
  Tracking,   \* the query keys of DEFAULT_TRACKING_PARAMETERS
  Years,      \* the words "2000" to "2099"
  Months,     \* the words "1" to "12"
  Days,       \* the words "1" to "31"
  Files,      \* words that end in .xml, .rss, .json or the suffix of an image or a film
  NoDate      \* no publication date

ASSUME DateWords == Months \subseteq Days /\ Years \cap Days = {}

\* The segments "", "." and "..".
Empty == <<>>

Dot == <<".">>

DotDot == <<"..">>

Word(w) == <<w>>

(***************************************************************************)
(* canonicalize_url.  No caller uses keep_only_parameters, strip_www or    *)
(* force_https; drop is drop_parameters.                                   *)
(***************************************************************************)

\* How a name is written: as it is, in another case, with a dot at its end, in Unicode,
\* or after a user and a password.
NamedForms == {"plain", "upper", "dotted", "unicode", "user"}

\* An IPv6 literal in its brackets or without them; a name that IDNA cannot encode, as
\* one with an empty label.
HostForms == NamedForms \cup {"brackets", "bare", "unencodable"}

MaxPort == 65535

\* The ValueErrors of canonicalize_url.  A literal without its brackets has what is left
\* of its first colon for its host, or nothing, and no number for its port.
NotCanonical(u) ==
  \/ u.scheme \notin {"http", "https"}
  \/ u.host = ""
  \/ u.form \in {"bare", "unencodable"}
  \/ u.port > MaxPort

\* hostname, idna, lower and rstrip: a name comes to one form, and a literal loses its
\* brackets, because the netloc is built anew from the hostname.
CanonicalForm(u) == IF u.form = "brackets" THEN "bare" ELSE "plain"

DefaultPort(scheme) == IF scheme = "http" THEN 80 ELSE 443

\* The netloc has no port when it is absent, zero or the scheme's own.
CanonicalPort(u) == IF u.port = DefaultPort(u.scheme) THEN 0 ELSE u.port

\* posixpath.normpath keeps a leading "//", and only exactly two slashes.
TwoSlashes(path) ==
  /\ Len(path) >= 2
  /\ path[1] = Empty
  /\ Len(path) = 2 \/ path[2] # Empty

Follow(done, segment) ==
  CASE segment \in {Empty, Dot} -> done
    [] segment = DotDot -> IF done = <<>> THEN done ELSE Front(done)
    [] OTHER -> Append(done, segment)

\* The segments that normpath leaves.
Names(path) == FoldLeft(Follow, <<>>, path)

Resolved(path) ==
  LET root == IF TwoSlashes(path) THEN <<Empty>> ELSE <<>>
  IN root \o (IF Names(path) = <<>> THEN <<Empty>> ELSE Names(path))

CanonicalPath(path) ==
  IF path # <<>> /\ Last(path) = Empty /\ Resolved(path) # <<Empty>>
  THEN Append(Resolved(path), Empty)
  ELSE Resolved(path)

\* The order of the parameters: the key in lower case, then the value.
After(p, q) == p.key > q.key \/ (p.key = q.key /\ p.value > q.value)

SortedByKey(query) ==
  LET insert(done, p) ==
        LET n == Cardinality({i \in 1..Len(done) : done[i].key <= p.key})
        IN SubSeq(done, 1, n) \o <<p>> \o SubSeq(done, n + 1, Len(done))
  IN FoldLeft(insert, <<>>, query)

\* A stable sort: parameters that compare equal keep their order.
Insert(done, p) ==
  LET n == Cardinality({i \in 1..Len(done) : ~After(done[i], p)})
  IN SubSeq(done, 1, n) \o <<p>> \o SubSeq(done, n + 1, Len(done))

Sorted(query) == FoldLeft(Insert, <<>>, query)

Kept(query, drop) ==
  LET keep(kept, p) == IF p.key \in drop THEN kept ELSE Append(kept, p)
  IN FoldLeft(keep, <<>>, query)

Canonical(u, drop) ==
  [u EXCEPT !.form = CanonicalForm(u), !.port = CanonicalPort(u),
            !.path = CanonicalPath(u.path), !.query = Sorted(Kept(u.query, drop)),
            !.fragment = FALSE]

\* canonicalize_url with its own policy, which gives a candidate its fingerprint.
Fingerprint(u) == Canonical(u, Tracking)

(***************************************************************************)
(* article_filter: what a path says about being an article.                *)
(***************************************************************************)

\* path.strip("/") and the segments of what is left, the empty ones between included.
Stripped(path) ==
  LET full == {i \in 1..Len(path) : path[i] # Empty}
      first == CHOOSE i \in full : \A j \in full : i <= j
      last == CHOOSE i \in full : \A j \in full : j <= i
  IN IF full = {} THEN <<>> ELSE SubSeq(path, first, last)

Segments(path) ==
  LET keep(kept, segment) == IF segment = Empty THEN kept ELSE Append(kept, segment)
  IN FoldLeft(keep, <<>>, path)

ExcludedSegments ==
  {<<"live", "tv">>, <<"web", "stories">>} \cup
  {Word(w) : w \in {"about", "archive", "archives", "author", "authors", "category", "contact",
                    "gallery", "multimedia", "newsletter", "photos", "podcast", "privacy",
                    "search", "sitemap", "tag", "tags", "terms", "topic", "topics", "video",
                    "videos"}}

HasExcludedSegment(path) == Range(path) \cap ExcludedSegments # {}

HintSegments ==
  {Word(w) : w \in {"news", "article", "articles", "story", "stories", "world", "business",
                    "technology", "tech", "science", "politics", "sports", "health", "india",
                    "opinion", "analysis", "markets", "economy"}}

\* Four words or more.
IsSlug(segment) == Len(segment) >= 4

IsDate(words) ==
  /\ Len(words) = 3
  /\ words[2] \in Months
  /\ \/ words[1] \in Years /\ words[3] \in Days
     \/ words[1] \in Days /\ words[3] \in Years

\* A date whose parts "/" or "-" separates, and that begins and ends with a segment.
HasDate(path) ==
  \E i \in 1..Len(path) : \E j \in i..Len(path) :
    (\A k \in i..j : path[k] # Empty) /\ IsDate(FlattenSeq(SubSeq(path, i, j)))

HasHint(path) == Range(path) \cap HintSegments # {} /\ Len(Segments(path)) >= 2

CountsEmptySegments(u) ==
  LET path == Stripped(u.path) IN
  /\ path # <<>>
  /\ Last(Last(path)) \notin Files
  /\ ~HasExcludedSegment(u.path)
  /\ \/ IsSlug(Last(path)) \/ HasDate(path)
     \/ Range(path) \cap HintSegments # {} /\ Len(u.path) >= 2

LooksLikeArticle(u) ==
  LET path == Stripped(u.path) IN
  /\ path # <<>>
  /\ Last(Last(path)) \notin Files
  /\ ~HasExcludedSegment(u.path)
  /\ IsSlug(Last(path)) \/ HasDate(path) \/ HasHint(path)

(***************************************************************************)
(* should_admit_article_url, in hours.  The result is "accepted" or the    *)
(* UrlRejectionReason.                                                     *)
(***************************************************************************)
FutureTolerance == 2

Verdict(u, published, observed, window, requireDate) ==
  IF requireDate /\ published = NoDate THEN "missing_publication_date"
  ELSE IF published # NoDate /\ published > observed + FutureTolerance THEN "future_dated"
  ELSE IF published # NoDate /\ published < observed - window THEN "too_old"
  ELSE IF HasExcludedSegment(u.path) THEN "excluded_section"
  ELSE IF ~LooksLikeArticle(u) THEN "non_article_path"
  ELSE "accepted"
=============================================================================
