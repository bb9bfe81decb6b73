----------------------------- MODULE MCDecisions -----------------------------
(***************************************************************************)
(* Bounded inputs for the functions the services decide by: URLs, web      *)
(* sites, articles and pages.  The first three are chosen at the start;    *)
(* a page grows by one token a step, which the parser reads as it comes.   *)
(***************************************************************************)
EXTENDS EndpointDiscovery, EventMatching, PageReading

CONSTANT MaxTokens  \* the longest page

VARIABLES
  study,   \* "spelling", "admission", "site", "event" or "page"
  input,   \* the URL, site or article; the tokens of the page so far
  reader   \* the parser of the page

vars == <<study, input, reader>>

(***************************************************************************)
(* URLs                                                                    *)
(***************************************************************************)
Address(scheme, form, port, path) ==
  [scheme |-> scheme, host |-> "site", form |-> form, port |-> port, path |-> path,
   query |-> <<>>, fragment |-> FALSE]

Url(path) == Address("https", "plain", 0, path)

Param(key, upper, value) == [key |-> key, upper |-> upper, value |-> value]

Queries == BoundedSeq({Param(1, FALSE, 1), Param(1, TRUE, 1), Param(1, FALSE, 2),
                       Param(2, FALSE, 1), Param(3, FALSE, 1)}, 3)

Ports == {0, 80, 443, 8080}

Spellings ==
  LET paths == BoundedSeq({Empty, Dot, DotDot, Word("a"), Word("b")}, 4)
      hosts == {Address(s, f, n, p) :
                  s \in {"http", "https"}, f \in HostForms \ {"bare", "unencodable"},
                  n \in Ports, p \in {<<>>, <<Word("a")>>}}
  IN {Url(p) : p \in paths} \cup hosts
     \cup {[u EXCEPT !.query = q] : u \in {Url(<<>>), Url(<<Empty, Word("a")>>)}, q \in Queries}

Slug == <<"a", "b", "c", "d">>

AdmissionUrls ==
  {Url(p) : p \in BoundedSeq({Empty, Dot, DotDot, Word("news"), Word("archive"), Word("2024"),
                              Word("1"), Slug, Word("a.xml")}, 3)}

(***************************************************************************)
(* Sites                                                                   *)
(***************************************************************************)
Home == Url(<<Empty>>)

Feed == Url(<<Word("rss-a")>>)

OtherFeed == Url(<<Word("rss-b")>>)

News == Url(<<Word("news")>>)

Map == Url(<<Word("map")>>)

Broken == [Home EXCEPT !.scheme = "broken"]

Link(type, href) == <<[tag |-> "link", type |-> type, href |-> href]>>

Anchor(href) == <<[tag |-> "a", type |-> "other", href |-> href],
                  [tag |-> "/a", type |-> "other", href |-> NoHref]>>

Page(root, items, tags) == [root |-> root, items |-> items, tags |-> tags]

Ok(url, page) == [status |-> "ok", final |-> url, page |-> page]

Failed == [status |-> "error", final |-> Home, page |-> Page("none", 0, <<>>)]

Refused == [Failed EXCEPT !.status = "refused"]

Articles == Page("none", 0, Anchor(Url(<<Slug>>)) \o Anchor(Url(<<Word("news"), Empty, Slug>>)))

HomeTags ==
  { Anchor(News),
    Link("rss", Feed) \o Link("atom", OtherFeed) \o Anchor(News),
    Link("rss", [Feed EXCEPT !.fragment = TRUE]) \o Link("rss", Feed) \o Anchor(Url(<<Slug>>))
      \o Anchor([News EXCEPT !.form = "dotted"]) \o Anchor([News EXCEPT !.host = "other"]) }

Sites ==
  [ homepage : {Home}, tags : HomeTags,
    robots : {[status |-> "ok", sitemaps |-> <<Map>>],
              [status |-> "ok", sitemaps |-> <<Map, Broken>>],
              [status |-> "error", sitemaps |-> <<Map>>]},
    manual : {<<>>, <<OtherFeed, [Home EXCEPT !.scheme = "ftp"]>>},
    home : {Ok(Home, Articles), Failed},
    feed : {Ok(Feed, Page("rss", 2, <<>>)), Ok(Feed, Page("rss", 0, <<>>)), Refused},
    otherFeed : {Ok(OtherFeed, Page("feed", 1, <<>>)), Ok(Feed, Page("rss", 2, <<>>)), Failed},
    news : {Ok(News, Articles), Ok(News, Page("none", 0, Articles.tags \o Anchor(Broken)))},
    map : {Ok(Map, Page("urlset", 1, <<>>)), Ok(Map, Page("urlset", 0, <<>>))} ]

\* What the network answers for a URL of the site; nothing else is there.
Answer(site, u) ==
  CASE u = Home -> site.home
    [] u = Feed -> site.feed
    [] u = OtherFeed -> site.otherFeed
    [] u = News -> site.news
    [] u = Map -> site.map
    [] OTHER -> Refused

(***************************************************************************)
(* Articles, and the rows of the events they are compared with.            *)
(***************************************************************************)
Row(event, title, text, observed) ==
  [event |-> event, eventTitle |-> title, articleTitle |-> title, text |-> text,
   active |-> TRUE, firstDetected |-> observed, observed |-> observed]

Today == 20

Titles ==
  {<<1>>, <<1, 2>>, <<1, 9>>, <<4, 1>>, <<1, 4>>, <<4, 5>>, <<5, 1, 5>>, <<4, 5, 1, 4, 4, 4>>}

Texts == BoundedSeq({1, 3, 4, 9}, 3) \cup {<<4, 5, 3>>, <<5, 1, 2>>, <<1, 4, 4, 5>>}

Seen == {Today - 15, Today - 14, Today - 7, Today}

\* A row of the event "original" repeats the article; rows of other events stand around it.
Copy(title, text, published, seen, before, after) ==
  [ article |-> [title |-> title, text |-> text, published |-> published],
    rows |-> before \o <<Row("original", title, text, seen)>> \o after ]

Rivals == {<<>>, <<Row("rival", <<1, 2>>, <<3, 4, 8>>, Today)>>}

Others == {<<>>, <<Row("other", <<6>>, <<3, 7>>, Today - 2)>>}

Copies ==
  {Copy(title, text, published, seen, before, after) :
     title \in Titles, text \in Texts, published \in {NoTime, Today}, seen \in Seen,
     before \in Rivals, after \in Others}

(***************************************************************************)
(* Pages: well-formed, and closed in the end.                              *)
(***************************************************************************)
Tag(kind, tag, marked) ==
  [kind |-> kind, tag |-> tag, marked |-> marked, ld |-> FALSE, text |-> <<>>]

Text(sentence) == [Tag("text", "", FALSE) EXCEPT !.text = <<sentence>>]

Depth(page, n) ==
  Cardinality({i \in 1..n : page[i].kind = "open"})
    - Cardinality({i \in 1..n : page[i].kind = "close"})

\* Token i opens an element whose end is not among the first k.
IsOpen(page, i, k) ==
  i <= k /\ page[i].kind = "open" /\ \A j \in i..k : Depth(page, j) >= Depth(page, i)

Unclosed(page) == {i \in DOMAIN page : IsOpen(page, i, Len(page))}

Consume(token) ==
  /\ Len(input) + Depth(input, Len(input)) + (IF token.kind = "open" THEN 2 ELSE 1) <= MaxTokens
     \/ token.kind = "close"
  /\ input' = Append(input, token)
  /\ reader' = Read(reader, token)
  /\ UNCHANGED study

OpenElement ==
  /\ study = "page"
  /\ \E tag \in {"div", "p", "li"}, marked \in BOOLEAN : Consume(Tag("open", tag, marked))

OpenNav == study = "page" /\ Consume(Tag("open", "nav", FALSE))

CloseElement ==
  /\ study = "page"
  /\ Depth(input, Len(input)) > 0
  /\ Consume(Tag("close", input[Max(Unclosed(input))].tag, FALSE))

ReadText ==
  /\ study = "page"
  /\ input # <<>> /\ Last(input).kind # "text"
  /\ \E sentence \in {1, 2, 3} : Consume(Text(sentence))

Init ==
  /\ reader = FreshReader
  /\ \/ study = "spelling" /\ input \in Spellings
     \/ study = "admission" /\ input \in AdmissionUrls
     \/ study = "site" /\ input \in Sites
     \/ study = "event" /\ input \in Copies
     \/ study = "page" /\ input = <<>>

Next == OpenElement \/ OpenNav \/ CloseElement \/ ReadText

Spec == Init /\ [][Next]_vars

-----------------------------------------------------------------------------
(* Properties *)

\* What names the same page: another form of the host's name, the scheme's own port, a
\* fragment, a tracking parameter anywhere, two parameters in the other order, and a
\* segment that normpath drops, unless it makes exactly two slashes lead the path.
Respellings(u) ==
  LET q == u.query
      tracked == {InsertAt(q, i, Param(3, TRUE, 7)) : i \in 1..(Len(q) + 1)}
      swapped == {[q EXCEPT ![i] = q[i + 1], ![i + 1] = q[i]] :
                    i \in {j \in 1..(Len(q) - 1) :
                            q[j].key # q[j + 1].key \/ q[j].value # q[j + 1].value}}
      at == IF TwoSlashes(u.path) THEN {} ELSE 1..Len(u.path)
      paths == {InsertAt(u.path, i, Dot) : i \in at}
               \cup {InsertAt(InsertAt(u.path, i, DotDot), i, Word("z")) : i \in at}
               \cup {InsertAt(u.path, i, Empty) : i \in at \ {1}}
  IN {[u EXCEPT !.fragment = TRUE],
      [u EXCEPT !.port = IF @ = 0 THEN DefaultPort(u.scheme) ELSE @]}
     \cup {[u EXCEPT !.form = f] : f \in {g \in NamedForms : u.form \in NamedForms}}
     \cup {[u EXCEPT !.query = v] : v \in tracked \cup swapped}
     \cup {[u EXCEPT !.path = p] : p \in {r \in paths : ~TwoSlashes(r)}}

\* "//" and "///", which normpath does not bring to "/" at once.
OnlySlashes(path) == Len(path) >= 2 /\ Range(path) = {Empty}

\* The canonical form of a canonical URL is itself.  That of an IPv6 literal, and of
\* nothing else, is no URL that canonicalize_url takes.
Settles(u) ==
  LET c == Fingerprint(u) IN
  /\ NotCanonical(c) <=> u.form = "brackets"
  /\ NotCanonical(c) \/ OnlySlashes(c.path) \/ Fingerprint(c) = c

\* The frontier holds a page once: spellings that name one page have one canonical
\* form, and a URL that is stored, read back and canonicalized again meets its own row.
CanonicalIsStable ==
  study = "spelling" =>
    /\ \A v \in Respellings(input) :
         ~NotCanonical(v) /\ Fingerprint(v) = Fingerprint(input)
    /\ Settles(input)

Hours == 0..5

Window == 1

\* The poller judges the URL it read, and the worker, later, the canonical one: a URL
\* that the poller admitted is rejected before its fetch for its age only.  Segments
\* "." and ".." count as names to the filter and are not among them.
RejectedOnlyForAge ==
  (study = "admission" /\ Range(input.path) \cap {Dot, DotDot} = {}) =>
    \A published \in Hours \cup {NoDate}, polled \in Hours, requireDate \in BOOLEAN :
      Verdict(input, published, polled, Window, requireDate) = "accepted" =>
        \A worked \in {t \in Hours : t >= polled} :
          Verdict(Fingerprint(input), published, worked, Window, FALSE)
            \in {"accepted", "too_old"}

Tried(site) == {e.url : e \in Range(Unique(Candidates(site)))}

Written(site, answers) == {c.url : c \in Range(Discovered(site, answers))}

\* Nothing is in left that is not in all, and at most lost is missing.
LosesAtMost(all, left, lost) == left \subseteq all /\ all \ left \subseteq lost

\* An endpoint that cannot be fetched or is no channel costs the publisher that channel
\* and no other one, wherever it stands in the order of the candidates.
OneBadEndpointLosesOnlyItself ==
  study = "site" =>
    LET answers(failed) ==
          [u \in Tried(input) |-> IF u \in failed THEN Failed ELSE Answer(input, u)] IN
    \A bad \in {Home, Feed, OtherFeed, News, Map} :
      LosesAtMost(Written(input, answers({})), Written(input, answers({bad})),
                  {AsGiven(Answer(input, bad).final)})

\* Title and text stand one after the other in an article, and after a second title in
\* the reference.  The phrases of the one are those of the other, or some of them, if a
\* word without a capital ends the phrases of the title; an article without entities
\* meets none if this word is the last.
KeepsPhrases(title, entities) ==
  /\ \E i \in DOMAIN title : title[i] \notin Capitalized
  /\ entities = {} => Last(title) \notin Capitalized

\* An article that repeats the only version of a recent event, within two weeks of it
\* and short enough to be compared whole, joins an event and does not found another,
\* whatever other events are compared.  Headlines that capitalize every word excepted.
CopyJoinsItsEvent ==
  study = "event" =>
    LET a == input.article
        time == IF a.published = NoTime THEN Today ELSE a.published
        profile == Profile(a.title, a.text, time)
        isCopied(r) ==
          /\ r \in Range(Loaded(input.rows, time))
          /\ r.event = "original" /\ r.articleTitle = a.title /\ r.text = a.text
          /\ Distance(r.observed, time) <= LookbackDays
    IN /\ \E r \in Range(input.rows) : isCopied(r)
       /\ Len(a.text) <= TextCap
       /\ KeepsPhrases(a.title, profile.entities)
       /\ profile.titleShingles # {}
       /\ Cardinality(profile.contentShingles) >= 2
       => DecideEvent(a, Today, input.rows).state # "provisional"

\* The elements of a page, by the token that opens them.
Elements(page) == {i \in DOMAIN page : page[i].kind = "open"}

Regions(page) == {i \in Elements(page) : Skips(page[i])}

\* Token k stands in a region.
Hidden(page, k) == \E r \in Regions(page) \ {k} : IsOpen(page, r, k)

Blocks(page) ==
  {i \in Elements(page) : page[i].tag \in BlockTags /\ i \notin Regions(page) /\ ~Hidden(page, i)}

\* No element that is read inside a skipped region has the name of the region, or of a
\* block around it.  Otherwise its end is taken for the end of that one.
Unmistakable(page) ==
  \A r \in Regions(page) : \A i \in Elements(page) \ Regions(page) :
    IsOpen(page, r, i) =>
      /\ page[i].tag # page[r].tag
      /\ \A b \in Blocks(page) : IsOpen(page, b, i) => page[i].tag # page[b].tag

\* The text of a block: what is inside it and in no region.
BlockText(page, b) ==
  LET step(text, k) ==
        IF page[k].kind = "text" /\ IsOpen(page, b, k) /\ ~Hidden(page, k)
        THEN text \o page[k].text ELSE text
  IN FoldLeft(step, <<>>, [k \in DOMAIN page |-> k])

\* The texts of the blocks that have one, in the order they end.
BlockTexts(page) ==
  LET blocks == Blocks(page)
      ended(k) == {b \in blocks : IsOpen(page, b, k - 1) /\ ~IsOpen(page, b, k)}
      texts(k) == {BlockText(page, b) : b \in ended(k)} \ {<<>>}
      step(done, k) == IF texts(k) = {} THEN done ELSE Append(done, CHOOSE t \in texts(k) : TRUE)
  IN FoldLeft(step, <<>>, [k \in DOMAIN page |-> k])

ClosedPage ==
  /\ study = "page" /\ input # <<>>
  /\ Depth(input, Len(input)) = 0 /\ Unmistakable(input)

\* The stacks of the parser follow the nesting of the page: the blocks are those that
\* are outside every skipped region, in the order they end, each with all the text it
\* shows, and nothing that a region holds.
ReadingFollowsNesting ==
  ClosedPage =>
    reader.blocks = BlockTexts(input) /\ reader.skips = <<>> /\ reader.open = <<>>

\* The JSON-LD and the findings of the optional extractor, which may repeat a sentence.
Bodies == {<<2, 1>>, <<2, 1, 4>>, <<1, 2, 1>>}

JsonLd ==
  {<<>>} \cup
  {<<[article |-> TRUE, body |-> <<1>>, headline |-> <<1, 2>>],
     [article |-> FALSE, body |-> <<1, 1>>, headline |-> <<>>],
     [article |-> TRUE, body |-> body, headline |-> <<1>>]>> : body \in Bodies}

Optional == {<<>>, << <<1, 4, 2>> >>, << <<1>>, <<2>>, <<1>> >>}

\* Two claims of an accepted page are equal, which the database refuses on every attempt,
\* only if the article of the JSON-LD or the text of the optional extractor repeats a
\* sentence, a block does, or it shares one with a block of another text, as a quotation
\* does with the paragraphs inside it.  Whatever the choice of the text.
TwinClaimsNeedOverlap ==
  ClosedPage => \A objects \in JsonLd, optional \in Optional :
    LET article == ArticleObject(objects)
        extracted == Extract(reader, objects, optional)
    IN \/ article # <<>> /\ ~IsInjective(article[1].body)
       \/ ~IsInjective(Joined(optional))
       \/ ~IsFatal(extracted, FALSE) /\ HasTwins(Claims(extracted.text)) =>
          \E b, c \in Blocks(input) :
            LET left == BlockText(input, b)
                right == BlockText(input, c)
            IN \/ ~IsInjective(left)
               \/ left # right /\ Range(left) \cap Range(right) # {}
=============================================================================
