-------------------------- MODULE EndpointDiscovery --------------------------
(***************************************************************************)
(* How discover_publisher finds the channels of a web site: the candidates *)
(* it collects from the home page, from robots.txt, from paths that are    *)
(* common and from the caller, which of them are tried, what makes one     *)
(* valid, and the channels that are written.                               *)
(*                                                                         *)
(* A page is [root, items, tags]: the root element of its XML ("none" when *)
(* it is not XML), the number of its items or entries that have a link,    *)
(* and its <link>, <a> and </a> tags in order.  What the network answers   *)
(* is [status, final, page]: status is "ok" for 2xx, "refused" for another *)
(* code and "error" when the fetcher raises; final is the URL after        *)
(* redirects.                                                              *)
(***************************************************************************)
EXTENDS UrlRules

CONSTANTS
  MaxListings,   \* max_endpoints of discover_listing_endpoints, 12
  NoHref         \* a tag without an address

ASSUME ListingsBound == MaxListings \in Nat

Endpoint(url, source, hint) == [url |-> url, source |-> source, hint |-> hint]

\* urljoin cannot split the address of a tag it is asked to resolve.
Breaks(tag) == tag.href # NoHref /\ tag.href.scheme = "broken"

\* _AlternateLinkParser: the feeds a page names; a link of another type is "other".
Alternates(tags) ==
  LET step(done, t) ==
        IF t.tag = "link" /\ t.type \in {"rss", "atom"} /\ t.href # NoHref
        THEN Append(done, Endpoint(t.href, "html_alternate", t.type)) ELSE done
  IN FoldLeft(step, <<>>, tags)

\* _AnchorLinkParser: an anchor counts when it is closed; one without an address does not
\* open, but its end closes the one around it.
Anchors(tags) ==
  LET step(s, t) ==
        CASE t.tag = "a" /\ t.href # NoHref -> [s EXCEPT !.open = Append(@, t.href)]
          [] t.tag = "/a" /\ s.open # <<>> ->
               [open |-> Front(s.open), links |-> Append(s.links, Last(s.open))]
          [] OTHER -> s
  IN FoldLeft(step, [open |-> <<>>, links |-> <<>>], tags).links

\* origin_for_url of a URL that normalize_homepage_url accepts.
Origin(u) == <<u.scheme, u.host, CanonicalPort(u)>>

\* The URLs of a page's own site that a link of it can be followed to.
OwnLinks(tags, page) ==
  LET step(done, u) ==
        IF NotCanonical(u) \/ Origin(u) # Origin(page) THEN done ELSE Append(done, u)
  IN FoldLeft(step, <<>>, Anchors(tags))

\* discover_html_article_links: the articles, each canonical form once, in the order they
\* first appear.
ArticleLinks(tags, page) ==
  LET step(done, u) ==
        IF LooksLikeArticle(u) /\ Fingerprint(u) \notin Range(done)
        THEN Append(done, Fingerprint(u)) ELSE done
  IN FoldLeft(step, <<>>, OwnLinks(tags, page))

ListingHints ==
  {<<"artificial", "intelligence">>} \cup
  {Word(w) : w \in {"ai", "business", "climate", "economy", "health", "healthcare", "india",
                    "markets", "news", "politics", "science", "space", "sport", "sports",
                    "tech", "technology", "world"}}

ListingExcluded ==
  {Word(w) : w \in {"about", "account", "advertise", "author", "contact", "login", "privacy",
                    "search", "signin", "subscribe", "tag", "terms", "video"}}

LooksLikeListing(u) ==
  LET segments == Segments(u.path) IN
  /\ ~LooksLikeArticle(u)
  /\ Len(segments) \in 1..3
  /\ Range(segments) \cap ListingExcluded = {}
  /\ Range(segments) \cap ListingHints # {}

AsGiven(u) == Canonical(u, {})

\* discover_listing_endpoints: the first of the listing pages, each form once.
Listings(tags, homepage) ==
  LET step(done, u) ==
        IF LooksLikeListing(u) /\ AsGiven(u) \notin Range(done)
        THEN Append(done, AsGiven(u)) ELSE done
      pages == FoldLeft(step, <<>>, OwnLinks(tags, homepage))
  IN [i \in 1..Min({Len(pages), MaxListings}) |->
        Endpoint(pages[i], "homepage_listing_link", "category")]

\* discover_robot_sitemaps, and the try around it: one address that cannot be resolved
\* loses every line of the file, as a failed fetch does.
RobotSitemaps(robots) ==
  IF robots.status # "ok" \/ (\E u \in Range(robots.sitemaps) : u.scheme = "broken")
  THEN <<>>
  ELSE [i \in DOMAIN robots.sitemaps |->
          Endpoint(robots.sitemaps[i], "robots_txt", "sitemap")]

CommonPaths ==
  << <<"sitemap.xml">>, <<"sitemap_index.xml">>, <<"news", "sitemap.xml">>,
     <<"sitemap", "news.xml">>, <<"feed">>, <<"rss">>, <<"rss.xml">>, <<"feed.xml">> >>

\* common_discovery_endpoints
CommonEndpoints(homepage) ==
  [i \in DOMAIN CommonPaths |->
     Endpoint([homepage EXCEPT !.path = <<CommonPaths[i]>>, !.query = <<>>,
                               !.form = CanonicalForm(homepage),
                               !.port = CanonicalPort(homepage), !.fragment = FALSE],
              "common_path", IF i <= 4 THEN "sitemap" ELSE "rss")]

\* A tag of the home page that urljoin cannot resolve ends the whole discovery.
HomepageBreaks(site) ==
  \E t \in Range(site.tags) :
    t.tag # "/a" /\ (t.tag = "link" => t.type # "other") /\ Breaks(t)

Candidates(site) ==
  <<Endpoint(site.homepage, "homepage", "homepage")>>
  \o Alternates(site.tags) \o Listings(site.tags, site.homepage)
  \o RobotSitemaps(site.robots) \o CommonEndpoints(site.homepage)
  \o [i \in DOMAIN site.manual |-> Endpoint(site.manual[i], "manual_fallback", "none")]

\* unique_endpoints: the first candidate of each canonical URL.
Unique(endpoints) ==
  LET step(done, e) ==
        IF NotCanonical(e.url) \/ (\E d \in Range(done) : d.url = AsGiven(e.url))
        THEN done ELSE Append(done, [e EXCEPT !.url = AsGiven(@)])
  IN FoldLeft(step, <<>>, endpoints)

\* parse_feed and parse_sitemap raise on another root; a page with neither is not XML.
FeedRoots == {"rss", "rdf", "feed"}

SitemapRoots == {"urlset", "sitemapindex"}

HtmlTypes == {"homepage", "category", "tag", "author", "archive", "internal_link", "search"}

Valid(url, type, source, count) ==
  <<[url |-> url, type |-> type, source |-> source, count |-> count]>>

\* validate_endpoint_payload: one channel, or none when it raises.
Validate(page, url, source, hint) ==
  LET articles == ArticleLinks(page.tags, url) IN
  IF hint \in HtmlTypes /\ (\E t \in Range(page.tags) : t.tag = "a" /\ Breaks(t)) THEN <<>>
  ELSE IF hint \in HtmlTypes /\ articles # <<>> THEN Valid(url, hint, source, Len(articles))
  ELSE IF page.root \in FeedRoots /\ page.items > 0
       THEN Valid(url, IF page.root = "feed" THEN "atom" ELSE "rss", source, page.items)
  ELSE IF page.root \in SitemapRoots /\ page.items > 0
       THEN Valid(url, "sitemap", source, page.items)
  ELSE <<>>

\* One turn of _validate_endpoints: a refusal or any exception costs that endpoint only.
Attempt(e, answer) ==
  IF answer.status = "ok" THEN Validate(answer.page, answer.final, e.source, e.hint) ELSE <<>>

StopsAtFailure(endpoints, answers) ==
  LET fails(e) == answers[e.url].status = "error"
      kept == {i \in DOMAIN endpoints : \A j \in 1..i : ~fails(endpoints[j])}
  IN FlattenSeq([i \in DOMAIN endpoints |->
                   IF i \in kept THEN Attempt(endpoints[i], answers[endpoints[i].url]) ELSE <<>>])

ValidateEndpoints(endpoints, answers) ==
  LET step(done, e) == done \o Attempt(e, answers[e.url])
  IN FoldLeft(step, <<>>, endpoints)

\* _create_channel_if_absent, for each of them in turn: the first of a URL makes the channel.
Channels(validated) ==
  LET step(done, v) ==
        IF \E d \in Range(done) : d.url = AsGiven(v.url)
        THEN done ELSE Append(done, [v EXCEPT !.url = AsGiven(@)])
  IN FoldLeft(step, <<>>, validated)

\* The channels that discover_publisher writes for a site whose home page it could read,
\* when answers is what each URL answers.
Discovered(site, answers) ==
  IF HomepageBreaks(site) THEN <<>>
  ELSE Channels(ValidateEndpoints(Unique(Candidates(site)), answers))
=============================================================================
