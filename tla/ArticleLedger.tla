---------------------------- MODULE ArticleLedger ----------------------------
(***************************************************************************)
(* What the article worker promises to everything downstream of it: the     *)
(* tables articles, article_versions and events only grow, one article per  *)
(* admitted URL, and each row is announced in the outbox in the very step   *)
(* that adds it.  Leases, attempts, stages and retries do not exist here;   *)
(* ArticleJobs is shown to implement this specification.                    *)
(***************************************************************************)
EXTENDS Naturals, Sequences

CONSTANTS
  Candidates,   \* rows of url_candidates; an article is named by its candidate
  Contents,     \* values of content_sha256
  NoEvent       \* the event of a candidate that has no article yet

VARIABLES
  event,        \* the event an article is assigned to, NoEvent without article
  events,       \* rows of events, each named by the candidate that created it
  versions,     \* versions[c][k] is the content of version number k
  announced     \* outbox messages about articles and events

vars == <<event, events, versions, announced>>

Msg(type, c, k) == [type |-> type, subject |-> c, no |-> k]

VersionMessages(c, k) ==
  {Msg("article.version_created", c, k), Msg("article.claims_extracted", c, k)}

ArticleMessages(c, e) ==
  { Msg("article.ingested", c, 0),
    IF e = c THEN Msg("event.provisional_created", c, 0)
             ELSE Msg("event.article_linked", c, 0) }

Init ==
  /\ event = [c \in Candidates |-> NoEvent]
  /\ events = {}
  /\ versions = [c \in Candidates |-> <<>>]
  /\ announced = {}

\* The first version of a page: an article, its event and version 1 at once.
Ingest(c, e, x) ==
  /\ event[c] = NoEvent
  /\ event' = [event EXCEPT ![c] = e]
  /\ events' = events \cup {e}
  /\ versions' = [versions EXCEPT ![c] = <<x>>]
  /\ announced' = announced \cup ArticleMessages(c, e) \cup VersionMessages(c, 1)

\* A changed page: one more version, whose content no earlier version has.
Revise(c, x) ==
  /\ event[c] # NoEvent
  /\ \A k \in DOMAIN versions[c] : versions[c][k] # x
  /\ versions' = [versions EXCEPT ![c] = Append(@, x)]
  /\ announced' = announced \cup VersionMessages(c, Len(versions[c]) + 1)
  /\ UNCHANGED <<event, events>>

Next ==
  \E c \in Candidates, x \in Contents :
    \/ \E e \in events \cup {c} : Ingest(c, e, x)
    \/ Revise(c, x)

Spec == Init /\ [][Next]_vars
=============================================================================
