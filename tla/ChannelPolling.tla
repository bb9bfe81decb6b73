--------------------------- MODULE ChannelPolling ---------------------------
(***************************************************************************)
(* The discovery poller: any number of slots lease the channels of a         *)
(* publisher, fetch their documents with a conditional request, and observe   *)
(* the entries one transaction at a time (AcquisitionService).  A slot is one *)
(* task of the batch a PollWorker has leased: ChannelPollService.poll of one   *)
(* channel, with its wait for the semaphore.                                  *)
(*                                                                           *)
(* `next` says whether next_poll_at is NULL, has come ("due") or is to come    *)
(* ("later"); `lease` is as in ArticleJobs; `tag` is the version of the        *)
(* document that the stored validator (etag, last_modified) stands for, 0 for  *)
(* none.  The poll runs, their counters and the messages that a poll ended are *)
(* written and never read by the poller, and are left out.                    *)
(***************************************************************************)
EXTENDS Naturals, Sequences

CONSTANTS
  Channels,     \* discovery channels of one publisher
  Indexes,      \* those whose document is a sitemap index, listing channels
  Seeded,       \* those that exist from the start
  Manual,       \* those that are polled on request only
  URLs,         \* URL fingerprints
  Unknown,      \* origin of a URL that is not admitted
  LastVersion,  \* bound: versions of a document
  Entries,      \* Entries[ch][v]: what version v lists, as the admission filter leaves it
  Slots,        \* concurrent polls
  NoChannel,    \* the channel of an idle slot
  Cap,          \* max_new_urls_per_channel_poll
  Overrun,      \* may a lease expire while a poll that holds it is running?
  MaxFaults,    \* bound: polls that raise an exception of their own
  MaxAbandons,  \* bound: polls that end without recording anything
  MaxLostAcks,  \* bound: commits that succeed but are reported as failures
  MaxRequests,  \* bound: polls requested by schedule_now or create_fetch_job
  MaxDeletes    \* bound: deletions of the publisher

Versions == 1..LastVersion

ASSUME ChannelAssumption ==
  /\ Indexes \subseteq Channels
  /\ Seeded \subseteq Channels
  /\ Manual \subseteq Channels
  /\ NoChannel \notin Channels
  /\ Unknown \notin Channels
ASSUME LimitAssumption ==
  /\ LastVersion \in Nat \ {0}
  /\ Cap \in Nat \ {0}
  /\ Overrun \in BOOLEAN
  /\ MaxFaults \in Nat
  /\ MaxAbandons \in Nat
  /\ MaxLostAcks \in Nat
  /\ MaxRequests \in Nat
  /\ MaxDeletes \in Nat
ASSUME EntryAssumption ==
  \A ch \in Channels : \A v \in Versions :
    Entries[ch][v] \in Seq(IF ch \in Indexes THEN Channels ELSE URLs)

VARIABLES
  site,       \* version of the document at the endpoint of a channel
  opened,     \* the channels that have a row in discovery_channels
  channel,    \* those rows
  origin,     \* url_candidates: the channel that had a URL admitted
  observed,   \* url_discoveries
  outbox,     \* outbox_events about channels and URLs, by idempotency key
  poll,       \* what each slot is doing
  asked,      \* channels with a requested poll that no fetch has served yet
  used        \* how much of each fault bound has been used up

vars == <<site, opened, channel, origin, observed, outbox, poll, asked, used>>
tables == <<opened, origin, observed, outbox>>

----------------------------------------------------------------------------
(* Rows and polls *)

Rows == [active : BOOLEAN, next : {"null", "due", "later"},
         lease : {"none", "live", "expired"}, tag : {0} \cup Versions]

Places == {"idle", "fetching", "scanning", "committing",
           "succeeding", "unmodified", "failing"}

\* `tag` is the channel's validator when it was leased, `version` what was fetched, `pos`
\* the next entry, `admitted` the URLs admitted so far; `fresh` is what the open
\* transaction has found out about the entry: no row exists for it.
Polls == [at : Places, channel : Channels \cup {NoChannel}, tag : {0} \cup Versions,
          version : {0} \cup Versions, pos : Nat, admitted : Nat, fresh : BOOLEAN]

Idle == [at |-> "idle", channel |-> NoChannel, tag |-> 0, version |-> 0,
         pos |-> 1, admitted |-> 0, fresh |-> FALSE]

Polling(s, ch) == poll[s].channel = ch

NewRow(next) == [active |-> TRUE, next |-> next, lease |-> "none", tag |-> 0]

Admitted(ch, u) == [type |-> "frontier.url_admitted", channel |-> ch, subject |-> u]
Observed(ch, u) == [type |-> "discovery.item_observed", channel |-> ch, subject |-> u]
Opened(ch)      == [type |-> "discovery.channel_created", channel |-> ch, subject |-> ch]

----------------------------------------------------------------------------
(* Around the poller *)

\* The publisher's site changes the document.
Publish(ch) ==
  /\ site[ch] < LastVersion
  /\ site' = [site EXCEPT ![ch] = @ + 1]
  /\ UNCHANGED <<tables, channel, poll, asked, used>>

BecomesDue(ch) ==
  /\ ch \in opened
  /\ channel[ch].next = "later"
  /\ channel' = [channel EXCEPT ![ch].next = "due"]
  /\ UNCHANGED <<site, tables, poll, asked, used>>

LeaseExpires(ch) ==
  /\ channel[ch].lease = "live"
  /\ Overrun \/ \A s \in Slots : ~Polling(s, ch)
  /\ channel' = [channel EXCEPT ![ch].lease = "expired"]
  /\ UNCHANGED <<site, tables, poll, asked, used>>

\* schedule_now, and the same update in create_fetch_job.
ScheduleNow(ch) ==
  /\ ch \in opened
  /\ channel[ch].active
  /\ used.requests < MaxRequests
  /\ channel' = [channel EXCEPT ![ch].next = "due"]
  /\ asked' = asked \cup {ch}
  /\ used' = [used EXCEPT !.requests = @ + 1]
  /\ UNCHANGED <<site, tables, poll>>

\* delete_publisher deactivates the channels that exist; polls under way go on.
DeletePublisher ==
  /\ used.deletes < MaxDeletes
  /\ channel' = [ch \in Channels |->
                   IF ch \in opened THEN [channel[ch] EXCEPT !.active = FALSE]
                                    ELSE channel[ch]]
  /\ used' = [used EXCEPT !.deletes = @ + 1]
  /\ UNCHANGED <<site, tables, poll, asked>>

----------------------------------------------------------------------------
(* Leasing and fetching *)

\* Mutants: a leased channel is leased again; one whose lease expired is not.
ClaimableWhenever(r) == r.active /\ r.next = "due"
ClaimableUnleasedOnly(r) == r.active /\ r.next = "due" /\ r.lease = "none"

\* The WHERE clause of lease_due_channels.
Claimable(r) == r.active /\ r.next = "due" /\ r.lease \in {"none", "expired"}

\* The slot goes on with start_run, which only inserts the row of the poll run.
Lease(s, ch) ==
  /\ poll[s].at = "idle"
  /\ ch \in opened
  /\ Claimable(channel[ch])
  /\ channel' = [channel EXCEPT ![ch].lease = "live"]
  /\ poll' = [poll EXCEPT ![s] =
                [Idle EXCEPT !.at = "fetching", !.channel = ch, !.tag = channel[ch].tag]]
  /\ UNCHANGED <<site, tables, asked, used>>

\* The endpoint answers 304 only if the validator that was sent is that of its document.
FetchNotModified(s) ==
  LET ch == poll[s].channel IN
  /\ poll[s].at = "fetching"
  /\ poll[s].tag = site[ch]
  /\ poll' = [poll EXCEPT ![s].at = "unmodified"]
  /\ asked' = asked \ {ch}
  /\ UNCHANGED <<site, tables, channel, used>>

FetchDocument(s) ==
  LET ch == poll[s].channel IN
  /\ poll[s].at = "fetching"
  /\ poll' = [poll EXCEPT ![s].at = "scanning", ![s].version = site[ch]]
  /\ asked' = asked \ {ch}
  /\ UNCHANGED <<site, tables, channel, used>>

\* A network error, a status other than 2xx, a payload that does not parse, or a
\* database error: everything raised between start_run and the end of the scan.
Raise(s) ==
  /\ poll[s].at \in {"fetching", "scanning", "committing"}
  /\ used.faults < MaxFaults
  /\ poll' = [poll EXCEPT ![s].at = "failing"]
  /\ used' = [used EXCEPT !.faults = @ + 1]
  /\ UNCHANGED <<site, tables, channel, asked>>

----------------------------------------------------------------------------
(* _process_payload *)

Listing(p) == Entries[p.channel][p.version]
Entry(p) == Listing(p)[p.pos]
OfIndex(p) == p.channel \in Indexes

\* The cap counts the URLs a poll has admitted; an index is expanded to its end.
CapReached(p) == ~OfIndex(p) /\ p.admitted >= Cap

Exists(p) == IF OfIndex(p) THEN Entry(p) \in opened ELSE origin[Entry(p)] # Unknown

\* observe_discovery refuses a channel that is not active; create_channel does not look.
Refuses(p) == ~OfIndex(p) /\ ~channel[p.channel].active

\* The transaction for one entry opens and looks the entry up.
ReadEntry(s) ==
  LET p == poll[s] IN
  /\ p.at = "scanning"
  /\ p.pos <= Len(Listing(p))
  /\ ~CapReached(p)
  /\ ~Refuses(p)
  /\ poll' = [poll EXCEPT ![s].at = "committing", ![s].fresh = ~Exists(p)]
  /\ UNCHANGED <<site, tables, channel, asked, used>>

RefuseEntry(s) ==
  LET p == poll[s] IN
  /\ p.at = "scanning"
  /\ p.pos <= Len(Listing(p))
  /\ ~CapReached(p)
  /\ Refuses(p)
  /\ poll' = [poll EXCEPT ![s].at = "failing"]
  /\ UNCHANGED <<site, tables, channel, asked, used>>

\* Mutant: no unique constraint on URL fingerprints and endpoints.
NeverConflicts(p) == FALSE

\* The unique constraints on url_candidates and discovery_channels.
Conflict(p) == p.fresh /\ Exists(p)

\* The observation is inserted on every discovery, and ignored if it exists.
Records(p) ==
  IF OfIndex(p) THEN observed ELSE observed \cup {<<p.channel, Entry(p)>>}

\* The message that the entry now exists.
Creation(p) == IF OfIndex(p) THEN Opened(Entry(p)) ELSE Admitted(p.channel, Entry(p))

\* The messages of an entry's transaction; repeated ones are ignored.
Announces(p) ==
  (IF p.fresh THEN {Creation(p)} ELSE {})
  \cup (IF OfIndex(p) THEN {} ELSE {Observed(p.channel, Entry(p))})

\* The transaction commits, and the scan goes on to the next entry or, if the
\* acknowledgement is lost, fails.
CommitEntry(s, acknowledged) ==
  LET p == poll[s] IN
  /\ p.at = "committing"
  /\ ~Conflict(p)
  /\ origin' = IF OfIndex(p) \/ ~p.fresh THEN origin
               ELSE [origin EXCEPT ![Entry(p)] = p.channel]
  /\ observed' = Records(p)
  /\ opened' = IF OfIndex(p) THEN opened \cup {Entry(p)} ELSE opened
  /\ channel' = IF OfIndex(p) /\ p.fresh
                THEN [channel EXCEPT ![Entry(p)] = NewRow("due")] ELSE channel
  /\ outbox' = outbox \cup Announces(p)
  /\ poll' = [poll EXCEPT ![s] =
                IF acknowledged
                THEN [p EXCEPT !.at = "scanning", !.pos = @ + 1, !.fresh = FALSE,
                               !.admitted = IF p.fresh THEN @ + 1 ELSE @]
                ELSE [p EXCEPT !.at = "failing"]]
  /\ UNCHANGED <<site, asked>>

EntryObserved(s) ==
  /\ CommitEntry(s, TRUE)
  /\ UNCHANGED used

EntryUnacknowledged(s) ==
  /\ used.lostAcks < MaxLostAcks
  /\ CommitEntry(s, FALSE)
  /\ used' = [used EXCEPT !.lostAcks = @ + 1]

\* A unique violation rolls the transaction back, and the poll fails.
EntryConflicts(s) ==
  /\ poll[s].at = "committing"
  /\ Conflict(poll[s])
  /\ poll' = [poll EXCEPT ![s].at = "failing"]
  /\ UNCHANGED <<site, tables, channel, asked, used>>

ScanEnds(s) ==
  LET p == poll[s] IN
  /\ p.at = "scanning"
  /\ p.pos > Len(Listing(p)) \/ CapReached(p)
  /\ poll' = [poll EXCEPT ![s].at = "succeeding"]
  /\ UNCHANGED <<site, tables, channel, asked, used>>

----------------------------------------------------------------------------
(* The ends of a poll: complete() writes the channel whoever holds it by now *)

\* Mutant: the channel is not scheduled again.
AfterPollUnscheduled(r, tag) == [r EXCEPT !.next = "null", !.lease = "none", !.tag = tag]

AfterPoll(r, tag) == [r EXCEPT !.next = "later", !.lease = "none", !.tag = tag]

Finish(s, tag) ==
  LET ch == poll[s].channel IN
  /\ channel' = [channel EXCEPT ![ch] = AfterPoll(@, tag)]
  /\ poll' = [poll EXCEPT ![s] = Idle]
  /\ UNCHANGED <<site, tables, asked, used>>

\* Without a validator in the response the stored one is kept.
FinishSucceeded(s) ==
  /\ poll[s].at = "succeeding"
  /\ \E tag \in {poll[s].version, channel[poll[s].channel].tag} : Finish(s, tag)

\* The validator that was sent is stored again.
FinishNotModified(s) ==
  /\ poll[s].at = "unmodified"
  /\ Finish(s, poll[s].tag)

\* Mutant: the validator of the response is stored although the scan failed.
TagAfterFailureNew(p) == IF p.version = 0 THEN channel[p.channel].tag ELSE p.version

TagAfterFailure(p) == channel[p.channel].tag

FinishFailed(s) ==
  /\ poll[s].at = "failing"
  /\ Finish(s, TagAfterFailure(poll[s]))

\* The process dies or is cancelled, or start_run or complete raises: PollWorker
\* swallows it, and only the expiry of the lease frees the channel.
Abandon(s) ==
  /\ poll[s].at # "idle"
  /\ used.abandons < MaxAbandons
  /\ poll' = [poll EXCEPT ![s] = Idle]
  /\ used' = [used EXCEPT !.abandons = @ + 1]
  /\ UNCHANGED <<site, tables, channel, asked>>

----------------------------------------------------------------------------
(* The specification *)

Init ==
  /\ site = [ch \in Channels |-> 1]
  /\ opened = Seeded
  /\ channel = [ch \in Channels |-> NewRow(IF ch \in Manual THEN "null" ELSE "due")]
  /\ origin = [u \in URLs |-> Unknown]
  /\ observed = {}
  /\ outbox = {}
  /\ poll = [s \in Slots |-> Idle]
  /\ asked = {}
  /\ used = [faults |-> 0, abandons |-> 0, lostAcks |-> 0, requests |-> 0, deletes |-> 0]

\* What a poll does by itself, as long as its process lives.
PollStep(s) ==
  \/ FetchNotModified(s)
  \/ FetchDocument(s)
  \/ Raise(s)
  \/ ReadEntry(s)
  \/ RefuseEntry(s)
  \/ EntryObserved(s)
  \/ EntryUnacknowledged(s)
  \/ EntryConflicts(s)
  \/ ScanEnds(s)
  \/ FinishSucceeded(s)
  \/ FinishNotModified(s)
  \/ FinishFailed(s)

ChannelStep(ch) == Publish(ch) \/ BecomesDue(ch) \/ LeaseExpires(ch) \/ ScheduleNow(ch)

LeaseAny(ch) == \E s \in Slots : Lease(s, ch)

Next ==
  \/ \E ch \in Channels : ChannelStep(ch) \/ LeaseAny(ch)
  \/ \E s \in Slots : PollStep(s) \/ Abandon(s)
  \/ DeletePublisher

Spec == Init /\ [][Next]_vars

\* Clocks advance and the worker loop polls for ever.  Channels wait in the order in
\* which they became due (order_by next_poll_at), so none is passed over for ever.
\* Nothing obliges a site to publish or an operator to request a poll.
Fairness ==
  /\ \A ch \in Channels : WF_vars(BecomesDue(ch)) /\ WF_vars(LeaseExpires(ch))
                          /\ SF_vars(LeaseAny(ch))
  /\ \A s \in Slots : WF_vars(PollStep(s))

FairSpec == Spec /\ Fairness

----------------------------------------------------------------------------
(* Properties *)

\* The types of the tables and of the polls.  A channel that is not scheduled has never
\* been polled; a slot polls a channel that exists, at an entry that its document lists.
TypeOK ==
  /\ site \in [Channels -> Versions]
  /\ opened \subseteq Channels
  /\ channel \in [Channels -> Rows]
  /\ origin \in [URLs -> Channels \cup {Unknown}]
  /\ observed \subseteq Channels \X URLs
  /\ poll \in [Slots -> Polls]
  /\ \A ch \in Channels : channel[ch].next = "null" => channel[ch].tag = 0
  /\ \A s \in Slots : poll[s].at # "idle" => poll[s].channel \in opened
  /\ \A s \in Slots : poll[s].at = "committing" => poll[s].pos \in DOMAIN Listing(poll[s])
  /\ asked \subseteq opened
  /\ used \in [faults : Nat, abandons : Nat, lostAcks : Nat,
              requests : Nat, deletes : Nat]

\* The channel has recorded everything its document of that version lists.
Recorded(ch, v) ==
  \A i \in DOMAIN Entries[ch][v] :
    IF ch \in Indexes THEN Entries[ch][v][i] \in opened
                      ELSE <<ch, Entries[ch][v][i]>> \in observed

\* docs/ACQUISITION_ARCHITECTURE.md: "Each discovered URL records every channel that
\* found it".  A stored validator stands for a document whose entries are all recorded:
\* what a later 304 skips has been seen, whatever polls failed or overlapped before.
FoundIsRecorded ==
  \A ch \in opened : channel[ch].tag # 0 => Recorded(ch, channel[ch].tag)

\* The poller implements the ledger that readers of the tables see: URLs are admitted
\* once however polls of several channels race, and announced as they are recorded.
Ledger == INSTANCE FrontierLedger WITH announced <- outbox

ImplementsFrontier == Ledger!Spec

\* While leases outlive polls, a channel is polled by one slot at a time, and its row
\* is leased meanwhile: FOR UPDATE SKIP LOCKED and the lease give no duplicate owner.
OnePollPerChannel ==
  \A s, t \in Slots : poll[s].at # "idle" =>
    /\ channel[poll[s].channel].lease = "live"
    /\ s # t => ~Polling(t, poll[s].channel)

\* Every channel that is active and is not waiting for a request ends up with the last
\* document of its endpoint recorded, after any finite number of failures and crashes;
\* an index ends up with its channels opened.
EventuallyRecorded ==
  \A ch \in Channels :
    <>[](ch \in opened /\ channel[ch].active /\ channel[ch].next # "null"
           => Recorded(ch, site[ch]))

----------------------------------------------------------------------------
(* What the documents say of the program *)

\* README: fetch scheduling endpoints "queue discovery work for the poller".  A request
\* that no fetch has served yet is still queued.
RequestStaysQueued == \A ch \in asked : channel[ch].next = "due"
=============================================================================
