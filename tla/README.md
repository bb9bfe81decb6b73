# Newzyfy in TLA+

TLA+ specifications of the news acquisition and article pipeline in
`backend/src/newsintel`, model-checked with TLC on small instances. The safety properties
of the concurrent parts (worker, poller, relay, loops and calls on sources), and what the
URL rules, the discovery of endpoints, the matching of events and the reading of pages
promise for every input, are also proved with TLAPS. Paths below are relative to
`backend/src/newsintel/` unless they start with `docs/` or `README`.

## 1. The system

Newzyfy has no message broker and no in-memory state that outlives a process: four
programs and an API meet in one PostgreSQL database. Everything that can go wrong
between them goes wrong in the tables.

```
 operator / API                publisher's site
     | create_channel, schedule_now,  | documents, pages
     | create_fetch_job, delete       |
     v                                v
 discovery_channels --lease--> poller ----observe_discovery----> url_candidates
        ^                        | create_channel                url_discoveries
        +------------------------+                                    | lease
                                                                      v
 cleanup_old_jobs --update--> url_candidates  <---state/stage--- article worker
                                                                      | one transaction
                                                                      v
 outbox relay <--unpublished-- outbox_events <---- articles, versions, claims, events
```

### Inventory

| Component | Code | State it keeps | Operations | What makes it correct |
|---|---|---|---|---|
| Article worker | `application/articles/processing.py`, `infrastructure/db/article_processing_repository.py` | `url_candidates` (state, stage, lease, attempts), `article_fetch_runs`, `articles`, `article_versions`, claims, `events`, outbox | lease, reject, start, stage updates, `complete_success`, `complete_failure` | one job per URL while leases hold; committed articles are complete, stored once and announced once, whatever jobs overlap; attempts are bounded; every URL settles |
| Article worker loop | `workers/articles.py`, `ArticleWorker.run_once` | a batch of leases, a semaphore per batch | lease a batch, run it, back off | leases outlive the wait for the semaphore too; an error in one job does not lose the others; no job outlives its batch unless an error does |
| Cleanup | `maintenance/cleanup_old_jobs.py` | none; updates candidates and fetch jobs | one statement per table, in one transaction | never takes back a durable result |
| Discovery poller | `application/acquisition/polling.py`, `infrastructure/db/polling_repository.py` | `discovery_channels` (schedule, lease, validator), `channel_poll_runs` | lease, fetch conditionally, scan, complete | one poll per channel while leases hold; what a 304 will skip has been recorded; every document is recorded in the end |
| Poller loop | `workers/poller.py` | a batch, a semaphore | lease a batch, poll it | failures of one poll do not stop the others |
| Admission | `application/acquisition/service.py`, `infrastructure/db/acquisition_repositories.py` | `url_candidates`, `url_discoveries`, channels, outbox | `observe_discovery`, `create_channel`, `create_publisher` | a URL is admitted once; every channel that found it is recorded once; messages match |
| Outbox relay | `workers/outbox.py` | `outbox_events.published_at`, `consumer_inbox` | publish a batch | each message recorded once, by one relay, none lost; only unseen messages are overtaken |
| Sources and fetch jobs | `application/sources/service.py` | publishers, channels, fetch jobs | discover, create, add a channel, request fetches, delete | tables and messages agree whatever fails; constraints end only calls that lost a race; a deletion lasts; who can block whom is known |
| Events | `domain/events/*.py`, `_decide_event` | none (pure) | load recent events, score, decide | an article has one event; a copy of a recent article joins its event |
| Claims | `domain/intelligence/claims.py` | none (pure) | split, select | no page yields two equal claims, which the tables refuse, without reason |
| URL rules | `domain/acquisition/canonicalization.py`, `article_filter.py` | none (pure) | canonical form, admission | one form per page; poller and worker agree |
| Frontier priority, change detection | `domain/acquisition/frontier.py`, `change_detection.py` | none (pure) | score, compare | arithmetic |
| Collectors | `adapters/collectors/*.py` | none | candidates of a site, validation | a bad endpoint costs only itself |
| Extractor | `adapters/extractors/article_html.py` | parser stacks | read a page, choose the text, refuse it | what is skipped and what is kept follow the nesting of the page |
| Fetcher | `adapters/http/safe_fetcher.py` | none | fetch | outcomes are classified rightly |
| API, queries, diagnostics | `api/**`, `application/articles/query_service.py`, `core/**` | none | read | |

### Where it is hard

* **Leases without fencing.** A lease is a timestamp. Nothing renews it, and no write that
  a job or a poll makes looks at the owner, the state or the expiry of the row: a job that
  outlives its lease goes on writing over the one that took over.
* **READ COMMITTED with no row locked.** `complete_success` and `observe_discovery` read,
  decide and insert; only unique constraints stand between two transactions that read the
  same absence. The unit of work writes only the columns that differ from what was loaded,
  so a row is a mixture of what a transaction wrote and what others wrote since.
* **Exceptions for durable results.** A commit whose acknowledgement is lost looks like a
  failure, and is recorded as one over a durable success.
* **Crashes.** A process that dies leaves a leased row, and perhaps an open run, which only
  the expiry of the lease brings back.
* **Partial scans.** A poll commits entry by entry and stores the document's validator at
  the end; what is skipped by a later 304 must have been recorded before.
* **An operator's update** (cleanup, a requested poll, a deletion) that meets a job or a
  poll under way, or another operator's: calls that read first and insert later, and two
  transactions that lock the same rows in opposite orders.
* **A batch is leased at once and worked on little by little.** The lease of its last row
  runs while the row waits for a semaphore, and `gather` passes on the first error while
  its other tasks live on without a parent.
* **Decisions on boundaries.** Canonical forms, scores against thresholds and the stacks of
  the HTML parser are pure, but two callers must agree on them, at different times or on
  different spellings of one thing.

`PROJECT.json` lists these hazards at their lines, with the properties that cover them.

## 2. The modules

| Module | What it is |
|---|---|
| `ArticleLedger` | abstract: what the article tables promise their readers |
| `ArticleJobs` | the article worker, any number of overlapping jobs, and the cleanup |
| `MCArticleJobs` | instances of it for TLC |
| `ArticleJobsProofs` | theorems about `ArticleJobs`: its types, what holds however jobs overlap, the refinement of `ArticleLedger`, and what holds while leases outlive their jobs |
| `FrontierLedger` | abstract: what the discovery tables promise their readers |
| `ChannelPolling` | the discovery poller with the admission of what it finds |
| `MCChannelPolling` | instances of it for TLC |
| `ChannelPollingProofs` | theorems about `ChannelPolling`, and the refinement of `FrontierLedger` |
| `OutboxDelivery` | abstract: what the outbox promises a consumer |
| `OutboxRelay` | writers and any number of relays, with their loops and faults |
| `OutboxRelayProofs` | theorems about `OutboxRelay`, and the refinement of `OutboxDelivery` |
| `WorkerLoop` | `run_worker` and `run_once` of both workers: batches, semaphore, gather, backoff |
| `WorkerLoopProofs` | theorems about `WorkerLoop` |
| `SourceOnboarding` | the calls on publishers, channels and fetch jobs, with their row locks |
| `MCSourceOnboarding` | instances of it for TLC |
| `SourceOnboardingProofs` | theorems about `SourceOnboarding` |
| `UrlRules` | pure: canonical form and admission of a URL |
| `EndpointDiscovery` | pure: how the channels of a site are found (extends `UrlRules`) |
| `EventMatching` | pure: how an article is assigned to an event |
| `PageReading` | pure: how a page is read, judged and split into claims |
| `MCDecisions` | bounded inputs for the four pure modules, and their properties |
| `SequenceFolds` | lemmas: induction over sequences, and what a fold computes, for any step |
| `UrlRulesProofs` | theorems about `UrlRules` and `EndpointDiscovery`, for every URL and site |
| `DecisionsProofs` | theorems about `EventMatching` and `PageReading`, for every text, row and page |

### ArticleJobs

A job is one run of `ArticleProcessor.process`, named `<<c, n>>` by its URL and the
`attempt_count` its lease wrote. `pc[c][n]` is where it is in `process`; `tx[c][n]` is what
its open `complete_success` transaction has read. The other variables are tables: `row`
(`url_candidates`), `run` (`article_fetch_runs`), `event` (`articles.event_id`), `events`,
`versions` (`article_versions`, with their claims), `outbox`; `sweep` is the set of rows
the running cleanup statement has matched.

| Actions | Code |
|---|---|
| `Lease`, `LeaseExpires`, `BecomesDue` | `lease_due_candidates`, and the clock it compares with |
| `RejectBeforeFetch`, `StartFetch`, `Advance` | `reject_before_fetch`, `start_fetch`, `update_processing_stage` |
| `ReadForCommit`, `CommitSuccess`, `CommitUnacknowledged`, `CommitFails` | `complete_success`: its reads, then the flush and commit with the unique constraints |
| `Raise`, `RecordFailure` | the exceptions of `process` and `complete_failure` |
| `Abandon` | process death, cancellation, or an exception that nothing handles |
| `SweepScan`, `SweepCommit` | `cleanup_old_jobs`: the snapshot of the subquery, and the update that follows |

Abstractions: time is what queries compare (`fetch` due or later, `lease` none, live or
expired); an extraction yields one of `Contents`, of which the `Repetitive` ones have a
claim sentence twice and so violate a unique constraint; the choice of an event is any
committed event or a new one. Every transaction is one step but `complete_success`, whose
read part and commit part are two, since everything that could go wrong lies between them;
`complete_failure` and the stage updates read and write one row that they identify by id,
and what they write does not depend on what they read. The statements of the read part each
see what is committed when they begin, and the flush of an article that is there already
locks its row before the versions are read; the model reads all of them at once and locks
nothing, so it has fewer mixtures of old and new reads and more overlapping transactions.

### ChannelPolling

A slot is one task of a batch that a `PollWorker` has leased. `channel[ch]` is the row of
`discovery_channels`: `active`, `next` (`next_poll_at` NULL, due or later), `lease` and
`tag`, the version of the document whose validator is stored. `site[ch]` is the version the
endpoint serves, `Entries[ch][v]` what version `v` lists once duplicates and what the
admission filter refuses are left out; a sitemap index lists channels. `origin`,
`observed`, `opened` and `outbox` are the tables admission writes.

| Actions | Code |
|---|---|
| `Lease`, `LeaseExpires`, `BecomesDue` | `lease_due_channels` (with `start_run`), and the clock |
| `ScheduleNow`, `DeletePublisher` | `schedule_now` and the update in `create_fetch_job`; `delete_publisher` |
| `FetchNotModified`, `FetchDocument`, `Raise` | the fetch in `poll`, and its exceptions |
| `ReadEntry`, `RefuseEntry`, `EntryObserved`, `EntryUnacknowledged`, `EntryConflicts` | one transaction of `observe_discovery` or `create_channel` per entry |
| `ScanEnds`, `FinishSucceeded`, `FinishNotModified`, `FinishFailed` | the ends of `_process_payload` and `poll`, and `complete` |
| `Abandon` | process death, or an exception of `start_run` or `complete`, which `run_once` swallows |
| `Publish` | the site (external) |

Abstractions: the two validators (`etag`, `last_modified`) are one, and a response may come
without one; an endpoint answers 304 only to the validator of the document it serves; the
adaptive interval is "later"; poll runs and the messages that a poll ended are written and
never read by these programs, and are left out. The transaction of an entry is two steps,
its lookup and its commit, like `complete_success`. `asked` is a history variable: the
channels whose requested poll no fetch has served yet.

### OutboxRelay

Messages are numbers in the order of `occurred_at`, which a writer takes when it builds a
message; `Write` is the commit of a writer's transaction, so rows appear in any order.
`outbox[m]` is the row, `inbox[m]` counts the rows of `consumer_inbox`, `batch[r]` is what
the open transaction of relay `r` has locked, `loop[r]` and `failures[r]` are its control
state. Two variables are history: `stamp[m]` is the relay whose commit published `m`, and
`late[r]` what the query of `r` could not have taken.

| Actions | Code |
|---|---|
| `Write` | `SqlAlchemyOutboxRepository.add` and the commit of its unit of work |
| `Claim`, `FindNothing` | the SKIP LOCKED query of `publish_pending_outbox_once` |
| `Commit`, `CommitUnacknowledged`, `Fail` | the inserts, the update and the commit, and what `run_worker` does on each outcome |
| `Crash`, `Restart`, `Wake` | the process and the two sleeps of its loop |

### WorkerLoop

A round is one call of `run_once` that leased something; `task[k][c]` is the task of row
`c` in round `k`. Time is counted in ticks here, because the question is whether a lease
that begins with the batch outlasts the wait for the semaphore and the job. Only the
length of a job is a premise (`JobTime`); it is what the article timeouts bound in
practice and no line enforces. The poller's loop is the same program but for the exceptions
of a poll, all of which `run` swallows (`Swallow`).

| Actions | Code |
|---|---|
| `LeaseBatch`, `LeaseNothing`, `LeaseFails` | the lease at the head of `run_once`, and its exceptions |
| `Start`, `Settle`, `Swallow`, `RaiseDatabaseError` | a task: the semaphore, `process`, and what `run` catches or passes on |
| `GatherReturns`, `Wake` | the end of `gather` and of the sleeps of `run_worker` |
| `Tick` | time: not while a task may start or a job has had its time |

### SourceOnboarding

A call is one request to the API, `phase[c]` is where it is. A call that reads and then
writes is two steps or more, since other calls commit between them: `discover_publisher`
looks for the domain, chooses a slug and inserts; `create_publisher` and `create_channel`
look and insert; `create_fetch_job` and `delete_publisher` match rows, lock them, and
commit. An update locks the rows it has matched one by one, in any order, since PostgreSQL
locks them as its scan meets them and the scans of two statements may differ; it ends one
of the calls that wait for each other (`BreakDeadlock`). Beside the calls, the cleanup
completes fetch jobs (`CompleteStale`) and the poller polls what is due (`Poll`).

| Actions | Code |
|---|---|
| `HomepageFails`, `CheckDomain`, `ChooseSlug`, `RegisterFound` | `discover_publisher`, `_unique_slug`, `_create_channel_if_absent` |
| `CheckSlug`, `RegisterCreated`, `CheckChannel`, `AddChannel` | `create_publisher`, `create_channel` |
| `ChooseTargets`, `MatchChannels`, `MarkPublishers`, `CommitJob` | `create_fetch_job` |
| `FindPublisher`, `MatchAllChannels`, `CommitDelete` | `delete_publisher` |
| `LockChannel`, `LockPublisher` | one more row of an update under way is locked |
| `Fail`, `BreakDeadlock` | an error of any statement, which the routes translate |

A commit whose acknowledgement is lost is left out here: nobody repeats these calls.

### The pure modules

`UrlRules` splits a URL into scheme, host, port, path segments, parameters and fragment; a
segment is a sequence of words, which is what the slug and date patterns look at. A host
is the one that is meant and the form it is written in (`HostForms`): in another case,
with a dot at its end, in Unicode, behind a user, as an IPv6 literal with or without its
brackets. `EndpointDiscovery` composes with it the parsers of links and anchors, the
candidates of a site, what makes each valid and the channels that are written.
`EventMatching` keeps texts as sequences of words, whose phrases are runs of capitalized
words cut five by five (`Phrases`), and computes scores in integers: `Unit` (27720) is a
multiple of every number up to 12, so ratios of sets with at most 12 members in their
union are exact, where the code rounds. `PageReading` reads tokens (a start tag, an end
tag, a text) with the stacks of `_ArticleHTMLParser`, then filters blocks, chooses the
text, rates it and splits it into claims; a sentence is a number, and what the regular
expressions say of it is a constant (`Boilerplate`, `Paywalled`, `Fragments`,
`Claimlike`).

### The abstract specifications

`ArticleLedger` has two actions: a first version is stored with its article and its
(committed or new) event, or a version with a new content is appended; and what is
announced is exactly that. `FrontierLedger` has three: a URL is admitted by the first
channel that finds it, a further channel is recorded for it, a channel is opened; again
with the messages. Both are checked as `PROPERTY` under a refinement mapping that hides
jobs, leases, polls and failures: whoever reads only these tables and the outbox cannot see
that jobs overlap, crash and are repeated. `docs/MODULE_SYNCHRONIZATION.md:99` says as
much: "Reprocessing is safe because URL identity, channel observations, and outbox
idempotency keys are unique". `OutboxDelivery` has two actions: messages are announced, and
a batch of announced messages is delivered, each once; `OutboxRelay` implements it, relays,
locks and faults hidden.

## 3. The runs

| Run | Question | Instance |
|---|---|---|
| `jobs_overlap` | Do the article tables stay right whatever jobs overlap? | one URL, two contents, three leases that may expire under running jobs, one abandoned job, one lost acknowledgement, one cleanup; contents are symmetric |
| `jobs_disciplined` | Given leases that outlive jobs: one job per URL, the attempt bound, the row's verdict, the outbox, and does every URL settle? | two URLs that may share an event, a repetitive content, three leases each, one of each fault |
| `jobs_success` | Is a recorded success final, as the README says? | violated: see below |
| `polls_overlap` | Do the discovery tables and the stored validators stay right whatever polls overlap? | two feeds that share a URL, two versions, two slots, leases that expire under polls, one lost acknowledgement; slots are symmetric |
| `polls_disciplined` | Given leases that outlive polls: one poll per channel, and is every document recorded in the end? | an index polled on request and the sitemap it lists, two versions each, two slots, one each of exceptions, abandoned polls and deletions, and two requests: one to start the index, one that may meet a poll |
| `polls_cap` | Does a validator stand for a recorded document when the cap bites? | violated: see below |
| `polls_requests` | Does a requested poll stay queued until it is served? | violated: see below |
| `outbox_relay` | Is every message recorded once, by one relay, in the end, and what may be overtaken? | two relays, batches of two, four messages committed in any order, two faults |
| `outbox_order` | Are the messages of an aggregate published in their order? | violated: see below |
| `worker_loop` | Do leases outlive tasks, orphans included, and does every row get settled whatever errors occur? | four rows, batches of two through one semaphore slot, jobs of half a lease, two errors |
| `sources` | What do concurrent calls of operators leave behind? | three calls of any kind, one publisher with a channel, one name, three domains, a slug given by hand that a discovery may choose, sites with no endpoint or with a redirected one; rows are locked in any order; two domains are symmetric |
| `decisions` | Do the pure rules agree with themselves and each other? | 1,185 spellings, 820 paths, 1,296 sites, 22,528 articles with their events, and all 660,000 beginnings of well-formed pages of at most 8 tokens |

**Bounds.** In the article and discovery runs, `AttemptCap` is one more than `MaxAttempts`,
so that a lease beyond the limit happens. Two URLs are what event sharing needs, and two
contents what a second version needs; three jobs of one URL let a third overlap with a
failing and a committing one. Two channels and two slots are what a race for one URL needs;
two versions are what a stored validator can be stale against. The fault bounds
(`MaxAbandons`, `MaxLostAcks`, `MaxSweeps`, `MaxFaults`, `MaxRequests`, `MaxDeletes`) cap
what may happen any number of times; the proofs do not depend on them. `Overrun` is not a
bound but a condition: whether a lease may expire while its holder runs. The code does
nothing to exclude it, so the properties about the tables are checked with it, and those
that need leases to work are stated without it. `LeasedIsRecoverable` is one of these for a
reason: with `Overrun` a commit can leave a row that is leased and has no expiry, since the
unit of work does not write a state that equals what it loaded.

Two relays with batches of two meet each other's locks, and four messages leave some for a
second batch; the proofs do not depend on either number. Four rows in two batches let the
orphans of one round run beside the tasks of the next, and `LeaseTime` is exactly the two
jobs that a row may wait for and be. Three calls let a job, a deletion and a third call
meet, and give a name its third suffix. In `decisions`, three query parameters are what a
stable sort needs, four path segments hold a leading double slash, a dot segment and a
name; the texts of articles are at most one word longer than the excerpt; the limits of 12
listings, 500 rows, 20 candidates, 25 claims and 1,500 characters are replaced by 1, 2, 2,
3 and 3, so that they bite; 8 tokens are three nested elements with two texts, or three
in a row.

Deadlock is checked in `outbox_relay` and `sources` (there the row locks are part of the
state, and `Finished` stands for the calls that have all been answered). Elsewhere it is
not: when every URL has settled, the publisher is deleted, or the page is read, there is
nothing left to do. Symmetry is used only in runs without liveness.

**Fairness.** Clocks advance (`LeaseExpires`, `BecomesDue`); both loops poll for ever; what
a job or a poll does by itself goes on as long as its process lives (weak fairness of
`JobStep`, `PollStep`). Weak fairness of `Lease` says that a URL which stays claimable is
leased: the query takes the newest URLs first, and with finitely many URLs none is passed
over for ever. Slots are busy again and again, so a channel's lease is enabled only now and
then; strong fairness of `LeaseAny` is justified because channels are taken in the order of
`next_poll_at`. Nothing obliges an operator, a site, a writer or a fault to act. In
`OutboxRelay` a relay that can go on goes on, and one that died is started again: by
whoever runs the platform, since nothing in the code does. In `WorkerLoop` the event loop
runs what is ready, and time passes. `SourceOnboarding` has no liveness: a call that is
never finished is a broken connection.

**What the violations show.** Each of these runs checks one statement of the documents.

* `jobs_success`: `README.md:217` calls `article_job_completed` the "final durable
  success". A slower job of the same URL whose work fails afterwards turns the row back to
  `retry` or `failed`. (The article stays: `ProcessedIsDurable` and `StoreOnlyGrows` hold.)
* `polls_cap`: `docs/ACQUISITION_ARCHITECTURE.md:25` promises that each URL "records every
  channel that found it". A scan that stops at the cap stores the validator of the whole
  document, and the rest is not looked at until the document changes.
* `polls_requests`: `README.md:79` speaks of endpoints that "queue discovery work". A
  request that arrives between the fetch and the end of a poll is overwritten by the
  schedule the poll computes.
* `outbox_order`: `docs/MODULE_SYNCHRONIZATION.md:68` says of integration events: "Ordering:
  guaranteed only within the chosen aggregate/partition key". The query of a relay looks at
  no aggregate, and a message is dated before its transaction commits: two messages of one
  aggregate are published in the other order when the older one is committed late, or when
  it is in another relay's hands. What the relays do keep is `OvertakesOnlyLate`, in
  `outbox_relay`: nothing is passed over that could have been taken.

**What the passing runs except.** A property with a precondition says where the code
stops keeping it; each was met while modelling, and no document promises otherwise.

* `CanonicalIsStable`: `normpath` keeps exactly two leading slashes, so that `//` and `///`
  come to their canonical form in two rounds and not in one. The canonical form of an IPv6
  literal has lost its brackets and is refused by every later `canonicalize_url`; the
  property says that this befalls these hosts and no others.
* `RejectedOnlyForAge`: to the filter `.` and `..` are names, so `/news/.` is an article
  to the poller and not, once canonical, to the worker.
* `ReadingFollowsNesting`: inside a skipped region, an element with the name of the region
  or of a block around it ends the wrong one. A skipped `div` that holds a `div` is
  skipped to the first `</div>` only. Pages with elements that never end are not among the
  inputs: a void element that is skipped (an `img` whose class names a banner) is never
  closed and hides the rest of the page.
* `TwinClaimsNeedOverlap`: a `blockquote` of two paragraphs is read as three blocks. Its
  claims come twice, the unique constraint refuses the version, and every attempt at the
  page fails (`ArticleJobs` has such contents: `Repetitive`). A JSON-LD body or an optional
  text that repeats a sentence does the same, since neither is filtered.
* `CopyJoinsItsEvent`: the copy of an article that has several versions, that is longer
  than the excerpt, or that has hardly any words can score below the threshold. So can one
  whose title capitalizes every word (`KeepsPhrases`): a phrase runs on from the title into
  the text, and the reference has the title twice. "Company Reports Breach" before "Customers
  were told" is one phrase of four words in the copy, and phrases of five words and of two in
  the reference; no entity is shared, the copy scores 61.8 and founds a second event. A
  location of two words that only the end of a title and the start of a text make up would
  likewise be in the one and not in the other; the model has none.
* `OneBadEndpointLosesOnlyItself` is about answers. An address on the home page that
  `urljoin` cannot split ends the discovery with an exception (`HomepageBreaks`).
* `DeadlockNeedsJob`: a fetch job and a deletion lock channels and publishers in opposite
  orders and can block each other, and so can two jobs at the same update whose scans meet
  the rows in different orders. Deletions alone cannot. PostgreSQL ends one of the calls, its
  caller sees an error, and nothing is left of it.
* `AttemptsAccounted`: only `_record_failure` compares `attempt_count` with a limit. A job
  that dies with its worker is leased again whatever its count, at once and without backoff,
  so the bound grows by one for each such job. The setting `dead_letter_after_attempts`
  (`README.md:193`) is read by nothing; the limit is `article_fetch_max_attempts`.
* `LeasesOutliveTasks` needs `ceil(batch / concurrency)` jobs to fit in a lease. The
  defaults (20, 5, and 120 seconds) leave 30 seconds for each job. `LeaseFits` is this
  condition; the theorem assumes it, the run takes the largest job that satisfies it.

## 4. The proofs

The theorems hold for any values of the constants that satisfy the assumptions the modules
state, which TLC evaluates in every run: any sets of URLs, contents, channels, documents,
messages, relays, names and calls, any sizes and any bounds on faults. Where a theorem needs
more, its statement says so: `~Overrun` (leases outlive their holders) and `CapFits` (no
document is longer than the cap of a poll).

* **Types** (`ArticleJobsProofs`): `TypeOK` is inductive. It is split into the parts for
  rows, runs, store, jobs and bounds, and each action disturbs one or two of them.
* **Durability** (`ArticleJobsProofs`), whatever `Overrun` is. The stated invariants are
  not inductive: a commit writes what its transaction decided earlier, when the tables were
  smaller. `DurableInv` adds that what a transaction has read is still true, though perhaps
  incomplete (`TxInv`): versions it knows are a prefix of those stored, an event it found is
  still the article's, one it chose is committed or its own. From this, `CommitCases` shows
  that a commit that violates no unique constraint either ingests the article, or appends a
  version to exactly what was read, or leaves the tables alone; all else follows from these
  three cases. It also ties places to run states (`JobInv`), from which `RunsAccounted`
  follows, and the outbox to the tables (`OutboxMatchesTables`). `LedgerImplemented` is the
  refinement: in a state of `DurableInv`, every step is a step of `ArticleLedger` or a stutter.
* **Discipline** (`ArticleJobsProofs`), assuming `~Overrun`. `DisciplineInv` says, of
  each URL by itself, that a job in flight is the one its row counts last; that the row then
  cannot be claimed (it is leased with a live lease, or settled by the cleanup or by a
  commit the job does not know of); that what an open transaction has read is no settled
  success, so that its commit does write the row's verdict; and how attempts, the limit and
  abandoned jobs relate. Mutual exclusion, recoverable leases, the attempt bound
  `MaxAttempts + used.abandons` and the meaning of `processed` and `retry` are its
  consequences.
* **Discovery** (`ChannelPollingProofs`). `IInv` ties a poll to the tables it works on: its
  channel exists, and an entry it has looked up and found is still there when it commits,
  since rows are never removed (`PollOK`, `Grows`). With the constraints this leaves a commit
  three cases (`CommitWrites`), which are the actions of `FrontierLedger`; that what was
  observed has been announced (`Announced`) makes a repeated observation a stutter.
  `FrontierImplemented` is the refinement. `FoundAlwaysRecorded`, under `CapFits`, adds what a
  poll has recorded so far (`PollRecorded`): every entry before its position, hence all of
  them when the scan ends, because a poll admits at most one URL per entry and so cannot
  reach the cap before the end. `AlwaysOnePollPerChannel`, under `~Overrun`, is inductive
  with `IInv`: a channel that a sitemap index opens, whose row is new and not leased, cannot
  be one that a slot polls.
* **Delivery** (`OutboxRelayProofs`). `IInv` adds three parts to the types and to
  `PublishedIsRecorded`: locks are held by open transactions and on pending rows
  (`LocksHeld`), no row is in two batches (`Exclusive`), and whatever pending row a batch
  passes over is one its relay could not have taken (`OldestTaken`). The first two give
  `PublishedOnce`: a commit finds its rows as its query left them. The third is the
  order: `QueryTakesOldest` shows from the cardinalities of `OldestFree` that nothing free
  and older is left, and every step that frees or adds a row puts it into `late` of the
  relays that have run their query. `DeliveryImplemented` is the refinement: a commit
  delivers its batch as a whole, everything else announces or stutters.
* **Loops** (`WorkerLoopProofs`). `OrphansAlwaysOfRaised` follows from which tasks may be
  active (`Parented`) and from the semaphore of each round (`Bounded`): a task that no
  `gather` waits for belongs to a round that has raised. The types include that no sleep
  exceeds its maximum, the powers of two of `database_retry_delay` included.
  `LeasesAlwaysOutliveTasks` assumes that `ceil(batch / concurrency)` jobs fit in a lease
  (`LeaseFits`) and adds up the waits of a batch: while a task waits, every slot of the
  semaphore is in use, so when the batch is older than m jobs, each slot has begun its
  first m + 1 of them (`Served`); the batch has no more members than the turns that fit,
  so the last of them begins early enough (`Timely`). `AlwaysOneTaskPerRow` is its
  consequence: a row is not leased again under its task. The theorems of `ArticleJobs` and
  `ChannelPolling` that assume `~Overrun` rest on this.
* **Sources** (`SourceOnboardingProofs`). `IInv` says what each call still knows of tables
  that others have changed since it read them (`CallInv`): the rows it found are there,
  with the slugs and domains it found. Rows are added and switched off, and never renamed,
  removed or switched on (`Grow`), so no step disturbs what another call knows
  (`Undisturbed`). `UniqueSlugIsFree` shows that a free suffix always exists (there are
  more suffixes than publishers: a pigeonhole argument) and that the least one leaves no
  gap. From `IInv` follow the types, the outbox (`OutboxAlwaysMatches`), the suffixes, who
  a constraint can end (`FailsOnlyAfterRace`) and that deletions last.
  `DeadlockAlwaysNeedsJob` rests on which rows a call may hold in each phase (`LockInv`)
  and follows the waits: a job that is marking publishers waits for another such job or
  for a deletion; if there is none, a job that is scheduling channels is in the deadlock,
  because deletions that have come to the channels hold different publishers and wait for
  jobs only.
* **Folds** (`SequenceFolds`). The loops of the pure modules are folds over sequences of
  any length. What an induction is about is a set of sequences here, not an operator, and
  the induction is that `<` is well founded on the natural numbers. `FoldLeft` is defined
  by a recursive function on sets of positions: `FoldExists` builds it, and the lemmas
  `FoldAppend` and `FoldConcat` are what every proof below takes from it. What a page says
  is a fold over its positions (`Positions`); `FoldSame` lets a longer page stand for a
  shorter one there.
* **URLs** (`UrlRulesProofs`). A path has one list of names once `""`, `.` and `name/..`
  are dropped, and its canonical form is a function of that list, of its two leading
  slashes and of its end; inserting one parameter and then another commutes unless the two
  compare as equal, so a query has one sorted form. The forms of a name come to one, and
  only an IPv6 literal comes to one that is refused. `CanonicalOfCanonical`,
  `RespellingsAgree` and `CanonicalIsAdmitted` say for every URL what `CanonicalIsStable`
  and `RejectedOnlyForAge` say of the enumerated ones, with the same exceptions; that
  `3 \in Tracking`, which two of the theorems assume, is the tracking parameter that
  `Respellings` inserts.
* **Endpoints** (`UrlRulesProofs`). `FailureCostsItself` is about every site: tags, sitemaps
  and addresses may be any lists, and the answers anything. An attempt says what its own answer
  makes of its own candidate (`ValidatedFacts`), and the channels that are written are the
  addresses that were validated (`ChannelsFacts`).
* **Events** (`DecisionsProofs`). `CopyIsAssigned` is about every text and all rows. The
  reference of an event with one version is built from that version alone (`OnlyRow`,
  `ReferenceOfOne`). Its text repeats the title, which adds two shingles at most
  (`ShinglesOfRepeated`); with two shingles to share, at least half of them are shared. A
  phrase of the copy stands whole on one side of a word without a capital, and what is
  matched on a side depends on that side alone (`RunMoves`, `PhraseMoves`): if the title
  has such a word, the phrases of the copy are among those of the reference
  (`PhrasesOfRepeated`), and if the copy has none and that word is the last of the title,
  the reference has none either. With every other feature at its worst a copy scores
  62.175 where 62 is needed (`CopyScores`), and the stable sort leaves a score that is no
  lower at the head of the candidates (`SortedBest`, `RankedFacts`), before the limit cuts
  them off. The code's floating point error is far below that margin.
* **Pages** (`DecisionsProofs`). The parser never looks at the nesting of a page: it pops a
  stack at the first matching name. `ReadingFollowsNesting` compares what it has found with a
  definition that only counts depths, so the invariant (`Follows`) must say what both stacks
  are in the middle of a page: the names of the open regions and of the open blocks, from the
  outermost on, where the text of a block is its own pieces and then the text of the block
  inside it, whose end will pass it on. `ReaderFollowsPage` is the step: a start, a text, and the
  end of a region, of a block or of neither. It needs that the innermost open element is the last
  one on its stack (`InnermostNames`), which holds where no end can be taken for another's;
  `UnmistakableBefore` shows that a page with no such end never had one, so that `PageInv` is
  inductive. At depth zero nothing is open (`NothingOpen`). The definitions quantify over
  positions of pages of any length and over the lists of the open elements, which TLC cannot
  enumerate; it checks what `PageInv` gives at the end of a page.
* **Claims** (`DecisionsProofs`). Sentences of a text that repeats nothing share nothing
  (`SentencesRead`), so no two of its claims are equal: `InjectiveTextHasNoTwins`, for
  every text, however it is cut and whichever sentences look like claims. The kept blocks
  are distinct blocks of the page; if none repeats anything and different ones share
  nothing, the text repeats nothing either (`KeptApart`). The JSON-LD and the optional
  texts are those of `MCDecisions`, some of which repeat a sentence; pages are of any
  length.

## 5. Model-checked only, and not modelled

Liveness (`EventuallySettled`, `EventuallyRecorded`, `EventuallyDelivered`, `EveryTaskEnds`,
`EventuallyDone`) is checked by TLC; it is out of reach of the prover. Every invariant and
every other action property of the passing runs is stated by a theorem.

Not modelled:

* Reading: article queries, the dashboard, diagnostics and the routes around them change
  nothing. The errors that the source routes translate are the ends of the calls in
  `SourceOnboarding`.
* The network: the fetcher's checks, redirects and limits. The models keep its outcomes.
* Text: the regular expressions of claims, titles, bylines, dates, languages and media;
  the parsing of feeds and sitemaps beyond their root and the number of usable items. The
  models take what these decide as constants or inputs.
* The merging of `published_at` and `first_discovered_at`, the priority of the frontier and
  the lengths of delays: they order the work, and the models leave the order open.
  (`update_candidate_job_metadata` reads without a lock, so that one of two observations at
  once can be lost; no property of this project would notice.)
* `change_detection`, which no program of this revision calls; settings, sessions,
  migrations and start scripts.

## 6. Plan

Done: `ArticleLedger`, `ArticleJobs`; `FrontierLedger`, `ChannelPolling`; `OutboxDelivery`,
`OutboxRelay`; `WorkerLoop`; `SourceOnboarding`; `UrlRules`, `EndpointDiscovery`,
`EventMatching` and `PageReading`, each with its proofs. What is left: the dates that
`update_candidate_job_metadata` merges, if a document comes to promise what they are.
