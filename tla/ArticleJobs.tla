----------------------------- MODULE ArticleJobs -----------------------------
(***************************************************************************)
(* The article worker: url_candidates rows are leased, fetched, extracted   *)
(* and persisted by any number of concurrent jobs.  A job is the run of     *)
(* ArticleProcessor.process for one lease, named <<c, n>>: candidate c and  *)
(* the attempt_count n that the lease wrote.  Each database transaction is   *)
(* one step, except complete_success, whose reads and commit are two steps. *)
(*                                                                           *)
(* Time is abstracted to what the queries compare: `fetch` says whether      *)
(* next_fetch_at has come, and `lease` whether lease_expires_at is NULL      *)
(* ("none"), in the future ("live") or in the past ("expired").              *)
(***************************************************************************)
EXTENDS Naturals, Sequences

CONSTANTS
  Candidates,   \* the admitted URLs
  Contents,     \* values of content_sha256 an extraction may produce
  Repetitive,   \* contents in which one claim sentence occurs twice
  NoEvent,      \* event_id of a candidate without article
  NoTx,         \* a job with no complete_success transaction open
  MaxAttempts,  \* article_fetch_max_attempts
  Overrun,      \* may a lease expire while a job that holds it is running?
  AttemptCap,   \* bound: leases per candidate
  MaxAbandons,  \* bound: jobs that end without recording anything
  MaxLostAcks,  \* bound: commits that succeed but are reported as failures
  MaxSweeps     \* bound: runs of cleanup_old_jobs

ASSUME EventAssumption   == NoEvent \notin Candidates
ASSUME ContentAssumption == Repetitive \subseteq Contents
ASSUME BoundAssumption   ==
  /\ MaxAttempts \in Nat \ {0}
  /\ AttemptCap \in Nat
  /\ MaxAbandons \in Nat
  /\ MaxLostAcks \in Nat
  /\ MaxSweeps \in Nat
  /\ Overrun \in BOOLEAN

VARIABLES
  row,          \* url_candidates
  run,          \* article_fetch_runs.status; the run of job <<c, n>>, if it began
  event,        \* articles.event_id, NoEvent where there is no article
  events,       \* events, each named by the candidate that created it
  versions,     \* article_versions: versions[c][k] is the content of number k
  outbox,       \* outbox_events, by idempotency key
  pc,           \* where job <<c, n>> is in process()
  tx,           \* what the open complete_success transaction of a job has read
  sweep,        \* rows the running cleanup statement matched
  used          \* how much of each fault bound has been used up

vars == <<row, run, event, events, versions, outbox, pc, tx, sweep, used>>
store == <<event, events, versions>>

Attempts == 1..AttemptCap

----------------------------------------------------------------------------
(* Rows, runs and jobs *)

States   == {"ready", "leased", "retry", "processed", "failed", "rejected"}
Pending  == {"ready", "leased", "retry"}
Terminal == States \ Pending

\* Mutant: the last stage written before the commit is the one it should write after.
StageAfterPersistsEarly ==
  [started    |-> "fetching",   fetching  |-> "fetched",   fetched   |-> "extracting",
   extracting |-> "extracted",  extracted |-> "validated", validated |-> "persisted"]

\* The stages process() writes before it persists, each after its predecessor.
StageAfter ==
  [started    |-> "fetching",   fetching  |-> "fetched",   fetched   |-> "extracting",
   extracting |-> "extracted",  extracted |-> "validated", validated |-> "persisting"]

Stages == {"queued", "leased", "fetching", "fetched", "extracting", "extracted",
           "validated", "persisting", "completed", "rejected",
           "retryable_failure", "permanent_failure"}

Leases == {"none", "live", "expired"}

Fetches == {"due", "later"}
Links == {"null", "set"}

Rows == [state : States, stage : Stages, lease : Leases, fetch : Fetches,
         attempts : Nat, article_id : Links]

Runs == {"none", "running", "succeeded", "failed", "rejected"}

Places == DOMAIN StageAfter \cup
          {"none", "claimed", "persisting", "committing", "failing", "failing_fatal",
           "done", "gone"}

\* "done": the job recorded its outcome.  "gone": it ended without recording one.
InFlight(c, n) == pc[c][n] \notin {"none", "done", "gone"}

\* What a complete_success transaction has read (the row, the article's event and its
\* versions), the event it has decided on and the content it is to store.
Txs == [state : States, stage : Stages, lease : Leases,
        event : Candidates \cup {NoEvent}, known : Seq(Contents),
        decided : Candidates, content : Contents]

----------------------------------------------------------------------------
(* Outbox messages *)

Msg(type, c, k) == [type |-> type, subject |-> c, no |-> k]

VersionMessages(c, k) ==
  {Msg("article.version_created", c, k), Msg("article.claims_extracted", c, k)}

ArticleMessages(c, e) ==
  { Msg("article.ingested", c, 0),
    IF e = c THEN Msg("event.provisional_created", c, 0)
             ELSE Msg("event.article_linked", c, 0) }

----------------------------------------------------------------------------
(* Leasing *)

\* Mutants: the expiry of a lease is not looked at; an expired lease is not claimed.
ClaimableLeasedOrNot(r) == r.state = "leased" \/ (r.state \in {"ready", "retry"} /\ r.fetch = "due")
ClaimableUnleasedOnly(r) == r.state \in {"ready", "retry"} /\ r.fetch = "due"

\* The WHERE clause of lease_due_candidates.  A NULL expiry is never < now.
Claimable(r) ==
  \/ r.state \in {"ready", "retry"} /\ r.fetch = "due"
  \/ r.state = "leased" /\ r.lease = "expired"

\* Mutant: the expiry of the new lease is not written.
LeasedRowNoExpiry(r) ==
  [r EXCEPT !.state = "leased", !.stage = "leased", !.attempts = @ + 1]

LeasedRow(r) ==
  [r EXCEPT !.state = "leased", !.stage = "leased", !.lease = "live", !.attempts = @ + 1]

\* attempt_count is incremented but never compared with MaxAttempts here.
Lease(c) ==
  /\ Claimable(row[c])
  /\ row[c].attempts < AttemptCap
  /\ row' = [row EXCEPT ![c] = LeasedRow(@)]
  /\ pc' = [pc EXCEPT ![c][row[c].attempts + 1] = "claimed"]
  /\ UNCHANGED <<run, store, outbox, tx, sweep, used>>

\* Nothing renews a lease: it outlives its job only if the job is fast enough.
LeaseExpires(c) ==
  /\ row[c].lease = "live"
  /\ Overrun \/ \A n \in Attempts : ~InFlight(c, n)
  /\ row' = [row EXCEPT ![c].lease = "expired"]
  /\ UNCHANGED <<run, store, outbox, pc, tx, sweep, used>>

BecomesDue(c) ==
  /\ row[c].fetch = "later"
  /\ row' = [row EXCEPT ![c].fetch = "due"]
  /\ UNCHANGED <<run, store, outbox, pc, tx, sweep, used>>

----------------------------------------------------------------------------
(* process(), up to the point where the article is extracted.  No step looks  *)
(* at the row's state, owner or expiry before it writes.                      *)

RejectBeforeFetch(c, n) ==
  /\ pc[c][n] = "claimed"
  /\ run' = [run EXCEPT ![c][n] = "rejected"]
  /\ row' = [row EXCEPT ![c] =
               [@ EXCEPT !.state = "rejected", !.stage = "rejected", !.lease = "none"]]
  /\ outbox' = outbox \cup {Msg("article.fetch.rejected", c, n)}
  /\ pc' = [pc EXCEPT ![c][n] = "done"]
  /\ UNCHANGED <<store, tx, sweep, used>>

StartFetch(c, n) ==
  /\ pc[c][n] = "claimed"
  /\ run' = [run EXCEPT ![c][n] = "running"]
  /\ row' = [row EXCEPT ![c].stage = "fetching"]
  /\ pc' = [pc EXCEPT ![c][n] = "started"]
  /\ UNCHANGED <<store, outbox, tx, sweep, used>>

\* update_processing_stage, called after each part of the work that succeeded.
Advance(c, n) ==
  /\ pc[c][n] \in DOMAIN StageAfter
  /\ row' = [row EXCEPT ![c].stage = StageAfter[pc[c][n]]]
  /\ pc' = [pc EXCEPT ![c][n] = StageAfter[pc[c][n]]]
  /\ UNCHANGED <<run, store, outbox, tx, sweep, used>>

\* An exception between start_fetch and the commit: a network or database error,
\* too little text or a server error is retryable; a permanent HTTP status and an
\* extraction of unacceptable quality are not.
Raise(c, n) ==
  /\ pc[c][n] \in DOMAIN StageAfter \cup {"persisting"}
  /\ \E place \in {"failing"} \cup
         (IF pc[c][n] \in {"fetched", "extracting"} THEN {"failing_fatal"} ELSE {}) :
       pc' = [pc EXCEPT ![c][n] = place]
  /\ UNCHANGED <<row, run, store, outbox, tx, sweep, used>>

----------------------------------------------------------------------------
(* complete_success *)

\* Mutants: an event that no transaction has committed can be chosen; the event of
\* an article that exists is decided again.
EventChoicesDirty(c) == IF event[c] = NoEvent THEN Candidates ELSE {event[c]}
EventChoicesAnew(c) == events \cup {c}

\* A new article joins a committed event or starts its own; an old one keeps its event.
EventChoices(c) == IF event[c] = NoEvent THEN events \cup {c} ELSE {event[c]}

\* The transaction reads the candidate row, the article, the events and the versions,
\* and decides the event.  In the code each of these is a statement of READ COMMITTED
\* with a snapshot of its own; here they are one step, as if nobody committed between
\* them.  No row is locked: the lock that the flushed update of an old article takes
\* before its versions are read would only make its jobs wait.
ReadForCommit(c, n) ==
  /\ pc[c][n] = "persisting"
  /\ \E x \in Contents, e \in EventChoices(c) :
       tx' = [tx EXCEPT ![c][n] =
                [state |-> row[c].state, stage |-> row[c].stage, lease |-> row[c].lease,
                 event |-> event[c], known |-> versions[c],
                 decided |-> e, content |-> x]]
  /\ pc' = [pc EXCEPT ![c][n] = "committing"]
  /\ UNCHANGED <<row, run, store, outbox, sweep, used>>

CreatesArticle(t) == t.event = NoEvent

\* Mutant: only an article that existed already gets a version.
CreatesVersionOfOldArticle(t) ==
  ~CreatesArticle(t) /\ \A k \in DOMAIN t.known : t.known[k] # t.content

CreatesVersion(t) == \A k \in DOMAIN t.known : t.known[k] # t.content

\* Mutant: no unique constraint on versions.
ConflictOnArticleOnly(c, t) == CreatesArticle(t) /\ event[c] # NoEvent

\* The unique constraints: one article per URL fingerprint, one version per number
\* and per content, one claim per sentence of a version.
Conflict(c, t) ==
  \/ CreatesArticle(t) /\ event[c] # NoEvent
  \/ CreatesVersion(t) /\ Len(versions[c]) # Len(t.known)
  \/ CreatesVersion(t) /\ t.content \in Repetitive

\* The ORM writes a column only when the new value differs from the one it loaded.
Written(loaded, now, new) == IF loaded = new THEN now ELSE new

\* Mutants: article_id is not set; processing_stage is not set.
RowAfterSuccessUnlinked(r, t) ==
  [r EXCEPT !.state = Written(t.state, @, "processed"), !.stage = Written(t.stage, @, "completed"),
            !.lease = Written(t.lease, @, "none")]
RowAfterSuccessStageKept(r, t) ==
  [r EXCEPT !.state = Written(t.state, @, "processed"), !.lease = Written(t.lease, @, "none"),
            !.article_id = "set"]

RowAfterSuccess(r, t) ==
  [r EXCEPT !.state  = Written(t.state, @, "processed"),
            !.stage  = Written(t.stage, @, "completed"),
            !.lease  = Written(t.lease, @, "none"),
            !.article_id = "set"]

\* Mutants: the version is announced only together with a new article; every article
\* is announced as the start of an event.
AnnouncementsOfArticles(c, t) ==
  IF CreatesArticle(t) THEN ArticleMessages(c, t.decided) \cup VersionMessages(c, 1) ELSE {}

AnnouncementsOfNewEvents(c, t) ==
  (IF CreatesArticle(t) THEN ArticleMessages(c, c) ELSE {}) \cup
  (IF CreatesVersion(t) THEN VersionMessages(c, Len(t.known) + 1) ELSE {})

Announcements(c, t) ==
  (IF CreatesArticle(t) THEN ArticleMessages(c, t.decided) ELSE {}) \cup
  (IF CreatesVersion(t) THEN VersionMessages(c, Len(t.known) + 1) ELSE {})

\* The commit, and whether the worker learns of it: if the connection is lost while
\* the commit is under way, the caller sees an exception for a durable result.
Commit(c, n, acknowledged) ==
  LET t == tx[c][n] IN
  /\ pc[c][n] = "committing"
  /\ ~Conflict(c, t)
  /\ event' = [event EXCEPT ![c] = t.decided]
  /\ events' = events \cup {t.decided}
  /\ versions' = [versions EXCEPT ![c] = IF CreatesVersion(t) THEN Append(@, t.content) ELSE @]
  /\ outbox' = outbox \cup Announcements(c, t)
  /\ run' = [run EXCEPT ![c][n] = "succeeded"]
  /\ row' = [row EXCEPT ![c] = RowAfterSuccess(@, t)]
  /\ pc' = [pc EXCEPT ![c][n] = IF acknowledged THEN "done" ELSE "failing"]
  /\ tx' = [tx EXCEPT ![c][n] = NoTx]
  /\ UNCHANGED sweep

CommitSuccess(c, n) ==
  /\ Commit(c, n, TRUE)
  /\ UNCHANGED used

CommitUnacknowledged(c, n) ==
  /\ used.lostAcks < MaxLostAcks
  /\ Commit(c, n, FALSE)
  /\ used' = [used EXCEPT !.lostAcks = @ + 1]

\* A unique violation or a database error: everything rolls back.
CommitFails(c, n) ==
  /\ pc[c][n] = "committing"
  /\ pc' = [pc EXCEPT ![c][n] = "failing"]
  /\ tx' = [tx EXCEPT ![c][n] = NoTx]
  /\ UNCHANGED <<row, run, store, outbox, sweep, used>>

----------------------------------------------------------------------------
(* Failures *)

\* Mutant: one attempt too many.
GivesUpLate(c, n) == n > MaxAttempts \/ pc[c][n] = "failing_fatal"

GivesUp(c, n) == n >= MaxAttempts \/ pc[c][n] = "failing_fatal"

\* complete_failure, for any job whose work raised.  The row may by now be leased
\* to another job, or be processed.
RecordFailure(c, n) ==
  /\ pc[c][n] \in {"failing", "failing_fatal"}
  /\ run' = [run EXCEPT ![c][n] = "failed"]
  /\ row' = [row EXCEPT ![c] =
       [@ EXCEPT !.state = IF GivesUp(c, n) THEN "failed" ELSE "retry",
                 !.stage = IF GivesUp(c, n) THEN "permanent_failure" ELSE "retryable_failure",
                 !.lease = "none",
                 !.fetch = IF GivesUp(c, n) THEN "due" ELSE "later"]]
  /\ outbox' = outbox \cup {Msg("article.fetch.failed", c, n)}
  /\ pc' = [pc EXCEPT ![c][n] = "done"]
  /\ UNCHANGED <<store, tx, sweep, used>>

\* The process dies or is cancelled, or a transaction outside the try blocks
\* (reject_before_fetch, start_fetch, complete_failure itself) raises.
Abandon(c, n) ==
  /\ InFlight(c, n)
  /\ used.abandons < MaxAbandons
  /\ pc' = [pc EXCEPT ![c][n] = "gone"]
  /\ tx' = [tx EXCEPT ![c][n] = NoTx]
  /\ used' = [used EXCEPT !.abandons = @ + 1]
  /\ UNCHANGED <<row, run, store, outbox, sweep>>

----------------------------------------------------------------------------
(* cleanup_old_jobs.  The statement matches pending rows by a subquery of its    *)
(* snapshot; when a row it then locks has changed meanwhile, only `id IN (...)`  *)
(* is evaluated again, and still holds.                                          *)

SweepScan ==
  /\ sweep = {}
  /\ used.sweeps < MaxSweeps
  /\ \E matched \in SUBSET {c \in Candidates : row[c].state \in Pending} :
       matched # {} /\ sweep' = matched
  /\ used' = [used EXCEPT !.sweeps = @ + 1]
  /\ UNCHANGED <<row, run, store, outbox, pc, tx>>

SweepCommit ==
  /\ sweep # {}
  /\ \E verdict \in {[state |-> "failed",   stage |-> "permanent_failure"],
                     [state |-> "rejected", stage |-> "rejected"]} :
       row' = [c \in Candidates |->
                 IF c \in sweep
                 THEN [row[c] EXCEPT !.state = verdict.state, !.stage = verdict.stage,
                                     !.lease = "none"]
                 ELSE row[c]]
  /\ sweep' = {}
  /\ UNCHANGED <<run, store, outbox, pc, tx, used>>

----------------------------------------------------------------------------
(* The specification *)

Init ==
  /\ row = [c \in Candidates |-> [state |-> "ready", stage |-> "queued", lease |-> "none",
                                  fetch |-> "due", attempts |-> 0,
                                  article_id |-> "null"]]
  /\ run = [c \in Candidates |-> [n \in Attempts |-> "none"]]
  /\ event = [c \in Candidates |-> NoEvent]
  /\ events = {}
  /\ versions = [c \in Candidates |-> <<>>]
  /\ outbox = {}
  /\ pc = [c \in Candidates |-> [n \in Attempts |-> "none"]]
  /\ tx = [c \in Candidates |-> [n \in Attempts |-> NoTx]]
  /\ sweep = {}
  /\ used = [abandons |-> 0, lostAcks |-> 0, sweeps |-> 0]

\* What a job does by itself, as long as its process lives.
JobStep(c, n) ==
  \/ RejectBeforeFetch(c, n)
  \/ StartFetch(c, n)
  \/ Advance(c, n)
  \/ Raise(c, n)
  \/ ReadForCommit(c, n)
  \/ CommitSuccess(c, n)
  \/ CommitUnacknowledged(c, n)
  \/ CommitFails(c, n)
  \/ RecordFailure(c, n)

RowStep(c) == Lease(c) \/ LeaseExpires(c) \/ BecomesDue(c)

Next ==
  \/ \E c \in Candidates : RowStep(c)
  \/ \E c \in Candidates, n \in Attempts : JobStep(c, n) \/ Abandon(c, n)
  \/ SweepScan
  \/ SweepCommit

Spec == Init /\ [][Next]_vars

\* The worker loop polls for ever, and clocks advance; nothing obliges a job to be
\* abandoned, an acknowledgement to be lost or an operator to run the cleanup.
Fairness ==
  /\ \A c \in Candidates : WF_vars(Lease(c)) /\ WF_vars(LeaseExpires(c))
                           /\ WF_vars(BecomesDue(c))
  /\ \A c \in Candidates, n \in Attempts : WF_vars(JobStep(c, n))

FairSpec == Spec /\ Fairness

----------------------------------------------------------------------------
(* Properties that hold however jobs overlap *)

TypeOK ==
  /\ row \in [Candidates -> Rows]
  /\ \A c \in Candidates : row[c].attempts <= AttemptCap
  /\ run \in [Candidates -> [Attempts -> Runs]]
  /\ event \in [Candidates -> Candidates \cup {NoEvent}]
  /\ events \subseteq Candidates
  /\ versions \in [Candidates -> Seq(Contents)]
  /\ pc \in [Candidates -> [Attempts -> Places]]
  /\ tx \in [Candidates -> [Attempts -> Txs \cup {NoTx}]]
  /\ \A c \in Candidates, n \in Attempts : pc[c][n] = "committing" => tx[c][n] \in Txs
  /\ sweep \subseteq Candidates
  /\ used \in [abandons : Nat, lostAcks : Nat, sweeps : Nat]

\* README "Article processing success semantics": a candidate counts as completed
\* only when its article, a version of it and its event are committed.
ProcessedIsDurable ==
  \A c \in Candidates :
    row[c].state = "processed" =>
      /\ row[c].article_id = "set"
      /\ event[c] \in events
      /\ versions[c] # <<>>

\* An event exists because of the article that created it, and stays assigned to it:
\* no interleaving of two jobs leaves an event behind without an article.
NoOrphanEvents == events = {c \in Candidates : event[c] = c}

\* No page is stored twice with the same content, whatever is fetched twice.
VersionsDistinct ==
  \A c \in Candidates : \A i, j \in DOMAIN versions[c] :
    versions[c][i] = versions[c][j] => i = j

\* The messages about the articles and their events.
OwedForArticles ==
  UNION {ArticleMessages(c, event[c]) : c \in {d \in Candidates : event[d] # NoEvent}}

\* The messages about the stored versions.
OwedForVersions ==
  UNION {UNION {VersionMessages(c, k) : k \in DOMAIN versions[c]} : c \in Candidates}

\* The messages of type `type` about the runs with status `status`.
OwedForRuns(type, status) ==
  UNION {{Msg(type, c, n) : n \in {k \in Attempts : run[c][k] = status}} : c \in Candidates}

\* The messages the committed tables call for.
Owed ==
  OwedForArticles \cup OwedForVersions
  \cup OwedForRuns("article.fetch.failed", "failed")
  \cup OwedForRuns("article.fetch.rejected", "rejected")

\* Every message the outbox holds is about a committed row, and every committed row
\* has been announced: the messages are exactly those the tables call for.
OutboxMatchesTables == outbox = Owed

\* A job that ended by itself has closed its run; only an abandoned job leaves a run
\* "running", and nothing ever closes that one.
RunsAccounted ==
  \A c \in Candidates, n \in Attempts :
    /\ pc[c][n] = "done" => run[c][n] \in {"succeeded", "failed", "rejected"}
    /\ run[c][n] = "running" => InFlight(c, n) \/ pc[c][n] = "gone"
    /\ run[c][n] = "succeeded" => versions[c] # <<>>

\* Articles are never reassigned, and versions are only ever appended.
StoreOnlyGrows ==
  [][\A c \in Candidates :
       /\ event[c] # NoEvent => event'[c] = event[c]
       /\ Len(versions[c]) <= Len(versions'[c])
       /\ \A k \in DOMAIN versions[c] : versions'[c][k] = versions[c][k]]_vars

\* The worker implements the ledger that readers of the tables see.
Ledger == INSTANCE ArticleLedger WITH
  announced <- {m \in outbox :
                  m.type \notin {"article.fetch.failed", "article.fetch.rejected"}}

ImplementsLedger == Ledger!Spec

----------------------------------------------------------------------------
(* Properties that hold when a lease outlives its job (~Overrun) *)

\* A candidate is worked on by one job at a time, the one its row counts last.
OneJobPerCandidate ==
  \A c \in Candidates, n \in Attempts : InFlight(c, n) => n = row[c].attempts

\* A leased row can be claimed again: its lease is there to expire.
LeasedIsRecoverable ==
  \A c \in Candidates : row[c].state = "leased" => row[c].lease # "none"

\* Beyond MaxAttempts leases there is one more for every job that was abandoned.
AttemptsAccounted ==
  \A c \in Candidates : row[c].attempts <= MaxAttempts + used.abandons

\* A row that says "processed" or "retry" says what its last job recorded.
VerdictIsLastJobs ==
  \A c \in Candidates :
    LET last == run[c][row[c].attempts] IN
    /\ row[c].state = "processed" => last = "succeeded" /\ row[c].stage = "completed"
    /\ row[c].state = "retry" => last = "failed" /\ row[c].stage = "retryable_failure"

\* Every candidate ends up processed, failed or rejected, and stays so.
EventuallySettled ==
  \A c \in Candidates : <>[](row[c].state \in Terminal)

----------------------------------------------------------------------------
(* What the documents say of the program *)

\* README: article_job_completed is the "final durable success".
SuccessIsFinal ==
  [][\A c \in Candidates : row[c].state = "processed" => row'[c].state = "processed"]_vars
=============================================================================
