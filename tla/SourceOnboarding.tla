-------------------------- MODULE SourceOnboarding --------------------------
(***************************************************************************)
(* The catalogue of sources: publishers, their discovery channels and the      *)
(* fetch jobs, as the calls of SourceService (sources/service.py) and of       *)
(* AcquisitionService (acquisition/service.py) change them, several at a time, *)
(* with the cleanup and the poller beside them.                                 *)
(*                                                                           *)
(* A call is one transaction at READ COMMITTED: it reads, step by step, what    *)
(* others have committed, and its writes become visible at its end.  Inserts    *)
(* are checked against the unique constraints when they are written.  An update *)
(* locks its rows one by one, in whatever order its scan meets them, and the    *)
(* transaction keeps them to its end.  One that has all its locks commits at    *)
(* once, since nobody can tell.  PostgreSQL ends a transaction that is part of  *)
(* a deadlock.                                                                  *)
(*                                                                           *)
(* A slug is a base and a number, <<n, 1>> standing for n and <<n, k>> for n-k. *)
(* A publisher and a job are named by the call that makes them; publisher 0     *)
(* was there before.                                                           *)
(***************************************************************************)
EXTENDS Naturals, Sequences, SequencesExt

CONSTANTS
  Names,      \* bases of slugs
  Given,      \* slugs that create_publisher is given
  Domains,    \* canonical domains
  Endpoints,  \* canonical endpoint URLs
  Validated,  \* what the network may give a discovery: sequences of endpoints
  All,        \* the target of a fetch job for every publisher
  Unknown,    \* an id that no publisher has
  Manual,     \* whether a discovery asks for polls on request only: a set of BOOLEAN
  First,      \* the publisher that was there before, and its channel
  MaxCalls    \* bound: calls

ASSUME SourcesAssumption ==
  /\ MaxCalls \in Nat
  /\ Validated \subseteq Seq(Endpoints)
  /\ Manual \subseteq BOOLEAN
  /\ Given \subseteq Names \X (1..(MaxCalls + 1))
  /\ First \in [name : Names, domain : Domains, endpoint : Endpoints]
  /\ All # Unknown /\ All \notin 0..MaxCalls /\ Unknown \notin 0..MaxCalls

VARIABLES
  publishers,  \* publishers, by id
  channels,    \* discovery_channels, by publisher and endpoint
  jobs,        \* fetch_jobs, by id
  outbox,      \* outbox_events
  phase,       \* where a call is
  arg,         \* what it was called with
  slug,        \* the slug it has chosen
  seen,        \* the publishers it has found
  snap,        \* the channels it has found, or its update has matched
  locks        \* the rows it has locked

vars == <<publishers, channels, jobs, outbox, phase, arg, slug, seen, snap, locks>>

Calls == 1..MaxCalls
Ids   == 0..MaxCalls
Slugs == Names \X (1..(MaxCalls + 1))
Keys  == Ids \X Endpoints

Ended == {"done", "conflict", "not_found", "integrity", "failed"}
Busy  == {"naming", "adding", "matching", "scheduling", "marking", "disabling", "switching"}

\* What a call is given.  The endpoints a discovery finds valid are among its arguments.
DiscoverArgs ==
  [kind : {"discover"}, name : Names, domain : Domains, found : Validated, manual : Manual]
CreateArgs  == [kind : {"create"}, slug : Given, domain : Domains]
ChannelArgs == [kind : {"create_channel"}, target : Ids \cup {Unknown}, endpoint : Endpoints]
FetchArgs   == [kind : {"fetch"}, target : Ids \cup {All, Unknown}]
DeleteArgs  == [kind : {"delete"}, target : Ids \cup {Unknown}]
Args == DiscoverArgs \cup CreateArgs \cup ChannelArgs \cup FetchArgs \cup DeleteArgs

PublisherRows == [slug : Slugs, domain : Domains, active : BOOLEAN, ready : BOOLEAN,
                  fetched : BOOLEAN, origin : {"found", "created"}]
ChannelRows == [active : BOOLEAN, next : {"none", "due", "later"}, origin : {"found", "added"}]
JobRows == [target : Ids \cup {All}, ids : SUBSET Ids,
            status : {"scheduled", "completed"}]

Messages == [type : {"source_discovered", "publisher_created", "job_scheduled"}, of : Ids]
            \cup [type : {"channel_created"}, of : Keys]

RowLocks == [channels : SUBSET Keys, publishers : SUBSET Ids]
NoLocks  == [channels |-> {}, publishers |-> {}]

\* The variables have the types of the tables and of the calls.
TypeOK ==
  /\ DOMAIN publishers \subseteq Ids
  /\ \A p \in DOMAIN publishers : publishers[p] \in PublisherRows
  /\ DOMAIN channels \subseteq Keys
  /\ \A k \in DOMAIN channels : channels[k] \in ChannelRows
  /\ DOMAIN jobs \subseteq Calls
  /\ \A j \in DOMAIN jobs : jobs[j] \in JobRows
  /\ outbox \subseteq Messages
  /\ phase \in [Calls -> {"idle"} \cup Busy \cup Ended]
  /\ DOMAIN arg = {c \in Calls : phase[c] # "idle"}
  /\ \A c \in DOMAIN arg : arg[c] \in Args
  /\ \A c \in DOMAIN slug : slug[c] \in Slugs
  /\ seen \in [Calls -> SUBSET Ids]
  /\ snap \in [Calls -> SUBSET Keys]
  /\ locks \in [Calls -> RowLocks]

Init ==
  /\ publishers = [p \in {0} |->
       [slug |-> <<First.name, 1>>, domain |-> First.domain, active |-> TRUE,
        ready |-> FALSE, fetched |-> FALSE, origin |-> "created"]]
  /\ channels = [k \in {<<0, First.endpoint>>} |->
       [active |-> TRUE, next |-> "later", origin |-> "added"]]
  /\ jobs = <<>>
  /\ outbox = {[type |-> "publisher_created", of |-> 0],
               [type |-> "channel_created", of |-> <<0, First.endpoint>>]}
  /\ phase = [c \in Calls |-> "idle"]
  /\ arg = <<>>
  /\ slug = <<>>
  /\ seen = [c \in Calls |-> {}]
  /\ snap = [c \in Calls |-> {}]
  /\ locks = [c \in Calls |-> NoLocks]

\* A row more in a table.
Put(table, key, row) ==
  [k \in DOMAIN table \cup {key} |-> IF k = key THEN row ELSE table[k]]

Tables == <<publishers, channels, jobs, outbox>>
Reads  == <<arg, slug, seen, snap>>

\* Call c has come to phase p; its locks go with its transaction.
Goes(c, p) ==
  /\ phase' = [phase EXCEPT ![c] = p]
  /\ locks' = IF p \in Ended THEN [locks EXCEPT ![c] = NoLocks] ELSE locks

\* Call c ends with an early return or an exception, and leaves nothing.
Returns(c, p) == Goes(c, p) /\ UNCHANGED <<Tables, slug, seen, snap>>
Raises(c, p)  == Returns(c, p) /\ UNCHANGED arg

\* A request with arguments a arrives; it can name a publisher that is there, or none.
Request(c, a) ==
  /\ phase[c] = "idle"
  /\ \A d \in Calls : d < c => phase[d] # "idle"
  /\ "target" \in DOMAIN a => a.target \in DOMAIN publishers \cup {All, Unknown}
  /\ arg' = Put(arg, c, a)

\* Any statement may fail.
Fail(c) ==
  /\ phase[c] \in Busy
  /\ Raises(c, "failed")

----------------------------------------------------------------------------
(* discover_publisher *)

\* The homepage answers no 2xx.
HomepageFails(c) ==
  /\ \E a \in DiscoverArgs : Request(c, a)
  /\ Returns(c, "failed")

\* The select of a publisher with this domain.
CheckDomain(c) ==
  \E a \in DiscoverArgs :
    /\ Request(c, a)
    /\ IF \E p \in DOMAIN publishers : publishers[p].domain = a.domain
         THEN Returns(c, "conflict")
         ELSE /\ Goes(c, "naming")
              /\ seen' = [seen EXCEPT ![c] = DOMAIN publishers]
              /\ UNCHANGED <<Tables, slug, snap>>

TakenSlugs == {publishers[p].slug : p \in DOMAIN publishers}

\* Mutant: the suffix is 2, whatever is taken.
SecondSlug(name) == IF <<name, 1>> \notin TakenSlugs THEN <<name, 1>> ELSE <<name, 2>>

\* Mutant: the suffixes begin at 3.
ThirdSlug(name) ==
  LET free(k) == <<name, k>> \notin TakenSlugs
  IN  IF free(1) THEN <<name, 1>>
      ELSE <<name, CHOOSE k \in 3..(MaxCalls + 2) :
                      free(k) /\ \A i \in 3..(k - 1) : ~ free(i)>>

\* _unique_slug: the name itself, or the first suffix from 2 that is free.
UniqueSlug(name) ==
  LET free(k) == <<name, k>> \notin TakenSlugs
  IN  <<name, CHOOSE k \in 1..(MaxCalls + 1) : free(k) /\ \A i \in 1..(k - 1) : ~ free(i)>>

ChooseSlug(c) ==
  /\ phase[c] = "naming"
  /\ slug' = Put(slug, c, UniqueSlug(arg[c].name))
  /\ Goes(c, "adding")
  /\ UNCHANGED <<Tables, arg, seen, snap>>

\* The unique constraints of publishers.
Violates(s, domain) ==
  \E p \in DOMAIN publishers : publishers[p].slug = s \/ publishers[p].domain = domain

\* _frequency_policy: a publisher polled on request has channels without a next poll.
FirstPoll(manual) == IF manual THEN "none" ELSE "due"

\* _create_channel_if_absent, for every endpoint: one that has been redirected to an
\* earlier one finds the earlier one's channel, not yet committed.
FoundChannels(p, found, manual) ==
  [k \in DOMAIN channels \cup ({p} \X Range(found)) |->
     IF k \in DOMAIN channels THEN channels[k]
     ELSE [active |-> TRUE, next |-> FirstPoll(manual), origin |-> "found"]]

\* The publisher, its channels and the message, in one transaction.
RegisterFound(c) ==
  /\ phase[c] = "adding"
  /\ arg[c].kind = "discover"
  /\ IF Violates(slug[c], arg[c].domain)
       THEN Raises(c, "integrity")
       ELSE /\ publishers' = Put(publishers, c,
                  [slug |-> slug[c], domain |-> arg[c].domain, active |-> TRUE,
                   ready |-> arg[c].found # <<>>, fetched |-> FALSE, origin |-> "found"])
            /\ channels' = FoundChannels(c, arg[c].found, arg[c].manual)
            /\ outbox' = outbox \cup {[type |-> "source_discovered", of |-> c]}
            /\ Goes(c, "done")
            /\ UNCHANGED <<jobs, Reads>>

----------------------------------------------------------------------------
(* create_publisher and create_channel *)

CheckSlug(c) ==
  \E a \in CreateArgs :
    /\ Request(c, a)
    /\ IF a.slug \in TakenSlugs
         THEN Returns(c, "conflict")
         ELSE /\ Goes(c, "adding")
              /\ slug' = Put(slug, c, a.slug)
              /\ seen' = [seen EXCEPT ![c] = DOMAIN publishers]
              /\ UNCHANGED <<Tables, snap>>

\* Mutant: the message is committed before the publisher is.
AnnounceFirst(c) ==
  /\ phase[c] = "adding"
  /\ arg[c].kind = "create"
  /\ outbox' = outbox \cup {[type |-> "publisher_created", of |-> c]}
  /\ Goes(c, IF Violates(slug[c], arg[c].domain) THEN "integrity" ELSE "done")
  /\ publishers' = IF Violates(slug[c], arg[c].domain) THEN publishers
                   ELSE Put(publishers, c,
                     [slug |-> slug[c], domain |-> arg[c].domain, active |-> TRUE,
                      ready |-> FALSE, fetched |-> FALSE, origin |-> "created"])
  /\ UNCHANGED <<channels, jobs, Reads>>

\* A domain that is taken was not looked for, and is found by the constraint.
RegisterCreated(c) ==
  /\ phase[c] = "adding"
  /\ arg[c].kind = "create"
  /\ IF Violates(slug[c], arg[c].domain)
       THEN Raises(c, "integrity")
       ELSE /\ publishers' = Put(publishers, c,
                  [slug |-> slug[c], domain |-> arg[c].domain, active |-> TRUE,
                   ready |-> FALSE, fetched |-> FALSE, origin |-> "created"])
            /\ outbox' = outbox \cup {[type |-> "publisher_created", of |-> c]}
            /\ Goes(c, "done")
            /\ UNCHANGED <<channels, jobs, Reads>>

\* The key of the channel that create_channel is to add.
Key(a) == <<a.target, a.endpoint>>

\* The selects of the publisher, active or not, and of its channel.
CheckChannel(c) ==
  \E a \in ChannelArgs :
    /\ Request(c, a)
    /\ IF a.target \notin DOMAIN publishers THEN Returns(c, "not_found")
       ELSE IF Key(a) \in DOMAIN channels THEN Returns(c, "conflict")
       ELSE /\ Goes(c, "adding")
            /\ snap' = [snap EXCEPT ![c] = DOMAIN channels]
            /\ UNCHANGED <<Tables, slug, seen>>

\* Mutant: a channel that is there is switched on again.
AddOrRevive(c) ==
  /\ phase[c] = "adding"
  /\ arg[c].kind = "create_channel"
  /\ channels' = Put(channels, Key(arg[c]),
       [active |-> TRUE, next |-> "due", origin |-> "added"])
  /\ Goes(c, "done")
  /\ UNCHANGED <<publishers, jobs, outbox, Reads>>

AddChannel(c) ==
  /\ phase[c] = "adding"
  /\ arg[c].kind = "create_channel"
  /\ IF Key(arg[c]) \in DOMAIN channels
       THEN Raises(c, "integrity")
       ELSE /\ channels' = Put(channels, Key(arg[c]),
                  [active |-> TRUE, next |-> "due", origin |-> "added"])
            /\ outbox' = outbox \cup {[type |-> "channel_created", of |-> Key(arg[c])]}
            /\ Goes(c, "done")
            /\ UNCHANGED <<publishers, jobs, Reads>>

----------------------------------------------------------------------------
(* Row locks *)

\* The rows that the update under way has matched and not yet locked.
WantedChannels(c) ==
  {k \in snap[c] : phase[c] \in {"scheduling", "switching"}} \ locks[c].channels

WantedPublishers(c) ==
  (CASE phase[c] = "marking"   -> seen[c]
     [] phase[c] = "disabling" -> {arg[c].target}
     [] OTHER                  -> {}) \ locks[c].publishers

\* The calls that c may have to wait for: which row its scan meets next is not said.
WaitsFor(c) ==
  {d \in Calls \ {c} : \/ WantedChannels(c) \cap locks[d].channels # {}
                       \/ WantedPublishers(c) \cap locks[d].publishers # {}}

\* An update locks a row that it has come to, once nobody else holds it.
LockChannel(c) ==
  \E k \in WantedChannels(c) :
    /\ \A d \in Calls : k \notin locks[d].channels
    /\ locks' = [locks EXCEPT ![c].channels = @ \cup {k}]
    /\ UNCHANGED <<Tables, phase, Reads>>

LockPublisher(c) ==
  \E p \in WantedPublishers(c) :
    /\ \A d \in Calls : p \notin locks[d].publishers
    /\ locks' = [locks EXCEPT ![c].publishers = @ \cup {p}]
    /\ UNCHANGED <<Tables, phase, Reads>>

\* Calls that wait for each other.
Deadlock(D) ==
  /\ D # {}
  /\ \A c \in D : WaitsFor(c) \cap D # {} /\ \E d \in D : c \in WaitsFor(d)

\* PostgreSQL ends one of them.
BreakDeadlock(c) ==
  /\ \E D \in SUBSET Calls : c \in D /\ Deadlock(D)
  /\ Raises(c, "failed")

----------------------------------------------------------------------------
(* create_fetch_job *)

\* _fetch_target_publishers.
Targets(t) == {p \in DOMAIN publishers : publishers[p].active /\ (t = All \/ t = p)}

ChooseTargets(c) ==
  \E a \in FetchArgs :
    /\ Request(c, a)
    /\ IF Targets(a.target) = {}
         THEN Returns(c, "not_found")
         ELSE /\ Goes(c, "matching")
              /\ seen' = [seen EXCEPT ![c] = Targets(a.target)]
              /\ UNCHANGED <<Tables, slug, snap>>

\* The update of the channels matches what is committed when it begins.
MatchChannels(c) ==
  /\ phase[c] = "matching"
  /\ snap' = [snap EXCEPT ![c] = {k \in DOMAIN channels : k[1] \in seen[c] /\ channels[k].active}]
  /\ Goes(c, "scheduling")
  /\ UNCHANGED <<Tables, arg, slug, seen>>

\* It has locked them all, and the update of the publishers begins.
MarkPublishers(c) ==
  /\ phase[c] = "scheduling"
  /\ WantedChannels(c) = {}
  /\ Goes(c, "marking")
  /\ UNCHANGED <<Tables, Reads>>

\* The message and the commit.  A channel that was switched off before it was locked
\* is left alone.
CommitJob(c) ==
  /\ phase[c] = "marking"
  /\ WantedPublishers(c) = {}
  /\ channels' = [k \in DOMAIN channels |->
                    IF k \in snap[c] /\ channels[k].active
                    THEN [channels[k] EXCEPT !.next = "due"] ELSE channels[k]]
  /\ publishers' = [p \in DOMAIN publishers |->
                      IF p \in seen[c] THEN [publishers[p] EXCEPT !.fetched = TRUE]
                      ELSE publishers[p]]
  /\ jobs' = Put(jobs, c, [target |-> arg[c].target, ids |-> seen[c], status |-> "scheduled"])
  /\ outbox' = outbox \cup {[type |-> "job_scheduled", of |-> c]}
  /\ Goes(c, "done")
  /\ UNCHANGED Reads

----------------------------------------------------------------------------
(* delete_publisher *)

FindPublisher(c) ==
  \E a \in DeleteArgs :
    /\ Request(c, a)
    /\ Returns(c, IF a.target \in DOMAIN publishers THEN "disabling" ELSE "not_found")

\* Mutant: the publisher is written with the commit, after its channels.
MatchBeforeFlush(c) ==
  /\ phase[c] = "disabling"
  /\ snap' = [snap EXCEPT ![c] = {k \in DOMAIN channels : k[1] = arg[c].target}]
  /\ Goes(c, "switching")
  /\ UNCHANGED <<Tables, arg, slug, seen>>

\* The flush that precedes the update of the channels has written the publisher.  The
\* update matches what is committed when it begins.
MatchAllChannels(c) ==
  /\ phase[c] = "disabling"
  /\ WantedPublishers(c) = {}
  /\ snap' = [snap EXCEPT ![c] = {k \in DOMAIN channels : k[1] = arg[c].target}]
  /\ Goes(c, "switching")
  /\ UNCHANGED <<Tables, arg, slug, seen>>

CommitDelete(c) ==
  /\ phase[c] = "switching"
  /\ WantedChannels(c) = {}
  /\ publishers' = [publishers EXCEPT ![arg[c].target].active = FALSE]
  /\ channels' = [k \in DOMAIN channels |->
                    IF k \in snap[c] THEN [channels[k] EXCEPT !.active = FALSE]
                    ELSE channels[k]]
  /\ Goes(c, "done")
  /\ UNCHANGED <<jobs, outbox, Reads>>

----------------------------------------------------------------------------
(* Beside the calls *)

\* Mutant: a status that nobody knows.
CloseStale(p) ==
  /\ \E j \in DOMAIN jobs : jobs[j].target = p /\ jobs[j].status = "scheduled"
  /\ jobs' = [j \in DOMAIN jobs |->
       IF jobs[j].target = p THEN [jobs[j] EXCEPT !.status = "closed"] ELSE jobs[j]]
  /\ UNCHANGED <<publishers, channels, outbox, phase, locks, Reads>>

\* The cleanup completes stale jobs of the publishers whose name it is given; the job
\* of all publishers has none.
CompleteStale(p) ==
  /\ \E stale \in SUBSET {j \in DOMAIN jobs : jobs[j].target = p} \ {{}} :
       /\ \A j \in stale : jobs[j].status = "scheduled"
       /\ jobs' = [j \in DOMAIN jobs |->
                    IF j \in stale THEN [jobs[j] EXCEPT !.status = "completed"] ELSE jobs[j]]
  /\ UNCHANGED <<publishers, channels, outbox, phase, locks, Reads>>

\* A poller polls a channel that is due, and sets its next poll.
Poll(k) ==
  /\ channels[k].active
  /\ channels[k].next = "due"
  /\ \A c \in Calls : k \notin locks[c].channels
  /\ channels' = [channels EXCEPT ![k].next = "later"]
  /\ UNCHANGED <<publishers, jobs, outbox, phase, locks, Reads>>

\* Every request has been answered.
Finished ==
  /\ \A c \in Calls : phase[c] \in Ended
  /\ UNCHANGED vars

Call(c) ==
  \/ Fail(c)
  \/ HomepageFails(c)
  \/ CheckDomain(c) \/ ChooseSlug(c) \/ RegisterFound(c)
  \/ CheckSlug(c) \/ RegisterCreated(c)
  \/ CheckChannel(c) \/ AddChannel(c)
  \/ ChooseTargets(c) \/ MatchChannels(c) \/ MarkPublishers(c) \/ CommitJob(c)
  \/ FindPublisher(c) \/ MatchAllChannels(c) \/ CommitDelete(c)
  \/ LockChannel(c) \/ LockPublisher(c) \/ BreakDeadlock(c)

Next ==
  \/ \E c \in Calls : Call(c)
  \/ \E p \in DOMAIN publishers : CompleteStale(p)
  \/ \E k \in DOMAIN channels : Poll(k)
  \/ Finished

Spec == Init /\ [][Next]_vars

----------------------------------------------------------------------------
(* Properties *)

\* A message for each publisher, each channel of create_channel and each fetch job
\* that is in the tables, and for nothing else: what a call has written before it
\* failed is gone with its message.
OutboxMatchesTables ==
  outbox =
    {[type |-> IF publishers[p].origin = "found" THEN "source_discovered"
               ELSE "publisher_created", of |-> p] : p \in DOMAIN publishers}
    \cup {[type |-> "channel_created", of |-> k] :
             k \in {k \in DOMAIN channels : channels[k].origin = "added"}}
    \cup {[type |-> "job_scheduled", of |-> j] : j \in DOMAIN jobs}

\* Another call has taken a key of call c since c looked, or c has not looked.
LostRace(c) ==
  CASE arg[c].kind = "discover" ->
         \E p \in DOMAIN publishers \ seen[c] :
           publishers[p].slug = slug[c] \/ publishers[p].domain = arg[c].domain
    [] arg[c].kind = "create" ->
         \/ \E p \in DOMAIN publishers \ seen[c] : publishers[p].slug = slug[c]
         \/ \E p \in DOMAIN publishers : publishers[p].domain = arg[c].domain
    [] OTHER -> Key(arg[c]) \in DOMAIN channels \ snap[c]

\* A unique constraint ends a call only when another call has taken the key since this
\* one looked, or for a domain that create_publisher does not look for.
FailsOnlyOnRace ==
  \A c \in Calls : phase[c] = "integrity" => LostRace(c)

\* The numbers below that of slug s are taken for its name.
Gapless(s) ==
  \A i \in 1..(s[2] - 1) : \E q \in DOMAIN publishers : publishers[q].slug = <<s[1], i>>

\* The suffixes that discoveries give a name have no gap, whatever raced them.
SuffixesFollow ==
  \A p \in DOMAIN publishers : publishers[p].origin = "found" => Gapless(publishers[p].slug)

\* The publisher that call c deletes, and the channels it has matched, are off.
SwitchedOff(c) ==
  /\ ~ publishers[arg[c].target].active
  /\ \A k \in snap[c] : ~ channels[k].active

\* What a deletion has switched off stays off: no fetch job, poll or other call that
\* overlaps it brings the publisher or a channel it has seen back.
DeletedForGood ==
  \A c \in Calls : phase[c] = "done" /\ arg[c].kind = "delete" => SwitchedOff(c)

\* Calls that wait for each other's rows have a fetch job among them that waits for
\* a deletion of a publisher it is to fetch, or for a job at the same update, whose
\* scan has met the rows in another order.  Deletions alone do not block each other:
\* each has locked its publisher before it comes to the channels.
DeadlockNeedsJob ==
  \A D \in SUBSET Calls : Deadlock(D) =>
    \E c, d \in D :
      /\ arg[c].kind = "fetch"
      /\ d \in WaitsFor(c)
      /\ \/ arg[d].kind = "delete" /\ arg[d].target \in seen[c]
         \/ phase[d] = phase[c]
=============================================================================
