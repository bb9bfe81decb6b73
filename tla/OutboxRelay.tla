---------------------------- MODULE OutboxRelay ----------------------------
(***************************************************************************)
(* The transactional outbox and the relays that drain it (workers/outbox.py) *)
(* A relay's transaction locks the oldest unpublished rows that no other      *)
(* relay has locked, records each in consumer_inbox, sets published_at and    *)
(* commits.  Nothing of it is visible before the commit, so it is two steps:  *)
(* the locking query, and the end of the transaction.                         *)
(*                                                                           *)
(* Messages are numbered in the order of occurred_at, which a writer sets     *)
(* when it builds a message; the row appears when the writer's transaction    *)
(* commits, in any order.                                                     *)
(***************************************************************************)
EXTENDS Naturals, FiniteSets

CONSTANTS
  Messages,    \* numbers, in the order of occurred_at
  Aggregates,  \* for each aggregate_id, the messages that bear it
  Relays,      \* processes running workers/outbox.py
  NoRelay,     \* a row whose published_at is NULL
  BatchSize,   \* outbox_worker_batch_size
  MaxFaults    \* bound: failures, crashes and lost acknowledgements

ASSUME MessagesAssumption   == Messages \subseteq Nat /\ IsFiniteSet(Messages)
ASSUME AggregatesAssumption == Aggregates \subseteq SUBSET Messages
ASSUME RelaysAssumption   == NoRelay \notin Relays
ASSUME BatchAssumption    == BatchSize \in Nat \ {0} /\ MaxFaults \in Nat

VARIABLES
  outbox,   \* outbox_events: is there a row, and is it published
  stamp,    \* whose transaction set published_at
  inbox,    \* number of rows consumer_inbox holds for a message
  batch,    \* rows the open transaction of a relay has locked
  loop,     \* where a relay is in run_worker
  failures, \* database_failure_attempt of a relay
  late,     \* history: rows the locking query of a relay could not have taken
  faults    \* how much of MaxFaults has been used up

vars == <<outbox, stamp, inbox, batch, loop, failures, late, faults>>

Rows  == {"absent", "pending", "published"}
Loops == {"querying", "open", "idle", "backing_off", "stopped"}

\* The variables have the types of the tables and of run_worker's control state.
TypeOK ==
  /\ outbox \in [Messages -> Rows]
  /\ stamp  \in [Messages -> Relays \cup {NoRelay}]
  /\ inbox  \in [Messages -> Nat]
  /\ batch  \in [Relays -> SUBSET Messages]
  /\ loop   \in [Relays -> Loops]
  /\ failures \in [Relays -> Nat]
  /\ late   \in [Relays -> SUBSET Messages]
  /\ faults \in 0..MaxFaults

Init ==
  /\ outbox = [m \in Messages |-> "absent"]
  /\ stamp  = [m \in Messages |-> NoRelay]
  /\ inbox  = [m \in Messages |-> 0]
  /\ batch  = [r \in Relays |-> {}]
  /\ loop   = [r \in Relays |-> "querying"]
  /\ failures = [r \in Relays |-> 0]
  /\ late   = [r \in Relays |-> {}]
  /\ faults = 0

----------------------------------------------------------------------------
(* The writers and the locking query *)

Pending == {m \in Messages : outbox[m] = "pending"}
Locked  == UNION {batch[r] : r \in Relays}

\* S can now be locked again or for the first time: transactions other than that
\* of r which are open have run their query before.
Missed(r, S) ==
  [q \in Relays |-> IF q # r /\ loop[q] = "open" THEN late[q] \cup S ELSE late[q]]

\* A writer's transaction commits; its messages become visible together.
Write(S) ==
  /\ S # {}
  /\ \A m \in S : outbox[m] = "absent"
  /\ outbox' = [m \in Messages |-> IF m \in S THEN "pending" ELSE outbox[m]]
  /\ late' = Missed(NoRelay, S)
  /\ UNCHANGED <<stamp, inbox, batch, loop, failures, faults>>

\* Mutant: FOR UPDATE SKIP LOCKED is dropped from the query.
FreeWithoutLocks == Pending

\* What the query sees: FOR UPDATE SKIP LOCKED passes over locked rows.
Free == Pending \ Locked

\* Mutant: the query orders by occurred_at descending.
NewestFree == {m \in Free : Cardinality({k \in Free : k > m}) < BatchSize}

\* ORDER BY occurred_at LIMIT batch_size.
OldestFree == {m \in Free : Cardinality({k \in Free : k < m}) < BatchSize}

\* The query finds and locks a batch.
Claim(r) ==
  /\ loop[r] = "querying"
  /\ OldestFree # {}
  /\ batch' = [batch EXCEPT ![r] = OldestFree]
  /\ loop' = [loop EXCEPT ![r] = "open"]
  /\ late' = [late EXCEPT ![r] = Locked]
  /\ UNCHANGED <<outbox, stamp, inbox, failures, faults>>

\* The query finds nothing: count is 0, and the relay sleeps.
FindNothing(r) ==
  /\ loop[r] = "querying"
  /\ Free = {}
  /\ loop' = [loop EXCEPT ![r] = "idle"]
  /\ failures' = [failures EXCEPT ![r] = 0]
  /\ UNCHANGED <<outbox, stamp, inbox, batch, late, faults>>

----------------------------------------------------------------------------
(* The end of a relay's transaction *)

\* Mutant: the inbox row is inserted by a transaction of its own that comes later.
PublishedOnly(r) ==
  /\ outbox' = [m \in Messages |-> IF m \in batch[r] THEN "published" ELSE outbox[m]]
  /\ stamp'  = [m \in Messages |-> IF m \in batch[r] THEN r ELSE stamp[m]]
  /\ UNCHANGED inbox

\* Mutant: published_at is not set.
RecordedOnly(r) ==
  /\ inbox' = [m \in Messages |-> IF m \in batch[r] /\ inbox[m] = 0 THEN 1 ELSE inbox[m]]
  /\ UNCHANGED <<outbox, stamp>>

\* For each row: INSERT INTO consumer_inbox ... ON CONFLICT DO NOTHING, and
\* UPDATE outbox_events SET published_at.
Published(r) ==
  /\ inbox'  = [m \in Messages |-> IF m \in batch[r] /\ inbox[m] = 0 THEN 1 ELSE inbox[m]]
  /\ outbox' = [m \in Messages |-> IF m \in batch[r] THEN "published" ELSE outbox[m]]
  /\ stamp'  = [m \in Messages |-> IF m \in batch[r] THEN r ELSE stamp[m]]

\* The transaction of r is over: its locks are released, its loop goes on at `next`.
Ended(r, next) ==
  /\ batch' = [batch EXCEPT ![r] = {}]
  /\ loop' = [loop EXCEPT ![r] = next]

\* Mutant: a success takes one failure back instead of resetting the attempt.
CommitForgivesOne(r) ==
  /\ loop[r] = "open"
  /\ Published(r)
  /\ Ended(r, "querying")
  /\ failures' = [failures EXCEPT ![r] = @ - 1]
  /\ late' = [late EXCEPT ![r] = {}]
  /\ UNCHANGED faults

\* The commit succeeds, count is positive and the loop turns at once.
Commit(r) ==
  /\ loop[r] = "open"
  /\ Published(r)
  /\ Ended(r, "querying")
  /\ failures' = [failures EXCEPT ![r] = 0]
  /\ late' = [late EXCEPT ![r] = {}]
  /\ UNCHANGED faults

\* The commit succeeds, but the connection breaks before the relay learns of it.
CommitUnacknowledged(r) ==
  /\ loop[r] = "open"
  /\ faults < MaxFaults
  /\ Published(r)
  /\ Ended(r, "backing_off")
  /\ failures' = [failures EXCEPT ![r] = @ + 1]
  /\ late' = [late EXCEPT ![r] = {}]
  /\ faults' = faults + 1

\* OSError or SQLAlchemyError anywhere in a turn of the loop: the transaction, if
\* there is one, is rolled back, and the relay sleeps for database_retry_delay.
Fail(r) ==
  /\ loop[r] \in {"querying", "open"}
  /\ faults < MaxFaults
  /\ Ended(r, "backing_off")
  /\ failures' = [failures EXCEPT ![r] = @ + 1]
  /\ late' = [Missed(r, batch[r]) EXCEPT ![r] = {}]
  /\ faults' = faults + 1
  /\ UNCHANGED <<outbox, stamp, inbox>>

\* The process dies, or another exception leaves run_worker.
Crash(r) ==
  /\ loop[r] # "stopped"
  /\ faults < MaxFaults
  /\ Ended(r, "stopped")
  /\ failures' = [failures EXCEPT ![r] = 0]
  /\ late' = [Missed(r, batch[r]) EXCEPT ![r] = {}]
  /\ faults' = faults + 1
  /\ UNCHANGED <<outbox, stamp, inbox>>

\* A sleep ends and the loop turns.
Wake(r) ==
  /\ loop[r] \in {"idle", "backing_off"}
  /\ loop' = [loop EXCEPT ![r] = "querying"]
  /\ UNCHANGED <<outbox, stamp, inbox, batch, failures, late, faults>>

\* The relay is started again.
Restart(r) ==
  /\ loop[r] = "stopped"
  /\ loop' = [loop EXCEPT ![r] = "querying"]
  /\ UNCHANGED <<outbox, stamp, inbox, batch, failures, late, faults>>

Relay(r) ==
  \/ Claim(r)
  \/ FindNothing(r)
  \/ Commit(r)
  \/ CommitUnacknowledged(r)
  \/ Fail(r)
  \/ Crash(r)
  \/ Wake(r)
  \/ Restart(r)

Next ==
  \/ \E S \in SUBSET Messages : Write(S)
  \/ \E r \in Relays : Relay(r)

\* A relay that can go on goes on: asyncio runs its loop, a sleep ends, and a
\* relay that died is started again.  Nothing is promised about writers.
Fairness ==
  \A r \in Relays :
    /\ WF_vars(Claim(r) \/ FindNothing(r))
    /\ WF_vars(Commit(r))
    /\ WF_vars(Wake(r))
    /\ WF_vars(Restart(r))

Spec == Init /\ [][Next]_vars /\ Fairness

----------------------------------------------------------------------------
(* Properties *)

\* A message is recorded in the inbox exactly once if it is published, and not at
\* all before, whatever crashes and lost acknowledgements the relays meet.
PublishedIsRecorded ==
  \A m \in Messages : inbox[m] = IF outbox[m] = "published" THEN 1 ELSE 0

\* No message is handled by the transactions of two relays: the relay whose commit
\* published it is the only one, even if it never learnt of its success.
PublishedOnce ==
  [][\A m \in Messages :
       outbox[m] = "published" => outbox'[m] = "published" /\ stamp'[m] = stamp[m]]_vars

\* What the locking query keeps of the order of occurred_at: a relay passes over no
\* message that it could have taken.  Those it could not take (written later, or in
\* the hands of another relay) are overtaken, those of the same aggregate included.
OvertakesOnlyLate ==
  [][\A r \in Relays : \A n \in batch[r], m \in Messages :
       /\ outbox[n] = "pending"
       /\ outbox'[n] = "published"
       /\ m < n
       /\ outbox'[m] = "pending"
       => m \in late[r]]_vars

\* The order within an aggregate that docs/MODULE_SYNCHRONIZATION.md:68 guarantees: no
\* message is published while an earlier one of its aggregate is waiting, to be
\* published after it.  The query does not look at aggregates, and this does not hold.
OrderedWithinAggregate ==
  [][\A S \in Aggregates : \A m, n \in S :
       /\ m < n
       /\ outbox[m] = "pending"
       /\ outbox[n] = "pending"
       /\ outbox'[n] = "published"
       => outbox'[m] = "published"]_vars

\* A message whose writer has committed is published in the end.
EventuallyDelivered ==
  \A m \in Messages : (outbox[m] = "pending") ~> (outbox[m] = "published")

Delivery == INSTANCE OutboxDelivery WITH
  waiting   <- Pending,
  delivered <- {m \in Messages : outbox[m] = "published" /\ inbox[m] = 1}

\* The relays implement the delivery of whole batches.
ImplementsDelivery == Delivery!Spec
=============================================================================
