----------------------------- MODULE WorkerLoop -----------------------------
(***************************************************************************)
(* The loop of one worker process: run_worker (workers/articles.py, and       *)
(* workers/poller.py alike) calls run_once, which leases a whole batch, makes  *)
(* a task of each row, and gathers the tasks under a semaphore of its own.     *)
(*                                                                           *)
(* A round is one call of run_once that leased something.  When a task raises  *)
(* a database error, gather passes it on at once and run_worker goes on to      *)
(* its next round, while the other tasks of the round stay in the event loop.   *)
(* (The poller's run swallows every exception: it has no RaiseDatabaseError.)   *)
(*                                                                           *)
(* Time is counted in ticks, since leases begin when the batch is leased and    *)
(* not when a task begins.  A job lasts JobTime at most.  That is a premise:    *)
(* nothing in the code stops a job that lasts longer.                            *)
(***************************************************************************)
EXTENDS Naturals, FiniteSets

CONSTANTS
  Rows,         \* url_candidates, or discovery_channels, to be worked on
  BatchSize,    \* article_worker_batch_size
  Concurrency,  \* article_worker_concurrency
  JobTime,      \* premise: the longest a job runs
  LeaseTime,    \* article_worker_lease_seconds
  IdleTime,     \* article_worker_idle_seconds
  MaxPause,     \* database_retry_max_seconds
  MaxRounds,    \* bound: rounds
  MaxErrors     \* bound: exceptions, of jobs and of lease queries

ASSUME SizesAssumption ==
  /\ {BatchSize, Concurrency, JobTime, LeaseTime, IdleTime, MaxPause} \subseteq Nat \ {0}
  /\ {MaxRounds, MaxErrors} \subseteq Nat
  /\ IsFiniteSet(Rows)

VARIABLES
  row,      \* "due", "leased" or "done"
  age,      \* ticks since the row was leased, up to LeaseTime + 1
  task,     \* task[k][c]: the task of row c in round k
  ran,      \* ran[k][c]: ticks it has been running
  round,    \* rounds begun
  raised,   \* rounds whose gather has raised
  main,     \* where run_worker is
  attempt,  \* database_failure_attempt
  pause,    \* ticks left of its sleep
  errors    \* how much of MaxErrors has been used up

vars == <<row, age, task, ran, round, raised, main, attempt, pause, errors>>

Rounds == 1..MaxRounds
Tasks  == {"none", "waiting", "running", "ended", "cancelled"}
Expired == LeaseTime + 1

\* The variables have the types of the rows, the tasks and run_worker's state.
TypeOK ==
  /\ row  \in [Rows -> {"due", "leased", "done"}]
  /\ age  \in [Rows -> 0..Expired]
  /\ task \in [Rounds -> [Rows -> Tasks]]
  /\ ran  \in [Rounds -> [Rows -> 0..JobTime]]
  /\ round \in 0..MaxRounds
  /\ raised \subseteq 1..round
  /\ main \in {"turning", "gathering", "sleeping"}
  /\ attempt \in 0..MaxErrors
  /\ pause \in 0..(MaxPause + IdleTime)
  /\ errors \in 0..MaxErrors

Init ==
  /\ row  = [c \in Rows |-> "due"]
  /\ age  = [c \in Rows |-> 0]
  /\ task = [k \in Rounds |-> [c \in Rows |-> "none"]]
  /\ ran  = [k \in Rounds |-> [c \in Rows |-> 0]]
  /\ round = 0
  /\ raised = {}
  /\ main = "turning"
  /\ attempt = 0
  /\ pause = 0
  /\ errors = 0

----------------------------------------------------------------------------
(* run_worker *)

\* Mutant: the maximum is forgotten.
UncappedDelay(n) == 2 ^ (IF n < 10 THEN n ELSE 10)

\* database_retry_delay.
RetryDelay(n) ==
  LET delay == 2 ^ (IF n < 10 THEN n ELSE 10)
  IN  IF delay < MaxPause THEN delay ELSE MaxPause

\* run_once has raised OSError or SQLAlchemyError.
BackOff ==
  /\ attempt' = attempt + 1
  /\ pause' = RetryDelay(attempt + 1)
  /\ main' = "sleeping"

\* run_once has returned: the failures are forgotten, and the loop turns or idles.
Returned(claimed) ==
  /\ attempt' = 0
  /\ main' = IF claimed = 0 THEN "sleeping" ELSE "turning"
  /\ pause' = IF claimed = 0 THEN IdleTime ELSE 0

\* Mutant: rows whose lease has expired are forgotten.
DueOnly == {c \in Rows : row[c] = "due"}

\* Rows the lease query may take.
Leasable == {c \in Rows : row[c] = "due" \/ (row[c] = "leased" /\ age[c] = Expired)}

\* run_once leases a batch, and every row of it becomes a task that waits for the
\* semaphore.
LeaseBatch(B) ==
  /\ main = "turning"
  /\ round < MaxRounds
  /\ B # {}
  /\ B \subseteq Leasable
  /\ Cardinality(B) <= BatchSize
  /\ Cardinality(B) = BatchSize \/ B = Leasable
  /\ row' = [c \in Rows |-> IF c \in B THEN "leased" ELSE row[c]]
  /\ age' = [c \in Rows |-> IF c \in B THEN 0 ELSE age[c]]
  /\ round' = round + 1
  /\ task' = [task EXCEPT ![round + 1] = [c \in Rows |-> IF c \in B THEN "waiting" ELSE "none"]]
  /\ main' = "gathering"
  /\ UNCHANGED <<ran, raised, attempt, pause, errors>>

\* The lease query returns no row.
LeaseNothing ==
  /\ main = "turning"
  /\ Leasable = {}
  /\ Returned(0)
  /\ UNCHANGED <<row, age, task, ran, round, raised, errors>>

\* The lease query raises.
LeaseFails ==
  /\ main = "turning"
  /\ errors < MaxErrors
  /\ errors' = errors + 1
  /\ BackOff
  /\ UNCHANGED <<row, age, task, ran, round, raised>>

\* Mutant: the loop does not wait for the whole batch, only for its first task.
GatherFirst ==
  /\ main = "gathering"
  /\ \E c \in Rows : task[round][c] = "ended"
  /\ Returned(1)
  /\ UNCHANGED <<row, age, task, ran, round, raised, errors>>

\* gather returns when every task of the round has ended.
GatherReturns ==
  /\ main = "gathering"
  /\ \A c \in Rows : task[round][c] \in {"none", "ended", "cancelled"}
  /\ Returned(1)
  /\ UNCHANGED <<row, age, task, ran, round, raised, errors>>

\* asyncio.sleep is over.
Wake ==
  /\ main = "sleeping"
  /\ pause = 0
  /\ main' = "turning"
  /\ UNCHANGED <<row, age, task, ran, round, raised, attempt, pause, errors>>

----------------------------------------------------------------------------
(* The tasks *)

Running(k) == {c \in Rows : task[k][c] = "running"}

\* Mutant: one semaphore for all rounds, made with the worker.
SharedSemaphoreFree(k) ==
  Cardinality(UNION {Running(j) \X {j} : j \in Rounds}) < Concurrency

\* The semaphore that this round's call of run_once has made.
SemaphoreFree(k) == Cardinality(Running(k)) < Concurrency

\* A task passes the semaphore and begins its job.
Start(k, c) ==
  /\ task[k][c] = "waiting"
  /\ SemaphoreFree(k)
  /\ task' = [task EXCEPT ![k][c] = "running"]
  /\ UNCHANGED <<row, age, ran, round, raised, main, attempt, pause, errors>>

\* The job settles its row.
Settle(k, c) ==
  /\ task[k][c] = "running"
  /\ task' = [task EXCEPT ![k][c] = "ended"]
  /\ row' = [row EXCEPT ![c] = "done"]
  /\ age' = [age EXCEPT ![c] = 0]
  /\ UNCHANGED <<ran, round, raised, main, attempt, pause, errors>>

\* The job ends with an exception that run swallows, its row left leased.
Swallow(k, c) ==
  /\ task[k][c] = "running"
  /\ errors < MaxErrors
  /\ errors' = errors + 1
  /\ task' = [task EXCEPT ![k][c] = "ended"]
  /\ UNCHANGED <<row, age, ran, round, raised, main, attempt, pause>>

\* Mutant: the others are cancelled, as a TaskGroup would.
SiblingsCancelled(k, c) ==
  [d \in Rows |-> CASE d = c -> "ended"
                    [] d # c /\ task[k][d] \in {"waiting", "running"} -> "cancelled"
                    [] OTHER -> task[k][d]]

\* What a raising task leaves of its round: gather does not touch the others.
Siblings(k, c) == [task[k] EXCEPT ![c] = "ended"]

\* The job ends with a database error.  The first of a round goes through gather to
\* run_worker; nobody retrieves those that follow.
RaiseDatabaseError(k, c) ==
  /\ task[k][c] = "running"
  /\ errors < MaxErrors
  /\ errors' = errors + 1
  /\ task' = [task EXCEPT ![k] = Siblings(k, c)]
  /\ IF k \in raised
       THEN UNCHANGED <<raised, main, attempt, pause>>
       ELSE raised' = raised \cup {k} /\ BackOff
  /\ UNCHANGED <<row, age, ran, round>>

----------------------------------------------------------------------------
(* The clock *)

\* The event loop has something to do before time passes: a task may pass its
\* semaphore, or a job has run for its longest.
Urgent ==
  \E k \in Rounds, c \in Rows :
    \/ task[k][c] = "waiting" /\ SemaphoreFree(k)
    \/ task[k][c] = "running" /\ ran[k][c] = JobTime

\* Time passes for leases, jobs and sleeps.
Tick ==
  /\ ~ Urgent
  /\ \E c \in Rows : row[c] # "done"
  /\ age' = [c \in Rows |-> IF row[c] = "leased" /\ age[c] < Expired THEN age[c] + 1 ELSE age[c]]
  /\ ran' = [k \in Rounds |-> [c \in Rows |->
               IF task[k][c] = "running" THEN ran[k][c] + 1 ELSE 0]]
  /\ pause' = IF pause = 0 THEN 0 ELSE pause - 1
  /\ UNCHANGED <<row, task, round, raised, main, attempt, errors>>

Task(k, c) ==
  \/ Start(k, c)
  \/ Settle(k, c)
  \/ Swallow(k, c)
  \/ RaiseDatabaseError(k, c)

Main ==
  \/ \E B \in SUBSET Rows : LeaseBatch(B)
  \/ LeaseNothing
  \/ LeaseFails
  \/ GatherReturns
  \/ Wake

Next ==
  \/ \E k \in Rounds, c \in Rows : Task(k, c)
  \/ Main
  \/ Tick

\* What the event loop runs when it is ready; errors are not owed to anyone.
Ready ==
  \/ \E k \in Rounds, c \in Rows : Start(k, c) \/ Settle(k, c)
  \/ \E B \in SUBSET Rows : LeaseBatch(B)
  \/ LeaseNothing
  \/ GatherReturns
  \/ Wake

\* The event loop runs what is ready, and time passes.
Fairness == WF_vars(Ready) /\ WF_vars(Tick)

Spec == Init /\ [][Next]_vars /\ Fairness

----------------------------------------------------------------------------
(* Properties *)

Active(k, c) == task[k][c] \in {"waiting", "running"}

\* No lease expires under a task, the time it waits for the semaphore included.  This
\* is what Overrun = FALSE assumes in ArticleJobs and ChannelPolling; it holds when
\* ceil(BatchSize / Concurrency) jobs, one after the other, fit in a lease, whatever
\* tasks earlier rounds have left behind.
LeasesOutliveTasks ==
  \A k \in Rounds, c \in Rows : Active(k, c) => row[c] = "leased" /\ age[c] < Expired

\* A task outlives its round only if the round's gather has raised: otherwise no
\* more than Concurrency jobs run at once.
OrphansOnlyOfRaised ==
  /\ \A k \in Rounds, c \in Rows :
       Active(k, c) => k \in raised \/ (k = round /\ main = "gathering")
  /\ \A k \in Rounds : Cardinality(Running(k)) <= Concurrency

\* The error of one job takes no other job with it: every task of a batch runs to
\* its end.
EveryTaskEnds ==
  \A k \in Rounds : (round = k) ~> (\A c \in Rows : task[k][c] \in {"none", "ended"})

\* Whatever errors occur, every row is settled in the end.
EventuallyDone == <>(\A c \in Rows : row[c] = "done")
=============================================================================
