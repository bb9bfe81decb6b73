-------------------------- MODULE WorkerLoopProofs --------------------------
(***************************************************************************)
(* Theorems about WorkerLoop, for any rows, sizes and times: which tasks may *)
(* be running, how many, and whether the leases of their rows last.          *)
(***************************************************************************)
EXTENDS WorkerLoop, FiniteSetTheorems, TLAPS

TaskTypes ==
  /\ task \in [Rounds -> [Rows -> Tasks]]
  /\ round \in 0..MaxRounds
  /\ raised \subseteq 1..round
  /\ main \in {"turning", "gathering", "sleeping"}

\* Rounds that have not begun have no tasks.
Unbegun == \A k \in Rounds, c \in Rows : k > round => task[k][c] = "none"

\* While run_worker waits in gather, there is a round, and it has not raised.
Gathering == main = "gathering" => round > 0 /\ round \notin raised

\* A task outlives its round only if the round has raised.
Parented ==
  \A k \in Rounds, c \in Rows :
    Active(k, c) => k \in raised \/ (k = round /\ main = "gathering")

\* The semaphore of each round.
Bounded == \A k \in Rounds : Cardinality(Running(k)) <= Concurrency

IInv ==
  /\ TaskTypes
  /\ Unbegun
  /\ Gathering
  /\ Parented
  /\ Bounded

----------------------------------------------------------------------------
(* Facts about running tasks *)

\* There are finitely many.
LEMMA RunningFinite ==
  ASSUME SizesAssumption, NEW k \in Rounds
  PROVE  IsFiniteSet(Running(k)) /\ Cardinality(Running(k)) \in Nat
<1>1. Running(k) \subseteq Rows
  BY DEF Running
<1> QED BY <1>1, FS_Subset, FS_CardinalityType DEF SizesAssumption

\* If no task begins to run, the semaphore still holds.
LEMMA FewerRunning ==
  ASSUME SizesAssumption, Bounded, \A k \in Rounds : Running(k)' \subseteq Running(k)
  PROVE  Bounded'
<1> SUFFICES ASSUME NEW k \in Rounds
             PROVE  Cardinality(Running(k)') <= Concurrency
  BY DEF Bounded, Rounds
<1>1. /\ IsFiniteSet(Running(k)) /\ Cardinality(Running(k)) \in Nat
      /\ Cardinality(Running(k)) <= Concurrency
  BY RunningFinite DEF Bounded
<1>2. /\ Cardinality(Running(k)') \in Nat
      /\ Cardinality(Running(k)') <= Cardinality(Running(k))
  BY <1>1, FS_Subset, FS_CardinalityType
<1> QED BY <1>1, <1>2 DEF SizesAssumption

----------------------------------------------------------------------------
(* The steps *)

LEMMA InitEstablishes == ASSUME SizesAssumption PROVE Init => IInv
<1> SUFFICES ASSUME Init PROVE IInv
  OBVIOUS
<1>1. TaskTypes /\ Unbegun /\ Gathering /\ Parented
  BY DEF Init, TaskTypes, Tasks, Rounds, Unbegun, Gathering, Parented, Active, SizesAssumption
<1>2. ASSUME NEW k \in Rounds PROVE Running(k) = {}
  BY DEF Init, Running
<1>3. Bounded
  BY <1>2, FS_EmptySet DEF Bounded, SizesAssumption
<1> QED BY <1>1, <1>3 DEF IInv

\* A new round: nothing active is left but what raising rounds have left.
LEMMA LeasePreserves ==
  ASSUME SizesAssumption, IInv, NEW B \in SUBSET Rows, LeaseBatch(B)
  PROVE  IInv'
<1> USE DEF LeaseBatch, IInv
<1>1. /\ round + 1 \in Rounds /\ round' = round + 1
      /\ raised' = raised /\ main' = "gathering"
  BY DEF TaskTypes, Rounds, SizesAssumption
<1>2. \A k \in Rounds, c \in Rows :
        task'[k][c] = IF k = round + 1 THEN IF c \in B THEN "waiting" ELSE "none"
                      ELSE task[k][c]
  BY <1>1 DEF TaskTypes
<1>3. TaskTypes'
  BY <1>1 DEF TaskTypes, Tasks, Rounds
<1>4. Unbegun' /\ Gathering'
  BY <1>1, <1>2 DEF Unbegun, Gathering, TaskTypes, Rounds
<1>5. Parented'
  BY <1>1, <1>2 DEF Parented, Active
<1>6. \A k \in Rounds : Running(k)' \subseteq Running(k)
  BY <1>2 DEF Running
<1> QED BY <1>3, <1>4, <1>5, <1>6, FewerRunning

\* The loop goes on: gather has no task left to wait for, or nothing was leased.
LEMMA LoopPreserves ==
  ASSUME SizesAssumption, IInv,
         LeaseNothing \/ LeaseFails \/ GatherReturns \/ Wake \/ Tick
  PROVE  IInv'
<1> USE DEF IInv
<1>1. UNCHANGED <<task, round, raised>>
  BY DEF LeaseNothing, LeaseFails, GatherReturns, Wake, Tick
<1>2. \/ main' \in {"turning", "sleeping"} /\ (main = "gathering" => GatherReturns)
      \/ main' = main
  BY DEF LeaseNothing, LeaseFails, GatherReturns, Wake, Tick, Returned, BackOff
<1>3. TaskTypes'
  BY <1>1, <1>2 DEF TaskTypes
<1>4. Unbegun' /\ Gathering'
  BY <1>1, <1>2 DEF Unbegun, Gathering
<1>5. Parented'
  BY <1>1, <1>2 DEF Parented, Active, GatherReturns
<1>6. \A k \in Rounds : Running(k)' \subseteq Running(k)
  BY <1>1 DEF Running
<1> QED BY <1>3, <1>4, <1>5, <1>6, FewerRunning

\* A task passes the semaphore of its round.
LEMMA StartPreserves ==
  ASSUME SizesAssumption, IInv, NEW k \in Rounds, NEW c \in Rows, Start(k, c)
  PROVE  IInv'
<1> USE DEF IInv, Start
<1>1. \A j \in Rounds, d \in Rows :
        task'[j][d] = IF j = k /\ d = c THEN "running" ELSE task[j][d]
  BY DEF TaskTypes
<1>2. TaskTypes'
  BY DEF TaskTypes, Tasks
<1>3. Unbegun' /\ Gathering' /\ Parented'
  BY <1>1 DEF Unbegun, Gathering, Parented, Active
<1>4. Bounded'
  <2> SUFFICES ASSUME NEW j \in Rounds
               PROVE  Cardinality(Running(j)') <= Concurrency
    BY DEF Bounded, Rounds
  <2>1. CASE j = k
    <3>1. Running(j)' = Running(j) \cup {c} /\ c \notin Running(j)
      BY <1>1, <2>1 DEF Running
    <3>2. IsFiniteSet(Running(j)) /\ Cardinality(Running(j)) \in Nat
      BY RunningFinite
    <3>3. Cardinality(Running(j)') = Cardinality(Running(j)) + 1
      BY <3>1, <3>2, FS_AddElement
    <3> QED BY <2>1, <3>2, <3>3 DEF SemaphoreFree, SizesAssumption
  <2>2. CASE j # k
    <3>1. Running(j)' = Running(j)
      BY <1>1, <2>2 DEF Running
    <3> QED BY <3>1 DEF Bounded
  <2> QED BY <2>1, <2>2
<1> QED BY <1>2, <1>3, <1>4

\* A task ends.  If its error is the first of its round, the round has raised.
LEMMA EndPreserves ==
  ASSUME SizesAssumption, IInv, NEW k \in Rounds, NEW c \in Rows,
         Settle(k, c) \/ Swallow(k, c) \/ RaiseDatabaseError(k, c)
  PROVE  IInv'
<1> USE DEF IInv
<1>1. /\ task[k][c] = "running"
      /\ task' = [task EXCEPT ![k] = [task[k] EXCEPT ![c] = "ended"]]
      /\ round' = round
  BY DEF Settle, Swallow, RaiseDatabaseError, Siblings, TaskTypes
<1>2. \A j \in Rounds, d \in Rows :
        task'[j][d] = IF j = k /\ d = c THEN "ended" ELSE task[j][d]
  BY <1>1 DEF TaskTypes
<1>3. k \in 1..round
  BY <1>1 DEF Unbegun, Rounds, TaskTypes, SizesAssumption
<1>4. \/ UNCHANGED <<raised, main>>
      \/ k \notin raised /\ raised' = raised \cup {k} /\ main' = "sleeping"
  BY DEF Settle, Swallow, RaiseDatabaseError, BackOff
<1>5. TaskTypes'
  BY <1>1, <1>3, <1>4 DEF TaskTypes, Tasks
<1>6. Unbegun' /\ Gathering'
  BY <1>1, <1>2, <1>4 DEF Unbegun, Gathering
<1>7. Parented'
  BY <1>1, <1>2, <1>4 DEF Parented, Active
<1>8. \A j \in Rounds : Running(j)' \subseteq Running(j)
  BY <1>2 DEF Running
<1> QED BY <1>5, <1>6, <1>7, <1>8, FewerRunning

LEMMA StepPreserves ==
  ASSUME SizesAssumption, IInv, [Next]_vars
  PROVE  IInv'
<1>1. CASE UNCHANGED vars
  BY <1>1 DEF vars, IInv, TaskTypes, Unbegun, Gathering, Parented, Bounded, Active, Running
<1>2. ASSUME NEW k \in Rounds, NEW c \in Rows, Task(k, c) PROVE IInv'
  BY <1>2, StartPreserves, EndPreserves DEF Task
<1>3. CASE Main \/ Tick
  BY <1>3, LeasePreserves, LoopPreserves DEF Main
<1> QED BY <1>1, <1>2, <1>3 DEF Next

----------------------------------------------------------------------------

\* A job outlives the gather of its round only if an error has ended it: otherwise at
\* most Concurrency jobs run, whatever the sizes and times are.
THEOREM OrphansAlwaysOfRaised == Spec => []OrphansOnlyOfRaised
<1>1. Init => IInv
  BY InitEstablishes, SizesAssumption
<1>2. IInv /\ [Next]_vars => IInv'
  BY StepPreserves, SizesAssumption
<1>3. IInv => OrphansOnlyOfRaised
  BY DEF IInv, Parented, Bounded, OrphansOnlyOfRaised
<1> QED BY <1>1, <1>2, <1>3, PTL DEF Spec

----------------------------------------------------------------------------
(* Types *)

\* The rest of TypeOK: failures are counted, and their count since the last success is
\* no greater.
ClockTypes ==
  /\ row \in [Rows -> {"due", "leased", "done"}]
  /\ age \in [Rows -> 0..Expired]
  /\ ran \in [Rounds -> [Rows -> 0..JobTime]]
  /\ errors \in 0..MaxErrors
  /\ attempt \in 0..errors
  /\ pause \in 0..(MaxPause + IdleTime)

\* database_retry_delay is a number no greater than the maximum.
LEMMA RetryDelayBounded ==
  ASSUME SizesAssumption, NEW n \in Nat
  PROVE  RetryDelay(n) \in 0..MaxPause
<1> DEFINE k == IF n < 10 THEN n ELSE 10
<1>1. k \in Nat
  OBVIOUS
<1> HIDE DEF k
<1>2. IsFiniteSet(1..k) /\ Cardinality(1..k) = k
  <2>1. 1 \in Int /\ k \in Int
    BY <1>1
  <2>2. IsFiniteSet(1..k) /\ Cardinality(1..k) = IF 1 > k THEN 0 ELSE k - 1 + 1
    BY <2>1, FS_Interval
  <2> QED BY <1>1, <2>2
<1>3. IsFiniteSet(SUBSET (1..k)) /\ Cardinality(SUBSET (1..k)) = 2 ^ k
  BY <1>2, FS_SUBSET
<1>4. 2 ^ k \in Nat
  BY <1>3, FS_CardinalityType
<1>5. RetryDelay(n) = IF 2 ^ k < MaxPause THEN 2 ^ k ELSE MaxPause
  BY DEF RetryDelay, k
<1> QED BY <1>4, <1>5 DEF SizesAssumption

LEMMA MainKeepsTypes ==
  ASSUME SizesAssumption, IInv, ClockTypes, Main
  PROVE  ClockTypes'
<1> USE DEF ClockTypes
<1>1. ASSUME NEW B \in SUBSET Rows, LeaseBatch(B)
      PROVE  ClockTypes'
  BY <1>1 DEF LeaseBatch, Expired, SizesAssumption
<1>2. CASE LeaseNothing \/ GatherReturns
  BY <1>2 DEF LeaseNothing, GatherReturns, Returned, SizesAssumption
<1>3. CASE LeaseFails
  <2>1. RetryDelay(attempt + 1) \in 0..MaxPause
    BY RetryDelayBounded DEF SizesAssumption
  <2> QED BY <1>3, <2>1 DEF LeaseFails, BackOff, SizesAssumption
<1>4. CASE Wake
  BY <1>4 DEF Wake
<1> QED BY <1>1, <1>2, <1>3, <1>4 DEF Main

LEMMA TaskKeepsTypes ==
  ASSUME SizesAssumption, IInv, ClockTypes, NEW k \in Rounds, NEW c \in Rows, Task(k, c)
  PROVE  ClockTypes'
<1> USE DEF ClockTypes
<1>1. CASE Start(k, c)
  BY <1>1 DEF Start
<1>2. CASE Settle(k, c)
  BY <1>2 DEF Settle, Expired, SizesAssumption
<1>3. CASE Swallow(k, c)
  BY <1>3 DEF Swallow, SizesAssumption
<1>4. CASE RaiseDatabaseError(k, c)
  <2>1. RetryDelay(attempt + 1) \in 0..MaxPause
    BY RetryDelayBounded DEF SizesAssumption
  <2>2. CASE k \in raised
    BY <1>4, <2>2 DEF RaiseDatabaseError, SizesAssumption
  <2>3. CASE k \notin raised
    BY <1>4, <2>1, <2>3 DEF RaiseDatabaseError, BackOff, SizesAssumption
  <2> QED BY <2>2, <2>3
<1> QED BY <1>1, <1>2, <1>3, <1>4 DEF Task

\* A job that has had its time is urgent, so that no clock passes its end.
LEMMA TickKeepsTypes ==
  ASSUME SizesAssumption, IInv, ClockTypes, Tick
  PROVE  ClockTypes'
<1> USE DEF ClockTypes
<1>1. UNCHANGED <<row, errors, attempt>>
  BY DEF Tick
<1>2. age' \in [Rows -> 0..Expired]
  BY DEF Tick, Expired, SizesAssumption
<1>3. ASSUME NEW k \in Rounds, NEW c \in Rows
      PROVE  (IF task[k][c] = "running" THEN ran[k][c] + 1 ELSE 0) \in 0..JobTime
  <2>1. task[k][c] = "running" => ran[k][c] # JobTime
    BY DEF Tick, Urgent
  <2>2. ran[k][c] \in 0..JobTime
    OBVIOUS
  <2> QED BY <2>1, <2>2 DEF SizesAssumption
<1>4. ran' \in [Rounds -> [Rows -> 0..JobTime]]
  BY <1>3 DEF Tick
<1>5. pause' \in 0..(MaxPause + IdleTime)
  BY DEF Tick, SizesAssumption
<1> QED BY <1>1, <1>2, <1>4, <1>5

LEMMA StepKeepsTypes ==
  ASSUME SizesAssumption
  PROVE  IInv /\ ClockTypes /\ [Next]_vars => (IInv /\ ClockTypes)'
<1>1. IInv /\ ClockTypes /\ Next => ClockTypes'
  BY MainKeepsTypes, TaskKeepsTypes, TickKeepsTypes DEF Next
<1>2. ClockTypes /\ UNCHANGED vars => ClockTypes'
  BY DEF ClockTypes, vars
<1> QED BY <1>1, <1>2, StepPreserves

LEMMA InitClockTypes == ASSUME SizesAssumption PROVE Init => ClockTypes
BY DEF Init, ClockTypes, Expired, SizesAssumption

\* Leases, clocks and sleeps keep their types: a sleep after errors never exceeds its
\* maximum, and no job is timed beyond JobTime.
THEOREM TypeCorrect == Spec => []TypeOK
<1>1. Init => IInv /\ ClockTypes
  BY InitClockTypes, InitEstablishes, SizesAssumption
<1>2. IInv /\ ClockTypes /\ [Next]_vars => (IInv /\ ClockTypes)'
  BY StepKeepsTypes, SizesAssumption
<1>3. IInv /\ ClockTypes => TypeOK
  BY SizesAssumption DEF IInv, TaskTypes, ClockTypes, TypeOK, SizesAssumption
<1> QED BY <1>1, <1>2, <1>3, PTL DEF Spec

----------------------------------------------------------------------------
(* Leases *)

\* As many jobs as must wait for each other in a batch, one after the other, fit in a
\* lease.  The defaults are 20, 5 and 120 seconds: jobs of up to 30 seconds fit.
LeaseFits ==
  \E m \in Nat : BatchSize <= m * Concurrency /\ m * JobTime <= LeaseTime

\* m jobs, one after the other.
Work(m) == m * JobTime

\* The jobs that m turns of the semaphore admit.
Turns(m) == m * Concurrency

Members(k) == {c \in Rows : task[k][c] # "none"}

Ended(k) == {c \in Rows : task[k][c] = "ended"}

\* Jobs that run and began when their batch was no older than t.
RunningSince(k, t) == {c \in Running(k) : age[c] - ran[k][c] <= t}

\* A task that has not ended has the lease of its row, and no other task has it.
Holds ==
  \A k \in Rounds, c \in Rows : Active(k, c) =>
    row[c] = "leased" /\ \A j \in Rounds : Active(j, c) => j = k

\* The leases of a batch have one age.
SameAge ==
  \A k \in Rounds, c, d \in Rows : Active(k, c) /\ Active(k, d) => age[c] = age[d]

\* No time is counted before a job begins.
Fresh == \A k \in Rounds, c \in Rows : task[k][c] \in {"none", "waiting"} => ran[k][c] = 0

Batched == \A k \in Rounds : Cardinality(Members(k)) <= BatchSize

\* While a task waits, every slot of the semaphore is in use.  So when the batch is older
\* than m jobs, each slot has begun its first m + 1 jobs at the latest when the batch was
\* as old as m jobs: m + 1 for each slot have ended or have run since then.
Served ==
  \A k \in Rounds, c \in Rows : task[k][c] = "waiting" =>
    \A m \in Nat : age[c] > Work(m) =>
      Cardinality(Ended(k)) + Cardinality(RunningSince(k, Work(m))) >= Turns(m + 1)

\* A job that runs began when its batch was no older than m - 1 jobs.
Timely(m) ==
  \A k \in Rounds, c \in Rows : task[k][c] = "running" => age[c] - ran[k][c] <= Work(m - 1)

LeaseInv(m) ==
  /\ Holds
  /\ SameAge
  /\ Fresh
  /\ Batched
  /\ Served
  /\ Timely(m)

\* The number m of LeaseFits.
Fits(m) == m \in Nat /\ BatchSize <= Turns(m) /\ Work(m) <= LeaseTime

LEMMA Products ==
  ASSUME SizesAssumption, NEW m \in Nat
  PROVE  /\ Work(m) \in Nat /\ Turns(m) \in Nat
         /\ Work(0) = 0 /\ Turns(0) = 0
         /\ Work(m + 1) = Work(m) + JobTime /\ Turns(m + 1) = Turns(m) + Concurrency
<1> USE DEF SizesAssumption, Work, Turns
<1>1. Work(m) \in Nat /\ Turns(m) \in Nat
  OBVIOUS
<1>2. Work(0) = 0 /\ Turns(0) = 0
  OBVIOUS
<1>3. Work(m + 1) = Work(m) + JobTime /\ Turns(m + 1) = Turns(m) + Concurrency
  OBVIOUS
<1> QED BY <1>1, <1>2, <1>3

LEMMA FitsPositive ==
  ASSUME SizesAssumption, NEW m, Fits(m)
  PROVE  /\ m - 1 \in Nat
         /\ Work(m - 1) \in Nat /\ Work(m) = Work(m - 1) + JobTime
         /\ Turns(m) \in Nat /\ Turns((m - 1) + 1) = Turns(m)
<1>1. m # 0
  BY Products DEF Fits, SizesAssumption
<1>2. m - 1 \in Nat /\ (m - 1) + 1 = m
  BY <1>1 DEF Fits
<1> QED BY <1>2, Products DEF Fits

\* Ended, waiting and running tasks are different members of a batch.
LEMMA Disjoint ==
  ASSUME SizesAssumption, IInv, NEW k \in Rounds, NEW t
  PROVE  /\ IsFiniteSet(Ended(k)) /\ Cardinality(Ended(k)) \in Nat
         /\ IsFiniteSet(RunningSince(k, t)) /\ Cardinality(RunningSince(k, t)) \in Nat
         /\ IsFiniteSet(Members(k)) /\ Cardinality(Members(k)) \in Nat
         /\ \A c \in Rows : task[k][c] = "waiting" =>
              Cardinality(Ended(k)) + Cardinality(RunningSince(k, t)) < Cardinality(Members(k))
<1>1. /\ IsFiniteSet(Ended(k)) /\ IsFiniteSet(RunningSince(k, t)) /\ IsFiniteSet(Members(k))
  <2>1. Ended(k) \subseteq Rows /\ RunningSince(k, t) \subseteq Rows /\ Members(k) \subseteq Rows
    BY DEF Ended, RunningSince, Running, Members
  <2> QED BY <2>1, FS_Subset DEF SizesAssumption
<1>2. /\ Cardinality(Ended(k)) \in Nat /\ Cardinality(RunningSince(k, t)) \in Nat
      /\ Cardinality(Members(k)) \in Nat
  BY <1>1, FS_CardinalityType
<1>3. ASSUME NEW c \in Rows, task[k][c] = "waiting"
      PROVE  Cardinality(Ended(k)) + Cardinality(RunningSince(k, t)) < Cardinality(Members(k))
  <2> DEFINE U == Ended(k) \cup RunningSince(k, t)
  <2>1. Ended(k) \cap RunningSince(k, t) = {}
    BY DEF Ended, RunningSince, Running
  <2>2. IsFiniteSet(U) /\ Cardinality(U) = Cardinality(Ended(k)) + Cardinality(RunningSince(k, t))
    <3>1. /\ IsFiniteSet(U)
          /\ Cardinality(U) = Cardinality(Ended(k)) + Cardinality(RunningSince(k, t))
                               - Cardinality(Ended(k) \cap RunningSince(k, t))
      BY <1>1, FS_Union
    <3>2. Cardinality(Ended(k) \cap RunningSince(k, t)) = 0
      BY <2>1, FS_EmptySet
    <3> QED BY <3>1, <3>2, <1>2
  <2>3. U \subseteq Members(k) /\ c \in Members(k) /\ c \notin U
    BY <1>3 DEF Ended, RunningSince, Running, Members
  <2>4. Cardinality(U) < Cardinality(Members(k))
    <3> HIDE DEF U
    <3>1. Cardinality(U \cup {c}) = Cardinality(U) + 1 /\ IsFiniteSet(U \cup {c})
      BY <2>2, <2>3, FS_AddElement
    <3>2. Cardinality(U \cup {c}) <= Cardinality(Members(k))
      BY <1>1, <2>3, FS_Subset
    <3> QED BY <3>1, <3>2, <2>2, <1>1, <1>2, FS_CardinalityType
  <2> QED BY <2>2, <2>4
<1> QED BY <1>1, <1>2, <1>3

\* The work of a batch is done in m turns, so none of it waits beyond the (m - 1)-th.
LEMMA WaitsEnd ==
  ASSUME SizesAssumption, IInv, ClockTypes, NEW m, Fits(m), Batched, Served,
         NEW k \in Rounds, NEW c \in Rows, task[k][c] = "waiting"
  PROVE  age[c] <= Work(m - 1)
<1> SUFFICES ASSUME age[c] > Work(m - 1) PROVE FALSE
  BY FitsPositive DEF ClockTypes, Expired, SizesAssumption
<1>1. Cardinality(Ended(k)) + Cardinality(RunningSince(k, Work(m - 1))) >= Turns(m)
  BY FitsPositive DEF Served
<1>2. Cardinality(Ended(k)) + Cardinality(RunningSince(k, Work(m - 1))) < Cardinality(Members(k))
  BY Disjoint
<1>3. Cardinality(Members(k)) <= BatchSize
  BY DEF Batched
<1> QED BY <1>1, <1>2, <1>3, Disjoint, FitsPositive DEF Fits, SizesAssumption

LEMMA NoneExpires ==
  ASSUME SizesAssumption, IInv, ClockTypes, NEW m, Fits(m), LeaseInv(m)
  PROVE  LeasesOutliveTasks
<1> SUFFICES ASSUME NEW k \in Rounds, NEW c \in Rows, Active(k, c)
             PROVE  row[c] = "leased" /\ age[c] < Expired
  BY DEF LeasesOutliveTasks
<1>1. age[c] <= Work(m)
  <2>1. CASE task[k][c] = "waiting"
    BY <2>1, WaitsEnd, FitsPositive DEF LeaseInv, ClockTypes, Expired, SizesAssumption
  <2>2. CASE task[k][c] = "running"
    <3>1. age[c] - ran[k][c] <= Work(m - 1) /\ ran[k][c] \in 0..JobTime /\ age[c] \in Nat
      BY <2>2 DEF LeaseInv, Timely, ClockTypes, Expired, SizesAssumption
    <3> QED BY <3>1, FitsPositive DEF SizesAssumption
  <2> QED BY <2>1, <2>2 DEF Active
<1>2. age[c] < Expired
  BY <1>1, FitsPositive DEF Fits, Expired, ClockTypes, SizesAssumption
<1> QED BY <1>2 DEF LeaseInv, Holds

LEMMA InitLeaseInv ==
  ASSUME SizesAssumption, NEW m, Fits(m), Init
  PROVE  LeaseInv(m)
<1>1. Holds /\ SameAge /\ Fresh /\ Served /\ Timely(m)
  BY DEF Init, Holds, SameAge, Fresh, Served, Timely, Active
<1>2. ASSUME NEW k \in Rounds PROVE Members(k) = {}
  BY DEF Init, Members
<1>3. Batched
  BY <1>2, FS_EmptySet DEF Batched, SizesAssumption
<1> QED BY <1>1, <1>3 DEF LeaseInv

\* A new batch has new leases, and takes none from a task.
LEMMA LeaseKeepsLeases ==
  ASSUME SizesAssumption, IInv, ClockTypes, NEW m, Fits(m), LeaseInv(m),
         NEW B \in SUBSET Rows, LeaseBatch(B)
  PROVE  LeaseInv(m)'
<1> USE DEF LeaseBatch
<1>1. round + 1 \in Rounds /\ UNCHANGED ran
  BY DEF IInv, TaskTypes, Rounds, SizesAssumption
<1>2. \A k \in Rounds, c \in Rows :
        task'[k][c] = IF k = round + 1 THEN IF c \in B THEN "waiting" ELSE "none"
                      ELSE task[k][c]
  BY <1>1 DEF IInv, TaskTypes
<1>3. \A c \in Rows : task[round + 1][c] = "none"
  BY <1>1 DEF IInv, Unbegun, TaskTypes
<1>4. \A k \in Rounds, c \in B : ~ Active(k, c)
  BY NoneExpires DEF LeasesOutliveTasks, Leasable, Expired, SizesAssumption
<1>5. \A c \in Rows : /\ row'[c] = IF c \in B THEN "leased" ELSE row[c]
                      /\ age'[c] = IF c \in B THEN 0 ELSE age[c]
  OBVIOUS
<1>6. Holds'
  BY <1>2, <1>3, <1>4, <1>5 DEF LeaseInv, Holds, Active
<1>7. SameAge'
  BY <1>2, <1>3, <1>4, <1>5 DEF LeaseInv, SameAge, Active
<1>8. Fresh'
  BY <1>1, <1>2, <1>3 DEF LeaseInv, Fresh
<1>9. Batched'
  <2> SUFFICES ASSUME NEW k \in Rounds PROVE Cardinality(Members(k)') <= BatchSize
    BY DEF Batched, Rounds
  <2>1. CASE k = round + 1
    <3>1. Members(k)' = B
      BY <1>2, <2>1 DEF Members
    <3> QED BY <3>1
  <2>2. CASE k # round + 1
    <3>1. Members(k)' = Members(k)
      BY <1>2, <2>2 DEF Members
    <3> QED BY <3>1 DEF LeaseInv, Batched
  <2> QED BY <2>1, <2>2
<1>10. Served'
  <2> SUFFICES ASSUME NEW k \in Rounds, NEW c \in Rows, task'[k][c] = "waiting",
                      NEW n \in Nat, age'[c] > Work(n)
               PROVE  Cardinality(Ended(k)') + Cardinality(RunningSince(k, Work(n))')
                        >= Turns(n + 1)
    BY DEF Served, Work, Turns, Rounds
  <2>1. k # round + 1
    <3>1. Work(n) \in Nat
      BY Products
    <3> QED BY <1>2, <1>5, <3>1
  <2>2. task[k][c] = "waiting" /\ age[c] > Work(n)
    BY <1>2, <1>4, <1>5, <2>1 DEF Active
  <2>3. Ended(k)' = Ended(k)
    BY <1>2, <2>1 DEF Ended
  <2>4. RunningSince(k, Work(n))' = RunningSince(k, Work(n))
    BY <1>1, <1>2, <1>4, <1>5, <2>1 DEF RunningSince, Running, Active, Work
  <2> QED BY <2>2, <2>3, <2>4 DEF LeaseInv, Served
<1>11. Timely(m)'
  BY <1>1, <1>2, <1>4, <1>5 DEF LeaseInv, Timely, Active, Work
<1> QED BY <1>6, <1>7, <1>8, <1>9, <1>10, <1>11 DEF LeaseInv

\* The rest of the loop leaves tasks, leases and clocks alone.
LEMMA LoopKeepsLeases ==
  ASSUME NEW m, LeaseInv(m), UNCHANGED <<row, age, task, ran>>
  PROVE  LeaseInv(m)'
<1>1. \A k \in Rounds, c \in Rows : Active(k, c)' <=> Active(k, c)
  BY DEF Active
<1>2. Holds' /\ SameAge' /\ Fresh'
  BY <1>1 DEF LeaseInv, Holds, SameAge, Fresh
<1>3. \A k \in Rounds : Members(k)' = Members(k) /\ Ended(k)' = Ended(k)
  BY DEF Members, Ended
<1>4. \A k \in Rounds, n \in Nat :
        RunningSince(k, Work(n))' = RunningSince(k, Work(n))
  BY DEF RunningSince, Running, Work
<1>5. Batched' /\ Timely(m)'
  BY <1>3 DEF LeaseInv, Batched, Timely, Work, Rounds
<1>6. Served'
  <2> SUFFICES ASSUME NEW k \in Rounds, NEW c \in Rows, task[k][c] = "waiting",
                      NEW n \in Nat, age[c] > Work(n)
               PROVE  Cardinality(Ended(k)') + Cardinality(RunningSince(k, Work(n))')
                        >= Turns(n + 1)
    BY DEF Served, Work, Turns, Rounds
  <2> QED BY <1>3, <1>4 DEF LeaseInv, Served
<1> QED BY <1>2, <1>5, <1>6 DEF LeaseInv

\* A job that begins while others of its batch wait has not been running before.
LEMMA StartKeepsLeases ==
  ASSUME SizesAssumption, IInv, ClockTypes, NEW m, Fits(m), LeaseInv(m),
         NEW k \in Rounds, NEW c \in Rows, Start(k, c)
  PROVE  LeaseInv(m)'
<1> USE DEF Start
<1>1. \A j \in Rounds, d \in Rows :
        task'[j][d] = IF j = k /\ d = c THEN "running" ELSE task[j][d]
  BY DEF IInv, TaskTypes
<1>2. task[k][c] = "waiting" /\ ran[k][c] = 0 /\ UNCHANGED <<row, age, ran>>
  BY DEF LeaseInv, Fresh
<1>3. Holds' /\ SameAge' /\ Fresh'
  BY <1>1, <1>2 DEF LeaseInv, Holds, SameAge, Fresh, Active
<1>4. \A j \in Rounds : Members(j)' = Members(j)
  BY <1>1, <1>2 DEF Members
<1>5. Batched'
  BY <1>4 DEF LeaseInv, Batched, Rounds
<1>6. Served'
  <2> SUFFICES ASSUME NEW j \in Rounds, NEW d \in Rows, task'[j][d] = "waiting",
                      NEW n \in Nat, age'[d] > Work(n)
               PROVE  Cardinality(Ended(j)') + Cardinality(RunningSince(j, Work(n))')
                        >= Turns(n + 1)
    BY DEF Served, Work, Turns, Rounds
  <2>1. task[j][d] = "waiting" /\ age[d] > Work(n)
    BY <1>1, <1>2
  <2>2. Ended(j)' = Ended(j)
    BY <1>1, <1>2 DEF Ended
  <2>3. RunningSince(j, Work(n))' = RunningSince(j, Work(n))
    <3>1. CASE j = k
      <4>1. age[c] = age[d] /\ age[c] \in Nat /\ Work(n) \in Nat
        BY <1>2, <2>1, <3>1, Products
           DEF LeaseInv, SameAge, Active, ClockTypes, Expired, SizesAssumption
      <4>2. ~ (age[c] - ran[k][c] <= Work(n))
        BY <1>2, <2>1, <4>1
      <4> QED BY <1>1, <1>2, <3>1, <4>2 DEF RunningSince, Running, Work
    <3>2. CASE j # k
      BY <1>1, <1>2, <3>2 DEF RunningSince, Running, Work
    <3> QED BY <3>1, <3>2
  <2> QED BY <2>1, <2>2, <2>3 DEF LeaseInv, Served
<1>7. Timely(m)'
  <2>1. age[c] <= Work(m - 1) /\ age[c] \in Nat
    BY <1>2, WaitsEnd DEF LeaseInv, ClockTypes, Expired, SizesAssumption
  <2>2. age[c] - ran[k][c] <= Work(m - 1)
    BY <1>2, <2>1
  <2> QED BY <1>1, <1>2, <2>2 DEF LeaseInv, Timely, Work
<1> QED BY <1>3, <1>5, <1>6, <1>7 DEF LeaseInv

\* A job that ends is counted as ended instead of running.
LEMMA EndKeepsLeases ==
  ASSUME SizesAssumption, IInv, ClockTypes, NEW m, Fits(m), LeaseInv(m),
         NEW k \in Rounds, NEW c \in Rows,
         Settle(k, c) \/ Swallow(k, c) \/ RaiseDatabaseError(k, c)
  PROVE  LeaseInv(m)'
<1>1. /\ task[k][c] = "running"
      /\ task' = [task EXCEPT ![k] = [task[k] EXCEPT ![c] = "ended"]]
      /\ UNCHANGED ran
  BY DEF Settle, Swallow, RaiseDatabaseError, Siblings, IInv, TaskTypes
<1>2. \A j \in Rounds, d \in Rows :
        task'[j][d] = IF j = k /\ d = c THEN "ended" ELSE task[j][d]
  BY <1>1 DEF IInv, TaskTypes
<1>3. \A d \in Rows : d # c => row'[d] = row[d] /\ age'[d] = age[d]
  BY DEF Settle, Swallow, RaiseDatabaseError, ClockTypes
<1>4. \A j \in Rounds : ~ Active(j, c)'
  BY <1>1, <1>2 DEF LeaseInv, Holds, Active
<1>5. \A j \in Rounds, d \in Rows : Active(j, d)' => d # c /\ Active(j, d)
  BY <1>2, <1>4 DEF Active
<1>6. Holds' /\ SameAge' /\ Fresh'
  BY <1>1, <1>2, <1>3, <1>5 DEF LeaseInv, Holds, SameAge, Fresh
<1>7. \A j \in Rounds : Members(j)' = Members(j)
  BY <1>1, <1>2 DEF Members
<1>8. Batched'
  BY <1>7 DEF LeaseInv, Batched, Rounds
<1>9. Served'
  <2> SUFFICES ASSUME NEW j \in Rounds, NEW d \in Rows, task'[j][d] = "waiting",
                      NEW n \in Nat, age'[d] > Work(n)
               PROVE  Cardinality(Ended(j)') + Cardinality(RunningSince(j, Work(n))')
                        >= Turns(n + 1)
    BY DEF Served, Work, Turns, Rounds
  <2>1. task[j][d] = "waiting" /\ age[d] > Work(n)
    BY <1>2, <1>3, <1>5 DEF Active
  <2>2. Cardinality(Ended(j)) + Cardinality(RunningSince(j, Work(n))) >= Turns(n + 1)
    BY <2>1 DEF LeaseInv, Served
  <2>3. CASE j = k
    <3> DEFINE S == RunningSince(k, Work(n))
    <3>1. Ended(k)' = Ended(k) \cup {c} /\ c \notin Ended(k)
      BY <1>1, <1>2 DEF Ended
    <3>2. Cardinality(Ended(k)') = Cardinality(Ended(k)) + 1
      BY <3>1, Disjoint, FS_AddElement
    <3>3. S' = S \ {c}
      BY <1>1, <1>2, <1>3 DEF RunningSince, Running, Work
    <3>4. /\ IsFiniteSet(S) /\ Cardinality(S) \in Nat
          /\ IsFiniteSet(Ended(k)) /\ Cardinality(Ended(k)) \in Nat
      BY Disjoint
    <3>5. Cardinality(S') >= Cardinality(S) - 1 /\ Cardinality(S') \in Nat
      <4> HIDE DEF S
      <4>1. Cardinality(S \ {c}) = IF c \in S THEN Cardinality(S) - 1 ELSE Cardinality(S)
        BY <3>4, FS_RemoveElement
      <4>2. IsFiniteSet(S \ {c})
        BY <3>4, FS_Subset
      <4>3. Cardinality(S \ {c}) \in Nat
        BY <4>2, FS_CardinalityType
      <4> QED BY <3>3, <3>4, <4>1, <4>3
    <3>6. Turns(n + 1) \in Nat
      BY Products
    <3> QED BY <2>2, <2>3, <3>2, <3>4, <3>5, <3>6
  <2>4. CASE j # k
    <3>1. Ended(j)' = Ended(j)
      BY <1>2, <2>4 DEF Ended
    <3>2. RunningSince(j, Work(n))' = RunningSince(j, Work(n))
      BY <1>1, <1>2, <1>3, <1>4, <2>4 DEF RunningSince, Running, Active, Work
    <3> QED BY <2>2, <3>1, <3>2
  <2> QED BY <2>3, <2>4
<1>10. Timely(m)'
  <2>1. \A j \in Rounds, d \in Rows : task'[j][d] = "running" => d # c /\ task[j][d] = "running"
    BY <1>2, <1>5 DEF Active
  <2> QED BY <1>1, <1>3, <2>1 DEF LeaseInv, Timely, Work
<1> QED BY <1>6, <1>8, <1>9, <1>10 DEF LeaseInv

\* When time passes a multiple of JobTime, the jobs that ran since the last one have ended,
\* and every slot has another.
LEMMA TickKeepsLeases ==
  ASSUME SizesAssumption, IInv, ClockTypes, NEW m, Fits(m), LeaseInv(m), Tick
  PROVE  LeaseInv(m)'
<1>1. UNCHANGED <<row, task>>
  BY DEF Tick
<1>2. \A k \in Rounds, c \in Rows :
        ran'[k][c] = IF task[k][c] = "running" THEN ran[k][c] + 1 ELSE 0
  BY DEF Tick
<1>3. \A k \in Rounds, c \in Rows : Active(k, c) => age'[c] = age[c] + 1
  BY NoneExpires DEF Tick, LeasesOutliveTasks
<1>4. \A k \in Rounds, c \in Rows : Active(k, c)' <=> Active(k, c)
  BY <1>1 DEF Active
<1>5. Holds'
  BY <1>1, <1>4 DEF LeaseInv, Holds
<1>6. SameAge'
  BY <1>3, <1>4 DEF LeaseInv, SameAge
<1>7. Fresh'
  BY <1>1, <1>2 DEF Fresh
<1>8. \A k \in Rounds : Members(k)' = Members(k)
  BY <1>1 DEF Members
<1>9. Batched'
  BY <1>8 DEF LeaseInv, Batched, Rounds
<1>10. \A k \in Rounds, c \in Rows : task[k][c] = "running" =>
         /\ age[c] \in Nat /\ ran[k][c] \in 0..JobTime /\ ran[k][c] # JobTime
         /\ age'[c] - ran'[k][c] = age[c] - ran[k][c]
  <2> SUFFICES ASSUME NEW k \in Rounds, NEW c \in Rows, task[k][c] = "running"
               PROVE  /\ age[c] \in Nat /\ ran[k][c] \in 0..JobTime /\ ran[k][c] # JobTime
                      /\ age'[c] - ran'[k][c] = age[c] - ran[k][c]
    OBVIOUS
  <2>1. age[c] \in Nat /\ ran[k][c] \in 0..JobTime
    BY DEF ClockTypes, Expired, SizesAssumption
  <2>2. age'[c] = age[c] + 1 /\ ran'[k][c] = ran[k][c] + 1
    BY <1>2, <1>3 DEF Active
  <2>3. ran[k][c] # JobTime
    BY DEF Tick, Urgent
  <2> QED BY <2>1, <2>2, <2>3 DEF SizesAssumption
<1>11. Timely(m)'
  BY <1>1, <1>10 DEF LeaseInv, Timely, Work
<1>12. Served'
  <2> SUFFICES ASSUME NEW k \in Rounds, NEW c \in Rows, task[k][c] = "waiting",
                      NEW n \in Nat, age'[c] > Work(n)
               PROVE  Cardinality(Ended(k)') + Cardinality(RunningSince(k, Work(n))')
                        >= Turns(n + 1)
    BY <1>1 DEF Served, Work, Turns, Rounds
  <2>1. Ended(k)' = Ended(k)
    BY <1>1 DEF Ended
  <2>2. RunningSince(k, Work(n))' = RunningSince(k, Work(n))
    BY <1>1, <1>10 DEF RunningSince, Running, Work
  <2>3. age'[c] = age[c] + 1 /\ age[c] \in Nat
    BY <1>3 DEF Active, ClockTypes, Expired, SizesAssumption
  <2>4. CASE age[c] > Work(n)
    BY <2>1, <2>2, <2>4 DEF LeaseInv, Served
  <2>5. CASE ~ (age[c] > Work(n))
    <3>1. Work(n) \in Nat /\ age[c] = Work(n)
      BY <2>3, <2>5, Products
    <3>2. \A d \in Running(k) : age[d] = Work(n)
      BY <3>1 DEF LeaseInv, SameAge, Active, Running
    <3>3. RunningSince(k, Work(n)) = Running(k)
      BY <1>10, <3>1, <3>2 DEF RunningSince, Running, SizesAssumption
    <3>4. Cardinality(Running(k)) >= Concurrency
      BY RunningFinite DEF Tick, Urgent, SemaphoreFree, SizesAssumption
    <3>5. Cardinality(Ended(k)) >= Turns(n)
      <4>1. CASE n = 0
        <5>1. Turns(n) = 0
          BY <4>1, Products
        <5>2. Cardinality(Ended(k)) \in Nat
          BY Disjoint
        <5> QED BY <5>1, <5>2
      <4>2. CASE n # 0
        <5>1. n - 1 \in Nat /\ (n - 1) + 1 = n
          BY <4>2
        <5>2. /\ Work(n - 1) \in Nat /\ Work(n) = Work(n - 1) + JobTime
              /\ Turns((n - 1) + 1) = Turns(n)
          BY <5>1, Products
        <5>3. Cardinality(Ended(k)) + Cardinality(RunningSince(k, Work(n - 1))) >= Turns(n)
          BY <3>1, <5>1, <5>2 DEF LeaseInv, Served, SizesAssumption
        <5>4. RunningSince(k, Work(n - 1)) = {}
          <6> SUFFICES ASSUME NEW d \in Running(k), age[d] - ran[k][d] <= Work(n - 1)
                       PROVE  FALSE
            BY DEF RunningSince
          <6>1. age[d] = Work(n) /\ ran[k][d] \in 0..JobTime /\ ran[k][d] # JobTime
            BY <1>10, <3>2 DEF Running
          <6> QED BY <5>2, <6>1 DEF SizesAssumption
        <5>5. Cardinality(RunningSince(k, Work(n - 1))) = 0
          BY <5>4, FS_EmptySet
        <5> QED BY <5>3, <5>5, Disjoint
      <4> QED BY <4>1, <4>2
    <3> QED BY <2>1, <2>2, <3>3, <3>4, <3>5, Products, Disjoint, RunningFinite
            DEF SizesAssumption
  <2> QED BY <2>4, <2>5
<1> QED BY <1>5, <1>6, <1>7, <1>9, <1>11, <1>12 DEF LeaseInv

LEMMA StepKeepsLeases ==
  ASSUME SizesAssumption, IInv, ClockTypes, NEW m, Fits(m), LeaseInv(m), [Next]_vars
  PROVE  LeaseInv(m)'
<1>1. CASE UNCHANGED vars
  BY <1>1, LoopKeepsLeases DEF vars
<1>2. ASSUME NEW k \in Rounds, NEW c \in Rows, Task(k, c) PROVE LeaseInv(m)'
  BY <1>2, StartKeepsLeases, EndKeepsLeases DEF Task
<1>3. ASSUME NEW B \in SUBSET Rows, LeaseBatch(B) PROVE LeaseInv(m)'
  BY <1>3, LeaseKeepsLeases
<1>4. CASE LeaseNothing \/ LeaseFails \/ GatherReturns \/ Wake
  <2>1. UNCHANGED <<row, age, task, ran>>
    BY <1>4 DEF LeaseNothing, LeaseFails, GatherReturns, Wake
  <2> QED BY <2>1, LoopKeepsLeases
<1>5. CASE Tick
  BY <1>5, TickKeepsLeases
<1> QED BY <1>1, <1>2, <1>3, <1>4, <1>5 DEF Next, Main

\* No lease expires under a task, whatever errors end tasks and rounds before it: the wait
\* for the semaphore and the job together last no longer than LeaseFits allows.  This is
\* what ~Overrun assumes of the jobs and the polls in ArticleJobs and ChannelPolling.
THEOREM LeasesAlwaysOutliveTasks ==
  ASSUME LeaseFits
  PROVE  Spec => []LeasesOutliveTasks
<1>1. PICK m \in Nat : BatchSize <= m * Concurrency /\ m * JobTime <= LeaseTime
  BY DEF LeaseFits
<1>2. Fits(m)
  BY <1>1 DEF Fits, Turns, Work
<1>3. Init => IInv /\ ClockTypes /\ LeaseInv(m)
  BY <1>2, InitClockTypes, InitEstablishes, InitLeaseInv, SizesAssumption
<1>4. IInv /\ ClockTypes /\ LeaseInv(m) /\ [Next]_vars => (IInv /\ ClockTypes /\ LeaseInv(m))'
  <2>1. IInv /\ ClockTypes /\ [Next]_vars => (IInv /\ ClockTypes)'
    BY StepKeepsTypes, SizesAssumption
  <2> QED BY <2>1, <1>2, StepKeepsLeases, SizesAssumption
<1>5. IInv /\ ClockTypes /\ LeaseInv(m) => LeasesOutliveTasks
  BY <1>2, NoneExpires, SizesAssumption
<1> QED BY <1>3, <1>4, <1>5, PTL DEF Spec

\* At most one task of all rounds works on a row.
OneTaskPerRow ==
  \A j, k \in Rounds, c \in Rows : Active(j, c) /\ Active(k, c) => j = k

\* The query leases a row again once its lease has expired, so a row has one task, however
\* many rounds there are, if leases last long enough.
THEOREM AlwaysOneTaskPerRow ==
  ASSUME LeaseFits
  PROVE  Spec => []OneTaskPerRow
<1>1. PICK m : Fits(m)
  BY DEF LeaseFits, Fits, Turns, Work
<1>2. Init => IInv /\ ClockTypes /\ LeaseInv(m)
  BY <1>1, InitClockTypes, InitEstablishes, InitLeaseInv, SizesAssumption
<1>3. IInv /\ ClockTypes /\ LeaseInv(m) /\ [Next]_vars => (IInv /\ ClockTypes /\ LeaseInv(m))'
  BY <1>1, StepKeepsTypes, StepKeepsLeases, SizesAssumption
<1>4. LeaseInv(m) => OneTaskPerRow
  BY DEF LeaseInv, Holds, OneTaskPerRow
<1> QED BY <1>2, <1>3, <1>4, PTL DEF Spec
=============================================================================
