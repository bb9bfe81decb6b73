-------------------------- MODULE ArticleJobsProofs --------------------------
(***************************************************************************)
(* Theorems about ArticleJobs, for every set of candidates and contents and *)
(* every value of the bounds: type correctness, that what the tables hold   *)
(* stays right however the jobs overlap (no assumption on Overrun), and     *)
(* that jobs keep to themselves while leases outlive them (~Overrun).       *)
(*                                                                         *)
(* The argument for the tables: a complete_success transaction that has     *)
(* read them (TxInv) may find them changed when it commits, but only grown, *)
(* and then the unique constraints make it fail unless nothing it read has  *)
(* changed.  So every commit either adds a first version with its article   *)
(* and event, or appends a new version, or changes no table (CommitCases).  *)
(*                                                                         *)
(* The argument for the jobs: a job in flight is the one its row counts     *)
(* last, and while it is in flight the row cannot be claimed (Discipline,   *)
(* which holds of the variables of each candidate by themselves).           *)
(***************************************************************************)
EXTENDS ArticleJobs, SequenceTheorems, TLAPS

----------------------------------------------------------------------------
(* Type correctness *)

\* The values the actions write are values of the columns they write them to.
LEMMA Enumerations ==
  /\ "leased" \in States /\ "retry" \in States /\ "processed" \in States
  /\ "failed" \in States /\ "rejected" \in States
  /\ "leased" \in Stages /\ "fetching" \in Stages /\ "completed" \in Stages
  /\ "rejected" \in Stages /\ "retryable_failure" \in Stages
  /\ "permanent_failure" \in Stages
  /\ "none" \in Leases /\ "live" \in Leases /\ "expired" \in Leases
  /\ "due" \in Fetches /\ "later" \in Fetches /\ "set" \in Links
BY DEF States, Stages, Leases, Fetches, Links

LEMMA JobEnumerations ==
  /\ "running" \in Runs /\ "succeeded" \in Runs /\ "failed" \in Runs /\ "rejected" \in Runs
  /\ "claimed" \in Places /\ "started" \in Places /\ "committing" \in Places
  /\ "failing" \in Places /\ "failing_fatal" \in Places /\ "done" \in Places
  /\ "gone" \in Places
BY DEF Runs, Places, StageAfter

LEMMA StageFacts ==
  \A p \in DOMAIN StageAfter :
    /\ StageAfter[p] \in Stages
    /\ StageAfter[p] \in Places
    /\ StageAfter[p] # "committing"
BY DEF StageAfter, Places, Stages

RowOK(r) == r \in Rows /\ r.attempts <= AttemptCap

\* A row keeps its type under each of the ways the actions update it.
LEMMA RowStage ==
  \A r : \A g \in Stages : RowOK(r) => RowOK([r EXCEPT !.stage = g])
BY DEF RowOK, Rows

LEMMA RowLease ==
  \A r : \A l \in Leases : RowOK(r) => RowOK([r EXCEPT !.lease = l])
BY DEF RowOK, Rows

LEMMA RowFetch ==
  \A r : \A f \in Fetches : RowOK(r) => RowOK([r EXCEPT !.fetch = f])
BY DEF RowOK, Rows

LEMMA RowVerdict ==
  \A r : \A s \in States, g \in Stages, l \in Leases :
    RowOK(r) => RowOK([r EXCEPT !.state = s, !.stage = g, !.lease = l])
BY DEF RowOK, Rows

LEMMA RowFailed ==
  \A r : \A s \in States, g \in Stages, l \in Leases, f \in Fetches :
    RowOK(r) => RowOK([r EXCEPT !.state = s, !.stage = g, !.lease = l, !.fetch = f])
BY DEF RowOK, Rows

LEMMA RowLinked ==
  \A r : \A s \in States, g \in Stages, l \in Leases, i \in Links :
    RowOK(r) => RowOK([r EXCEPT !.state = s, !.stage = g, !.lease = l, !.article_id = i])
BY DEF RowOK, Rows

LEMMA RowLeased ==
  \A r : \A s \in States, g \in Stages, l \in Leases, k \in Nat :
    RowOK(r) /\ k <= AttemptCap =>
      RowOK([r EXCEPT !.state = s, !.stage = g, !.lease = l, !.attempts = k])
BY DEF RowOK, Rows

\* The conjuncts of TypeOK, grouped by what an action changes together.
RowsOK == row \in [Candidates -> Rows] /\ \A c \in Candidates : RowOK(row[c])
RunsOK == run \in [Candidates -> [Attempts -> Runs]]
StoreOK ==
  /\ event \in [Candidates -> Candidates \cup {NoEvent}]
  /\ events \subseteq Candidates
  /\ versions \in [Candidates -> Seq(Contents)]
JobsOK ==
  /\ pc \in [Candidates -> [Attempts -> Places]]
  /\ tx \in [Candidates -> [Attempts -> Txs \cup {NoTx}]]
  /\ \A c \in Candidates, n \in Attempts : pc[c][n] = "committing" => tx[c][n] \in Txs
UsedOK == sweep \subseteq Candidates /\ used \in [abandons : Nat, lostAcks : Nat, sweeps : Nat]

LEMMA TypeParts == TypeOK <=> RowsOK /\ RunsOK /\ StoreOK /\ JobsOK /\ UsedOK
BY DEF TypeOK, RowsOK, RowOK, RunsOK, StoreOK, JobsOK, UsedOK

\* Replacing one row by a row of the right type.
LEMMA RowReplaced ==
  ASSUME RowsOK, NEW c \in Candidates, NEW r, RowOK(r), row' = [row EXCEPT ![c] = r]
  PROVE  RowsOK'
BY DEF RowsOK, RowOK

\* Moving one job to a place where no transaction is open.
LEMMA JobMoved ==
  ASSUME JobsOK, NEW c \in Candidates, NEW n \in Attempts, NEW p \in Places,
         p # "committing", pc' = [pc EXCEPT ![c][n] = p], UNCHANGED tx
  PROVE  JobsOK'
BY DEF JobsOK

\* The same when the job's transaction ends.
LEMMA JobEnded ==
  ASSUME JobsOK, NEW c \in Candidates, NEW n \in Attempts, NEW p \in Places,
         p # "committing", pc' = [pc EXCEPT ![c][n] = p],
         tx' = [tx EXCEPT ![c][n] = NoTx]
  PROVE  JobsOK'
<1>1. pc' \in [Candidates -> [Attempts -> Places]]
  BY DEF JobsOK
<1>2. tx' \in [Candidates -> [Attempts -> Txs \cup {NoTx}]]
  BY DEF JobsOK
<1>3. ASSUME NEW d \in Candidates, NEW m \in Attempts, pc'[d][m] = "committing"
      PROVE  tx'[d][m] \in Txs
  <2>1. d # c \/ m # n
    BY <1>3 DEF JobsOK
  <2>2. pc'[d][m] = pc[d][m] /\ tx'[d][m] = tx[d][m]
    BY <2>1 DEF JobsOK
  <2> QED
    BY <1>3, <2>2 DEF JobsOK
<1> QED
  BY <1>1, <1>2, <1>3 DEF JobsOK

LEMMA TypeInit == Init => TypeOK
<1> SUFFICES ASSUME Init PROVE TypeOK
  OBVIOUS
<1>1. RowsOK
  BY BoundAssumption DEF Init, RowsOK, RowOK, Rows, States, Stages, Leases, Fetches, Links
<1>2. RunsOK
  BY DEF Init, RunsOK, Runs
<1>3. StoreOK
  BY DEF Init, StoreOK
<1>4. JobsOK
  BY DEF Init, JobsOK, Places
<1>5. UsedOK
  BY DEF Init, UsedOK
<1> QED
  BY <1>1, <1>2, <1>3, <1>4, <1>5, TypeParts

LEMMA TypeStep == TypeOK /\ [Next]_vars => TypeOK'
<1> SUFFICES ASSUME RowsOK, RunsOK, StoreOK, JobsOK, UsedOK, [Next]_vars
             PROVE  RowsOK' /\ RunsOK' /\ StoreOK' /\ JobsOK' /\ UsedOK'
  <2>1. TypeOK' <=> RowsOK' /\ RunsOK' /\ StoreOK' /\ JobsOK' /\ UsedOK'
    BY DEF TypeOK, RowsOK, RowOK, RunsOK, StoreOK, JobsOK, UsedOK
  <2> QED
    BY <2>1, TypeParts
<1> USE Enumerations, JobEnumerations
<1>a. \A c \in Candidates : RowOK(row[c]) /\ row[c].attempts \in Nat
  BY DEF RowsOK, RowOK, Rows
<1>b. UNCHANGED store => StoreOK'
  BY DEF store, StoreOK
<1>c. UNCHANGED run => RunsOK'
  BY DEF RunsOK
<1>d. UNCHANGED row => RowsOK'
  BY DEF RowsOK
<1>e. UNCHANGED <<sweep, used>> => UsedOK'
  BY DEF UsedOK
<1>1. ASSUME NEW c \in Candidates, Lease(c)
      PROVE  RowsOK' /\ RunsOK' /\ StoreOK' /\ JobsOK' /\ UsedOK'
  <2>1. /\ row[c].attempts + 1 \in Attempts
        /\ row[c].attempts + 1 \in Nat
        /\ row[c].attempts + 1 <= AttemptCap
    BY <1>1, <1>a, BoundAssumption DEF Lease, Attempts
  <2>2. RowOK(LeasedRow(row[c]))
    BY <1>a, <2>1, RowLeased DEF LeasedRow
  <2>3. RowsOK'
    BY <1>1, <2>2, RowReplaced DEF Lease
  <2>4. JobsOK'
    BY <1>1, <2>1, JobMoved DEF Lease
  <2> QED
    BY <1>1, <2>3, <2>4, <1>b, <1>c, <1>e DEF Lease
<1>2. ASSUME NEW c \in Candidates, LeaseExpires(c) \/ BecomesDue(c)
      PROVE  RowsOK' /\ RunsOK' /\ StoreOK' /\ JobsOK' /\ UsedOK'
  <2>1. \/ row' = [row EXCEPT ![c] = [row[c] EXCEPT !.lease = "expired"]]
        \/ row' = [row EXCEPT ![c] = [row[c] EXCEPT !.fetch = "due"]]
    BY <1>2 DEF LeaseExpires, BecomesDue
  <2>2. /\ RowOK([row[c] EXCEPT !.lease = "expired"])
        /\ RowOK([row[c] EXCEPT !.fetch = "due"])
    BY <1>a, RowLease, RowFetch
  <2>3. RowsOK'
    BY <2>1, <2>2, RowReplaced
  <2>4. UNCHANGED <<run, store, pc, tx, sweep, used>>
    BY <1>2 DEF LeaseExpires, BecomesDue
  <2>5. JobsOK'
    BY <2>4 DEF JobsOK
  <2> QED
    BY <2>3, <2>4, <2>5, <1>b, <1>c, <1>e
<1>3. ASSUME NEW c \in Candidates, NEW n \in Attempts, RejectBeforeFetch(c, n)
      PROVE  RowsOK' /\ RunsOK' /\ StoreOK' /\ JobsOK' /\ UsedOK'
  <2>1. RowOK([row[c] EXCEPT !.state = "rejected", !.stage = "rejected", !.lease = "none"])
    BY <1>a, RowVerdict
  <2>2. RowsOK'
    BY <1>3, <2>1, RowReplaced DEF RejectBeforeFetch
  <2>3. RunsOK'
    BY <1>3 DEF RejectBeforeFetch, RunsOK
  <2>4. JobsOK'
    BY <1>3, JobMoved DEF RejectBeforeFetch
  <2> QED
    BY <1>3, <2>2, <2>3, <2>4, <1>b, <1>e DEF RejectBeforeFetch
<1>4. ASSUME NEW c \in Candidates, NEW n \in Attempts, StartFetch(c, n)
      PROVE  RowsOK' /\ RunsOK' /\ StoreOK' /\ JobsOK' /\ UsedOK'
  <2>1. RowOK([row[c] EXCEPT !.stage = "fetching"])
    BY <1>a, RowStage
  <2>2. RowsOK'
    BY <1>4, <2>1, RowReplaced DEF StartFetch
  <2>3. RunsOK'
    BY <1>4 DEF StartFetch, RunsOK
  <2>4. JobsOK'
    BY <1>4, JobMoved DEF StartFetch
  <2> QED
    BY <1>4, <2>2, <2>3, <2>4, <1>b, <1>e DEF StartFetch
<1>5. ASSUME NEW c \in Candidates, NEW n \in Attempts, Advance(c, n)
      PROVE  RowsOK' /\ RunsOK' /\ StoreOK' /\ JobsOK' /\ UsedOK'
  <2> DEFINE g == StageAfter[pc[c][n]]
  <2>1. g \in Stages /\ g \in Places /\ g # "committing"
    BY <1>5, StageFacts DEF Advance
  <2>2. RowOK([row[c] EXCEPT !.stage = g])
    BY <1>a, <2>1, RowStage
  <2>3. row' = [row EXCEPT ![c] = [row[c] EXCEPT !.stage = g]]
    BY <1>5 DEF Advance
  <2>4. RowsOK'
    BY <2>2, <2>3, RowReplaced
  <2>5. pc' = [pc EXCEPT ![c][n] = g] /\ UNCHANGED tx
    BY <1>5 DEF Advance
  <2>6. JobsOK'
    BY <2>1, <2>5, JobMoved
  <2> QED
    BY <1>5, <2>4, <2>6, <1>b, <1>c, <1>e DEF Advance
<1>6. ASSUME NEW c \in Candidates, NEW n \in Attempts, Raise(c, n)
      PROVE  RowsOK' /\ RunsOK' /\ StoreOK' /\ JobsOK' /\ UsedOK'
  <2>1. PICK p \in {"failing", "failing_fatal"} : pc' = [pc EXCEPT ![c][n] = p]
    BY <1>6 DEF Raise
  <2>2. JobsOK'
    BY <1>6, <2>1, JobMoved DEF Raise
  <2> QED
    BY <1>6, <2>2, <1>b, <1>c, <1>d, <1>e DEF Raise
<1>7. ASSUME NEW c \in Candidates, NEW n \in Attempts, ReadForCommit(c, n)
      PROVE  RowsOK' /\ RunsOK' /\ StoreOK' /\ JobsOK' /\ UsedOK'
  <2>1. PICK x \in Contents, e \in EventChoices(c) :
          tx' = [tx EXCEPT ![c][n] =
                   [state |-> row[c].state, stage |-> row[c].stage, lease |-> row[c].lease,
                    event |-> event[c], known |-> versions[c], decided |-> e,
                    content |-> x]]
    BY <1>7 DEF ReadForCommit
  <2>2. EventChoices(c) \subseteq Candidates
    BY DEF EventChoices, StoreOK
  <2>3. row[c].state \in States /\ row[c].stage \in Stages /\ row[c].lease \in Leases
    BY <1>a DEF RowOK, Rows
  <2>4. [state |-> row[c].state, stage |-> row[c].stage, lease |-> row[c].lease,
         event |-> event[c], known |-> versions[c], decided |-> e, content |-> x] \in Txs
    BY <2>2, <2>3 DEF Txs, StoreOK
  <2>5. pc' = [pc EXCEPT ![c][n] = "committing"]
    BY <1>7 DEF ReadForCommit
  <2>6. JobsOK'
    BY <2>1, <2>4, <2>5 DEF JobsOK
  <2> QED
    BY <1>7, <2>6, <1>b, <1>c, <1>d, <1>e DEF ReadForCommit
<1>8. ASSUME NEW c \in Candidates, NEW n \in Attempts, NEW a \in BOOLEAN, Commit(c, n, a)
      PROVE  RowsOK' /\ RunsOK' /\ StoreOK' /\ JobsOK'
  <2> DEFINE t == tx[c][n]
  <2>1. t \in Txs
    BY <1>8 DEF Commit, JobsOK
  <2>2. row[c].state \in States /\ row[c].stage \in Stages /\ row[c].lease \in Leases
    BY <1>a DEF RowOK, Rows
  <2>3. /\ Written(t.state, row[c].state, "processed") \in States
        /\ Written(t.stage, row[c].stage, "completed") \in Stages
        /\ Written(t.lease, row[c].lease, "none") \in Leases
    BY <2>2 DEF Written
  <2>4. RowOK(RowAfterSuccess(row[c], t))
    BY <1>a, <2>3, RowLinked DEF RowAfterSuccess
  <2>5. RowsOK'
    BY <1>8, <2>4, RowReplaced DEF Commit
  <2>6. RunsOK'
    BY <1>8 DEF Commit, RunsOK
  <2>7. t.decided \in Candidates /\ t.content \in Contents
    BY <2>1 DEF Txs
  <2>8. StoreOK'
    BY <1>8, <2>7 DEF Commit, StoreOK
  <2>9. JobsOK'
    BY <1>8, JobEnded DEF Commit
  <2> QED
    BY <2>5, <2>6, <2>8, <2>9
<1>9. ASSUME NEW c \in Candidates, NEW n \in Attempts, CommitSuccess(c, n)
      PROVE  RowsOK' /\ RunsOK' /\ StoreOK' /\ JobsOK' /\ UsedOK'
  <2>1. Commit(c, n, TRUE) /\ UNCHANGED <<sweep, used>>
    BY <1>9 DEF CommitSuccess, Commit
  <2> QED
    BY <2>1, <1>8, <1>e
<1>10. ASSUME NEW c \in Candidates, NEW n \in Attempts, CommitUnacknowledged(c, n)
       PROVE  RowsOK' /\ RunsOK' /\ StoreOK' /\ JobsOK' /\ UsedOK'
  <2>1. Commit(c, n, FALSE) /\ UNCHANGED sweep
    BY <1>10 DEF CommitUnacknowledged, Commit
  <2>2. UsedOK'
    BY <1>10, <2>1 DEF CommitUnacknowledged, UsedOK
  <2> QED
    BY <2>1, <2>2, <1>8
<1>11. ASSUME NEW c \in Candidates, NEW n \in Attempts, CommitFails(c, n)
       PROVE  RowsOK' /\ RunsOK' /\ StoreOK' /\ JobsOK' /\ UsedOK'
  <2>1. JobsOK'
    BY <1>11, JobEnded DEF CommitFails
  <2> QED
    BY <1>11, <2>1, <1>b, <1>c, <1>d, <1>e DEF CommitFails
<1>12. ASSUME NEW c \in Candidates, NEW n \in Attempts, RecordFailure(c, n)
       PROVE  RowsOK' /\ RunsOK' /\ StoreOK' /\ JobsOK' /\ UsedOK'
  <2> DEFINE s == IF GivesUp(c, n) THEN "failed" ELSE "retry"
             g == IF GivesUp(c, n) THEN "permanent_failure" ELSE "retryable_failure"
             f == IF GivesUp(c, n) THEN "due" ELSE "later"
  <2>1. s \in States /\ g \in Stages /\ f \in Fetches
    OBVIOUS
  <2>2. row' = [row EXCEPT ![c] =
                  [row[c] EXCEPT !.state = s, !.stage = g, !.lease = "none", !.fetch = f]]
    BY <1>12 DEF RecordFailure
  <2> HIDE DEF s, g, f
  <2>3. RowOK([row[c] EXCEPT !.state = s, !.stage = g, !.lease = "none", !.fetch = f])
    BY <1>a, <2>1, RowFailed
  <2>4. RowsOK'
    BY <2>2, <2>3, RowReplaced
  <2>5. RunsOK'
    BY <1>12 DEF RecordFailure, RunsOK
  <2>6. JobsOK'
    BY <1>12, JobMoved DEF RecordFailure
  <2> QED
    BY <1>12, <2>4, <2>5, <2>6, <1>b, <1>e DEF RecordFailure
<1>13. ASSUME NEW c \in Candidates, NEW n \in Attempts, Abandon(c, n)
       PROVE  RowsOK' /\ RunsOK' /\ StoreOK' /\ JobsOK' /\ UsedOK'
  <2>1. JobsOK'
    BY <1>13, JobEnded DEF Abandon
  <2>2. UsedOK'
    BY <1>13 DEF Abandon, UsedOK
  <2> QED
    BY <1>13, <2>1, <2>2, <1>b, <1>c, <1>d DEF Abandon
<1>14. ASSUME SweepScan
       PROVE  RowsOK' /\ RunsOK' /\ StoreOK' /\ JobsOK' /\ UsedOK'
  <2>1. UsedOK'
    BY <1>14 DEF SweepScan, UsedOK
  <2>2. JobsOK'
    BY <1>14 DEF SweepScan, JobsOK
  <2> QED
    BY <1>14, <2>1, <2>2, <1>b, <1>c, <1>d DEF SweepScan
<1>15. ASSUME SweepCommit
       PROVE  RowsOK' /\ RunsOK' /\ StoreOK' /\ JobsOK' /\ UsedOK'
  <2>1. PICK v \in {[state |-> "failed",   stage |-> "permanent_failure"],
                    [state |-> "rejected", stage |-> "rejected"]} :
          row' = [c \in Candidates |->
                    IF c \in sweep
                    THEN [row[c] EXCEPT !.state = v.state, !.stage = v.stage,
                                        !.lease = "none"]
                    ELSE row[c]]
    BY <1>15 DEF SweepCommit
  <2>2. ASSUME NEW c \in Candidates
        PROVE  RowOK([row[c] EXCEPT !.state = v.state, !.stage = v.stage, !.lease = "none"])
    <3>1. v.state \in States /\ v.stage \in Stages
      OBVIOUS
    <3> QED
      BY <3>1, <1>a, RowVerdict
  <2>3. RowsOK'
    BY <2>1, <2>2, <1>a DEF RowsOK, RowOK
  <2>4. JobsOK' /\ UsedOK'
    BY <1>15 DEF SweepCommit, JobsOK, UsedOK
  <2> QED
    BY <1>15, <2>3, <2>4, <1>b, <1>c DEF SweepCommit
<1>16. ASSUME UNCHANGED vars
       PROVE  RowsOK' /\ RunsOK' /\ StoreOK' /\ JobsOK' /\ UsedOK'
  <2>1. JobsOK'
    BY <1>16 DEF vars, JobsOK
  <2> QED
    BY <1>16, <2>1, <1>b, <1>c, <1>d, <1>e DEF vars, store
<1> QED
  BY <1>1, <1>2, <1>3, <1>4, <1>5, <1>6, <1>7, <1>9, <1>10, <1>11, <1>12, <1>13, <1>14,
     <1>15, <1>16 DEF Next, RowStep, JobStep

\* The variables always hold values of the types the tables and the code give them.
THEOREM TypeCorrect == Spec => []TypeOK
  BY TypeInit, TypeStep, PTL DEF Spec

----------------------------------------------------------------------------
(* The tables *)

\* Sequence t is s with more elements at its end.
Continues(t, s) == Len(s) <= Len(t) /\ \A k \in DOMAIN s : t[k] = s[k]

\* What a transaction knows of the tables is still true, if perhaps incomplete.
TxCurrent(c, t) ==
  /\ Continues(versions[c], t.known)
  /\ t.event = NoEvent => t.known = <<>> /\ t.decided \in events \cup {c}
  /\ t.event # NoEvent => t.event = event[c] /\ t.decided = event[c]

TxInv ==
  \A c \in Candidates, n \in Attempts : pc[c][n] = "committing" => TxCurrent(c, tx[c][n])

\* An article has an event and a version, and its event has an article.
StoreInv ==
  /\ \A c \in Candidates : event[c] = NoEvent <=> versions[c] = <<>>
  /\ \A c \in Candidates : event[c] # NoEvent => event[c] \in events
  /\ NoOrphanEvents
  /\ VersionsDistinct

\* The status of a run, by the place its job has reached.
Fits(place, status) ==
  /\ place \in {"none", "claimed"} => status = "none"
  /\ place \in DOMAIN StageAfter \cup {"persisting", "committing"} => status = "running"
  /\ place \in {"failing", "failing_fatal"} => status \in {"running", "succeeded"}
  /\ place = "done" => status \in {"succeeded", "failed", "rejected"}

JobInv ==
  \A c \in Candidates, n \in Attempts :
    /\ row[c].attempts < n => pc[c][n] = "none"
    /\ Fits(pc[c][n], run[c][n])
    /\ run[c][n] = "succeeded" => versions[c] # <<>>

\* What a commit may do to the tables.
Ingested(c, e, x) ==
  /\ event[c] = NoEvent
  /\ e \in events \cup {c}
  /\ event' = [event EXCEPT ![c] = e]
  /\ events' = events \cup {e}
  /\ versions' = [versions EXCEPT ![c] = <<x>>]

Revised(c, x) ==
  /\ event[c] # NoEvent
  /\ \A k \in DOMAIN versions[c] : versions[c][k] # x
  /\ versions' = [versions EXCEPT ![c] = Append(versions[c], x)]
  /\ UNCHANGED <<event, events>>

\* A sequence that continues another and is no longer is the same sequence.
LEMMA ContinuesSameLength ==
  ASSUME NEW S, NEW s \in Seq(S), NEW t \in Seq(S), Continues(t, s), Len(t) = Len(s)
  PROVE  t = s
BY LenProperties, SeqEqual DEF Continues

LEMMA AppendToEmpty ==
  ASSUME NEW S, NEW x \in S
  PROVE  Append(<<>>, x) = <<x>>
OBVIOUS

\* The outcomes of a commit, with the messages it adds.
LEMMA CommitCases ==
  ASSUME StoreOK, JobsOK, StoreInv, NEW c \in Candidates, NEW n \in Attempts,
         NEW a \in BOOLEAN, TxCurrent(c, tx[c][n]), Commit(c, n, a)
  PROVE  \/ \E e \in Candidates, x \in Contents :
              /\ Ingested(c, e, x)
              /\ outbox' = outbox \cup ArticleMessages(c, e) \cup VersionMessages(c, 1)
         \/ \E x \in Contents :
              /\ Revised(c, x)
              /\ outbox' = outbox \cup VersionMessages(c, Len(versions[c]) + 1)
         \/ UNCHANGED <<event, events, versions, outbox>> /\ event[c] # NoEvent
<1> DEFINE t == tx[c][n]
<1>1. t \in Txs /\ ~Conflict(c, t)
  BY DEF Commit, JobsOK
<1>2. t.known \in Seq(Contents) /\ t.content \in Contents /\ t.decided \in Candidates
  BY <1>1 DEF Txs
<1>3. versions[c] \in Seq(Contents)
  BY DEF StoreOK
<1>4. /\ event' = [event EXCEPT ![c] = t.decided]
      /\ events' = events \cup {t.decided}
      /\ versions' = [versions EXCEPT ![c] = IF CreatesVersion(t)
                                             THEN Append(versions[c], t.content)
                                             ELSE versions[c]]
      /\ outbox' = outbox \cup Announcements(c, t)
  BY DEF Commit
<1>5. CreatesVersion(t) => versions[c] = t.known
  <2> SUFFICES ASSUME CreatesVersion(t) PROVE versions[c] = t.known
    OBVIOUS
  <2>1. Len(versions[c]) = Len(t.known)
    BY <1>1 DEF Conflict
  <2> QED
    BY <2>1, <1>2, <1>3, ContinuesSameLength DEF TxCurrent
<1>6. CASE t.event = NoEvent
  <2>1. event[c] = NoEvent /\ t.known = <<>> /\ t.decided \in events \cup {c}
    BY <1>1, <1>6 DEF Conflict, CreatesArticle, TxCurrent
  <2>2. CreatesVersion(t)
    BY <2>1 DEF CreatesVersion
  <2>3. versions[c] = <<>> /\ Append(versions[c], t.content) = <<t.content>>
    BY <1>2, <1>5, <2>1, <2>2, AppendToEmpty
  <2>4. Ingested(c, t.decided, t.content)
    BY <1>4, <2>1, <2>2, <2>3 DEF Ingested
  <2>5. Announcements(c, t) = ArticleMessages(c, t.decided) \cup VersionMessages(c, 1)
    <3>1. Len(t.known) + 1 = 1
      BY <2>1
    <3> QED
      BY <1>6, <2>2, <3>1 DEF Announcements, CreatesArticle
  <2>6. outbox' = outbox \cup ArticleMessages(c, t.decided) \cup VersionMessages(c, 1)
    BY <1>4, <2>5
  <2> QED
    BY <1>2, <2>4, <2>6
<1>7. CASE t.event # NoEvent
  <2>1. t.event = event[c] /\ t.decided = event[c] /\ event[c] \in events
    BY <1>7 DEF TxCurrent, StoreInv
  <2>2. UNCHANGED <<event, events>>
    BY <1>4, <2>1 DEF StoreOK
  <2>3. CASE CreatesVersion(t)
    <3>1. \A k \in DOMAIN versions[c] : versions[c][k] # t.content
      BY <1>5, <2>3 DEF CreatesVersion
    <3>2. Revised(c, t.content)
      BY <1>4, <1>7, <2>1, <2>2, <2>3, <3>1 DEF Revised
    <3>3. Announcements(c, t) = VersionMessages(c, Len(versions[c]) + 1)
      BY <1>5, <1>7, <2>3 DEF Announcements, CreatesArticle
    <3> QED
      BY <1>2, <1>4, <3>2, <3>3
  <2>4. CASE ~CreatesVersion(t)
    <3>1. UNCHANGED versions
      BY <1>4, <2>4 DEF StoreOK
    <3>2. Announcements(c, t) = {}
      BY <1>7, <2>4 DEF Announcements, CreatesArticle
    <3> QED
      BY <1>4, <1>7, <2>1, <2>2, <3>1, <3>2
  <2> QED
    BY <2>3, <2>4
<1> QED
  BY <1>6, <1>7

----------------------------------------------------------------------------
(* The tables only grow, and stay consistent *)

TablesGrow ==
  /\ events \subseteq events'
  /\ \A c \in Candidates : event[c] # NoEvent => event'[c] = event[c]
  /\ \A c \in Candidates : Continues(versions'[c], versions[c])

LEMMA ContinuesItself == \A s : Len(s) \in Nat => Continues(s, s)
BY DEF Continues

LEMMA ContinuesAppended ==
  ASSUME NEW S, NEW s \in Seq(S), NEW x \in S
  PROVE  Continues(Append(s, x), s)
BY AppendProperties, LenProperties DEF Continues

LEMMA ContinuesTransitive ==
  ASSUME NEW S, NEW s \in Seq(S), NEW t \in Seq(S), NEW u \in Seq(S),
         Continues(t, s), Continues(u, t)
  PROVE  Continues(u, s)
<1>1. Len(s) \in Nat /\ Len(t) \in Nat /\ Len(u) \in Nat
      /\ DOMAIN s = 1..Len(s) /\ DOMAIN t = 1..Len(t)
  BY LenProperties
<1>2. Len(s) <= Len(t) /\ Len(t) <= Len(u) /\ DOMAIN s \subseteq DOMAIN t
  BY <1>1 DEF Continues
<1> QED
  BY <1>1, <1>2 DEF Continues

LEMMA SameTables ==
  ASSUME StoreOK, StoreInv, UNCHANGED store
  PROVE  TablesGrow /\ StoreInv'
<1>1. UNCHANGED <<event, events, versions>>
  BY DEF store
<1>2. \A c \in Candidates : Len(versions[c]) \in Nat
  BY LenProperties DEF StoreOK
<1>3. TablesGrow
  BY <1>1, <1>2, ContinuesItself DEF TablesGrow
<1>4. StoreInv'
  BY <1>1 DEF StoreInv, NoOrphanEvents, VersionsDistinct
<1> QED
  BY <1>3, <1>4

LEMMA IngestKeeps ==
  ASSUME StoreOK, StoreInv, NEW c \in Candidates, NEW e \in Candidates, NEW x \in Contents,
         Ingested(c, e, x)
  PROVE  TablesGrow /\ StoreInv'
<1>1. versions[c] = <<>> /\ event[c] = NoEvent /\ e \in events \cup {c}
  BY DEF Ingested, StoreInv
<1>2. /\ \A d \in Candidates : event'[d] = IF d = c THEN e ELSE event[d]
      /\ \A d \in Candidates : versions'[d] = IF d = c THEN <<x>> ELSE versions[d]
      /\ events' = events \cup {e}
  BY DEF Ingested, StoreOK
<1>3. \A d \in Candidates : Len(versions[d]) \in Nat
  BY LenProperties DEF StoreOK
<1>4. Continues(<<x>>, <<>>)
  BY DEF Continues
<1>5. TablesGrow
  BY <1>1, <1>2, <1>3, <1>4, ContinuesItself DEF TablesGrow
<1>6. e # NoEvent /\ <<x>> # <<>>
  BY EventAssumption
<1>7. /\ \A d \in Candidates : (event'[d] = NoEvent <=> versions'[d] = <<>>)
      /\ \A d \in Candidates : event'[d] # NoEvent => event'[d] \in events'
  BY <1>2, <1>6 DEF StoreInv
<1>8. NoOrphanEvents'
  <2>1. events = {d \in Candidates : event[d] = d}
    BY DEF StoreInv, NoOrphanEvents
  <2>2. ASSUME NEW d \in Candidates PROVE d \in events' <=> event'[d] = d
    BY <1>1, <1>2, <2>1, EventAssumption
  <2>3. events' \subseteq Candidates
    BY <1>2, <2>1
  <2>4. events' = {d \in Candidates : event'[d] = d}
    BY <2>2, <2>3
  <2> QED
    BY <2>4 DEF NoOrphanEvents
<1>9. VersionsDistinct'
  <2> SUFFICES ASSUME NEW d \in Candidates, NEW i \in DOMAIN versions'[d],
                      NEW j \in DOMAIN versions'[d], versions'[d][i] = versions'[d][j]
               PROVE  i = j
    BY DEF VersionsDistinct
  <2>1. CASE d = c
    BY <1>2, <2>1
  <2>2. CASE d # c
    BY <1>2, <2>2 DEF StoreInv, VersionsDistinct
  <2> QED
    BY <2>1, <2>2
<1> QED
  BY <1>5, <1>7, <1>8, <1>9 DEF StoreInv

LEMMA ReviseKeeps ==
  ASSUME StoreOK, StoreInv, NEW c \in Candidates, NEW x \in Contents, Revised(c, x)
  PROVE  TablesGrow /\ StoreInv'
<1> DEFINE s == versions[c]
           t == Append(s, x)
<1>1. \A d \in Candidates : versions'[d] = IF d = c THEN t ELSE versions[d]
  BY DEF Revised, StoreOK
<1>2. /\ s \in Seq(Contents)
      /\ Len(s) \in Nat
      /\ DOMAIN s = 1..Len(s)
      /\ DOMAIN t = 1..(Len(s) + 1)
      /\ \A k \in 1..Len(s) : t[k] = s[k]
      /\ t[Len(s) + 1] = x
      /\ t # <<>>
  <2>1. s \in Seq(Contents)
    BY DEF StoreOK
  <2>2. t \in Seq(Contents) /\ Len(t) = Len(s) + 1
        /\ (\A k \in 1..Len(s) : t[k] = s[k]) /\ t[Len(s) + 1] = x
    BY <2>1, AppendProperties
  <2>3. Len(s) \in Nat /\ DOMAIN s = 1..Len(s) /\ DOMAIN t = 1..(Len(s) + 1)
    BY <2>1, <2>2, LenProperties
  <2>4. t # <<>>
    <3>1. Len(t) # 0
      BY <2>2, <2>3
    <3> HIDE DEF t, s
    <3> QED
      BY <3>1
  <2> QED
    BY <2>1, <2>2, <2>3, <2>4
<1>3. Continues(t, s)
  BY <1>2, ContinuesAppended
<1>4. \A d \in Candidates : Len(versions[d]) \in Nat
  BY LenProperties DEF StoreOK
<1>5. UNCHANGED <<event, events>> /\ event[c] # NoEvent
  BY DEF Revised
<1> HIDE DEF t, s
<1>6. TablesGrow
  BY <1>1, <1>3, <1>4, <1>5, ContinuesItself DEF TablesGrow, s
<1>7. /\ \A d \in Candidates : (event'[d] = NoEvent <=> versions'[d] = <<>>)
      /\ \A d \in Candidates : event'[d] # NoEvent => event'[d] \in events'
      /\ NoOrphanEvents'
  BY <1>1, <1>2, <1>5 DEF StoreInv, NoOrphanEvents
<1>8. VersionsDistinct'
  <2> SUFFICES ASSUME NEW d \in Candidates, NEW i \in DOMAIN versions'[d],
                      NEW j \in DOMAIN versions'[d], versions'[d][i] = versions'[d][j]
               PROVE  i = j
    BY DEF VersionsDistinct
  <2>1. CASE d # c
    BY <1>1, <2>1 DEF StoreInv, VersionsDistinct
  <2>2. CASE d = c
    <3>1. i \in 1..(Len(s) + 1) /\ j \in 1..(Len(s) + 1) /\ t[i] = t[j]
      BY <1>1, <1>2, <2>2
    <3>2. \A k \in 1..Len(s) : t[k] # x
      BY <1>2 DEF Revised, s
    <3>3. \A k, l \in 1..Len(s) : t[k] = t[l] => k = l
      BY <1>2 DEF StoreInv, VersionsDistinct, s
    <3> QED
      BY <1>2, <3>1, <3>2, <3>3
  <2> QED
    BY <2>1, <2>2
<1> QED
  BY <1>6, <1>7, <1>8 DEF StoreInv

\* Only a commit changes the tables.
LEMMA StoreSteps ==
  ASSUME [Next]_vars
  PROVE  \/ UNCHANGED store
         \/ \E c \in Candidates, n \in Attempts, a \in BOOLEAN : Commit(c, n, a)
<1>1. ASSUME NEW c \in Candidates, RowStep(c) PROVE UNCHANGED store
  BY <1>1 DEF RowStep, Lease, LeaseExpires, BecomesDue
<1>2. ASSUME NEW c \in Candidates, NEW n \in Attempts, JobStep(c, n) \/ Abandon(c, n)
      PROVE  UNCHANGED store \/ \E a \in BOOLEAN : Commit(c, n, a)
  <2>1. CASE CommitSuccess(c, n) \/ CommitUnacknowledged(c, n)
    BY <2>1 DEF CommitSuccess, CommitUnacknowledged
  <2>2. CASE RejectBeforeFetch(c, n) \/ StartFetch(c, n) \/ Advance(c, n) \/ Raise(c, n)
    BY <2>2 DEF RejectBeforeFetch, StartFetch, Advance, Raise
  <2>3. CASE ReadForCommit(c, n) \/ CommitFails(c, n) \/ RecordFailure(c, n) \/ Abandon(c, n)
    BY <2>3 DEF ReadForCommit, CommitFails, RecordFailure, Abandon
  <2> QED
    BY <1>2, <2>1, <2>2, <2>3 DEF JobStep
<1>3. ASSUME SweepScan \/ SweepCommit PROVE UNCHANGED store
  BY <1>3 DEF SweepScan, SweepCommit
<1>4. ASSUME UNCHANGED vars PROVE UNCHANGED store
  BY <1>4 DEF vars, store
<1> QED
  BY <1>1, <1>2, <1>3, <1>4 DEF Next

LEMMA StoreInvStep ==
  ASSUME StoreOK, JobsOK, StoreInv, TxInv, [Next]_vars
  PROVE  TablesGrow /\ StoreInv'
<1>1. CASE UNCHANGED store
  BY <1>1, SameTables
<1>2. ASSUME NEW c \in Candidates, NEW n \in Attempts, NEW a \in BOOLEAN, Commit(c, n, a)
      PROVE  TablesGrow /\ StoreInv'
  <2>1. TxCurrent(c, tx[c][n])
    BY <1>2 DEF Commit, TxInv
  <2> QED
    BY <1>2, <2>1, CommitCases, IngestKeeps, ReviseKeeps, SameTables DEF store
<1> QED
  BY <1>1, <1>2, StoreSteps

----------------------------------------------------------------------------
(* Open transactions *)

\* A job is about to commit because it was before, with the same reads, or because
\* it reads now.
LEMMA CommittingBefore ==
  ASSUME JobsOK, [Next]_vars, NEW d \in Candidates, NEW m \in Attempts,
         pc'[d][m] = "committing"
  PROVE  \/ pc[d][m] = "committing" /\ tx'[d][m] = tx[d][m]
         \/ ReadForCommit(d, m)
<1> USE DEF JobsOK
<1> DEFINE Goal == \/ pc[d][m] = "committing" /\ tx'[d][m] = tx[d][m]
                   \/ ReadForCommit(d, m)
<1>1. ASSUME NEW c \in Candidates, RowStep(c) PROVE Goal
  <2>1. CASE Lease(c)
    BY <2>1 DEF Lease
  <2>2. CASE LeaseExpires(c) \/ BecomesDue(c)
    BY <2>2 DEF LeaseExpires, BecomesDue
  <2> QED
    BY <1>1, <2>1, <2>2 DEF RowStep
<1>2. ASSUME NEW c \in Candidates, NEW n \in Attempts, JobStep(c, n) \/ Abandon(c, n)
      PROVE  Goal
  <2>1. ASSUME NEW p, p # "committing", pc' = [pc EXCEPT ![c][n] = p],
               UNCHANGED tx \/ tx' = [tx EXCEPT ![c][n] = NoTx]
        PROVE  Goal
    <3>1. c # d \/ n # m
      BY <2>1
    <3> QED
      BY <2>1, <3>1
  <2>2. CASE RejectBeforeFetch(c, n) \/ StartFetch(c, n) \/ RecordFailure(c, n)
    BY <2>1, <2>2 DEF RejectBeforeFetch, StartFetch, RecordFailure
  <2>3. CASE Advance(c, n)
    BY <2>1, <2>3, StageFacts DEF Advance
  <2>4. CASE Raise(c, n)
    <3>1. PICK p \in {"failing", "failing_fatal"} : pc' = [pc EXCEPT ![c][n] = p]
      BY <2>4 DEF Raise
    <3> QED
      BY <2>1, <2>4, <3>1 DEF Raise
  <2>5. CASE CommitFails(c, n) \/ Abandon(c, n)
    BY <2>1, <2>5 DEF CommitFails, Abandon
  <2>6. ASSUME NEW a \in BOOLEAN, Commit(c, n, a) PROVE Goal
    <3>1. /\ pc' = [pc EXCEPT ![c][n] = IF a THEN "done" ELSE "failing"]
          /\ tx' = [tx EXCEPT ![c][n] = NoTx]
      BY <2>6 DEF Commit
    <3> QED
      BY <2>1, <3>1
  <2>7. CASE ReadForCommit(c, n)
    <3>1. CASE c = d /\ n = m
      BY <2>7, <3>1
    <3>2. CASE c # d \/ n # m
      BY <2>7, <3>2 DEF ReadForCommit
    <3> QED
      BY <3>1, <3>2
  <2> QED
    BY <1>2, <2>2, <2>3, <2>4, <2>5, <2>6, <2>7
       DEF JobStep, CommitSuccess, CommitUnacknowledged
<1>3. ASSUME SweepScan \/ SweepCommit PROVE Goal
  BY <1>3 DEF SweepScan, SweepCommit
<1>4. ASSUME UNCHANGED vars PROVE Goal
  BY <1>4 DEF vars
<1> QED
  BY <1>1, <1>2, <1>3, <1>4 DEF Next

\* What a transaction has read is true when it has read it.
LEMMA ReadIsCurrent ==
  ASSUME StoreOK, JobsOK, StoreInv, NEW c \in Candidates, NEW n \in Attempts,
         ReadForCommit(c, n)
  PROVE  TxCurrent(c, tx'[c][n]) /\ UNCHANGED store
<1>1. PICK x \in Contents, e \in EventChoices(c) :
        tx' = [tx EXCEPT ![c][n] =
                 [state |-> row[c].state, stage |-> row[c].stage, lease |-> row[c].lease,
                  event |-> event[c], known |-> versions[c], decided |-> e,
                  content |-> x]]
  BY DEF ReadForCommit
<1>2. tx'[c][n].event = event[c] /\ tx'[c][n].known = versions[c] /\ tx'[c][n].decided = e
  BY <1>1 DEF JobsOK
<1>3. Continues(versions[c], versions[c])
  BY ContinuesItself, LenProperties DEF StoreOK
<1>4. TxCurrent(c, tx'[c][n])
  BY <1>2, <1>3 DEF TxCurrent, EventChoices, StoreInv
<1> QED
  BY <1>4 DEF ReadForCommit

\* What was true of the tables stays true when they grow.
LEMMA CurrentStays ==
  ASSUME StoreOK, StoreOK', NEW c \in Candidates, NEW t \in Txs, TxCurrent(c, t), TablesGrow
  PROVE  /\ Continues(versions'[c], t.known)
         /\ t.event = NoEvent => t.known = <<>> /\ t.decided \in events' \cup {c}
         /\ t.event # NoEvent => t.event = event'[c] /\ t.decided = event'[c]
<1>1. t.known \in Seq(Contents) /\ versions[c] \in Seq(Contents) /\ versions'[c] \in Seq(Contents)
  BY DEF Txs, StoreOK
<1>2. Continues(versions'[c], t.known)
  BY <1>1, ContinuesTransitive DEF TxCurrent, TablesGrow
<1> QED
  BY <1>2 DEF TxCurrent, TablesGrow

LEMMA TxInvStep ==
  ASSUME StoreOK, StoreOK', JobsOK, StoreInv, TxInv, TablesGrow, [Next]_vars
  PROVE  TxInv'
<1> SUFFICES ASSUME NEW c \in Candidates, NEW n \in Attempts, pc'[c][n] = "committing"
             PROVE  TxCurrent(c, tx[c][n])'
  BY DEF TxInv
<1>1. CASE pc[c][n] = "committing" /\ tx'[c][n] = tx[c][n]
  <2>1. tx[c][n] \in Txs /\ TxCurrent(c, tx[c][n])
    BY <1>1 DEF JobsOK, TxInv
  <2> QED
    BY <1>1, <2>1, CurrentStays DEF TxCurrent
<1>2. CASE ReadForCommit(c, n)
  BY <1>2, ReadIsCurrent DEF TxCurrent, store
<1> QED
  BY <1>1, <1>2, CommittingBefore

----------------------------------------------------------------------------
(* Jobs and their runs *)

\* A step of a job counts no attempt, and marks a row processed only if it commits.
LEMMA JobRows ==
  ASSUME RowsOK, NEW c \in Candidates, NEW n \in Attempts, JobStep(c, n) \/ Abandon(c, n),
         NEW d \in Candidates
  PROVE  /\ row'[d].attempts = row[d].attempts
         /\ row'[d].state = "processed" =>
              \/ row[d].state = "processed" /\ row'[d].article_id = row[d].article_id
              \/ \E a \in BOOLEAN : Commit(d, n, a) /\ row'[d].article_id = "set"
<1> USE DEF RowsOK, RowOK, Rows
<1> DEFINE Kept == /\ row'[d].attempts = row[d].attempts
                   /\ row'[d].state = "processed" =>
                        row[d].state = "processed" /\ row'[d].article_id = row[d].article_id
<1>1. CASE RejectBeforeFetch(c, n)
  BY <1>1 DEF RejectBeforeFetch
<1>2. CASE StartFetch(c, n) \/ Advance(c, n)
  BY <1>2 DEF StartFetch, Advance
<1>3. CASE Raise(c, n) \/ ReadForCommit(c, n) \/ CommitFails(c, n) \/ Abandon(c, n)
  BY <1>3 DEF Raise, ReadForCommit, CommitFails, Abandon
<1>4. CASE RecordFailure(c, n)
  BY <1>4 DEF RecordFailure
<1>5. ASSUME NEW a \in BOOLEAN, Commit(c, n, a)
      PROVE  \/ Kept
             \/ /\ c = d /\ row'[d].attempts = row[d].attempts
                /\ Commit(d, n, a) /\ row'[d].article_id = "set"
  <2>1. CASE c = d
    BY <1>5, <2>1 DEF Commit, RowAfterSuccess
  <2>2. CASE c # d
    BY <1>5, <2>2 DEF Commit
  <2> QED
    BY <2>1, <2>2
<1> HIDE DEF RowsOK, RowOK, Rows
<1> QED
  BY <1>1, <1>2, <1>3, <1>4, <1>5 DEF JobStep, CommitSuccess, CommitUnacknowledged

\* The cleanup neither.
LEMMA SweepRows ==
  ASSUME RowsOK, SweepScan \/ SweepCommit, NEW d \in Candidates
  PROVE  /\ row'[d].attempts = row[d].attempts
         /\ row'[d].state = "processed" =>
              row[d].state = "processed" /\ row'[d].article_id = row[d].article_id
<1>1. CASE SweepScan
  BY <1>1 DEF SweepScan
<1>2. CASE SweepCommit
  <2>1. PICK v \in {[state |-> "failed",   stage |-> "permanent_failure"],
                    [state |-> "rejected", stage |-> "rejected"]} :
          row' = [c \in Candidates |->
                    IF c \in sweep
                    THEN [row[c] EXCEPT !.state = v.state, !.stage = v.stage,
                                        !.lease = "none"]
                    ELSE row[c]]
    BY <1>2 DEF SweepCommit
  <2>2. v.state # "processed"
    OBVIOUS
  <2> QED
    BY <2>1, <2>2 DEF RowsOK, Rows
<1> QED
  BY <1>1, <1>2

\* Only a lease counts an attempt, and only a commit marks a row processed.
LEMMA RowSteps ==
  ASSUME RowsOK, [Next]_vars, NEW d \in Candidates
  PROVE  /\ row'[d].attempts = row[d].attempts \/ Lease(d)
         /\ row'[d].state = "processed" =>
              \/ row[d].state = "processed" /\ row'[d].article_id = row[d].article_id
              \/ \E n \in Attempts, a \in BOOLEAN :
                   Commit(d, n, a) /\ row'[d].article_id = "set"
<1> USE DEF RowsOK, RowOK, Rows
<1> DEFINE Kept == /\ row'[d].attempts = row[d].attempts
                   /\ row'[d].state = "processed" =>
                        row[d].state = "processed" /\ row'[d].article_id = row[d].article_id
<1>1. ASSUME NEW c \in Candidates, RowStep(c) PROVE Kept \/ (Lease(d) /\ row'[d].state = "leased")
  <2>1. CASE Lease(c) /\ c = d
    BY <2>1 DEF Lease, LeasedRow
  <2>2. CASE Lease(c) /\ c # d
    BY <2>2 DEF Lease
  <2>3. CASE LeaseExpires(c) \/ BecomesDue(c)
    BY <2>3 DEF LeaseExpires, BecomesDue
  <2> QED
    BY <1>1, <2>1, <2>2, <2>3 DEF RowStep
<1>2. ASSUME NEW c \in Candidates, NEW n \in Attempts, JobStep(c, n) \/ Abandon(c, n)
      PROVE  \/ Kept
             \/ /\ row'[d].attempts = row[d].attempts
                /\ \E a \in BOOLEAN : Commit(d, n, a) /\ row'[d].article_id = "set"
  BY <1>2, JobRows
<1>3. ASSUME SweepScan \/ SweepCommit PROVE Kept
  BY <1>3, SweepRows
<1>4. ASSUME UNCHANGED vars PROVE Kept
  BY <1>4 DEF vars
<1> HIDE DEF RowsOK, RowOK, Rows
<1> QED
  BY <1>1, <1>2, <1>3, <1>4 DEF Next

\* Moving one job and its run, after it was leased.
LEMMA JobInvMoved ==
  ASSUME JobsOK, RunsOK, JobInv, NEW c \in Candidates, NEW n \in Attempts, NEW p, NEW s,
         pc[c][n] # "none",
         pc' = [pc EXCEPT ![c][n] = p],
         run' = [run EXCEPT ![c][n] = s],
         Fits(p, s),
         s = "succeeded" => versions'[c] # <<>>,
         \A d \in Candidates : row'[d].attempts = row[d].attempts,
         \A d \in Candidates : versions[d] # <<>> => versions'[d] # <<>>
  PROVE  JobInv'
<1> SUFFICES ASSUME NEW d \in Candidates, NEW m \in Attempts
             PROVE  /\ row'[d].attempts < m => pc'[d][m] = "none"
                    /\ Fits(pc'[d][m], run'[d][m])
                    /\ run'[d][m] = "succeeded" => versions'[d] # <<>>
  BY DEF JobInv, Fits
<1>1. CASE c = d /\ n = m
  <2>1. pc'[d][m] = p /\ run'[d][m] = s
    BY <1>1 DEF JobsOK, RunsOK
  <2> QED
    BY <1>1, <2>1 DEF JobInv
<1>2. CASE c # d \/ n # m
  <2>1. pc'[d][m] = pc[d][m] /\ run'[d][m] = run[d][m]
    BY <1>2 DEF JobsOK, RunsOK
  <2> QED
    BY <2>1 DEF JobInv
<1> QED
  BY <1>1, <1>2

LEMMA JobInvStep ==
  ASSUME RowsOK, RunsOK, StoreOK, StoreOK', JobsOK, StoreInv, StoreInv', TablesGrow, JobInv,
         [Next]_vars
  PROVE  JobInv'
<1>a. \A d \in Candidates : versions[d] # <<>> => versions'[d] # <<>>
  BY DEF StoreInv, TablesGrow
<1>b. ASSUME UNCHANGED <<run, pc>>, \A d \in Candidates : row'[d].attempts = row[d].attempts
      PROVE  JobInv'
  BY <1>a, <1>b DEF JobInv, Fits
<1>1. ASSUME NEW c \in Candidates, RowStep(c) PROVE JobInv'
  <2>1. CASE Lease(c)
    <3> DEFINE k == row[c].attempts + 1
    <3>1. k \in Attempts /\ row[c].attempts \in Nat
      BY <2>1, BoundAssumption DEF Lease, RowsOK, RowOK, Rows, Attempts
    <3>2. /\ pc' = [pc EXCEPT ![c][k] = "claimed"]
          /\ row' = [row EXCEPT ![c] = LeasedRow(row[c])]
          /\ UNCHANGED run
      BY <2>1 DEF Lease
    <3>3. \A d \in Candidates :
            row'[d].attempts = IF d = c THEN k ELSE row[d].attempts
      BY <3>2 DEF LeasedRow, RowsOK, Rows
    <3>4. run[c][k] = "none"
      BY <3>1 DEF JobInv, Fits
    <3> SUFFICES ASSUME NEW d \in Candidates, NEW m \in Attempts
                 PROVE  /\ row'[d].attempts < m => pc'[d][m] = "none"
                        /\ Fits(pc'[d][m], run'[d][m])
                        /\ run'[d][m] = "succeeded" => versions'[d] # <<>>
      BY DEF JobInv, Fits
    <3>5. CASE d = c /\ m = k
      <4>1. pc'[d][m] = "claimed" /\ run'[d][m] = "none" /\ row'[d].attempts = m
        BY <3>1, <3>2, <3>3, <3>4, <3>5 DEF JobsOK
      <4>2. Fits("claimed", "none")
        BY DEF Fits, StageAfter
      <4>3. m \in Nat
        BY <3>1, <3>5
      <4> QED
        BY <4>1, <4>2, <4>3
    <3>6. CASE d # c \/ m # k
      <4>1. pc'[d][m] = pc[d][m] /\ run'[d][m] = run[d][m]
        BY <3>1, <3>2, <3>6 DEF JobsOK
      <4>2. row'[d].attempts < m => row[d].attempts < m
        BY <3>1, <3>3 DEF Attempts
      <4> QED
        BY <1>a, <4>1, <4>2 DEF JobInv
    <3> QED
      BY <3>5, <3>6
  <2>2. CASE LeaseExpires(c) \/ BecomesDue(c)
    <3>1. \A d \in Candidates : row'[d].attempts = row[d].attempts
      BY <2>2 DEF LeaseExpires, BecomesDue, RowsOK, Rows
    <3> QED
      BY <1>b, <2>2, <3>1 DEF LeaseExpires, BecomesDue
  <2> QED
    BY <1>1, <2>1, <2>2 DEF RowStep
<1>2. ASSUME NEW c \in Candidates, NEW n \in Attempts, JobStep(c, n) \/ Abandon(c, n)
      PROVE  JobInv'
  <2>a. \A d \in Candidates : row'[d].attempts = row[d].attempts
    BY <1>2, JobRows
  <2>b. Fits(pc[c][n], run[c][n]) /\ (run[c][n] = "succeeded" => versions[c] # <<>>)
    BY DEF JobInv
  <2>c. \A p, s : /\ pc[c][n] # "none"
                  /\ pc' = [pc EXCEPT ![c][n] = p]
                  /\ run' = [run EXCEPT ![c][n] = s]
                  /\ Fits(p, s)
                  /\ s = "succeeded" => versions'[c] # <<>>
                  => JobInv'
    BY <1>a, <2>a, JobInvMoved
  <2>d. ASSUME UNCHANGED run PROVE run' = [run EXCEPT ![c][n] = run[c][n]]
    BY <2>d DEF RunsOK
  <2>1. CASE RejectBeforeFetch(c, n)
    <3>1. Fits("done", "rejected")
      BY DEF Fits, StageAfter
    <3> QED
      BY <2>1, <2>c, <3>1 DEF RejectBeforeFetch
  <2>2. CASE StartFetch(c, n)
    <3>1. Fits("started", "running")
      BY DEF Fits, StageAfter
    <3> QED
      BY <2>2, <2>c, <3>1 DEF StartFetch
  <2>3. CASE Advance(c, n)
    <3> DEFINE g == StageAfter[pc[c][n]]
    <3>1. run[c][n] = "running" /\ pc[c][n] # "none"
      BY <2>3, <2>b DEF Advance, Fits, StageAfter
    <3>2. Fits(g, "running")
      BY <2>3 DEF Advance, Fits, StageAfter
    <3>3. pc' = [pc EXCEPT ![c][n] = g] /\ UNCHANGED run
      BY <2>3 DEF Advance
    <3> HIDE DEF g
    <3> QED
      BY <2>c, <2>d, <3>1, <3>2, <3>3
  <2>4. CASE Raise(c, n)
    <3>1. PICK p \in {"failing", "failing_fatal"} : pc' = [pc EXCEPT ![c][n] = p]
      BY <2>4 DEF Raise
    <3>2. run[c][n] = "running" /\ pc[c][n] # "none" /\ UNCHANGED run
      BY <2>4, <2>b DEF Raise, Fits, StageAfter
    <3>3. Fits(p, "running")
      BY DEF Fits, StageAfter
    <3> QED
      BY <2>c, <2>d, <3>1, <3>2, <3>3
  <2>5. CASE ReadForCommit(c, n)
    <3>1. run[c][n] = "running" /\ pc[c][n] # "none" /\ UNCHANGED run
      BY <2>5, <2>b DEF ReadForCommit, Fits
    <3>2. Fits("committing", "running")
      BY DEF Fits, StageAfter
    <3> QED
      BY <2>5, <2>c, <2>d, <3>1, <3>2 DEF ReadForCommit
  <2>6. ASSUME NEW a \in BOOLEAN, Commit(c, n, a) PROVE JobInv'
    <3> DEFINE p == IF a THEN "done" ELSE "failing"
    <3>1. pc[c][n] # "none" /\ pc' = [pc EXCEPT ![c][n] = p]
          /\ run' = [run EXCEPT ![c][n] = "succeeded"]
      BY <2>6 DEF Commit
    <3>2. Fits(p, "succeeded")
      BY DEF Fits, StageAfter
    <3>3. versions'[c] # <<>>
      <4>1. tx[c][n].decided \in Candidates
        BY <2>6 DEF Commit, JobsOK, Txs
      <4>2. event'[c] = tx[c][n].decided
        BY <2>6 DEF Commit, StoreOK
      <4> QED
        BY <4>1, <4>2, EventAssumption DEF StoreInv
    <3> HIDE DEF p
    <3> QED
      BY <2>c, <3>1, <3>2, <3>3
  <2>7. CASE CommitFails(c, n)
    <3>1. run[c][n] = "running" /\ pc[c][n] # "none" /\ UNCHANGED run
      BY <2>7, <2>b DEF CommitFails, Fits
    <3>2. Fits("failing", "running")
      BY DEF Fits, StageAfter
    <3> QED
      BY <2>7, <2>c, <2>d, <3>1, <3>2 DEF CommitFails
  <2>8. CASE RecordFailure(c, n)
    <3>1. Fits("done", "failed")
      BY DEF Fits, StageAfter
    <3> QED
      BY <2>8, <2>c, <3>1 DEF RecordFailure
  <2>9. CASE Abandon(c, n)
    <3>1. Fits("gone", run[c][n])
      BY DEF Fits, StageAfter
    <3> QED
      BY <1>a, <2>9, <2>b, <2>c, <2>d, <3>1 DEF Abandon, InFlight
  <2> QED
    BY <1>2, <2>1, <2>2, <2>3, <2>4, <2>5, <2>6, <2>7, <2>8, <2>9
       DEF JobStep, CommitSuccess, CommitUnacknowledged
<1>3. ASSUME SweepScan \/ SweepCommit PROVE JobInv'
  <2>1. \A d \in Candidates : row'[d].attempts = row[d].attempts
    BY <1>3, SweepRows
  <2> QED
    BY <1>3, <1>b, <2>1 DEF SweepScan, SweepCommit
<1>4. ASSUME UNCHANGED vars PROVE JobInv'
  BY <1>4, <1>b DEF vars
<1> QED
  BY <1>1, <1>2, <1>3, <1>4 DEF Next

\* After a commit the article has an event.
LEMMA CommittedHasEvent ==
  ASSUME StoreOK, JobsOK, NEW c \in Candidates, NEW n \in Attempts, NEW a \in BOOLEAN,
         Commit(c, n, a)
  PROVE  event'[c] # NoEvent
<1>1. tx[c][n].decided \in Candidates
  BY DEF Commit, JobsOK, Txs
<1>2. event'[c] = tx[c][n].decided
  BY DEF Commit, StoreOK
<1> QED
  BY <1>1, <1>2, EventAssumption

LEMMA ProcessedStep ==
  ASSUME RowsOK, StoreOK, JobsOK, StoreInv', TablesGrow, ProcessedIsDurable, [Next]_vars
  PROVE  ProcessedIsDurable'
<1> SUFFICES ASSUME NEW c \in Candidates, row'[c].state = "processed"
             PROVE  row'[c].article_id = "set" /\ event'[c] # NoEvent
  BY DEF ProcessedIsDurable, StoreInv
<1>1. CASE row[c].state = "processed" /\ row'[c].article_id = row[c].article_id
  <2>1. row[c].article_id = "set" /\ event[c] \in events
    BY <1>1 DEF ProcessedIsDurable
  <2>2. event[c] # NoEvent
    BY <2>1, EventAssumption DEF StoreOK
  <2> QED
    BY <1>1, <2>1, <2>2 DEF TablesGrow
<1>2. ASSUME NEW n \in Attempts, NEW a \in BOOLEAN, Commit(c, n, a),
             row'[c].article_id = "set"
      PROVE  row'[c].article_id = "set" /\ event'[c] # NoEvent
  BY <1>2, CommittedHasEvent
<1> QED
  BY <1>1, <1>2, RowSteps

----------------------------------------------------------------------------
(* The outbox *)

LEMMA OwedForRunsMember ==
  ASSUME NEW type, NEW status, NEW m
  PROVE  /\ m \in OwedForRuns(type, status) <=>
              \E c \in Candidates, n \in Attempts : run[c][n] = status /\ m = Msg(type, c, n)
         /\ m \in OwedForRuns(type, status)' <=>
              \E c \in Candidates, n \in Attempts : run'[c][n] = status /\ m = Msg(type, c, n)
BY DEF OwedForRuns

OwedForFailures == OwedForRuns("article.fetch.failed", "failed")
OwedForRejections == OwedForRuns("article.fetch.rejected", "rejected")

\* A run that fails or is rejected calls for one message more, any other for none.
LEMMA FailuresSame ==
  ASSUME \A c \in Candidates, n \in Attempts : run'[c][n] = "failed" <=> run[c][n] = "failed"
  PROVE  OwedForFailures' = OwedForFailures
<1>1. ASSUME NEW m PROVE m \in OwedForFailures' <=> m \in OwedForFailures
  BY OwedForRunsMember DEF OwedForFailures
<1> QED
  BY <1>1

LEMMA FailuresMore ==
  ASSUME NEW c \in Candidates, NEW n \in Attempts,
         \A d \in Candidates, k \in Attempts :
           run'[d][k] = "failed" <=> run[d][k] = "failed" \/ (d = c /\ k = n)
  PROVE  OwedForFailures' = OwedForFailures \cup {Msg("article.fetch.failed", c, n)}
<1> HIDE DEF Msg
<1>1. ASSUME NEW m
      PROVE  m \in OwedForFailures' <=>
               m \in OwedForFailures \/ m = Msg("article.fetch.failed", c, n)
  <2>1. m \in OwedForFailures <=>
          \E d \in Candidates, k \in Attempts :
            run[d][k] = "failed" /\ m = Msg("article.fetch.failed", d, k)
    BY OwedForRunsMember DEF OwedForFailures
  <2>2. m \in OwedForFailures' <=>
          \E d \in Candidates, k \in Attempts :
            run'[d][k] = "failed" /\ m = Msg("article.fetch.failed", d, k)
    BY OwedForRunsMember DEF OwedForFailures
  <2> QED
    BY <2>1, <2>2
<1> QED
  BY <1>1

LEMMA RejectionsSame ==
  ASSUME \A c \in Candidates, n \in Attempts : run'[c][n] = "rejected" <=> run[c][n] = "rejected"
  PROVE  OwedForRejections' = OwedForRejections
<1>1. ASSUME NEW m PROVE m \in OwedForRejections' <=> m \in OwedForRejections
  BY OwedForRunsMember DEF OwedForRejections
<1> QED
  BY <1>1

LEMMA RejectionsMore ==
  ASSUME NEW c \in Candidates, NEW n \in Attempts,
         \A d \in Candidates, k \in Attempts :
           run'[d][k] = "rejected" <=> run[d][k] = "rejected" \/ (d = c /\ k = n)
  PROVE  OwedForRejections' = OwedForRejections \cup {Msg("article.fetch.rejected", c, n)}
<1> HIDE DEF Msg
<1>1. ASSUME NEW m
      PROVE  m \in OwedForRejections' <=>
               m \in OwedForRejections \/ m = Msg("article.fetch.rejected", c, n)
  <2>1. m \in OwedForRejections <=>
          \E d \in Candidates, k \in Attempts :
            run[d][k] = "rejected" /\ m = Msg("article.fetch.rejected", d, k)
    BY OwedForRunsMember DEF OwedForRejections
  <2>2. m \in OwedForRejections' <=>
          \E d \in Candidates, k \in Attempts :
            run'[d][k] = "rejected" /\ m = Msg("article.fetch.rejected", d, k)
    BY OwedForRunsMember DEF OwedForRejections
  <2> QED
    BY <2>1, <2>2
<1> QED
  BY <1>1

LEMMA OwedForArticlesMember ==
  ASSUME NEW m
  PROVE  /\ m \in OwedForArticles <=>
              \E c \in Candidates : event[c] # NoEvent /\ m \in ArticleMessages(c, event[c])
         /\ m \in OwedForArticles' <=>
              \E c \in Candidates : event'[c] # NoEvent /\ m \in ArticleMessages(c, event'[c])
BY DEF OwedForArticles

LEMMA OwedForVersionsMember ==
  ASSUME NEW m
  PROVE  /\ m \in OwedForVersions <=>
              \E c \in Candidates : \E k \in DOMAIN versions[c] : m \in VersionMessages(c, k)
         /\ m \in OwedForVersions' <=>
              \E c \in Candidates : \E k \in DOMAIN versions'[c] : m \in VersionMessages(c, k)
BY DEF OwedForVersions

\* A commit calls for the messages that it adds.
LEMMA OwedForIngest ==
  ASSUME StoreOK, StoreInv, NEW c \in Candidates, NEW e \in Candidates, NEW x \in Contents,
         Ingested(c, e, x)
  PROVE  /\ OwedForArticles' = OwedForArticles \cup ArticleMessages(c, e)
         /\ OwedForVersions' = OwedForVersions \cup VersionMessages(c, 1)
<1>1. versions[c] = <<>> /\ event[c] = NoEvent /\ e # NoEvent
  BY EventAssumption DEF Ingested, StoreInv
<1>2. /\ \A d \in Candidates : event'[d] = IF d = c THEN e ELSE event[d]
      /\ \A d \in Candidates : versions'[d] = IF d = c THEN <<x>> ELSE versions[d]
  BY DEF Ingested, StoreOK
<1>3. OwedForArticles' = OwedForArticles \cup ArticleMessages(c, e)
  <2> SUFFICES ASSUME NEW m
               PROVE  m \in OwedForArticles' <=>
                        m \in OwedForArticles \/ m \in ArticleMessages(c, e)
    OBVIOUS
  <2> QED
    BY <1>1, <1>2, OwedForArticlesMember
<1>4. \A d \in Candidates : \A k : k \in DOMAIN versions'[d] <=>
                                     k \in DOMAIN versions[d] \/ (d = c /\ k = 1)
  <2>1. DOMAIN <<x>> = {1} /\ \A k : k \notin DOMAIN versions[c]
    BY <1>1
  <2> QED
    BY <1>2, <2>1
<1>5. OwedForVersions' = OwedForVersions \cup VersionMessages(c, 1)
  <2> SUFFICES ASSUME NEW m
               PROVE  m \in OwedForVersions' <=>
                        m \in OwedForVersions \/ m \in VersionMessages(c, 1)
    OBVIOUS
  <2> QED
    BY <1>4, OwedForVersionsMember
<1> QED
  BY <1>3, <1>5

LEMMA OwedForRevision ==
  ASSUME StoreOK, NEW c \in Candidates, NEW x \in Contents, Revised(c, x)
  PROVE  /\ OwedForArticles' = OwedForArticles
         /\ OwedForVersions' = OwedForVersions \cup VersionMessages(c, Len(versions[c]) + 1)
<1> DEFINE s == versions[c]
           t == Append(s, x)
<1>1. \A d \in Candidates : versions'[d] = IF d = c THEN t ELSE versions[d]
  BY DEF Revised, StoreOK
<1>2. Len(s) \in Nat /\ DOMAIN s = 1..Len(s) /\ DOMAIN t = 1..(Len(s) + 1)
  <2>1. s \in Seq(Contents)
    BY DEF StoreOK
  <2>2. t \in Seq(Contents) /\ Len(t) = Len(s) + 1
    BY <2>1, AppendProperties
  <2> QED
    BY <2>1, <2>2, LenProperties
<1> HIDE DEF t
<1>3. \A d \in Candidates : \A k : k \in DOMAIN versions'[d] <=>
                                     k \in DOMAIN versions[d] \/ (d = c /\ k = Len(s) + 1)
  BY <1>1, <1>2
<1>4. OwedForVersions' = OwedForVersions \cup VersionMessages(c, Len(s) + 1)
  <2> SUFFICES ASSUME NEW m
               PROVE  m \in OwedForVersions' <=>
                        m \in OwedForVersions \/ m \in VersionMessages(c, Len(s) + 1)
    OBVIOUS
  <2> QED
    BY <1>3, OwedForVersionsMember
<1>5. OwedForArticles' = OwedForArticles
  BY DEF Revised, OwedForArticles
<1> QED
  BY <1>4, <1>5

\* Every step adds to the outbox what the tables call for after it and did not before.
LEMMA OutboxStep ==
  ASSUME RunsOK, StoreOK, JobsOK, StoreInv, TxInv, JobInv, OutboxMatchesTables, [Next]_vars
  PROVE  OutboxMatchesTables'
<1>a. /\ outbox = OwedForArticles \cup OwedForVersions \cup OwedForFailures \cup OwedForRejections
      /\ outbox' = OwedForArticles' \cup OwedForVersions' \cup OwedForFailures'
                     \cup OwedForRejections' => OutboxMatchesTables'
  BY DEF OutboxMatchesTables, Owed, OwedForFailures, OwedForRejections
<1>b. UNCHANGED store => UNCHANGED <<OwedForArticles, OwedForVersions>>
  BY DEF store, OwedForArticles, OwedForVersions
<1>c. UNCHANGED run => UNCHANGED <<OwedForFailures, OwedForRejections>>
  BY DEF OwedForFailures, OwedForRejections, OwedForRuns
<1>d. ASSUME UNCHANGED <<store, run, outbox>> PROVE OutboxMatchesTables'
  BY <1>a, <1>b, <1>c, <1>d
<1>f. \A c \in Candidates, n \in Attempts : Fits(pc[c][n], run[c][n])
  BY DEF JobInv
<1>1. ASSUME NEW c \in Candidates, RowStep(c) PROVE UNCHANGED <<store, run, outbox>>
  BY <1>1 DEF RowStep, Lease, LeaseExpires, BecomesDue
<1>2. ASSUME NEW c \in Candidates, NEW n \in Attempts, JobStep(c, n) \/ Abandon(c, n)
      PROVE  OutboxMatchesTables'
  <2>1. CASE RejectBeforeFetch(c, n)
    <3>1. run[c][n] # "failed" /\ run[c][n] # "rejected"
      BY <2>1, <1>f DEF RejectBeforeFetch, Fits
    <3>2. /\ run' = [run EXCEPT ![c][n] = "rejected"]
          /\ outbox' = outbox \cup {Msg("article.fetch.rejected", c, n)}
          /\ UNCHANGED store
      BY <2>1 DEF RejectBeforeFetch
    <3>3. /\ OwedForFailures' = OwedForFailures
          /\ OwedForRejections' = OwedForRejections \cup {Msg("article.fetch.rejected", c, n)}
      <4>1. \A d \in Candidates, k \in Attempts : run'[d][k] = "failed" <=> run[d][k] = "failed"
        BY <3>1, <3>2 DEF RunsOK
      <4>2. \A d \in Candidates, k \in Attempts :
              run'[d][k] = "rejected" <=> run[d][k] = "rejected" \/ (d = c /\ k = n)
        BY <3>1, <3>2 DEF RunsOK
      <4> QED
        BY <4>1, <4>2, FailuresSame, RejectionsMore
    <3> QED
      BY <1>a, <1>b, <3>2, <3>3
  <2>2. CASE StartFetch(c, n)
    <3>1. run[c][n] # "failed" /\ run[c][n] # "rejected"
      BY <2>2, <1>f DEF StartFetch, Fits
    <3>2. /\ run' = [run EXCEPT ![c][n] = "running"]
          /\ UNCHANGED <<store, outbox>>
      BY <2>2 DEF StartFetch
    <3>3. OwedForFailures' = OwedForFailures /\ OwedForRejections' = OwedForRejections
      <4>1. \A d \in Candidates, k \in Attempts : run'[d][k] = "failed" <=> run[d][k] = "failed"
        BY <3>1, <3>2 DEF RunsOK
      <4>2. \A d \in Candidates, k \in Attempts : run'[d][k] = "rejected" <=> run[d][k] = "rejected"
        BY <3>1, <3>2 DEF RunsOK
      <4> QED
        BY <4>1, <4>2, FailuresSame, RejectionsSame
    <3> QED
      BY <1>a, <1>b, <3>2, <3>3
  <2>3. CASE RecordFailure(c, n)
    <3>1. run[c][n] # "failed" /\ run[c][n] # "rejected"
      BY <2>3, <1>f DEF RecordFailure, Fits
    <3>2. /\ run' = [run EXCEPT ![c][n] = "failed"]
          /\ outbox' = outbox \cup {Msg("article.fetch.failed", c, n)}
          /\ UNCHANGED store
      BY <2>3 DEF RecordFailure
    <3>3. /\ OwedForFailures' = OwedForFailures \cup {Msg("article.fetch.failed", c, n)}
          /\ OwedForRejections' = OwedForRejections
      <4>1. \A d \in Candidates, k \in Attempts :
              run'[d][k] = "failed" <=> run[d][k] = "failed" \/ (d = c /\ k = n)
        BY <3>1, <3>2 DEF RunsOK
      <4>2. \A d \in Candidates, k \in Attempts : run'[d][k] = "rejected" <=> run[d][k] = "rejected"
        BY <3>1, <3>2 DEF RunsOK
      <4> QED
        BY <4>1, <4>2, FailuresMore, RejectionsSame
    <3> QED
      BY <1>a, <1>b, <3>2, <3>3
  <2>4. CASE Advance(c, n) \/ Raise(c, n) \/ ReadForCommit(c, n)
    BY <2>4, <1>d DEF Advance, Raise, ReadForCommit
  <2>5. CASE CommitFails(c, n) \/ Abandon(c, n)
    BY <2>5, <1>d DEF CommitFails, Abandon
  <2>6. ASSUME NEW a \in BOOLEAN, Commit(c, n, a) PROVE OutboxMatchesTables'
    <3>1. run[c][n] # "failed" /\ run[c][n] # "rejected" /\ TxCurrent(c, tx[c][n])
      BY <2>6, <1>f DEF Commit, Fits, TxInv
    <3>2. run' = [run EXCEPT ![c][n] = "succeeded"]
      BY <2>6 DEF Commit
    <3>3. OwedForFailures' = OwedForFailures /\ OwedForRejections' = OwedForRejections
      <4>1. \A d \in Candidates, k \in Attempts : run'[d][k] = "failed" <=> run[d][k] = "failed"
        BY <3>1, <3>2 DEF RunsOK
      <4>2. \A d \in Candidates, k \in Attempts : run'[d][k] = "rejected" <=> run[d][k] = "rejected"
        BY <3>1, <3>2 DEF RunsOK
      <4> QED
        BY <4>1, <4>2, FailuresSame, RejectionsSame
    <3>4. ASSUME NEW e \in Candidates, NEW x \in Contents, Ingested(c, e, x),
                 outbox' = outbox \cup ArticleMessages(c, e) \cup VersionMessages(c, 1)
          PROVE  OutboxMatchesTables'
      BY <1>a, <3>3, <3>4, OwedForIngest
    <3>5. ASSUME NEW x \in Contents, Revised(c, x),
                 outbox' = outbox \cup VersionMessages(c, Len(versions[c]) + 1)
          PROVE  OutboxMatchesTables'
      BY <1>a, <3>3, <3>5, OwedForRevision
    <3>6. ASSUME UNCHANGED <<event, events, versions, outbox>>
          PROVE  OutboxMatchesTables'
      BY <1>a, <1>b, <3>3, <3>6 DEF store
    <3> QED
      BY <2>6, <3>1, <3>4, <3>5, <3>6, CommitCases
  <2> QED
    BY <1>2, <2>1, <2>2, <2>3, <2>4, <2>5, <2>6
       DEF JobStep, CommitSuccess, CommitUnacknowledged
<1>3. ASSUME SweepScan \/ SweepCommit PROVE UNCHANGED <<store, run, outbox>>
  BY <1>3 DEF SweepScan, SweepCommit
<1>4. ASSUME UNCHANGED vars PROVE UNCHANGED <<store, run, outbox>>
  BY <1>4 DEF vars, store
<1> QED
  BY <1>1, <1>2, <1>3, <1>4, <1>d DEF Next

----------------------------------------------------------------------------
(* The inductive invariant and the theorems *)

DurableInv ==
  /\ TypeOK
  /\ StoreInv
  /\ TxInv
  /\ JobInv
  /\ ProcessedIsDurable
  /\ OutboxMatchesTables

LEMMA DurableInit == Init => DurableInv
<1> SUFFICES ASSUME Init PROVE DurableInv
  OBVIOUS
<1>1. TypeOK
  BY TypeInit
<1>2. StoreInv
  <2>1. NoOrphanEvents
    BY EventAssumption DEF Init, NoOrphanEvents
  <2> QED
    BY <2>1 DEF Init, StoreInv, VersionsDistinct
<1>3. TxInv
  BY DEF Init, TxInv
<1>4. JobInv
  BY DEF Init, JobInv, Fits, StageAfter
<1>5. ProcessedIsDurable
  BY DEF Init, ProcessedIsDurable
<1>6. OutboxMatchesTables
  <2>1. OwedForArticles = {} /\ OwedForVersions = {}
    BY DEF Init, OwedForArticles, OwedForVersions
  <2>2. \A type : OwedForRuns(type, "failed") = {} /\ OwedForRuns(type, "rejected") = {}
    BY DEF Init, OwedForRuns
  <2> QED
    BY <2>1, <2>2 DEF Init, OutboxMatchesTables, Owed
<1> QED
  BY <1>1, <1>2, <1>3, <1>4, <1>5, <1>6 DEF DurableInv

LEMMA DurableStep == DurableInv /\ [Next]_vars => DurableInv' /\ TablesGrow
<1> SUFFICES ASSUME DurableInv, [Next]_vars PROVE DurableInv' /\ TablesGrow
  OBVIOUS
<1>1. TypeOK /\ TypeOK'
  BY TypeStep DEF DurableInv
<1>2. RowsOK /\ RunsOK /\ StoreOK /\ JobsOK
  BY <1>1, TypeParts
<1>3. StoreOK'
  BY <1>1 DEF TypeOK, StoreOK
<1>4. TablesGrow /\ StoreInv'
  BY <1>2, StoreInvStep DEF DurableInv
<1>5. TxInv'
  BY <1>2, <1>3, <1>4, TxInvStep DEF DurableInv
<1>6. JobInv'
  BY <1>2, <1>3, <1>4, JobInvStep DEF DurableInv
<1>7. ProcessedIsDurable'
  BY <1>2, <1>4, ProcessedStep DEF DurableInv
<1>8. OutboxMatchesTables'
  BY <1>2, OutboxStep DEF DurableInv
<1> QED
  BY <1>1, <1>4, <1>5, <1>6, <1>7, <1>8 DEF DurableInv

\* Every reachable state satisfies the invariant.
THEOREM Durable == Spec => []DurableInv
  BY DurableInit, DurableStep, PTL DEF Spec

\* A row marked processed has its article, a version and an event, all committed.
THEOREM ProcessedAlwaysDurable == Spec => []ProcessedIsDurable
<1>1. DurableInv => ProcessedIsDurable
  BY DEF DurableInv
<1> QED
  BY <1>1, Durable, PTL

\* No event is without an article, and each keeps the article that created it.
THEOREM NeverOrphanEvents == Spec => []NoOrphanEvents
<1>1. DurableInv => NoOrphanEvents
  BY DEF DurableInv, StoreInv
<1> QED
  BY <1>1, Durable, PTL

\* No two versions of an article have the same content, however often it is fetched.
THEOREM VersionsAlwaysDistinct == Spec => []VersionsDistinct
<1>1. DurableInv => VersionsDistinct
  BY DEF DurableInv, StoreInv
<1> QED
  BY <1>1, Durable, PTL

\* A run is closed by its job, and stays open only while the job runs or if it died.
THEOREM RunsAlwaysAccounted == Spec => []RunsAccounted
<1>1. DurableInv => RunsAccounted
  <2> SUFFICES ASSUME DurableInv, NEW c \in Candidates, NEW n \in Attempts
               PROVE  /\ pc[c][n] = "done" => run[c][n] \in {"succeeded", "failed", "rejected"}
                      /\ run[c][n] = "running" => InFlight(c, n) \/ pc[c][n] = "gone"
                      /\ run[c][n] = "succeeded" => versions[c] # <<>>
    BY DEF RunsAccounted
  <2>1. Fits(pc[c][n], run[c][n]) /\ (run[c][n] = "succeeded" => versions[c] # <<>>)
    BY DEF DurableInv, JobInv
  <2> QED
    BY <2>1 DEF Fits, InFlight
<1> QED
  BY <1>1, Durable, PTL

\* The outbox holds exactly the messages that the committed tables call for.
THEOREM OutboxAlwaysMatches == Spec => []OutboxMatchesTables
<1>1. DurableInv => OutboxMatchesTables
  BY DEF DurableInv
<1> QED
  BY <1>1, Durable, PTL

\* Articles are never reassigned and versions only appended.
THEOREM StoreAlwaysGrows == Spec => StoreOnlyGrows
<1>1. DurableInv /\ [Next]_vars =>
        [\A c \in Candidates :
           /\ event[c] # NoEvent => event'[c] = event[c]
           /\ Len(versions[c]) <= Len(versions'[c])
           /\ \A k \in DOMAIN versions[c] : versions'[c][k] = versions[c][k]]_vars
  BY DurableStep DEF TablesGrow, Continues
<1> QED
  BY <1>1, Durable, PTL DEF Spec, StoreOnlyGrows

----------------------------------------------------------------------------
(* Refinement *)

\* The messages the ledger knows of.
Announced(messages) ==
  {m \in messages : m.type \notin {"article.fetch.failed", "article.fetch.rejected"}}

LEMMA NotAnnounced ==
  ASSUME NEW c, NEW k,
         \/ outbox' = outbox \cup {Msg("article.fetch.failed", c, k)}
         \/ outbox' = outbox \cup {Msg("article.fetch.rejected", c, k)}
  PROVE  Announced(outbox') = Announced(outbox)
BY DEF Announced, Msg

LEMMA ArticleMessagesAnnounced ==
  \A c, e : /\ Announced(ArticleMessages(c, e)) = ArticleMessages(c, e)
            /\ Ledger!ArticleMessages(c, e) = ArticleMessages(c, e)
<1> SUFFICES ASSUME NEW c, NEW e
             PROVE  /\ Announced(ArticleMessages(c, e)) = ArticleMessages(c, e)
                    /\ Ledger!ArticleMessages(c, e) = ArticleMessages(c, e)
  OBVIOUS
<1>1. Announced(ArticleMessages(c, e)) = ArticleMessages(c, e)
  BY DEF Announced, ArticleMessages, Msg
<1>2. Ledger!ArticleMessages(c, e) = ArticleMessages(c, e)
  BY DEF ArticleMessages, Msg, Ledger!ArticleMessages, Ledger!Msg
<1> QED
  BY <1>1, <1>2

LEMMA VersionMessagesAnnounced ==
  \A c, k : /\ Announced(VersionMessages(c, k)) = VersionMessages(c, k)
            /\ Ledger!VersionMessages(c, k) = VersionMessages(c, k)
<1> SUFFICES ASSUME NEW c, NEW k
             PROVE  /\ Announced(VersionMessages(c, k)) = VersionMessages(c, k)
                    /\ Ledger!VersionMessages(c, k) = VersionMessages(c, k)
  OBVIOUS
<1>1. Announced(VersionMessages(c, k)) = VersionMessages(c, k)
  BY DEF Announced, VersionMessages, Msg
<1>2. Ledger!VersionMessages(c, k) = VersionMessages(c, k)
  BY DEF VersionMessages, Msg, Ledger!VersionMessages, Ledger!Msg
<1> QED
  BY <1>1, <1>2

\* Outside a commit, the outbox gets only messages about failures and rejections.
LEMMA QuietSteps ==
  ASSUME [Next]_vars
  PROVE  \/ UNCHANGED store /\ Announced(outbox') = Announced(outbox)
         \/ \E c \in Candidates, n \in Attempts, a \in BOOLEAN : Commit(c, n, a)
<1>1. ASSUME NEW c \in Candidates, RowStep(c) PROVE UNCHANGED <<store, outbox>>
  BY <1>1 DEF RowStep, Lease, LeaseExpires, BecomesDue
<1>2. ASSUME NEW c \in Candidates, NEW n \in Attempts, JobStep(c, n) \/ Abandon(c, n)
      PROVE  \/ UNCHANGED store /\ Announced(outbox') = Announced(outbox)
             \/ \E a \in BOOLEAN : Commit(c, n, a)
  <2>1. CASE CommitSuccess(c, n) \/ CommitUnacknowledged(c, n)
    BY <2>1 DEF CommitSuccess, CommitUnacknowledged
  <2>2. CASE RejectBeforeFetch(c, n)
    <3>1. UNCHANGED store /\ outbox' = outbox \cup {Msg("article.fetch.rejected", c, n)}
      BY <2>2 DEF RejectBeforeFetch
    <3> QED
      BY <3>1, NotAnnounced
  <2>3. CASE RecordFailure(c, n)
    <3>1. UNCHANGED store /\ outbox' = outbox \cup {Msg("article.fetch.failed", c, n)}
      BY <2>3 DEF RecordFailure
    <3> QED
      BY <3>1, NotAnnounced
  <2>4. CASE StartFetch(c, n) \/ Advance(c, n) \/ Raise(c, n)
    BY <2>4 DEF StartFetch, Advance, Raise
  <2>5. CASE ReadForCommit(c, n) \/ CommitFails(c, n) \/ Abandon(c, n)
    BY <2>5 DEF ReadForCommit, CommitFails, Abandon
  <2> QED
    BY <1>2, <2>1, <2>2, <2>3, <2>4, <2>5 DEF JobStep
<1>3. ASSUME SweepScan \/ SweepCommit PROVE UNCHANGED <<store, outbox>>
  BY <1>3 DEF SweepScan, SweepCommit
<1>4. ASSUME UNCHANGED vars PROVE UNCHANGED <<store, outbox>>
  BY <1>4 DEF vars, store
<1> QED
  BY <1>1, <1>2, <1>3, <1>4 DEF Next

LEMMA LedgerInit == Init => Ledger!Init
BY DEF Init, Ledger!Init

LEMMA LedgerStep == DurableInv /\ [Next]_vars => [Ledger!Next]_(Ledger!vars)
<1> SUFFICES ASSUME DurableInv, [Next]_vars
             PROVE  Ledger!Next \/ UNCHANGED Ledger!vars
  OBVIOUS
<1>0. StoreOK /\ JobsOK /\ StoreInv /\ TxInv
  BY TypeParts DEF DurableInv
<1>a. UNCHANGED store /\ Announced(outbox') = Announced(outbox) => UNCHANGED Ledger!vars
  BY DEF store, Ledger!vars, Announced
<1>1. ASSUME NEW c \in Candidates, NEW n \in Attempts, NEW a \in BOOLEAN, Commit(c, n, a)
      PROVE  Ledger!Next \/ UNCHANGED Ledger!vars
  <2>1. TxCurrent(c, tx[c][n])
    BY <1>0, <1>1 DEF Commit, TxInv
  <2>2. ASSUME NEW e \in Candidates, NEW x \in Contents, Ingested(c, e, x),
               outbox' = outbox \cup ArticleMessages(c, e) \cup VersionMessages(c, 1)
        PROVE  Ledger!Next
    <3> DEFINE A == ArticleMessages(c, e)
               V == VersionMessages(c, 1)
    <3>1. Announced(A) = A /\ Announced(V) = V
      BY ArticleMessagesAnnounced, VersionMessagesAnnounced
    <3>2. Announced(outbox') = Announced(outbox) \cup Ledger!ArticleMessages(c, e)
                                 \cup Ledger!VersionMessages(c, 1)
      <4>1. A = Ledger!ArticleMessages(c, e) /\ V = Ledger!VersionMessages(c, 1)
        BY ArticleMessagesAnnounced, VersionMessagesAnnounced
      <4>2. outbox' = outbox \cup A \cup V
        BY <2>2
      <4> HIDE DEF A, V
      <4>3. Announced(outbox') = Announced(outbox) \cup A \cup V
        BY <3>1, <4>2 DEF Announced
      <4> QED
        BY <4>1, <4>3
    <3>3. Ledger!Ingest(c, e, x)
      BY <2>2, <3>2 DEF Ingested, Announced, Ledger!Ingest
    <3> QED
      BY <2>2, <3>3 DEF Ledger!Next, Ingested
  <2>3. ASSUME NEW x \in Contents, Revised(c, x),
               outbox' = outbox \cup VersionMessages(c, Len(versions[c]) + 1)
        PROVE  Ledger!Next
    <3> DEFINE V == VersionMessages(c, Len(versions[c]) + 1)
    <3>1. Announced(outbox') = Announced(outbox)
                                 \cup Ledger!VersionMessages(c, Len(versions[c]) + 1)
      <4>1. Announced(V) = V /\ V = Ledger!VersionMessages(c, Len(versions[c]) + 1)
        BY VersionMessagesAnnounced
      <4>2. outbox' = outbox \cup V
        BY <2>3
      <4> HIDE DEF V
      <4>3. Announced(outbox') = Announced(outbox) \cup V
        BY <4>1, <4>2 DEF Announced
      <4> QED
        BY <4>1, <4>3
    <3>2. Ledger!Revise(c, x)
      BY <2>3, <3>1 DEF Revised, Announced, Ledger!Revise
    <3> QED
      BY <3>2 DEF Ledger!Next
  <2>4. ASSUME UNCHANGED <<event, events, versions, outbox>>
        PROVE  UNCHANGED Ledger!vars
    BY <2>4 DEF Ledger!vars
  <2> QED
    BY <1>0, <1>1, <2>1, <2>2, <2>3, <2>4, CommitCases
<1> QED
  BY <1>a, <1>1, QuietSteps

\* The worker implements the ledger: what it commits and announces is always one
\* article with its first version and event, or one more version, or nothing.
THEOREM LedgerImplemented == Spec => ImplementsLedger
<1>1. Init => Ledger!Init
  BY LedgerInit
<1>2. DurableInv /\ [Next]_vars => [Ledger!Next]_(Ledger!vars)
  BY LedgerStep
<1> QED
  BY <1>1, <1>2, Durable, PTL DEF Spec, ImplementsLedger, Ledger!Spec

----------------------------------------------------------------------------
(* With every lease outliving its job (~Overrun): one job at a time per      *)
(* candidate, leases that can be granted again, the bound on attempts and    *)
(* the verdict of the row.                                                   *)

\* A job that has neither committed nor failed.
Working == {"claimed", "persisting", "committing"} \cup DOMAIN StageAfter

\* A job that has ended or was never leased.
Idle == {"none", "done", "gone"}

\* What holds of the row r of a candidate, of the places p of its jobs, their runs u
\* and their transactions t, when so many jobs have been abandoned.
Discipline(r, p, u, t, abandons) ==
  /\ \A n \in Attempts : r.attempts < n => p[n] = "none"
  /\ \A n \in Attempts : p[n] \notin Idle =>
       /\ n = r.attempts
       /\ r.state \notin {"ready", "retry"}
       /\ r.state = "leased" => r.lease = "live"
  /\ \A n \in Attempts : p[n] \in Working =>
       r.state \in {"leased", "failed", "rejected"} /\ r.stage # "completed"
  /\ \A n \in Attempts : p[n] = "committing" =>
       t[n].state \in {"leased", "failed", "rejected"} /\ t[n].stage # "completed"
  /\ r.state = "leased" => r.lease # "none"
  /\ r.state = "ready" => r.attempts = 0
  /\ r.state = "retry" => r.attempts < MaxAttempts
  /\ r.state = "leased" /\ (\A n \in Attempts : p[n] \in Idle) =>
       r.attempts < MaxAttempts + abandons
  /\ r.attempts <= MaxAttempts + abandons
  /\ r.state = "processed" =>
       r.attempts \in Attempts /\ u[r.attempts] = "succeeded" /\ r.stage = "completed"
  /\ r.state = "retry" =>
       r.attempts \in Attempts /\ u[r.attempts] = "failed" /\ r.stage = "retryable_failure"

DisciplineOf(c) == Discipline(row[c], pc[c], run[c], tx[c], used.abandons)

DisciplineInv == \A c \in Candidates : DisciplineOf(c)

\* The types of one candidate's variables.
PlaceTypes(r, p, u, t, abandons) ==
  /\ r \in Rows
  /\ p \in [Attempts -> Places]
  /\ u \in [Attempts -> Runs]
  /\ abandons \in Nat

LEMMA PlacesSplit ==
  /\ Working \cap Idle = {}
  /\ DOMAIN StageAfter \subseteq Working
  /\ \A p \in DOMAIN StageAfter : StageAfter[p] \in Working
  /\ \A p \in DOMAIN StageAfter : StageAfter[p] # "completed"
  /\ \A p \in DOMAIN StageAfter : p \notin Idle /\ p # "committing"
  /\ \A p \in DOMAIN StageAfter : StageAfter[p] # "committing"
  /\ "failing" \notin Working \cup Idle /\ "failing_fatal" \notin Working \cup Idle
BY DEF Working, Idle, StageAfter

\* A lease: the row could be claimed, so no job was in flight.
LEMMA LeaseKeeps ==
  ASSUME NEW r, NEW p, NEW u, NEW t, NEW abandons, PlaceTypes(r, p, u, t, abandons),
         Discipline(r, p, u, t, abandons), Claimable(r), r.attempts < AttemptCap
  PROVE  Discipline(LeasedRow(r), [p EXCEPT ![r.attempts + 1] = "claimed"], u, t, abandons)
<1> DEFINE k == r.attempts + 1
           q == [p EXCEPT ![k] = "claimed"]
           s == LeasedRow(r)
<1>1. r.attempts \in Nat /\ k \in Nat /\ k \in Attempts /\ AttemptCap \in Nat
      /\ MaxAttempts \in Nat \ {0} /\ abandons \in Nat
  BY BoundAssumption DEF PlaceTypes, Rows, Attempts
<1>2. s.state = "leased" /\ s.stage = "leased" /\ s.lease = "live" /\ s.attempts = k
  BY DEF LeasedRow, PlaceTypes, Rows
<1>3. \A n \in Attempts : q[n] = IF n = k THEN "claimed" ELSE p[n]
  BY DEF PlaceTypes
<1>4. \A n \in Attempts : p[n] \in Idle
  BY DEF Discipline, Claimable
<1>5. r.attempts < MaxAttempts + abandons
  BY <1>1, <1>4 DEF Discipline, Claimable
<1>6. q[k] = "claimed" /\ "claimed" \notin Idle /\ "claimed" \in Working
  BY <1>1, <1>3 DEF Idle, Working
<1> HIDE DEF k, q, s
<1>7. \A n \in Attempts : k < n => q[n] = "none"
  <2> SUFFICES ASSUME NEW n \in Attempts, k < n PROVE q[n] = "none"
    OBVIOUS
  <2>1. r.attempts < n /\ n # k
    BY <1>1 DEF Attempts, k
  <2> QED
    BY <1>3, <2>1 DEF Discipline
<1>8. \A n \in Attempts : q[n] \notin Idle => n = k
  BY <1>3, <1>4
<1>9. \A n \in Attempts : q[n] # "committing"
  BY <1>3, <1>4 DEF Idle
<1>10. k <= MaxAttempts + abandons
  BY <1>1, <1>5 DEF k
<1> QED
  BY <1>1, <1>2, <1>6, <1>7, <1>8, <1>9, <1>10 DEF Discipline, k, q, s

\* While a job is in flight, it is the one the row counts, and all others are idle.
LEMMA OthersIdle ==
  ASSUME NEW r, NEW p, NEW u, NEW t, NEW abandons, PlaceTypes(r, p, u, t, abandons),
         Discipline(r, p, u, t, abandons), NEW n \in Attempts, p[n] \notin Idle
  PROVE  /\ n = r.attempts
         /\ \A m \in Attempts : m # n => p[m] \in Idle
         /\ r.attempts \in Nat /\ abandons \in Nat /\ MaxAttempts \in Nat \ {0}
<1>1. r.attempts \in Nat /\ abandons \in Nat /\ MaxAttempts \in Nat \ {0}
  BY BoundAssumption DEF PlaceTypes, Rows
<1> QED
  BY <1>1 DEF Discipline

\* A job goes on working: it may set any stage but the last.
LEMMA WorkKeeps ==
  ASSUME NEW r, NEW p, NEW u, NEW t, NEW abandons, PlaceTypes(r, p, u, t, abandons),
         Discipline(r, p, u, t, abandons), NEW n \in Attempts, p[n] \in Working,
         NEW w \in Working, w # "committing",
         NEW s, s.state = r.state, s.lease = r.lease, s.attempts = r.attempts,
         s.stage # "completed", NEW v
  PROVE  Discipline(s, [p EXCEPT ![n] = w], v, t, abandons)
<1> DEFINE q == [p EXCEPT ![n] = w]
<1>1. \A m \in Attempts : q[m] = IF m = n THEN w ELSE p[m]
  BY DEF PlaceTypes
<1>2. p[n] \notin Idle /\ w \notin Idle
  BY PlacesSplit
<1>3. /\ n = r.attempts
      /\ \A m \in Attempts : m # n => p[m] \in Idle
      /\ r.attempts \in Nat /\ abandons \in Nat /\ MaxAttempts \in Nat \ {0}
  BY <1>2, OthersIdle
<1>4. r.state \in {"leased", "failed", "rejected"} /\ (r.state = "leased" => r.lease = "live")
  BY <1>2 DEF Discipline
<1>5. \A m \in Attempts : q[m] # "committing" /\ (q[m] \notin Idle => m = n)
  BY <1>1, <1>3 DEF Idle
<1>6. \A m \in Attempts : r.attempts < m => q[m] = "none"
  BY <1>1, <1>3 DEF Discipline
<1>7. r.attempts <= MaxAttempts + abandons
  BY DEF Discipline
<1>8. q[n] \notin Idle
  BY <1>1, <1>2
<1> HIDE DEF q
<1>9. Discipline(s, q, v, t, abandons)
  BY <1>3, <1>4, <1>5, <1>6, <1>7, <1>8 DEF Discipline
<1> QED
  BY <1>9 DEF q

\* A job opens its transaction: what it reads of the row is what a working job leaves there.
LEMMA ReadKeeps ==
  ASSUME NEW r, NEW p, NEW u, NEW t, NEW abandons, PlaceTypes(r, p, u, t, abandons),
         Discipline(r, p, u, t, abandons), NEW n \in Attempts, p[n] \in Working,
         NEW v, v[n].state = r.state, v[n].stage = r.stage
  PROVE  Discipline(r, [p EXCEPT ![n] = "committing"], u, v, abandons)
<1> DEFINE q == [p EXCEPT ![n] = "committing"]
<1>1. \A m \in Attempts : q[m] = IF m = n THEN "committing" ELSE p[m]
  BY DEF PlaceTypes
<1>2. p[n] \notin Idle /\ "committing" \notin Idle
  BY PlacesSplit DEF Idle
<1>3. /\ n = r.attempts
      /\ \A m \in Attempts : m # n => p[m] \in Idle
      /\ r.attempts \in Nat /\ abandons \in Nat /\ MaxAttempts \in Nat \ {0}
  BY <1>2, OthersIdle
<1>4. /\ r.state \in {"leased", "failed", "rejected"} /\ (r.state = "leased" => r.lease = "live")
      /\ r.stage # "completed"
  BY <1>2 DEF Discipline
<1>5. \A m \in Attempts : q[m] \notin Idle => m = n
  BY <1>1, <1>3
<1>6. \A m \in Attempts : r.attempts < m => q[m] = "none"
  BY <1>1, <1>3 DEF Discipline
<1>7. r.attempts <= MaxAttempts + abandons
  BY DEF Discipline
<1>8. \A m \in Attempts : q[m] = "committing" => m = n
  BY <1>5, <1>2
<1>9. q[n] \notin Idle
  BY <1>1, <1>2
<1> HIDE DEF q
<1>10. Discipline(r, q, u, v, abandons)
  BY <1>3, <1>4, <1>5, <1>6, <1>7, <1>8, <1>9 DEF Discipline
<1> QED
  BY <1>10 DEF q

\* A job raises an exception: the row stays as it is until the failure is recorded.
LEMMA RaiseKeeps ==
  ASSUME NEW r, NEW p, NEW u, NEW t, NEW abandons, PlaceTypes(r, p, u, t, abandons),
         Discipline(r, p, u, t, abandons), NEW n \in Attempts, p[n] \notin Idle,
         NEW w \in {"failing", "failing_fatal"}, NEW v
  PROVE  Discipline(r, [p EXCEPT ![n] = w], u, v, abandons)
<1> DEFINE q == [p EXCEPT ![n] = w]
<1>1. \A m \in Attempts : q[m] = IF m = n THEN w ELSE p[m]
  BY DEF PlaceTypes
<1>2. w \notin Idle /\ w \notin Working /\ w # "committing"
  BY PlacesSplit
<1>3. /\ n = r.attempts
      /\ \A m \in Attempts : m # n => p[m] \in Idle
      /\ r.attempts \in Nat /\ abandons \in Nat /\ MaxAttempts \in Nat \ {0}
  BY OthersIdle
<1>4. \A m \in Attempts : q[m] \notin Idle => m = n
  BY <1>1, <1>3
<1>5. \A m \in Attempts : q[m] \notin Working /\ q[m] # "committing"
  BY <1>1, <1>2, <1>3, PlacesSplit DEF Idle
<1>6. \A m \in Attempts : r.attempts < m => q[m] = "none"
  BY <1>1, <1>3 DEF Discipline
<1>7. q[n] \notin Idle
  BY <1>1, <1>2
<1> HIDE DEF q
<1>8. Discipline(r, q, u, v, abandons)
  BY <1>3, <1>4, <1>5, <1>6, <1>7 DEF Discipline
<1> QED
  BY <1>8 DEF q

\* A job ends, with the verdict on the row that it records.
LEMMA EndKeeps ==
  ASSUME NEW r, NEW p, NEW u, NEW t, NEW abandons, PlaceTypes(r, p, u, t, abandons),
         Discipline(r, p, u, t, abandons), NEW n \in Attempts, p[n] \notin Idle,
         NEW s, s.attempts = r.attempts, NEW v, NEW x,
         \/ s.state \in {"failed", "rejected"}
         \/ s.state = "processed" /\ x[n] = "succeeded" /\ s.stage = "completed"
         \/ /\ s.state = "retry" /\ x[n] = "failed" /\ s.stage = "retryable_failure"
            /\ n < MaxAttempts
  PROVE  Discipline(s, [p EXCEPT ![n] = "done"], x, v, abandons)
<1> DEFINE q == [p EXCEPT ![n] = "done"]
<1>1. \A m \in Attempts : q[m] = IF m = n THEN "done" ELSE p[m]
  BY DEF PlaceTypes
<1>2. /\ n = r.attempts
      /\ \A m \in Attempts : m # n => p[m] \in Idle
      /\ r.attempts \in Nat /\ abandons \in Nat /\ MaxAttempts \in Nat \ {0}
  BY OthersIdle
<1>3. \A m \in Attempts : q[m] \in Idle
  BY <1>1, <1>2 DEF Idle
<1>4. \A m \in Attempts : q[m] \notin Working /\ q[m] # "committing"
  BY <1>3, PlacesSplit DEF Idle
<1>5. \A m \in Attempts : r.attempts < m => q[m] = "none"
  BY <1>1, <1>2 DEF Discipline
<1>6. r.attempts <= MaxAttempts + abandons
  BY DEF Discipline
<1> HIDE DEF q
<1>7. Discipline(s, q, x, v, abandons)
  BY <1>2, <1>3, <1>4, <1>5, <1>6 DEF Discipline
<1> QED
  BY <1>7 DEF q

\* A job commits, and does not learn of it.
LEMMA UnacknowledgedKeeps ==
  ASSUME NEW r, NEW p, NEW u, NEW t, NEW abandons, PlaceTypes(r, p, u, t, abandons),
         Discipline(r, p, u, t, abandons), NEW n \in Attempts, p[n] \notin Idle,
         NEW s, s.attempts = r.attempts, s.state = "processed", s.stage = "completed",
         NEW v, NEW x, x[n] = "succeeded"
  PROVE  Discipline(s, [p EXCEPT ![n] = "failing"], x, v, abandons)
<1> DEFINE q == [p EXCEPT ![n] = "failing"]
<1>1. \A m \in Attempts : q[m] = IF m = n THEN "failing" ELSE p[m]
  BY DEF PlaceTypes
<1>2. /\ n = r.attempts
      /\ \A m \in Attempts : m # n => p[m] \in Idle
      /\ r.attempts \in Nat /\ abandons \in Nat /\ MaxAttempts \in Nat \ {0}
  BY OthersIdle
<1>3. \A m \in Attempts : q[m] \notin Idle => m = n
  BY <1>1, <1>2
<1>4. \A m \in Attempts : q[m] \notin Working /\ q[m] # "committing"
  BY <1>1, <1>2, PlacesSplit DEF Idle
<1>5. \A m \in Attempts : r.attempts < m => q[m] = "none"
  BY <1>1, <1>2 DEF Discipline
<1>6. r.attempts <= MaxAttempts + abandons
  BY DEF Discipline
<1> HIDE DEF q
<1>7. Discipline(s, q, x, v, abandons)
  BY <1>2, <1>3, <1>4, <1>5, <1>6 DEF Discipline
<1> QED
  BY <1>7 DEF q

\* A job is abandoned: one more attempt is allowed for.
LEMMA AbandonKeeps ==
  ASSUME NEW r, NEW p, NEW u, NEW t, NEW abandons, PlaceTypes(r, p, u, t, abandons),
         Discipline(r, p, u, t, abandons), NEW n \in Attempts, p[n] \notin Idle, NEW v
  PROVE  Discipline(r, [p EXCEPT ![n] = "gone"], u, v, abandons + 1)
<1> DEFINE q == [p EXCEPT ![n] = "gone"]
<1>1. \A m \in Attempts : q[m] = IF m = n THEN "gone" ELSE p[m]
  BY DEF PlaceTypes
<1>2. /\ n = r.attempts
      /\ \A m \in Attempts : m # n => p[m] \in Idle
      /\ r.attempts \in Nat /\ abandons \in Nat /\ MaxAttempts \in Nat \ {0}
  BY OthersIdle
<1>3. \A m \in Attempts : q[m] \in Idle
  BY <1>1, <1>2 DEF Idle
<1>4. \A m \in Attempts : q[m] \notin Working /\ q[m] # "committing"
  BY <1>3, PlacesSplit DEF Idle
<1>5. \A m \in Attempts : r.attempts < m => q[m] = "none"
  BY <1>1, <1>2 DEF Discipline
<1>6. r.attempts <= MaxAttempts + abandons
  BY DEF Discipline
<1>7. r.attempts < MaxAttempts + (abandons + 1)
  BY <1>2, <1>6
<1> HIDE DEF q
<1>8. Discipline(r, q, u, v, abandons + 1)
  BY <1>2, <1>3, <1>4, <1>5, <1>7 DEF Discipline
<1> QED
  BY <1>8 DEF q

\* A timer runs out: a lease can expire only when no job is in flight.
LEMMA TimerKeeps ==
  ASSUME NEW r, NEW p, NEW u, NEW t, NEW abandons,
         Discipline(r, p, u, t, abandons),
         NEW s, s.state = r.state, s.stage = r.stage, s.attempts = r.attempts,
         \/ s.lease = r.lease
         \/ s.lease = "expired" /\ \A n \in Attempts : p[n] \in Idle
  PROVE  Discipline(s, p, u, t, abandons)
BY DEF Discipline

\* The cleanup fails or rejects the row, whatever a job is doing with it.
LEMMA SweepKeeps ==
  ASSUME NEW r, NEW p, NEW u, NEW t, NEW abandons,
         Discipline(r, p, u, t, abandons),
         NEW s, s.attempts = r.attempts, s.state \in {"failed", "rejected"},
         s.stage # "completed"
  PROVE  Discipline(s, p, u, t, abandons)
BY DEF Discipline

\* Further abandoned jobs, of other candidates, only weaken the bound on attempts.
LEMMA AbandonedElsewhere ==
  ASSUME NEW r, NEW p, NEW u, NEW t, NEW abandons, PlaceTypes(r, p, u, t, abandons),
         Discipline(r, p, u, t, abandons)
  PROVE  Discipline(r, p, u, t, abandons + 1)
<1>1. r.attempts \in Nat /\ MaxAttempts \in Nat /\ abandons \in Nat
  BY BoundAssumption DEF PlaceTypes, Rows
<1> QED
  BY <1>1 DEF Discipline

----------------------------------------------------------------------------
(* The steps *)

LEMMA PlaceTypesOf ==
  ASSUME TypeOK, NEW c \in Candidates
  PROVE  PlaceTypes(row[c], pc[c], run[c], tx[c], used.abandons)
BY DEF TypeOK, PlaceTypes

\* A step that touches one candidate, and abandons at most one job.
LEMMA OneCandidate ==
  ASSUME TypeOK, DisciplineInv, NEW c \in Candidates,
         Discipline(row'[c], pc'[c], run'[c], tx'[c], used'.abandons),
         \A d \in Candidates : d # c =>
           row'[d] = row[d] /\ pc'[d] = pc[d] /\ run'[d] = run[d] /\ tx'[d] = tx[d],
         used'.abandons \in {used.abandons, used.abandons + 1}
  PROVE  DisciplineInv'
<1>1. ASSUME NEW d \in Candidates, d # c
      PROVE  Discipline(row'[d], pc'[d], run'[d], tx'[d], used'.abandons)
  <2>1. Discipline(row[d], pc[d], run[d], tx[d], used.abandons)
    BY DEF DisciplineInv, DisciplineOf
  <2>2. Discipline(row[d], pc[d], run[d], tx[d], used.abandons + 1)
    BY <2>1, PlaceTypesOf, AbandonedElsewhere
  <2>3. row'[d] = row[d] /\ pc'[d] = pc[d] /\ run'[d] = run[d] /\ tx'[d] = tx[d]
    BY <1>1
  <2> QED
    BY <2>1, <2>2, <2>3
<1> QED
  BY <1>1 DEF DisciplineInv, DisciplineOf

LEMMA DisciplineInit == Init => DisciplineInv
<1> SUFFICES ASSUME Init, NEW c \in Candidates PROVE DisciplineOf(c)
  BY DEF DisciplineInv
<1>1. /\ row[c].state = "ready" /\ row[c].attempts = 0 /\ used.abandons = 0
      /\ \A n \in Attempts : pc[c][n] = "none"
  BY DEF Init
<1>2. "none" \in Idle /\ "none" \notin Working /\ MaxAttempts \in Nat \ {0}
  BY BoundAssumption, PlacesSplit DEF Idle
<1> QED
  BY <1>1, <1>2 DEF DisciplineOf, Discipline

\* What a step of a job's transaction leaves alone.
LEMMA JobFrame ==
  ASSUME TypeOK, NEW c \in Candidates, NEW n \in Attempts,
         JobStep(c, n) \/ Abandon(c, n)
  PROVE  \A d \in Candidates : d # c =>
           row'[d] = row[d] /\ pc'[d] = pc[d] /\ run'[d] = run[d] /\ tx'[d] = tx[d]
<1> USE DEF TypeOK
<1>1. CASE RejectBeforeFetch(c, n) \/ StartFetch(c, n) \/ RecordFailure(c, n)
  BY <1>1 DEF RejectBeforeFetch, StartFetch, RecordFailure
<1>2. CASE Advance(c, n)
  BY <1>2 DEF Advance
<1>3. CASE Raise(c, n)
  BY <1>3 DEF Raise
<1>4. CASE ReadForCommit(c, n)
  BY <1>4 DEF ReadForCommit
<1>5. ASSUME NEW a \in BOOLEAN, Commit(c, n, a)
      PROVE  \A d \in Candidates : d # c =>
               row'[d] = row[d] /\ pc'[d] = pc[d] /\ run'[d] = run[d] /\ tx'[d] = tx[d]
  BY <1>5 DEF Commit
<1>6. CASE CommitFails(c, n) \/ Abandon(c, n)
  BY <1>6 DEF CommitFails, Abandon
<1> QED
  BY <1>1, <1>2, <1>3, <1>4, <1>5, <1>6 DEF JobStep, CommitSuccess, CommitUnacknowledged

\* The row a lease, a timer or the cleanup leaves behind.
LEMMA RowStepKeeps ==
  ASSUME ~Overrun, TypeOK, DisciplineInv, NEW c \in Candidates, RowStep(c)
  PROVE  DisciplineInv'
<1>1. Discipline(row[c], pc[c], run[c], tx[c], used.abandons)
  BY DEF DisciplineInv, DisciplineOf
<1>2. PlaceTypes(row[c], pc[c], run[c], tx[c], used.abandons)
  BY PlaceTypesOf
<1>3. row \in [Candidates -> Rows] /\ pc \in [Candidates -> [Attempts -> Places]]
  BY DEF TypeOK
<1>4. CASE Lease(c)
  <2>1. /\ row' = [row EXCEPT ![c] = LeasedRow(row[c])]
        /\ pc' = [pc EXCEPT ![c][row[c].attempts + 1] = "claimed"]
        /\ UNCHANGED <<run, tx, used>>
    BY <1>4 DEF Lease
  <2>2. /\ row'[c] = LeasedRow(row[c])
        /\ pc'[c] = [pc[c] EXCEPT ![row[c].attempts + 1] = "claimed"]
        /\ \A d \in Candidates : d # c => row'[d] = row[d] /\ pc'[d] = pc[d]
    BY <1>3, <2>1
  <2>3. Discipline(row'[c], pc'[c], run'[c], tx'[c], used'.abandons)
    BY <1>1, <1>2, <1>4, <2>1, <2>2, LeaseKeeps DEF Lease
  <2> QED
    BY <2>1, <2>2, <2>3, OneCandidate
<1>5. CASE LeaseExpires(c) \/ BecomesDue(c)
  <2>1. /\ UNCHANGED <<pc, run, tx, used>>
        /\ \A d \in Candidates : d # c => row'[d] = row[d]
    BY <1>3, <1>5 DEF LeaseExpires, BecomesDue
  <2>2. /\ row'[c].state = row[c].state /\ row'[c].stage = row[c].stage
        /\ row'[c].attempts = row[c].attempts
        /\ \/ row'[c].lease = row[c].lease
           \/ LeaseExpires(c) /\ row'[c].lease = "expired"
    <3>1. CASE LeaseExpires(c)
      <4>1. row'[c] = [row[c] EXCEPT !.lease = "expired"]
        BY <1>3, <3>1 DEF LeaseExpires
      <4> QED
        BY <1>3, <3>1, <4>1 DEF Rows
    <3>2. CASE BecomesDue(c)
      <4>1. row'[c] = [row[c] EXCEPT !.fetch = "due"]
        BY <1>3, <3>2 DEF BecomesDue
      <4> QED
        BY <1>3, <4>1 DEF Rows
    <3> QED
      BY <1>5, <3>1, <3>2
  <2>3. LeaseExpires(c) => \A n \in Attempts : pc[c][n] \in Idle
    BY DEF LeaseExpires, InFlight, Idle
  <2>4. Discipline(row'[c], pc[c], run[c], tx[c], used.abandons)
    BY <1>1, <2>2, <2>3, TimerKeeps
  <2> QED
    BY <2>1, <2>4, OneCandidate
<1> QED
  BY <1>4, <1>5 DEF RowStep

\* A commit turns whatever the transaction read into a processed and completed row.
LEMMA CommitVerdict ==
  ASSUME TypeOK, DisciplineInv, NEW c \in Candidates, NEW n \in Attempts,
         NEW a \in BOOLEAN, Commit(c, n, a)
  PROVE  /\ row'[c].state = "processed" /\ row'[c].stage = "completed"
         /\ row'[c].attempts = row[c].attempts
         /\ run'[c][n] = "succeeded"
         /\ pc'[c] = [pc[c] EXCEPT ![n] = IF a THEN "done" ELSE "failing"]
<1> DEFINE t == tx[c][n]
<1>1. t.state # "processed" /\ t.stage # "completed"
  BY DEF Commit, DisciplineInv, DisciplineOf, Discipline
<1>2. /\ row' = [row EXCEPT ![c] = RowAfterSuccess(row[c], t)]
      /\ run' = [run EXCEPT ![c][n] = "succeeded"]
      /\ pc' = [pc EXCEPT ![c][n] = IF a THEN "done" ELSE "failing"]
  BY DEF Commit
<1>3. row'[c] = RowAfterSuccess(row[c], t) /\ row[c] \in Rows
  BY <1>2 DEF TypeOK
<1>4. /\ row'[c].state = Written(t.state, row[c].state, "processed")
      /\ row'[c].stage = Written(t.stage, row[c].stage, "completed")
      /\ row'[c].attempts = row[c].attempts
  BY <1>3 DEF RowAfterSuccess, Rows
<1>5. row'[c].state = "processed" /\ row'[c].stage = "completed"
  BY <1>1, <1>4 DEF Written
<1> QED
  BY <1>2, <1>4, <1>5 DEF TypeOK

LEMMA JobStepKeeps ==
  ASSUME TypeOK, DisciplineInv, NEW c \in Candidates, NEW n \in Attempts,
         JobStep(c, n) \/ Abandon(c, n)
  PROVE  DisciplineInv'
<1> DEFINE Kept == Discipline(row'[c], pc'[c], run'[c], tx'[c], used'.abandons)
<1>1. Discipline(row[c], pc[c], run[c], tx[c], used.abandons)
  BY DEF DisciplineInv, DisciplineOf
<1>2. PlaceTypes(row[c], pc[c], run[c], tx[c], used.abandons)
  BY PlaceTypesOf
<1>3. /\ row[c] \in Rows /\ row \in [Candidates -> Rows]
      /\ pc \in [Candidates -> [Attempts -> Places]] /\ used.abandons \in Nat
      /\ run \in [Candidates -> [Attempts -> Runs]]
      /\ tx \in [Candidates -> [Attempts -> Txs \cup {NoTx}]]
      /\ used \in [abandons : Nat, lostAcks : Nat, sweeps : Nat]
  BY DEF TypeOK
<1>4. CASE RejectBeforeFetch(c, n)
  <2>1. /\ pc'[c] = [pc[c] EXCEPT ![n] = "done"] /\ pc[c][n] = "claimed"
        /\ row'[c].state = "rejected" /\ row'[c].attempts = row[c].attempts
        /\ used' = used
    BY <1>3, <1>4 DEF RejectBeforeFetch, Rows
  <2>2. pc[c][n] \notin Idle
    BY <2>1 DEF Idle
  <2>3. Kept
    BY <1>1, <1>2, <2>1, <2>2, EndKeeps
  <2> QED
    BY <2>1, <2>3, JobFrame, OneCandidate
<1>5. CASE StartFetch(c, n)
  <2>1. /\ pc'[c] = [pc[c] EXCEPT ![n] = "started"] /\ pc[c][n] = "claimed"
        /\ row'[c].state = row[c].state /\ row'[c].lease = row[c].lease
        /\ row'[c].attempts = row[c].attempts /\ row'[c].stage = "fetching"
        /\ tx' = tx /\ used' = used
    BY <1>3, <1>5 DEF StartFetch, Rows
  <2>2. pc[c][n] \in Working /\ "started" \in Working
    BY <2>1 DEF Working, StageAfter
  <2>3. Kept
    BY <1>1, <1>2, <2>1, <2>2, WorkKeeps
  <2> QED
    BY <2>1, <2>3, JobFrame, OneCandidate
<1>6. CASE Advance(c, n)
  <2>1. /\ pc'[c] = [pc[c] EXCEPT ![n] = StageAfter[pc[c][n]]]
        /\ pc[c][n] \in DOMAIN StageAfter
        /\ row'[c].state = row[c].state /\ row'[c].lease = row[c].lease
        /\ row'[c].attempts = row[c].attempts /\ row'[c].stage = StageAfter[pc[c][n]]
        /\ tx' = tx /\ used' = used
    BY <1>3, <1>6 DEF Advance, Rows
  <2>2. /\ pc[c][n] \in Working /\ StageAfter[pc[c][n]] \in Working
        /\ StageAfter[pc[c][n]] # "committing" /\ StageAfter[pc[c][n]] # "completed"
    BY <2>1, PlacesSplit
  <2>3. Kept
    BY <1>1, <1>2, <2>1, <2>2, WorkKeeps
  <2> QED
    BY <2>1, <2>3, JobFrame, OneCandidate
<1>7. CASE Raise(c, n)
  <2>1. PICK w \in {"failing", "failing_fatal"} : pc' = [pc EXCEPT ![c][n] = w]
    BY <1>7 DEF Raise
  <2>2. pc'[c] = [pc[c] EXCEPT ![n] = w] /\ UNCHANGED <<row, run, tx, used>>
    BY <1>3, <1>7, <2>1 DEF Raise
  <2>3. pc[c][n] \notin Idle
    BY <1>7, PlacesSplit DEF Raise, Idle
  <2>4. Discipline(row[c], [pc[c] EXCEPT ![n] = w], run[c], tx[c], used.abandons)
    BY <1>1, <1>2, <2>3, RaiseKeeps
  <2>5. Kept
    BY <2>2, <2>4
  <2> QED
    BY <2>2, <2>5, JobFrame, OneCandidate
<1>8. CASE ReadForCommit(c, n)
  <2>1. PICK x \in Contents, e \in EventChoices(c) :
          tx' = [tx EXCEPT ![c][n] =
                   [state |-> row[c].state, stage |-> row[c].stage, lease |-> row[c].lease,
                    event |-> event[c], known |-> versions[c], decided |-> e,
                    content |-> x]]
    BY <1>8 DEF ReadForCommit
  <2>2. tx'[c][n].state = row[c].state /\ tx'[c][n].stage = row[c].stage
    BY <1>3, <2>1
  <2>3. /\ pc'[c] = [pc[c] EXCEPT ![n] = "committing"] /\ pc[c][n] = "persisting"
        /\ UNCHANGED <<row, run, used>>
    BY <1>3, <1>8 DEF ReadForCommit
  <2>4. pc[c][n] \in Working
    BY <2>3 DEF Working
  <2>5. Kept
    BY <1>1, <1>2, <2>2, <2>3, <2>4, ReadKeeps
  <2> QED
    BY <2>3, <2>5, JobFrame, OneCandidate
<1>9. CASE CommitSuccess(c, n)
  <2>1. Commit(c, n, TRUE) /\ used' = used /\ pc[c][n] = "committing"
    BY <1>9 DEF CommitSuccess, Commit
  <2>2. pc[c][n] \notin Idle
    BY <2>1 DEF Idle
  <2>3. /\ row'[c].state = "processed" /\ row'[c].stage = "completed"
        /\ row'[c].attempts = row[c].attempts /\ run'[c][n] = "succeeded"
        /\ pc'[c] = [pc[c] EXCEPT ![n] = "done"]
    BY <2>1, CommitVerdict
  <2>4. Kept
    BY <1>1, <1>2, <2>1, <2>2, <2>3, EndKeeps
  <2> QED
    BY <1>9, <2>1, <2>4, JobFrame, OneCandidate
<1>10. CASE CommitUnacknowledged(c, n)
  <2>1. Commit(c, n, FALSE) /\ used'.abandons = used.abandons /\ pc[c][n] = "committing"
    BY <1>3, <1>10 DEF CommitUnacknowledged, Commit
  <2>2. pc[c][n] \notin Idle
    BY <2>1 DEF Idle
  <2>3. /\ row'[c].state = "processed" /\ row'[c].stage = "completed"
        /\ row'[c].attempts = row[c].attempts /\ run'[c][n] = "succeeded"
        /\ pc'[c] = [pc[c] EXCEPT ![n] = "failing"]
    BY <2>1, CommitVerdict
  <2>4. Kept
    BY <1>1, <1>2, <2>1, <2>2, <2>3, UnacknowledgedKeeps
  <2> QED
    BY <1>10, <2>1, <2>4, JobFrame, OneCandidate
<1>11. CASE CommitFails(c, n)
  <2>1. /\ pc'[c] = [pc[c] EXCEPT ![n] = "failing"] /\ pc[c][n] = "committing"
        /\ UNCHANGED <<row, run, used>>
    BY <1>3, <1>11 DEF CommitFails
  <2>2. pc[c][n] \notin Idle
    BY <2>1 DEF Idle
  <2>3. Discipline(row[c], [pc[c] EXCEPT ![n] = "failing"], run[c], tx'[c], used.abandons)
    BY <1>1, <1>2, <2>2, RaiseKeeps
  <2>4. Kept
    BY <2>1, <2>3
  <2> QED
    BY <2>1, <2>4, JobFrame, OneCandidate
<1>12. CASE RecordFailure(c, n)
  <2>1. /\ pc'[c] = [pc[c] EXCEPT ![n] = "done"]
        /\ pc[c][n] \in {"failing", "failing_fatal"}
        /\ row'[c].state = (IF GivesUp(c, n) THEN "failed" ELSE "retry")
        /\ row'[c].stage = (IF GivesUp(c, n) THEN "permanent_failure"
                                             ELSE "retryable_failure")
        /\ row'[c].attempts = row[c].attempts
        /\ run'[c][n] = "failed" /\ used' = used
    BY <1>3, <1>12 DEF RecordFailure, Rows
  <2>2. pc[c][n] \notin Idle
    BY <2>1, PlacesSplit
  <2>3. n \in Nat /\ MaxAttempts \in Nat /\ (~GivesUp(c, n) => n < MaxAttempts)
    BY BoundAssumption DEF GivesUp, Attempts
  <2>4. Kept
    BY <1>1, <1>2, <2>1, <2>2, <2>3, EndKeeps
  <2> QED
    BY <1>12, <2>1, <2>4, JobFrame, OneCandidate
<1>13. CASE Abandon(c, n)
  <2>1. /\ pc'[c] = [pc[c] EXCEPT ![n] = "gone"]
        /\ used'.abandons = used.abandons + 1
        /\ UNCHANGED <<row, run>>
    BY <1>3, <1>13 DEF Abandon
  <2>2. pc[c][n] \notin Idle
    BY <1>13 DEF Abandon, InFlight, Idle
  <2>3. Kept
    BY <1>1, <1>2, <2>1, <2>2, AbandonKeeps
  <2> QED
    BY <1>13, <2>1, <2>3, JobFrame, OneCandidate
<1> QED
  BY <1>4, <1>5, <1>6, <1>7, <1>8, <1>9, <1>10, <1>11, <1>12, <1>13 DEF JobStep

LEMMA SweepStepKeeps ==
  ASSUME TypeOK, DisciplineInv, SweepScan \/ SweepCommit
  PROVE  DisciplineInv'
<1>1. CASE SweepScan
  <2>1. UNCHANGED <<row, pc, run, tx>> /\ used'.abandons = used.abandons
    BY <1>1 DEF SweepScan, TypeOK
  <2> QED
    BY <2>1 DEF DisciplineInv, DisciplineOf
<1>2. CASE SweepCommit
  <2> SUFFICES ASSUME NEW c \in Candidates PROVE DisciplineOf(c)'
    BY DEF DisciplineInv
  <2>1. UNCHANGED <<pc, run, tx, used>>
    BY <1>2 DEF SweepCommit
  <2>2. Discipline(row[c], pc[c], run[c], tx[c], used.abandons)
    BY DEF DisciplineInv, DisciplineOf
  <2>3. PICK verdict \in {[state |-> "failed",   stage |-> "permanent_failure"],
                          [state |-> "rejected", stage |-> "rejected"]} :
          row' = [d \in Candidates |->
                    IF d \in sweep
                    THEN [row[d] EXCEPT !.state = verdict.state, !.stage = verdict.stage,
                                        !.lease = "none"]
                    ELSE row[d]]
    BY <1>2 DEF SweepCommit
  <2>4. CASE c \in sweep
    <3>1. row'[c].attempts = row[c].attempts /\ row'[c].state = verdict.state
          /\ row'[c].stage = verdict.stage
      BY <2>3, <2>4 DEF TypeOK, Rows
    <3> QED
      BY <2>1, <2>2, <3>1, SweepKeeps DEF DisciplineOf
  <2>5. CASE c \notin sweep
    BY <2>1, <2>2, <2>3, <2>5 DEF DisciplineOf
  <2> QED
    BY <2>4, <2>5
<1> QED
  BY <1>1, <1>2

LEMMA DisciplineStep ==
  ASSUME ~Overrun, TypeOK, DisciplineInv, [Next]_vars
  PROVE  DisciplineInv'
<1>1. CASE Next
  BY <1>1, RowStepKeeps, JobStepKeeps, SweepStepKeeps DEF Next
<1>2. CASE UNCHANGED vars
  BY <1>2 DEF vars, DisciplineInv, DisciplineOf
<1> QED
  BY <1>1, <1>2

----------------------------------------------------------------------------
(* The theorems *)

\* While leases outlive jobs, a job in flight keeps its candidate to itself.
THEOREM Disciplined ==
  ASSUME ~Overrun PROVE Spec => []DisciplineInv
<1>1. TypeOK /\ DisciplineInv /\ [Next]_vars => DisciplineInv'
  BY DisciplineStep
<1> QED
  BY <1>1, DisciplineInit, TypeCorrect, PTL DEF Spec

\* complete_success, complete_failure and update_processing_stage write the row without
\* asking whose lease it holds; when leases outlive jobs, it is always the writer's own.
THEOREM AlwaysOneJobPerCandidate ==
  ASSUME ~Overrun PROVE Spec => []OneJobPerCandidate
<1>1. DisciplineInv => OneJobPerCandidate
  BY DEF DisciplineInv, DisciplineOf, Discipline, OneJobPerCandidate, InFlight, Idle
<1> QED
  BY <1>1, Disciplined, PTL

\* lease_due_candidates finds a leased row again by its expiry, which is never NULL.
THEOREM LeasedAlwaysRecoverable ==
  ASSUME ~Overrun PROVE Spec => []LeasedIsRecoverable
<1>1. DisciplineInv => LeasedIsRecoverable
  BY DEF DisciplineInv, DisciplineOf, Discipline, LeasedIsRecoverable
<1> QED
  BY <1>1, Disciplined, PTL

\* _record_failure stops the retries at MaxAttempts; only jobs that end without
\* reaching it add leases beyond that.
THEOREM AttemptsAlwaysAccounted ==
  ASSUME ~Overrun PROVE Spec => []AttemptsAccounted
<1>1. DisciplineInv => AttemptsAccounted
  BY DEF DisciplineInv, DisciplineOf, Discipline, AttemptsAccounted
<1> QED
  BY <1>1, Disciplined, PTL

\* What complete_success and complete_failure write on the row agrees with the run
\* of the last lease.
THEOREM VerdictAlwaysLastJobs ==
  ASSUME ~Overrun PROVE Spec => []VerdictIsLastJobs
<1>1. DisciplineInv => VerdictIsLastJobs
  BY DEF DisciplineInv, DisciplineOf, Discipline, VerdictIsLastJobs
<1> QED
  BY <1>1, Disciplined, PTL
=============================================================================
