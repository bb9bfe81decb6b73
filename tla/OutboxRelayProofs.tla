-------------------------- MODULE OutboxRelayProofs --------------------------
(***************************************************************************)
(* Theorems about OutboxRelay, for every set of messages and relays and any  *)
(* number of faults.  The invariant is that rows in a batch are pending, in   *)
(* one batch only, and older than whatever else their relay could have taken. *)
(***************************************************************************)
EXTENDS OutboxRelay, FiniteSetTheorems, TLAPS

\* Locks belong to open transactions, and to unpublished rows.
LocksHeld ==
  \A r \in Relays :
    /\ loop[r] # "open" => batch[r] = {}
    /\ \A m \in batch[r] : outbox[m] = "pending"

\* SKIP LOCKED: no row is in two batches.
Exclusive == \A r, q \in Relays : r # q => batch[r] \cap batch[q] = {}

\* What a batch passes over, its relay could not have taken.
OldestTaken ==
  \A r \in Relays : \A n \in batch[r], m \in Messages :
    m < n /\ outbox[m] = "pending" /\ m \notin batch[r] => m \in late[r]

IInv ==
  /\ TypeOK
  /\ LocksHeld
  /\ Exclusive
  /\ OldestTaken
  /\ PublishedIsRecorded

----------------------------------------------------------------------------

\* What the locking query takes is free, and nothing free that is older is left.
LEMMA QueryTakesOldest ==
  ASSUME MessagesAssumption, BatchAssumption
  PROVE  /\ OldestFree \subseteq Free
         /\ Free \subseteq Messages
         /\ \A n \in OldestFree, m \in Free : m < n => m \in OldestFree
<1>1. Free \subseteq Messages /\ OldestFree \subseteq Free
  BY DEF Free, Pending, OldestFree
<1>2. ASSUME NEW n \in OldestFree, NEW m \in Free, m < n
      PROVE  m \in OldestFree
  <2> DEFINE Below(x) == {k \in Free : k < x}
  <2>1. m \in Nat /\ n \in Nat /\ \A k \in Free : k \in Nat
    BY <1>1 DEF MessagesAssumption
  <2>2. Below(m) \subseteq Below(n)
    <3> SUFFICES ASSUME NEW k \in Free, k < m PROVE k < n
      OBVIOUS
    <3>1. k \in Nat
      BY <2>1
    <3> QED BY <1>2, <2>1, <3>1
  <2>3. IsFiniteSet(Below(n))
    BY <1>1, FS_Subset DEF MessagesAssumption
  <2>4. /\ Cardinality(Below(m)) \in Nat
        /\ Cardinality(Below(n)) \in Nat
        /\ Cardinality(Below(m)) <= Cardinality(Below(n))
    BY <2>2, <2>3, FS_Subset, FS_CardinalityType
  <2>5. Cardinality(Below(n)) < BatchSize
    BY <1>2 DEF OldestFree
  <2>6. Cardinality(Below(m)) < BatchSize
    BY <2>4, <2>5 DEF BatchAssumption
  <2> QED
    BY <1>2, <2>6 DEF OldestFree
<1> QED
  BY <1>1, <1>2

\* The initial state satisfies the invariant.
LEMMA InitEstablishes ==
  ASSUME BatchAssumption, Init PROVE IInv
BY DEF Init, IInv, TypeOK, Rows, Loops, LocksHeld, Exclusive, OldestTaken,
       PublishedIsRecorded, BatchAssumption

----------------------------------------------------------------------------
(* One lemma per action *)

\* A writer only adds rows, and tells the open transactions' history of them.
LEMMA WritePreserves ==
  ASSUME IInv, NEW S \in SUBSET Messages, Write(S) PROVE IInv'
<1> USE DEF IInv, Write, TypeOK, Rows, Missed
<1>1. TypeOK'
  BY DEF Loops
<1>2. LocksHeld'
  BY DEF LocksHeld
<1>3. Exclusive'
  BY DEF Exclusive
<1>4. OldestTaken'
  <2> SUFFICES ASSUME NEW r \in Relays, NEW n \in batch[r], NEW m \in Messages,
                      m < n, outbox'[m] = "pending", m \notin batch[r]
               PROVE  m \in late'[r]
    BY DEF OldestTaken
  <2>1. loop[r] = "open"
    BY DEF LocksHeld
  <2>2. CASE m \in S
    <3>1. r # NoRelay \/ r = NoRelay
      OBVIOUS
    <3> QED BY <2>1, <2>2, RelaysAssumption
  <2>3. CASE m \notin S
    BY <2>1, <2>3, RelaysAssumption DEF OldestTaken
  <2> QED BY <2>2, <2>3
<1>5. PublishedIsRecorded'
  BY DEF PublishedIsRecorded
<1> QED BY <1>1, <1>2, <1>3, <1>4, <1>5

\* A claim takes the oldest free rows; the others are locked, hence late.
LEMMA ClaimPreserves ==
  ASSUME MessagesAssumption, BatchAssumption, IInv, NEW r \in Relays, Claim(r)
  PROVE  IInv'
<1> USE DEF IInv, Claim, TypeOK
<1>1. TypeOK'
  <2>1. OldestFree \subseteq Messages
    BY QueryTakesOldest
  <2>2. Locked \subseteq Messages
    BY DEF Locked
  <2> QED BY <2>1, <2>2 DEF Rows, Loops
<1>2. /\ \A m \in OldestFree : outbox[m] = "pending" /\ m \notin Locked
      /\ \A m \in Messages \ OldestFree, n \in OldestFree :
           m < n /\ outbox[m] = "pending" => m \in Locked
  BY QueryTakesOldest DEF Free, Pending
<1>3. LocksHeld'
  BY <1>2 DEF LocksHeld
<1>4. Exclusive'
  BY <1>2 DEF Exclusive, Locked
<1>5. OldestTaken'
  <2> SUFFICES ASSUME NEW q \in Relays, NEW n \in batch'[q], NEW m \in Messages,
                      m < n, outbox'[m] = "pending", m \notin batch'[q]
               PROVE  m \in late'[q]
    BY DEF OldestTaken
  <2>1. CASE q = r
    BY <1>2, <2>1
  <2>2. CASE q # r
    BY <2>2 DEF OldestTaken
  <2> QED BY <2>1, <2>2
<1>6. PublishedIsRecorded'
  BY DEF PublishedIsRecorded
<1> QED BY <1>1, <1>3, <1>4, <1>5, <1>6

\* The end of a committed transaction of r, acknowledged or not.
PublishStep(r) ==
  /\ loop[r] = "open"
  /\ Published(r)
  /\ batch' = [batch EXCEPT ![r] = {}]
  /\ loop'[r] \in {"querying", "backing_off"}
  /\ \A q \in Relays \ {r} : loop'[q] = loop[q]
  /\ late' = [late EXCEPT ![r] = {}]

\* Both ways to commit are such a step.
LEMMA CommitsPublish ==
  ASSUME TypeOK, BatchAssumption, NEW r \in Relays, Commit(r) \/ CommitUnacknowledged(r)
  PROVE  PublishStep(r) /\ TypeOK'
<1>1. CASE Commit(r)
  BY <1>1 DEF Commit, Ended, Published, PublishStep, TypeOK, Rows, Loops
<1>2. CASE CommitUnacknowledged(r)
  <2>1. faults + 1 \in 0..MaxFaults
    BY <1>2 DEF CommitUnacknowledged, TypeOK, BatchAssumption
  <2> QED
    BY <1>2, <2>1
       DEF CommitUnacknowledged, Ended, Published, PublishStep, TypeOK, Rows, Loops
<1> QED BY <1>1, <1>2

\* A commit publishes and records its batch, which nobody else holds.
LEMMA PublishPreserves ==
  ASSUME IInv, NEW r \in Relays, PublishStep(r), TypeOK' PROVE IInv'
<1> USE DEF IInv, PublishStep, Published, TypeOK
<1>1. LocksHeld'
  <2> SUFFICES ASSUME NEW q \in Relays
               PROVE  /\ loop'[q] # "open" => batch'[q] = {}
                      /\ \A m \in batch'[q] : outbox'[m] = "pending"
    BY DEF LocksHeld
  <2>1. CASE q = r
    BY <2>1
  <2>2. CASE q # r
    BY <2>2 DEF LocksHeld, Exclusive
  <2> QED BY <2>1, <2>2
<1>2. Exclusive'
  BY DEF Exclusive
<1>3. OldestTaken'
  <2> SUFFICES ASSUME NEW q \in Relays, NEW n \in batch'[q], NEW m \in Messages,
                      m < n, outbox'[m] = "pending", m \notin batch'[q]
               PROVE  m \in late'[q]
    BY DEF OldestTaken
  <2>1. q # r /\ outbox[m] = "pending"
    OBVIOUS
  <2> QED BY <2>1 DEF OldestTaken
<1>4. PublishedIsRecorded'
  BY DEF PublishedIsRecorded, LocksHeld
<1> QED BY <1>1, <1>2, <1>3, <1>4

\* A rollback, of a failure or of a crash, gives the batch of r back.
RollBack(r) ==
  /\ batch' = [batch EXCEPT ![r] = {}]
  /\ loop'[r] # "open"
  /\ \A q \in Relays \ {r} : loop'[q] = loop[q]
  /\ late' = [Missed(r, batch[r]) EXCEPT ![r] = {}]
  /\ UNCHANGED <<outbox, inbox, stamp>>

\* Failures and crashes roll back.
LEMMA FaultsRollBack ==
  ASSUME TypeOK, BatchAssumption, NEW r \in Relays, Fail(r) \/ Crash(r)
  PROVE  RollBack(r) /\ TypeOK'
<1>1. faults + 1 \in 0..MaxFaults
  BY DEF Fail, Crash, TypeOK, BatchAssumption
<1>2. Missed(r, batch[r]) \in [Relays -> SUBSET Messages]
  BY DEF Missed, TypeOK
<1>3. CASE Fail(r)
  BY <1>1, <1>2, <1>3 DEF Fail, Ended, RollBack, TypeOK, Rows, Loops
<1>4. CASE Crash(r)
  BY <1>1, <1>2, <1>4 DEF Crash, Ended, RollBack, TypeOK, Rows, Loops
<1> QED BY <1>3, <1>4

\* A rollback leaves the tables as they were, and what it unlocks counts as late.
LEMMA RollBackPreserves ==
  ASSUME IInv, NEW r \in Relays, RollBack(r), TypeOK' PROVE IInv'
<1> USE DEF IInv, RollBack, TypeOK
<1>1. LocksHeld'
  BY DEF LocksHeld
<1>2. Exclusive'
  BY DEF Exclusive
<1>3. OldestTaken'
  <2> SUFFICES ASSUME NEW q \in Relays, NEW n \in batch'[q], NEW m \in Messages,
                      m < n, outbox'[m] = "pending", m \notin batch'[q]
               PROVE  m \in late'[q]
    BY DEF OldestTaken
  <2>1. q # r /\ m \in late[q]
    BY DEF OldestTaken
  <2> QED BY <2>1 DEF Missed
<1>4. PublishedIsRecorded'
  BY DEF PublishedIsRecorded
<1> QED BY <1>1, <1>2, <1>3, <1>4

\* The other steps of the loop touch neither rows nor locks.
LEMMA LoopPreserves ==
  ASSUME IInv, NEW r \in Relays, FindNothing(r) \/ Wake(r) \/ Restart(r) PROVE IInv'
<1> USE DEF IInv, FindNothing, Wake, Restart, TypeOK
<1>1. TypeOK'
  BY DEF Rows, Loops
<1>2. LocksHeld'
  BY DEF LocksHeld
<1>3. Exclusive' /\ OldestTaken' /\ PublishedIsRecorded'
  BY DEF Exclusive, OldestTaken, PublishedIsRecorded
<1> QED BY <1>1, <1>2, <1>3

\* Every step preserves the invariant.
LEMMA NextPreserves ==
  ASSUME MessagesAssumption, BatchAssumption, IInv, [Next]_vars PROVE IInv'
<1>1. CASE UNCHANGED vars
  BY <1>1 DEF IInv, vars, TypeOK, LocksHeld, Exclusive, OldestTaken, PublishedIsRecorded
<1>2. ASSUME NEW S \in SUBSET Messages, Write(S) PROVE IInv'
  BY <1>2, WritePreserves
<1>3. ASSUME NEW r \in Relays, Relay(r) PROVE IInv'
  <2>1. TypeOK
    BY DEF IInv
  <2>2. CASE Claim(r)
    BY <2>2, ClaimPreserves
  <2>3. CASE Commit(r) \/ CommitUnacknowledged(r)
    BY <2>1, <2>3, CommitsPublish, PublishPreserves, BatchAssumption
  <2>4. CASE Fail(r) \/ Crash(r)
    BY <2>1, <2>4, FaultsRollBack, RollBackPreserves
  <2>5. CASE FindNothing(r) \/ Wake(r) \/ Restart(r)
    BY <2>5, LoopPreserves
  <2> QED BY <1>3, <2>2, <2>3, <2>4, <2>5 DEF Relay
<1> QED BY <1>1, <1>2, <1>3 DEF Next

\* The invariant holds in every reachable state.
THEOREM Invariant == Spec => []IInv
<1>1. Init => IInv
  BY InitEstablishes, BatchAssumption
<1>2. IInv /\ [Next]_vars => IInv'
  BY NextPreserves, MessagesAssumption, BatchAssumption
<1> QED BY <1>1, <1>2, PTL DEF Spec

----------------------------------------------------------------------------
(* What follows for readers of the tables *)

\* The tables and the relays' control state always have their types.
THEOREM TypeCorrect == Spec => []TypeOK
<1>1. IInv => TypeOK
  BY DEF IInv
<1> QED BY <1>1, Invariant, PTL

\* A message is recorded exactly once if it is published, and not before.
THEOREM AlwaysRecorded == Spec => []PublishedIsRecorded
<1>1. IInv => PublishedIsRecorded
  BY DEF IInv
<1> QED BY <1>1, Invariant, PTL

\* Only a commit publishes, and what it publishes was in its batch.
LEMMA OnlyCommitsPublish ==
  ASSUME IInv, [Next]_vars, NEW m \in Messages, outbox'[m] # outbox[m]
  PROVE  \/ outbox[m] = "absent" /\ outbox'[m] = "pending"
         \/ \E r \in Relays : PublishStep(r) /\ m \in batch[r]
<1>1. TypeOK
  BY DEF IInv
<1>2. CASE UNCHANGED vars
  BY <1>2 DEF vars
<1>3. ASSUME NEW S \in SUBSET Messages, Write(S)
      PROVE  outbox[m] = "absent" /\ outbox'[m] = "pending"
  BY <1>1, <1>3 DEF Write, TypeOK
<1>4. ASSUME NEW r \in Relays, Relay(r)
      PROVE  PublishStep(r) /\ m \in batch[r]
  <2>1. Commit(r) \/ CommitUnacknowledged(r)
    BY <1>4 DEF Relay, Claim, FindNothing, Fail, Crash, Wake, Restart
  <2>2. PublishStep(r)
    BY <1>1, <2>1, CommitsPublish, BatchAssumption
  <2> QED BY <1>1, <2>2 DEF PublishStep, Published, TypeOK
<1> QED BY <1>2, <1>3, <1>4 DEF Next

\* A stamp changes only with the row it stands in, and only in a commit.
LEMMA StampedWithRow ==
  ASSUME IInv, [Next]_vars, NEW m \in Messages, outbox[m] = "published"
  PROVE  outbox'[m] = "published" /\ stamp'[m] = stamp[m]
<1>1. TypeOK /\ LocksHeld
  BY DEF IInv
<1>2. CASE UNCHANGED vars
  BY <1>2 DEF vars
<1>3. ASSUME NEW S \in SUBSET Messages, Write(S)
      PROVE  outbox'[m] = "published" /\ stamp'[m] = stamp[m]
  BY <1>1, <1>3 DEF Write, TypeOK
<1>4. ASSUME NEW r \in Relays, Relay(r)
      PROVE  outbox'[m] = "published" /\ stamp'[m] = stamp[m]
  <2>1. m \notin batch[r]
    BY <1>1 DEF LocksHeld
  <2>2. CASE Commit(r) \/ CommitUnacknowledged(r)
    <3>1. Published(r)
      BY <2>2 DEF Commit, CommitUnacknowledged
    <3> QED BY <1>1, <2>1, <3>1 DEF Published, TypeOK
  <2>3. CASE Claim(r) \/ FindNothing(r) \/ Fail(r) \/ Crash(r) \/ Wake(r) \/ Restart(r)
    BY <2>3 DEF Claim, FindNothing, Fail, Crash, Wake, Restart
  <2> QED BY <1>4, <2>2, <2>3 DEF Relay
<1> QED BY <1>2, <1>3, <1>4 DEF Next

\* One relay's transaction publishes a message, once and for all.
THEOREM OncePublished == Spec => PublishedOnce
<1>1. IInv /\ [Next]_vars
      => [\A m \in Messages :
            outbox[m] = "published" => outbox'[m] = "published" /\ stamp'[m] = stamp[m]]_vars
  BY StampedWithRow
<1> QED BY <1>1, Invariant, PTL DEF Spec, PublishedOnce

\* Messages are published in their order, but for what a relay could not see.
THEOREM OvertakesLateOnly == Spec => OvertakesOnlyLate
<1> DEFINE InOrder ==
      \A r \in Relays : \A n \in batch[r], m \in Messages :
        /\ outbox[n] = "pending"
        /\ outbox'[n] = "published"
        /\ m < n
        /\ outbox'[m] = "pending"
        => m \in late[r]
<1>1. ASSUME IInv, [Next]_vars, ~ UNCHANGED vars PROVE InOrder
  <2> SUFFICES ASSUME NEW r \in Relays, NEW n \in batch[r], NEW m \in Messages,
                      outbox[n] = "pending", outbox'[n] = "published",
                      m < n, outbox'[m] = "pending"
               PROVE  m \in late[r]
    OBVIOUS
  <2>1. TypeOK /\ LocksHeld /\ Exclusive /\ OldestTaken
    BY <1>1 DEF IInv
  <2>2. n \in Messages
    BY <2>1 DEF TypeOK
  <2>3. PICK q \in Relays : PublishStep(q) /\ n \in batch[q]
    BY <1>1, <2>2, OnlyCommitsPublish
  <2>4. q = r
    BY <2>1, <2>3 DEF Exclusive
  <2>5. outbox[m] = "pending" /\ m \notin batch[r]
    BY <2>1, <2>3, <2>4 DEF PublishStep, Published, TypeOK
  <2> QED BY <2>1, <2>5 DEF OldestTaken
<1>2. IInv /\ [Next]_vars => [InOrder]_vars
  BY <1>1
<1> QED BY <1>2, Invariant, PTL DEF Spec, OvertakesOnlyLate

----------------------------------------------------------------------------
(* The refinement *)

Delivered == {m \in Messages : outbox[m] = "published" /\ inbox[m] = 1}

\* Under the mapping, a step is a step of OutboxDelivery or a stutter.
LEMMA StepRefines ==
  ASSUME IInv, [Next]_vars PROVE [Delivery!Next]_(Delivery!vars)
<1>1. TypeOK /\ LocksHeld /\ PublishedIsRecorded
  BY DEF IInv
<1>2. CASE UNCHANGED vars
  BY <1>2 DEF vars, Delivery!vars, Pending
<1>3. ASSUME NEW S \in SUBSET Messages, Write(S) PROVE Delivery!Next
  <2>1. Pending' = Pending \cup S /\ Delivered' = Delivered
    BY <1>1, <1>3 DEF Write, Pending, Delivered, TypeOK
  <2>2. S # {} /\ S \cap (Pending \cup Delivered) = {}
    BY <1>3 DEF Write, Pending, Delivered
  <2> QED BY <2>1, <2>2 DEF Delivery!Next, Delivery!Announce, Delivered
<1>4. ASSUME NEW r \in Relays, PublishStep(r) PROVE [Delivery!Next]_(Delivery!vars)
  <2>1. batch[r] \subseteq Messages /\ batch[r] \subseteq Pending
    BY <1>1 DEF TypeOK, LocksHeld, Pending
  <2>2. Pending' = Pending \ batch[r]
    BY <1>1, <1>4, <2>1 DEF PublishStep, Published, Pending, TypeOK
  <2>3. Delivered' = Delivered \cup batch[r]
    BY <1>1, <1>4, <2>1
       DEF PublishStep, Published, Pending, Delivered, TypeOK, PublishedIsRecorded
  <2>4. CASE batch[r] = {}
    BY <2>2, <2>3, <2>4 DEF Delivery!vars, Delivered
  <2>5. CASE batch[r] # {}
    BY <2>1, <2>2, <2>3, <2>5 DEF Delivery!Next, Delivery!Deliver, Delivered
  <2> QED BY <2>4, <2>5
<1>5. ASSUME NEW r \in Relays, Relay(r) PROVE [Delivery!Next]_(Delivery!vars)
  <2>1. CASE Commit(r) \/ CommitUnacknowledged(r)
    BY <1>1, <1>4, <2>1, CommitsPublish, BatchAssumption
  <2>2. CASE Claim(r) \/ FindNothing(r) \/ Fail(r) \/ Crash(r) \/ Wake(r) \/ Restart(r)
    <3>1. UNCHANGED <<outbox, inbox>>
      BY <2>2 DEF Claim, FindNothing, Fail, Crash, Wake, Restart
    <3> QED BY <3>1 DEF Delivery!vars, Pending
  <2> QED BY <1>5, <2>1, <2>2 DEF Relay
<1> QED BY <1>2, <1>3, <1>5 DEF Next

\* The relays implement OutboxDelivery.
THEOREM DeliveryImplemented == Spec => ImplementsDelivery
<1>1. Init => Delivery!Init
  BY DEF Init, Delivery!Init, Pending
<1>2. IInv /\ [Next]_vars => [Delivery!Next]_(Delivery!vars)
  BY StepRefines
<1> QED BY <1>1, <1>2, Invariant, PTL DEF Spec, ImplementsDelivery, Delivery!Spec
=============================================================================
