------------------------ MODULE ChannelPollingProofs ------------------------
(***************************************************************************)
(* Theorems about ChannelPolling, for any channels, documents, slots and     *)
(* bounds: types, the refinement of FrontierLedger, what a stored validator  *)
(* stands for when no document is longer than the cap, and mutual exclusion  *)
(* of polls when leases outlive them.                                        *)
(***************************************************************************)
EXTENDS ChannelPolling, TLAPS

Types ==
  /\ site \in [Channels -> Versions]
  /\ opened \subseteq Channels
  /\ channel \in [Channels -> Rows]
  /\ origin \in [URLs -> Channels \cup {Unknown}]
  /\ observed \subseteq Channels \X URLs
  /\ \A ch \in Channels : channel[ch].next = "null" => channel[ch].tag = 0
  /\ asked \subseteq opened
  /\ used \in [faults : Nat, abandons : Nat, lostAcks : Nat, requests : Nat, deletes : Nat]

\* What a poll relies on: its channel and its document are there, and an entry it has
\* looked up and found is still there when it commits.
PollOK(p) ==
  /\ p \in Polls
  /\ p.pos # 0
  /\ p.at = "idle" => p.channel = NoChannel
  /\ p.at # "idle" => p.channel \in opened
  /\ p.at \in {"scanning", "committing", "succeeding"} => p.version \in Versions
  /\ p.at = "committing" => p.pos \in DOMAIN Listing(p) /\ (p.fresh \/ Exists(p))

\* What is observed has been announced.
Announced ==
  \A ch \in Channels, u \in URLs : <<ch, u>> \in observed => Observed(ch, u) \in outbox

IInv ==
  /\ Types
  /\ poll \in [Slots -> Polls]
  /\ \A s \in Slots : PollOK(poll[s])
  /\ Announced

LEMMA InvariantTypes == IInv => TypeOK
BY DEF IInv, Types, PollOK, TypeOK

\* An entry of a document is a channel or a URL.
LEMMA EntryKind ==
  ASSUME EntryAssumption, IInv, NEW s \in Slots, poll[s].at = "committing"
  PROVE  Entry(poll[s]) \in (IF OfIndex(poll[s]) THEN Channels ELSE URLs)
<1>1. /\ poll[s].channel \in Channels /\ poll[s].version \in Versions
      /\ poll[s].pos \in DOMAIN Listing(poll[s])
  BY DEF IInv, Types, PollOK
<1>2. Listing(poll[s]) \in Seq(IF OfIndex(poll[s]) THEN Channels ELSE URLs)
  BY <1>1 DEF EntryAssumption, Listing, OfIndex
<1> QED BY <1>1, <1>2 DEF Entry

----------------------------------------------------------------------------
(* Steps that leave the tables alone *)

\* A slot turns to something else.
LEMMA Turn ==
  ASSUME IInv, NEW s \in Slots, NEW q, PollOK(q), poll' = [poll EXCEPT ![s] = q],
         UNCHANGED tables, Types'
  PROVE  IInv'
<1> USE DEF tables
<1>1. poll' \in [Slots -> Polls] /\ poll'[s] = q /\ \A t \in Slots \ {s} : poll'[t] = poll[t]
  BY DEF IInv, PollOK
<1>2. \A t \in Slots : PollOK(poll'[t])
  BY <1>1 DEF IInv
<1>3. \A t \in Slots : PollOK(poll[t])'
  BY <1>2 DEF PollOK, Listing, Exists, OfIndex, Entry
<1>4. Announced'
  BY DEF IInv, Announced
<1> QED BY <1>1, <1>3, <1>4 DEF IInv

\* No slot turns to anything.
LEMMA Stay ==
  ASSUME IInv, UNCHANGED poll, UNCHANGED tables, Types'
  PROVE  IInv'
BY DEF tables, IInv, PollOK, Listing, Exists, OfIndex, Entry, Announced

\* The tables and the rows of the channels stay.
LEMMA SameTypes ==
  ASSUME Types, UNCHANGED <<site, tables, channel>>, asked' \subseteq asked,
         used' \in [faults : Nat, abandons : Nat, lostAcks : Nat, requests : Nat, deletes : Nat]
  PROVE  Types'
BY DEF Types, tables

LEMMA PublishStep ==
  ASSUME LimitAssumption, IInv, NEW ch \in Channels, Publish(ch)
  PROVE  IInv'
<1>1. site' \in [Channels -> Versions]
  BY DEF Publish, IInv, Types, Versions, LimitAssumption
<1> QED BY <1>1, Stay DEF Publish, IInv, Types, tables

\* A row is rewritten, without taking back its schedule.
LEMMA RowStep ==
  ASSUME IInv, UNCHANGED <<site, tables, poll>>,
         asked' \subseteq opened,
         used' \in [faults : Nat, abandons : Nat, lostAcks : Nat, requests : Nat, deletes : Nat],
         channel' \in [Channels -> Rows],
         \A ch \in Channels :
           channel'[ch].next = "null" =>
             channel[ch].next = "null" /\ channel'[ch].tag = channel[ch].tag
  PROVE  IInv'
<1>1. Types'
  BY DEF IInv, Types, tables
<1> QED BY <1>1, Stay

LEMMA BecomesDueStep ==
  ASSUME IInv, NEW ch \in Channels, BecomesDue(ch)
  PROVE  IInv'
<1>1. channel' = [channel EXCEPT ![ch].next = "due"] /\ channel \in [Channels -> Rows]
  BY DEF BecomesDue, IInv, Types
<1>2. /\ channel' \in [Channels -> Rows]
      /\ \A d \in Channels : channel'[d].next = "null" =>
           channel[d].next = "null" /\ channel'[d].tag = channel[d].tag
  BY <1>1 DEF Rows
<1> QED BY <1>2, RowStep DEF BecomesDue, IInv, Types

LEMMA LeaseExpiresStep ==
  ASSUME IInv, NEW ch \in Channels, LeaseExpires(ch)
  PROVE  IInv'
<1>1. channel' = [channel EXCEPT ![ch].lease = "expired"] /\ channel \in [Channels -> Rows]
  BY DEF LeaseExpires, IInv, Types
<1>2. /\ channel' \in [Channels -> Rows]
      /\ \A d \in Channels : channel'[d].next = "null" =>
           channel[d].next = "null" /\ channel'[d].tag = channel[d].tag
  BY <1>1 DEF Rows
<1> QED BY <1>2, RowStep DEF LeaseExpires, IInv, Types

LEMMA ScheduleNowStep ==
  ASSUME IInv, NEW ch \in Channels, ScheduleNow(ch)
  PROVE  IInv'
<1>1. channel' = [channel EXCEPT ![ch].next = "due"] /\ channel \in [Channels -> Rows]
  BY DEF ScheduleNow, IInv, Types
<1>2. /\ channel' \in [Channels -> Rows]
      /\ \A d \in Channels : channel'[d].next = "null" =>
           channel[d].next = "null" /\ channel'[d].tag = channel[d].tag
  BY <1>1 DEF Rows
<1>3. asked' \subseteq opened
  BY DEF ScheduleNow, IInv, Types
<1>4. used' \in [faults : Nat, abandons : Nat, lostAcks : Nat, requests : Nat, deletes : Nat]
  BY DEF ScheduleNow, IInv, Types
<1> QED BY <1>2, <1>3, <1>4, RowStep DEF ScheduleNow

LEMMA DeletePublisherStep ==
  ASSUME IInv, DeletePublisher
  PROVE  IInv'
<1>1. /\ channel' = [ch \in Channels |->
            IF ch \in opened THEN [channel[ch] EXCEPT !.active = FALSE] ELSE channel[ch]]
      /\ channel \in [Channels -> Rows]
  BY DEF DeletePublisher, IInv, Types
<1>2. /\ channel' \in [Channels -> Rows]
      /\ \A d \in Channels : channel'[d].next = "null" =>
           channel[d].next = "null" /\ channel'[d].tag = channel[d].tag
  BY <1>1 DEF Rows
<1>3. used' \in [faults : Nat, abandons : Nat, lostAcks : Nat, requests : Nat, deletes : Nat]
  BY DEF DeletePublisher, IInv, Types
<1> QED BY <1>2, <1>3, RowStep DEF DeletePublisher, IInv, Types

----------------------------------------------------------------------------
(* Leasing, fetching and scanning *)

LEMMA IdleOK == PollOK(Idle)
BY DEF PollOK, Idle, Polls, Places

LEMMA LeaseStep ==
  ASSUME IInv, NEW s \in Slots, NEW ch \in Channels, Lease(s, ch)
  PROVE  IInv'
<1> DEFINE q == [Idle EXCEPT !.at = "fetching", !.channel = ch, !.tag = channel[ch].tag]
<1>1. /\ channel' = [channel EXCEPT ![ch].lease = "live"] /\ channel \in [Channels -> Rows]
      /\ poll' = [poll EXCEPT ![s] = q] /\ ch \in opened
      /\ UNCHANGED <<site, asked, used>> /\ UNCHANGED tables
  BY DEF Lease, IInv, Types
<1>2. /\ channel' \in [Channels -> Rows]
      /\ \A d \in Channels : channel'[d].next = "null" =>
           channel[d].next = "null" /\ channel'[d].tag = channel[d].tag
  BY <1>1 DEF Rows
<1>3. Types'
  BY <1>1, <1>2 DEF IInv, Types, tables
<1>4. PollOK(q)
  <2>1. channel[ch].tag \in {0} \cup Versions /\ ch \in Channels
    BY <1>1 DEF Rows
  <2>2. q \in Polls /\ q.at = "fetching" /\ q.channel = ch /\ q.pos = Idle.pos
    BY <2>1, IdleOK DEF PollOK, Polls, Places
  <2> QED BY <1>1, <2>2, IdleOK DEF PollOK
<1> HIDE DEF q
<1> QED BY <1>1, <1>3, <1>4, Turn

LEMMA FetchNotModifiedStep ==
  ASSUME IInv, NEW s \in Slots, FetchNotModified(s)
  PROVE  IInv'
<1> DEFINE q == [poll[s] EXCEPT !.at = "unmodified"]
<1>1. /\ poll' = [poll EXCEPT ![s] = q] /\ poll[s].at = "fetching"
      /\ asked' \subseteq asked /\ UNCHANGED <<site, channel, used>> /\ UNCHANGED tables
  BY DEF FetchNotModified, IInv
<1>2. Types'
  BY <1>1, SameTypes DEF IInv, Types
<1>3. PollOK(q)
  BY <1>1 DEF IInv, PollOK, Polls, Places
<1> HIDE DEF q
<1> QED BY <1>1, <1>2, <1>3, Turn

LEMMA FetchDocumentStep ==
  ASSUME IInv, NEW s \in Slots, FetchDocument(s)
  PROVE  IInv'
<1> DEFINE q == [poll[s] EXCEPT !.at = "scanning", !.version = site[poll[s].channel]]
<1>1. /\ poll' = [poll EXCEPT ![s] = q] /\ poll[s].at = "fetching"
      /\ asked' \subseteq asked /\ UNCHANGED <<site, channel, used>> /\ UNCHANGED tables
  BY DEF FetchDocument, IInv
<1>2. Types'
  BY <1>1, SameTypes DEF IInv, Types
<1>3. site[poll[s].channel] \in Versions
  BY <1>1 DEF IInv, PollOK, Types
<1>4. PollOK(q)
  BY <1>1, <1>3 DEF IInv, PollOK, Polls, Places
<1> HIDE DEF q
<1> QED BY <1>1, <1>2, <1>4, Turn

\* A poll fails, or ends its scan.
LEMMA TurnTo ==
  ASSUME IInv, NEW s \in Slots, poll[s].at # "idle", NEW p \in {"failing", "succeeding"},
         poll' = [poll EXCEPT ![s].at = p], p = "succeeding" => poll[s].at = "scanning",
         UNCHANGED <<site, channel, asked>>, UNCHANGED tables,
         used' \in [faults : Nat, abandons : Nat, lostAcks : Nat, requests : Nat, deletes : Nat]
  PROVE  IInv'
<1> DEFINE q == [poll[s] EXCEPT !.at = p]
<1>1. poll' = [poll EXCEPT ![s] = q]
  BY DEF IInv
<1>2. Types'
  BY SameTypes DEF IInv, Types
<1>3. PollOK(q)
  BY DEF IInv, PollOK, Polls, Places
<1> HIDE DEF q
<1> QED BY <1>1, <1>2, <1>3, Turn

LEMMA RaiseStep ==
  ASSUME IInv, NEW s \in Slots, Raise(s)
  PROVE  IInv'
<1>1. used' \in [faults : Nat, abandons : Nat, lostAcks : Nat, requests : Nat, deletes : Nat]
  BY DEF Raise, IInv, Types
<1> QED BY <1>1, TurnTo DEF Raise

LEMMA RefuseEntryStep ==
  ASSUME IInv, NEW s \in Slots, RefuseEntry(s)
  PROVE  IInv'
BY TurnTo DEF RefuseEntry, IInv, Types

LEMMA EntryConflictsStep ==
  ASSUME IInv, NEW s \in Slots, EntryConflicts(s)
  PROVE  IInv'
BY TurnTo DEF EntryConflicts, IInv, Types

LEMMA ScanEndsStep ==
  ASSUME IInv, NEW s \in Slots, ScanEnds(s)
  PROVE  IInv'
BY TurnTo DEF ScanEnds, IInv, Types

LEMMA ReadEntryStep ==
  ASSUME EntryAssumption, IInv, NEW s \in Slots, ReadEntry(s)
  PROVE  IInv'
<1> DEFINE q == [poll[s] EXCEPT !.at = "committing", !.fresh = ~Exists(poll[s])]
<1>1. /\ poll' = [poll EXCEPT ![s] = q] /\ poll[s].at = "scanning"
      /\ poll[s].pos <= Len(Listing(poll[s]))
      /\ UNCHANGED <<site, channel, asked, used>> /\ UNCHANGED tables
  BY DEF ReadEntry, IInv
<1>2. Types'
  BY <1>1, SameTypes DEF IInv, Types
<1>3. poll[s] \in Polls /\ PollOK(poll[s])
  BY DEF IInv, PollOK
<1>4. q \in Polls
  <2>1. (~Exists(poll[s])) \in BOOLEAN
    BY DEF Exists
  <2> HIDE DEF q
  <2>2. q = [poll[s] EXCEPT !.at = "committing", !.fresh = ~Exists(poll[s])]
    BY DEF q
  <2> QED BY <1>3, <2>1, <2>2 DEF Polls, Places
<1>5. /\ q.channel = poll[s].channel /\ q.version = poll[s].version /\ q.pos = poll[s].pos
      /\ q.at = "committing" /\ q.fresh = ~Exists(poll[s])
  BY <1>3 DEF Polls
<1> HIDE DEF q
<1>6. Listing(q) = Listing(poll[s]) /\ Exists(q) = Exists(poll[s])
  BY <1>5 DEF Listing, Exists, Entry, OfIndex
<1>7. poll[s].pos \in DOMAIN Listing(poll[s])
  <2>1. Listing(poll[s]) \in Seq(IF poll[s].channel \in Indexes THEN Channels ELSE URLs)
    BY <1>1, <1>3 DEF EntryAssumption, Listing, PollOK, IInv, Types
  <2>2. poll[s].pos \in Nat /\ poll[s].pos # 0
    BY <1>3 DEF PollOK, Polls
  <2> QED BY <1>1, <2>1, <2>2
<1>8. PollOK(q)
  BY <1>1, <1>3, <1>4, <1>5, <1>6, <1>7 DEF PollOK
<1> QED BY <1>1, <1>2, <1>8, Turn

----------------------------------------------------------------------------
(* The ends of a poll *)

LEMMA FinishStep ==
  ASSUME IInv, NEW s \in Slots, poll[s].at # "idle", NEW tag \in {0} \cup Versions,
         Finish(s, tag)
  PROVE  IInv'
<1> DEFINE ch == poll[s].channel
<1>1. /\ channel' = [channel EXCEPT ![ch] = AfterPoll(@, tag)] /\ channel \in [Channels -> Rows]
      /\ poll' = [poll EXCEPT ![s] = Idle]
      /\ UNCHANGED <<site, asked, used>> /\ UNCHANGED tables
  BY DEF Finish, IInv, Types
<1>2. /\ channel' \in [Channels -> Rows]
      /\ \A d \in Channels : channel'[d].next = "null" =>
           channel[d].next = "null" /\ channel'[d].tag = channel[d].tag
  BY <1>1, ZenonT(60) DEF Rows, AfterPoll
<1>3. Types'
  BY <1>1, <1>2 DEF IInv, Types, tables
<1> QED BY <1>1, <1>3, IdleOK, Turn

LEMMA FinishesStep ==
  ASSUME IInv, NEW s \in Slots, FinishSucceeded(s) \/ FinishNotModified(s) \/ FinishFailed(s)
  PROVE  IInv'
<1>1. /\ poll[s].tag \in {0} \cup Versions /\ poll[s].version \in {0} \cup Versions
      /\ poll[s].at # "idle" /\ channel[poll[s].channel].tag \in {0} \cup Versions
  BY DEF IInv, PollOK, Polls, Types, Rows, FinishSucceeded, FinishNotModified, FinishFailed
<1> QED BY <1>1, FinishStep
        DEF FinishSucceeded, FinishNotModified, FinishFailed, TagAfterFailure

LEMMA AbandonStep ==
  ASSUME IInv, NEW s \in Slots, Abandon(s)
  PROVE  IInv'
<1>1. used' \in [faults : Nat, abandons : Nat, lostAcks : Nat, requests : Nat, deletes : Nat]
  BY DEF Abandon, IInv, Types
<1>2. Types'
  BY <1>1, SameTypes DEF Abandon, IInv, Types
<1> QED BY <1>2, IdleOK, Turn DEF Abandon

----------------------------------------------------------------------------
(* The transaction of an entry *)

\* The tables grow; what a poll has found in them stays.
Grows ==
  /\ opened \subseteq opened'
  /\ observed \subseteq observed'
  /\ outbox \subseteq outbox'
  /\ \A u \in URLs : origin[u] # Unknown => origin'[u] = origin[u]

LEMMA OthersStayOK ==
  ASSUME EntryAssumption, IInv, Grows, NEW t \in Slots, poll'[t] = poll[t]
  PROVE  PollOK(poll[t])'
<1>1. PollOK(poll[t])
  BY DEF IInv
<1>2. Listing(poll[t])' = Listing(poll[t]) /\ Entry(poll[t])' = Entry(poll[t])
  BY DEF Listing, Entry
<1>3. poll[t].at = "committing" => (Exists(poll[t]) => Exists(poll[t])')
  BY <1>2, EntryKind DEF Exists, OfIndex, Grows
<1> QED BY <1>1, <1>2, <1>3 DEF PollOK, Grows

\* What a commit writes: nothing of a document's entry that was there, or the entry.
LEMMA CommitWrites ==
  ASSUME ChannelAssumption, EntryAssumption, IInv, NEW s \in Slots,
         NEW acknowledged \in BOOLEAN, CommitEntry(s, acknowledged)
  PROVE  /\ Grows
         /\ OfIndex(poll[s]) =>
              /\ opened' = opened \cup {Entry(poll[s])}
              /\ UNCHANGED <<origin, observed>>
              /\ poll[s].fresh => Entry(poll[s]) \notin opened
              /\ ~poll[s].fresh => Entry(poll[s]) \in opened
         /\ ~OfIndex(poll[s]) =>
              /\ observed' = observed \cup {<<poll[s].channel, Entry(poll[s])>>}
              /\ UNCHANGED <<opened, channel>>
              /\ poll[s].fresh => /\ origin[Entry(poll[s])] = Unknown
                                  /\ origin' = [origin EXCEPT ![Entry(poll[s])] = poll[s].channel]
              /\ ~poll[s].fresh => origin[Entry(poll[s])] # Unknown /\ UNCHANGED origin
<1> DEFINE e == Entry(poll[s])
<1>1. /\ poll[s].at = "committing" /\ ~(poll[s].fresh /\ Exists(poll[s]))
      /\ PollOK(poll[s])
      /\ e \in (IF OfIndex(poll[s]) THEN Channels ELSE URLs)
  BY EntryKind DEF CommitEntry, Conflict, IInv
<1>2. poll[s].fresh = ~Exists(poll[s])
  BY <1>1 DEF PollOK, Polls, Exists
<1>3. CASE OfIndex(poll[s])
  BY <1>1, <1>2, <1>3 DEF CommitEntry, Exists, Records, Grows
<1>4. CASE ~OfIndex(poll[s])
  <2>1. /\ observed' = observed \cup {<<poll[s].channel, e>>}
        /\ UNCHANGED <<opened, channel>>
        /\ outbox \subseteq outbox'
    BY <1>4 DEF CommitEntry, Records
  <2>2. CASE poll[s].fresh
    BY <1>1, <1>2, <1>4, <2>1, <2>2 DEF CommitEntry, Exists, Grows, IInv, Types
  <2>3. CASE ~poll[s].fresh
    BY <1>1, <1>2, <1>4, <2>1, <2>3 DEF CommitEntry, Exists, Grows
  <2> QED BY <1>4, <2>2, <2>3
<1> QED BY <1>3, <1>4

LEMMA CommitStep ==
  ASSUME ChannelAssumption, EntryAssumption, IInv, NEW s \in Slots,
         NEW acknowledged \in BOOLEAN, CommitEntry(s, acknowledged),
         used' \in [faults : Nat, abandons : Nat, lostAcks : Nat, requests : Nat, deletes : Nat]
  PROVE  IInv'
<1> DEFINE p == poll[s]
           e == Entry(p)
<1>1. /\ p.at = "committing" /\ PollOK(p) /\ p \in Polls /\ p.channel \in opened
      /\ opened \subseteq Channels /\ p.channel \in Channels
      /\ e \in (IF OfIndex(p) THEN Channels ELSE URLs)
      /\ UNCHANGED <<site, asked>>
  BY EntryKind DEF CommitEntry, IInv, PollOK, Types
<1>2. Grows
  BY CommitWrites
<1>3. Types'
  <2>1. opened' \subseteq Channels /\ observed' \subseteq Channels \X URLs
    BY <1>1, CommitWrites DEF IInv, Types
  <2>2. origin' \in [URLs -> Channels \cup {Unknown}]
    <3>1. \/ UNCHANGED origin
          \/ origin' = [origin EXCEPT ![e] = p.channel]
      BY CommitWrites
    <3> QED BY <1>1, <3>1 DEF IInv, Types
  <2>3. /\ channel' \in [Channels -> Rows]
        /\ \A ch \in Channels : channel'[ch].next = "null" => channel'[ch].tag = 0
    <3>1. CASE UNCHANGED channel
      BY <3>1 DEF IInv, Types
    <3>2. CASE channel' = [channel EXCEPT ![e] = NewRow("due")]
      <4>1. NewRow("due") \in Rows /\ NewRow("due").next = "due"
        BY DEF NewRow, Rows
      <4> QED BY <3>2, <4>1 DEF IInv, Types
    <3> QED BY <3>1, <3>2 DEF CommitEntry
  <2> QED BY <1>1, <1>2, <2>1, <2>2, <2>3 DEF IInv, Types, Grows
<1>4. poll' \in [Slots -> Polls] /\ PollOK(poll[s])'
      /\ \A t \in Slots \ {s} : poll'[t] = poll[t]
  <2> DEFINE q == IF acknowledged
                  THEN [p EXCEPT !.at = "scanning", !.pos = @ + 1, !.fresh = FALSE,
                                 !.admitted = IF p.fresh THEN @ + 1 ELSE @]
                  ELSE [p EXCEPT !.at = "failing"]
  <2>1. poll' = [poll EXCEPT ![s] = q] /\ poll \in [Slots -> Polls]
    BY DEF CommitEntry, IInv
  <2>2. q \in Polls /\ q.pos # 0 /\ q.at \in {"scanning", "failing"}
        /\ q.channel = p.channel /\ q.version = p.version
    <3>1. p.pos \in Nat /\ p.pos # 0 /\ p.admitted \in Nat
      BY <1>1 DEF PollOK, Polls
    <3> DEFINE n == IF p.fresh THEN p.admitted + 1 ELSE p.admitted
    <3>2. n \in Nat /\ p.pos + 1 \in Nat /\ p.pos + 1 # 0
      BY <3>1, SMTT(30)
    <3>3. CASE acknowledged
      <4>1. q = [p EXCEPT !.at = "scanning", !.pos = p.pos + 1, !.fresh = FALSE, !.admitted = n]
        BY <3>3
      <4> HIDE DEF n, q
      <4> QED BY <1>1, <3>2, <4>1 DEF Polls, Places
    <3>4. CASE ~acknowledged
      BY <1>1, <3>1, <3>4 DEF Polls, Places
    <3> QED BY <3>3, <3>4
  <2> HIDE DEF q
  <2>3. poll'[s] = q /\ poll' \in [Slots -> Polls] /\ \A t \in Slots \ {s} : poll'[t] = poll[t]
    BY <2>1, <2>2
  <2> QED BY <1>1, <1>2, <2>2, <2>3 DEF PollOK, Grows
<1>5. \A t \in Slots : PollOK(poll[t])'
  BY <1>2, <1>4, OthersStayOK
<1>6. Announced'
  <2>1. ~OfIndex(p) => Observed(p.channel, e) \in outbox'
    BY DEF CommitEntry, Announces
  <2> QED BY <1>2, <2>1, CommitWrites DEF IInv, Announced, Grows, Observed
<1> QED BY <1>3, <1>4, <1>5, <1>6 DEF IInv

LEMMA EntryObservedStep ==
  ASSUME ChannelAssumption, EntryAssumption, IInv, NEW s \in Slots, EntryObserved(s)
  PROVE  IInv'
BY CommitStep DEF EntryObserved, IInv, Types

LEMMA EntryUnacknowledgedStep ==
  ASSUME ChannelAssumption, EntryAssumption, IInv, NEW s \in Slots, EntryUnacknowledged(s)
  PROVE  IInv'
<1>1. used' \in [faults : Nat, abandons : Nat, lostAcks : Nat, requests : Nat, deletes : Nat]
  BY DEF EntryUnacknowledged, IInv, Types
<1> QED BY <1>1, CommitStep DEF EntryUnacknowledged

----------------------------------------------------------------------------
(* The invariant *)

Premises == ChannelAssumption /\ LimitAssumption /\ EntryAssumption

LEMMA InitInvariant ==
  ASSUME Premises, Init
  PROVE  IInv
<1>1. \A next \in {"null", "due"} :
        NewRow(next) \in Rows /\ NewRow(next).tag = 0
  BY DEF NewRow, Rows
<1>2. channel \in [Channels -> Rows] /\ \A ch \in Channels : channel[ch].tag = 0
  BY <1>1 DEF Init
<1>3. site \in [Channels -> Versions]
  BY DEF Init, Premises, LimitAssumption, Versions
<1>4. Types
  BY <1>2, <1>3 DEF Init, Types, Premises, ChannelAssumption
<1>5. poll \in [Slots -> Polls] /\ \A s \in Slots : PollOK(poll[s])
  BY IdleOK DEF Init, PollOK
<1>6. Announced
  BY DEF Init, Announced
<1> QED BY <1>4, <1>5, <1>6 DEF IInv

LEMMA StepPreserves ==
  ASSUME Premises, IInv, [Next]_vars
  PROVE  IInv'
<1> USE DEF Premises
<1>1. ASSUME NEW ch \in Channels, ChannelStep(ch)
      PROVE  IInv'
  BY <1>1, PublishStep, BecomesDueStep, LeaseExpiresStep, ScheduleNowStep DEF ChannelStep
<1>2. ASSUME NEW ch \in Channels, LeaseAny(ch)
      PROVE  IInv'
  BY <1>2, LeaseStep DEF LeaseAny
<1>3. ASSUME NEW s \in Slots, PollStep(s)
      PROVE  IInv'
  <2>1. CASE FetchNotModified(s) \/ FetchDocument(s) \/ Raise(s)
    BY <2>1, FetchNotModifiedStep, FetchDocumentStep, RaiseStep
  <2>2. CASE ReadEntry(s) \/ RefuseEntry(s) \/ EntryConflicts(s) \/ ScanEnds(s)
    BY <2>2, ReadEntryStep, RefuseEntryStep, EntryConflictsStep, ScanEndsStep
  <2>3. CASE EntryObserved(s) \/ EntryUnacknowledged(s)
    BY <2>3, EntryObservedStep, EntryUnacknowledgedStep
  <2>4. CASE FinishSucceeded(s) \/ FinishNotModified(s) \/ FinishFailed(s)
    BY <2>4, FinishesStep
  <2> QED BY <1>3, <2>1, <2>2, <2>3, <2>4 DEF PollStep
<1>4. CASE UNCHANGED vars
  <2>1. UNCHANGED <<site, tables, poll>> /\ UNCHANGED <<channel, asked, used>>
    BY <1>4 DEF vars, tables
  <2>2. Types'
    BY <2>1 DEF IInv, Types, tables
  <2> QED BY <2>1, <2>2, Stay
<1> QED BY <1>1, <1>2, <1>3, <1>4, AbandonStep, DeletePublisherStep DEF Next

LEMMA Invariance == Spec => []IInv
<1>1. Premises
  BY ChannelAssumption, LimitAssumption, EntryAssumption DEF Premises
<1>2. Init => IInv
  BY <1>1, InitInvariant
<1>3. IInv /\ [Next]_vars => IInv'
  BY <1>1, StepPreserves
<1> QED BY <1>2, <1>3, PTL DEF Spec

\* The tables, the rows and the polls have their types; a channel that was never polled
\* has no validator, and a poll is about a channel that exists and an entry that is listed.
THEOREM TypeCorrect == Spec => []TypeOK
BY Invariance, InvariantTypes, PTL

----------------------------------------------------------------------------
(* The refinement *)

LEMMA CommitRefines ==
  ASSUME Premises, IInv, NEW s \in Slots, NEW acknowledged \in BOOLEAN,
         CommitEntry(s, acknowledged)
  PROVE  [Ledger!Next]_(Ledger!vars)
<1> USE DEF Premises
<1> DEFINE ch == poll[s].channel
           e == Entry(poll[s])
<1>1. /\ e \in (IF OfIndex(poll[s]) THEN Channels ELSE URLs)
      /\ ch \in opened /\ ch \in Channels
      /\ outbox' = outbox \cup Announces(poll[s])
  BY EntryKind DEF CommitEntry, IInv, PollOK, Types
<1>2. CASE OfIndex(poll[s]) /\ poll[s].fresh
  <2>1. Announces(poll[s]) = {Opened(e)}
    BY <1>2 DEF Announces, Creation
  <2>2. Ledger!Open(e)
    BY <1>1, <1>2, <2>1, CommitWrites DEF Ledger!Open, Ledger!Opened, Opened
  <2> QED BY <1>1, <1>2, <2>2 DEF Ledger!Next
<1>3. CASE OfIndex(poll[s]) /\ ~poll[s].fresh
  <2>1. Announces(poll[s]) = {}
    BY <1>3 DEF Announces
  <2> QED BY <1>1, <1>3, <2>1, CommitWrites DEF Ledger!vars
<1>4. CASE ~OfIndex(poll[s]) /\ poll[s].fresh
  <2>1. Announces(poll[s]) = {Admitted(ch, e), Observed(ch, e)}
    BY <1>4 DEF Announces, Creation
  <2>2. Ledger!Admit(ch, e)
    BY <1>1, <1>4, <2>1, CommitWrites
       DEF Ledger!Admit, Ledger!Admitted, Ledger!Observed, Admitted, Observed
  <2> QED BY <1>1, <1>4, <2>2 DEF Ledger!Next
<1>5. CASE ~OfIndex(poll[s]) /\ ~poll[s].fresh
  <2>1. Announces(poll[s]) = {Observed(ch, e)}
    BY <1>5 DEF Announces
  <2>2. CASE <<ch, e>> \in observed
    <3>1. Observed(ch, e) \in outbox
      BY <1>1, <1>5, <2>2 DEF IInv, Announced
    <3>2. outbox' = outbox
      BY <1>1, <2>1, <3>1
    <3>3. /\ UNCHANGED <<origin, opened>>
          /\ observed' = observed \cup {<<ch, e>>}
      BY <1>5, CommitWrites
    <3>4. observed' = observed
      BY <2>2, <3>3
    <3> QED BY <3>2, <3>3, <3>4 DEF Ledger!vars
  <2>3. CASE <<ch, e>> \notin observed
    <3>1. Ledger!Confirm(ch, e)
      BY <1>1, <1>5, <2>1, <2>3, CommitWrites DEF Ledger!Confirm, Ledger!Observed, Observed
    <3> QED BY <1>1, <1>5, <3>1 DEF Ledger!Next
  <2> QED BY <2>2, <2>3
<1> QED BY <1>2, <1>3, <1>4, <1>5

\* Only the commit of an entry writes these tables.
LEMMA OtherStepsStutter ==
  ASSUME [Next]_vars, \A s \in Slots : ~EntryObserved(s) /\ ~EntryUnacknowledged(s)
  PROVE  UNCHANGED tables
<1> USE DEF tables
<1>1. ASSUME NEW ch \in Channels, ChannelStep(ch) \/ LeaseAny(ch)
      PROVE  UNCHANGED tables
  BY <1>1 DEF ChannelStep, LeaseAny, Publish, BecomesDue, LeaseExpires, ScheduleNow, Lease
<1>2. ASSUME NEW s \in Slots, PollStep(s) \/ Abandon(s)
      PROVE  UNCHANGED tables
  BY <1>2 DEF PollStep, FetchNotModified, FetchDocument, Raise, ReadEntry, RefuseEntry,
              EntryConflicts, ScanEnds, FinishSucceeded, FinishNotModified, FinishFailed,
              Finish, Abandon
<1> QED BY <1>1, <1>2 DEF Next, DeletePublisher, vars

LEMMA StepRefines ==
  ASSUME Premises, IInv, [Next]_vars
  PROVE  [Ledger!Next]_(Ledger!vars)
<1>1. ASSUME NEW s \in Slots, EntryObserved(s) \/ EntryUnacknowledged(s)
      PROVE  [Ledger!Next]_(Ledger!vars)
  BY <1>1, CommitRefines DEF EntryObserved, EntryUnacknowledged
<1>2. CASE \A s \in Slots : ~EntryObserved(s) /\ ~EntryUnacknowledged(s)
  BY <1>2, OtherStepsStutter DEF tables, Ledger!vars
<1> QED BY <1>1, <1>2

\* Polls implement the ledger: a URL is admitted once, by the channel that found it first,
\* whatever polls race for it, expire, fail after their commits or are repeated.
THEOREM FrontierImplemented == Spec => ImplementsFrontier
<1>1. Premises
  BY ChannelAssumption, LimitAssumption, EntryAssumption DEF Premises
<1>2. Init => Ledger!Init
  BY DEF Init, Ledger!Init
<1>3. IInv /\ [Next]_vars => [Ledger!Next]_(Ledger!vars)
  BY <1>1, StepRefines
<1> QED BY <1>2, <1>3, Invariance, PTL DEF Spec, ImplementsFrontier, Ledger!Spec

----------------------------------------------------------------------------
(* What a stored validator stands for *)

\* No document of entries that are counted is longer than the cap.
CapFits ==
  \A ch \in Channels \ Indexes : \A v \in Versions : Len(Entries[ch][v]) <= Cap

\* The channel has recorded entry i of its document of version v.
EntryRecorded(ch, v, i) ==
  IF ch \in Indexes THEN Entries[ch][v][i] \in opened
                    ELSE <<ch, Entries[ch][v][i]>> \in observed

\* What a poll has recorded.
PollRecorded(p) ==
  /\ p.at # "idle" /\ p.tag # 0 => Recorded(p.channel, p.tag)
  /\ p.at = "fetching" => p.pos = 1 /\ p.admitted = 0
  /\ p.at \in {"scanning", "committing"} =>
       /\ p.admitted < p.pos
       /\ \A i \in DOMAIN Listing(p) : i < p.pos => EntryRecorded(p.channel, p.version, i)
  /\ p.at = "succeeding" => Recorded(p.channel, p.version)

RecordedInv ==
  /\ FoundIsRecorded
  /\ \A s \in Slots : PollRecorded(poll[s])

\* The same after a step, for a channel, a version and an entry as they were before it.
RecordedThen(ch, v) ==
  \A i \in DOMAIN Entries[ch][v] :
    IF ch \in Indexes THEN Entries[ch][v][i] \in opened'
                      ELSE <<ch, Entries[ch][v][i]>> \in observed'

EntryRecordedThen(ch, v, i) ==
  IF ch \in Indexes THEN Entries[ch][v][i] \in opened'
                    ELSE <<ch, Entries[ch][v][i]>> \in observed'

LEMMA RecordedStays ==
  ASSUME Grows
  PROVE  /\ \A ch, v : Recorded(ch, v) => RecordedThen(ch, v)
         /\ \A ch, v, i : EntryRecorded(ch, v, i) => EntryRecordedThen(ch, v, i)
BY DEF Grows, Recorded, EntryRecorded, RecordedThen, EntryRecordedThen

\* What a poll has recorded, after a step.
LEMMA PollRecordedThen ==
  ASSUME NEW s \in Slots,
         poll'[s].at # "idle" /\ poll'[s].tag # 0 => RecordedThen(poll'[s].channel, poll'[s].tag),
         poll'[s].at = "fetching" => poll'[s].pos = 1 /\ poll'[s].admitted = 0,
         poll'[s].at \in {"scanning", "committing"} =>
           /\ poll'[s].admitted < poll'[s].pos
           /\ \A i \in DOMAIN Entries[poll'[s].channel][poll'[s].version] :
                i < poll'[s].pos =>
                  EntryRecordedThen(poll'[s].channel, poll'[s].version, i),
         poll'[s].at = "succeeding" => RecordedThen(poll'[s].channel, poll'[s].version)
  PROVE  PollRecorded(poll[s])'
BY DEF PollRecorded, Listing, Recorded, EntryRecorded, RecordedThen, EntryRecordedThen

LEMMA PollRecordedStays ==
  ASSUME Grows, RecordedInv, NEW t \in Slots, poll'[t] = poll[t]
  PROVE  PollRecorded(poll[t])'
<1>1. PollRecorded(poll[t])
  BY DEF RecordedInv
<1> QED BY <1>1, RecordedStays, PollRecordedThen DEF PollRecorded, Listing

\* The rows keep their validators, and new ones have none.
LEMMA TagsKept ==
  ASSUME IInv, Grows, RecordedInv, opened' \subseteq Channels,
         \A ch \in Channels : channel'[ch].tag \in {0, channel[ch].tag},
         \A ch \in opened' \ opened : channel'[ch].tag = 0
  PROVE  FoundIsRecorded'
<1> SUFFICES ASSUME NEW ch \in opened', channel'[ch].tag # 0
             PROVE  RecordedThen(ch, channel'[ch].tag)
  BY DEF FoundIsRecorded, Recorded, RecordedThen
<1>1. ch \in opened /\ channel'[ch].tag = channel[ch].tag
  OBVIOUS
<1>2. Recorded(ch, channel[ch].tag)
  BY <1>1 DEF RecordedInv, FoundIsRecorded
<1> QED BY <1>1, <1>2, RecordedStays

LEMMA RecordedTurn ==
  ASSUME IInv, RecordedInv, Grows, FoundIsRecorded',
         NEW s \in Slots, PollRecorded(poll[s])',
         \A t \in Slots \ {s} : poll'[t] = poll[t]
  PROVE  RecordedInv'
<1>1. \A t \in Slots : PollRecorded(poll[t])'
  BY PollRecordedStays
<1> QED BY <1>1 DEF RecordedInv

\* A slot turns, and writes no table and no row.
LEMMA QuietTurn ==
  ASSUME IInv, RecordedInv, UNCHANGED tables, UNCHANGED channel,
         NEW s \in Slots, PollRecorded(poll[s])', \A t \in Slots \ {s} : poll'[t] = poll[t]
  PROVE  RecordedInv'
<1>1. Grows
  BY DEF Grows, tables
<1>2. FoundIsRecorded'
  BY <1>1, TagsKept DEF tables, IInv, Types
<1> QED BY <1>1, <1>2, RecordedTurn

\* Nobody turns.
LEMMA QuietRows ==
  ASSUME IInv, RecordedInv, UNCHANGED tables, UNCHANGED poll,
         \A ch \in Channels : channel'[ch].tag = channel[ch].tag
  PROVE  RecordedInv'
<1>1. Grows
  BY DEF Grows, tables
<1>2. FoundIsRecorded'
  BY <1>1, TagsKept DEF tables, IInv, Types
<1>3. \A t \in Slots : PollRecorded(poll[t])'
  BY <1>1, PollRecordedStays
<1> QED BY <1>2, <1>3 DEF RecordedInv

LEMMA RecordedChannelStep ==
  ASSUME IInv, RecordedInv, NEW ch \in Channels, ChannelStep(ch)
  PROVE  RecordedInv'
<1>1. UNCHANGED tables /\ UNCHANGED poll
  BY DEF ChannelStep, Publish, BecomesDue, LeaseExpires, ScheduleNow
<1>2. channel \in [Channels -> Rows]
  BY DEF IInv, Types
<1>3. \A d \in Channels : channel'[d].tag = channel[d].tag
  BY <1>2 DEF ChannelStep, Publish, BecomesDue, LeaseExpires, ScheduleNow, Rows
<1> QED BY <1>1, <1>3, QuietRows

LEMMA RecordedDelete ==
  ASSUME IInv, RecordedInv, DeletePublisher
  PROVE  RecordedInv'
<1>1. channel \in [Channels -> Rows]
  BY DEF IInv, Types
<1>2. \A d \in Channels : channel'[d].tag = channel[d].tag
  BY <1>1 DEF DeletePublisher, Rows
<1> QED BY <1>2, QuietRows DEF DeletePublisher

LEMMA RecordedLease ==
  ASSUME IInv, RecordedInv, NEW s \in Slots, NEW ch \in Channels, Lease(s, ch)
  PROVE  RecordedInv'
<1> DEFINE q == [Idle EXCEPT !.at = "fetching", !.channel = ch, !.tag = channel[ch].tag]
<1>1. /\ channel' = [channel EXCEPT ![ch].lease = "live"] /\ channel \in [Channels -> Rows]
      /\ poll' = [poll EXCEPT ![s] = q] /\ poll \in [Slots -> Polls] /\ ch \in opened
      /\ UNCHANGED tables
  BY DEF Lease, IInv, Types
<1>2. \A d \in Channels : channel'[d].tag = channel[d].tag
  BY <1>1 DEF Rows
<1>3. Grows
  BY <1>1 DEF Grows, tables
<1>4. FoundIsRecorded'
  BY <1>1, <1>2, <1>3, TagsKept DEF tables, IInv, Types
<1>5. /\ q.at = "fetching" /\ q.channel = ch /\ q.tag = channel[ch].tag
      /\ q.pos = 1 /\ q.admitted = 0
  BY DEF Idle
<1> HIDE DEF q
<1>6. poll'[s] = q /\ \A t \in Slots \ {s} : poll'[t] = poll[t]
  BY <1>1
<1>7. q.tag # 0 => RecordedThen(ch, q.tag)
  BY <1>1, <1>3, <1>5, RecordedStays DEF RecordedInv, FoundIsRecorded
<1>8. PollRecorded(poll[s])'
  BY <1>5, <1>6, <1>7, PollRecordedThen
<1> QED BY <1>3, <1>4, <1>6, <1>8, RecordedTurn

LEMMA RecordedFetch ==
  ASSUME IInv, RecordedInv, NEW s \in Slots, FetchNotModified(s) \/ FetchDocument(s)
  PROVE  RecordedInv'
<1>1. /\ UNCHANGED tables /\ UNCHANGED channel
      /\ poll[s].at = "fetching" /\ poll[s] \in Polls /\ poll \in [Slots -> Polls]
      /\ PollRecorded(poll[s])
      /\ \A t \in Slots \ {s} : poll'[t] = poll[t]
  BY DEF FetchNotModified, FetchDocument, IInv, PollOK, RecordedInv
<1>2. /\ poll'[s].at \in {"unmodified", "scanning"}
      /\ poll'[s].channel = poll[s].channel /\ poll'[s].tag = poll[s].tag
      /\ poll'[s].pos = poll[s].pos /\ poll'[s].admitted = poll[s].admitted
  BY <1>1 DEF FetchNotModified, FetchDocument, Polls
<1>3. /\ poll[s].tag # 0 => RecordedThen(poll[s].channel, poll[s].tag)
      /\ poll[s].pos = 1 /\ poll[s].admitted = 0
  <2>1. Grows
    BY <1>1 DEF Grows, tables
  <2> QED BY <1>1, <2>1, RecordedStays DEF PollRecorded
<1>4. poll'[s].at = "scanning" =>
        DOMAIN Entries[poll'[s].channel][poll'[s].version] \subseteq Nat \ {0}
  <2>1. CASE FetchNotModified(s)
    BY <1>1, <2>1 DEF FetchNotModified, Polls
  <2>2. CASE FetchDocument(s)
    <3>1. poll[s].channel \in Channels /\ poll'[s].version \in Versions
      BY <1>1, <2>2 DEF FetchDocument, IInv, PollOK, Types, Polls
    <3>2. Entries[poll[s].channel][poll'[s].version]
            \in Seq(IF poll[s].channel \in Indexes THEN Channels ELSE URLs)
      BY <3>1, EntryAssumption DEF EntryAssumption
    <3> QED BY <1>2, <3>2
  <2> QED BY <2>1, <2>2
<1>5. \A i \in Nat \ {0} : ~(i < 1)
  OBVIOUS
<1>6. PollRecorded(poll[s])'
  BY <1>2, <1>3, <1>4, <1>5, PollRecordedThen
<1> QED BY <1>1, <1>6, QuietTurn

LEMMA RecordedRead ==
  ASSUME IInv, RecordedInv, NEW s \in Slots, ReadEntry(s)
  PROVE  RecordedInv'
<1>1. /\ UNCHANGED tables /\ UNCHANGED channel
      /\ poll[s].at = "scanning" /\ poll[s] \in Polls /\ poll \in [Slots -> Polls]
      /\ PollRecorded(poll[s])
      /\ \A t \in Slots \ {s} : poll'[t] = poll[t]
  BY DEF ReadEntry, IInv, PollOK, RecordedInv
<1>2. /\ poll'[s].at = "committing"
      /\ poll'[s].channel = poll[s].channel /\ poll'[s].version = poll[s].version
      /\ poll'[s].tag = poll[s].tag /\ poll'[s].pos = poll[s].pos
      /\ poll'[s].admitted = poll[s].admitted
  BY <1>1 DEF ReadEntry, Polls
<1>3. Grows
  BY <1>1 DEF Grows, tables
<1>4. PollRecorded(poll[s])'
  BY <1>1, <1>2, <1>3, RecordedStays, PollRecordedThen DEF PollRecorded, Listing
<1> QED BY <1>1, <1>4, QuietTurn

\* A poll that fails has only its validator to answer for.
LEMMA RecordedFail ==
  ASSUME IInv, RecordedInv, NEW s \in Slots, poll[s].at # "idle",
         poll' = [poll EXCEPT ![s].at = "failing"], UNCHANGED tables, UNCHANGED channel
  PROVE  RecordedInv'
<1>1. poll[s] \in Polls /\ poll \in [Slots -> Polls] /\ PollRecorded(poll[s])
  BY DEF IInv, PollOK, RecordedInv
<1>2. /\ poll'[s].at = "failing"
      /\ poll'[s].channel = poll[s].channel /\ poll'[s].tag = poll[s].tag
      /\ \A t \in Slots \ {s} : poll'[t] = poll[t]
  BY <1>1 DEF Polls
<1>3. Grows
  BY DEF Grows, tables
<1>4. PollRecorded(poll[s])'
  BY <1>1, <1>2, <1>3, RecordedStays, PollRecordedThen DEF PollRecorded
<1> QED BY <1>2, <1>4, QuietTurn

LEMMA RecordedScanEnds ==
  ASSUME Premises, CapFits, IInv, RecordedInv, NEW s \in Slots, ScanEnds(s)
  PROVE  RecordedInv'
<1> DEFINE p == poll[s]
<1>1. /\ UNCHANGED tables /\ UNCHANGED channel
      /\ p.at = "scanning" /\ p \in Polls /\ poll \in [Slots -> Polls]
      /\ p.channel \in Channels /\ p.version \in Versions
      /\ PollRecorded(p)
      /\ p.pos > Len(Listing(p)) \/ CapReached(p)
      /\ \A t \in Slots \ {s} : poll'[t] = poll[t]
  BY DEF ScanEnds, IInv, PollOK, RecordedInv, Types
<1>2. /\ poll'[s].at = "succeeding"
      /\ poll'[s].channel = p.channel /\ poll'[s].version = p.version /\ poll'[s].tag = p.tag
  BY <1>1 DEF ScanEnds, Polls
<1>3. Listing(p) \in Seq(IF p.channel \in Indexes THEN Channels ELSE URLs)
  BY <1>1 DEF Premises, EntryAssumption, Listing
<1>4. p.pos \in Nat /\ p.admitted \in Nat /\ Len(Listing(p)) \in Nat /\ Cap \in Nat
  BY <1>1, <1>3 DEF Polls, Premises, LimitAssumption
<1>5. p.pos > Len(Listing(p))
  <2>1. CASE CapReached(p)
    <3>1. p.admitted >= Cap /\ p.admitted < p.pos
      BY <1>1, <2>1 DEF CapReached, PollRecorded
    <3>2. Len(Listing(p)) <= Cap
      BY <1>1, <2>1 DEF CapReached, OfIndex, CapFits, Listing
    <3> QED BY <1>4, <3>1, <3>2
  <2> QED BY <1>1, <2>1
<1>6. Recorded(p.channel, p.version)
  <2>1. \A i \in DOMAIN Listing(p) : i < p.pos
    BY <1>3, <1>4, <1>5
  <2> QED BY <1>1, <2>1 DEF PollRecorded, EntryRecorded, Recorded, Listing
<1>7. Grows
  BY <1>1 DEF Grows, tables
<1>8. p.tag # 0 => Recorded(p.channel, p.tag)
  BY <1>1 DEF PollRecorded
<1>9. PollRecorded(poll[s])'
  BY <1>2, <1>6, <1>7, <1>8, RecordedStays, PollRecordedThen
<1> QED BY <1>1, <1>9, QuietTurn

LEMMA RecordedCommit ==
  ASSUME Premises, IInv, RecordedInv, NEW s \in Slots, NEW acknowledged \in BOOLEAN,
         CommitEntry(s, acknowledged)
  PROVE  RecordedInv'
<1> DEFINE p == poll[s]
           e == Entry(p)
<1>1. /\ p.at = "committing" /\ p \in Polls /\ poll \in [Slots -> Polls]
      /\ p.channel \in Channels /\ p.version \in Versions
      /\ PollRecorded(p) /\ Grows
      /\ e \in (IF OfIndex(p) THEN Channels ELSE URLs)
      /\ opened \subseteq Channels
  BY EntryKind, CommitWrites DEF Premises, CommitEntry, IInv, PollOK, RecordedInv, Types
<1>2. /\ poll'[s].at = IF acknowledged THEN "scanning" ELSE "failing"
      /\ poll'[s].channel = p.channel /\ poll'[s].version = p.version /\ poll'[s].tag = p.tag
      /\ acknowledged => /\ poll'[s].pos = p.pos + 1
                         /\ poll'[s].admitted \in {p.admitted, p.admitted + 1}
      /\ \A t \in Slots \ {s} : poll'[t] = poll[t]
  <2>1. CASE acknowledged
    <3> DEFINE n == IF p.fresh THEN p.admitted + 1 ELSE p.admitted
    <3>1. n \in {p.admitted, p.admitted + 1}
      OBVIOUS
    <3>2. poll' = [poll EXCEPT ![s] = [p EXCEPT !.at = "scanning", !.pos = p.pos + 1,
                                                !.fresh = FALSE, !.admitted = n]]
      BY <2>1 DEF CommitEntry
    <3> HIDE DEF n
    <3> QED BY <1>1, <2>1, <3>1, <3>2 DEF Polls
  <2>2. CASE ~acknowledged
    <3>1. poll' = [poll EXCEPT ![s] = [p EXCEPT !.at = "failing"]]
      BY <2>2 DEF CommitEntry
    <3> QED BY <1>1, <2>2, <3>1 DEF Polls
  <2> QED BY <2>1, <2>2
<1>3. EntryRecordedThen(p.channel, p.version, p.pos)
  <2>1. e = Entries[p.channel][p.version][p.pos]
    BY DEF Entry, Listing
  <2>2. IF OfIndex(p) THEN e \in opened' ELSE <<p.channel, e>> \in observed'
    BY CommitWrites DEF Premises
  <2> QED BY <2>1, <2>2 DEF EntryRecordedThen, OfIndex
<1>4. /\ p.pos \in Nat /\ p.admitted \in Nat /\ p.admitted < p.pos
      /\ DOMAIN Entries[p.channel][p.version] \subseteq Nat
      /\ \A i \in DOMAIN Entries[p.channel][p.version] :
           i < p.pos => EntryRecordedThen(p.channel, p.version, i)
  <2>1. Entries[p.channel][p.version] \in Seq(IF p.channel \in Indexes THEN Channels ELSE URLs)
    BY <1>1 DEF Premises, EntryAssumption
  <2>2. DOMAIN Entries[p.channel][p.version] \subseteq Nat
    BY <2>1
  <2> QED BY <1>1, <2>2, RecordedStays DEF Polls, PollRecorded, Listing
<1>5. PollRecorded(poll[s])'
  <2>1. p.tag # 0 => RecordedThen(p.channel, p.tag)
    BY <1>1, RecordedStays DEF PollRecorded
  <2>2. acknowledged =>
          /\ poll'[s].admitted < poll'[s].pos
          /\ \A i \in DOMAIN Entries[p.channel][p.version] :
               i < p.pos + 1 => EntryRecordedThen(p.channel, p.version, i)
    <3>1. \A i \in Nat : i < p.pos + 1 => i < p.pos \/ i = p.pos
      BY <1>4
    <3> QED BY <1>2, <1>3, <1>4, <3>1
  <2> QED BY <1>2, <2>1, <2>2, PollRecordedThen
<1>6. FoundIsRecorded'
  <2>1. \A ch \in Channels : channel'[ch].tag \in {0, channel[ch].tag}
    <3>1. NewRow("due").tag = 0
      BY DEF NewRow
    <3>2. channel' = channel \/ channel' = [channel EXCEPT ![e] = NewRow("due")]
      BY DEF CommitEntry
    <3> QED BY <3>1, <3>2 DEF IInv, Types
  <2>2. \A ch \in opened' \ opened : channel'[ch].tag = 0
    <3>1. CASE OfIndex(p) /\ p.fresh
      <4>1. channel' = [channel EXCEPT ![e] = NewRow("due")] /\ opened' = opened \cup {e}
        BY <3>1 DEF CommitEntry
      <4>2. NewRow("due").tag = 0
        BY DEF NewRow
      <4> QED BY <1>1, <3>1, <4>1, <4>2 DEF IInv, Types
    <3>2. CASE ~(OfIndex(p) /\ p.fresh)
      <4>1. opened' = opened
        BY <3>2, CommitWrites DEF Premises
      <4> QED BY <4>1
    <3> QED BY <3>1, <3>2
  <2>3. opened' \subseteq Channels
    BY <1>1, CommitWrites DEF Premises
  <2> QED BY <1>1, <2>1, <2>2, <2>3, TagsKept
<1> QED BY <1>1, <1>2, <1>5, <1>6, RecordedTurn

LEMMA RecordedFinish ==
  ASSUME IInv, RecordedInv, NEW s \in Slots,
         FinishSucceeded(s) \/ FinishNotModified(s) \/ FinishFailed(s)
  PROVE  RecordedInv'
<1> DEFINE ch == poll[s].channel
<1>1. /\ poll[s].at # "idle" /\ PollRecorded(poll[s]) /\ ch \in opened /\ ch \in Channels
      /\ poll \in [Slots -> Polls] /\ channel \in [Channels -> Rows] /\ opened \subseteq Channels
  BY DEF FinishSucceeded, FinishNotModified, FinishFailed, IInv, PollOK, RecordedInv, Types
<1>2. PICK tag \in {poll[s].version, poll[s].tag, channel[ch].tag} :
        /\ Finish(s, tag)
        /\ tag # 0 => Recorded(ch, tag)
  <2>1. channel[ch].tag # 0 => Recorded(ch, channel[ch].tag)
    BY <1>1 DEF RecordedInv, FoundIsRecorded
  <2>2. CASE FinishSucceeded(s)
    <3>1. Recorded(ch, poll[s].version)
      BY <1>1, <2>2 DEF FinishSucceeded, PollRecorded
    <3> QED BY <2>1, <2>2, <3>1 DEF FinishSucceeded
  <2>3. CASE FinishNotModified(s)
    BY <1>1, <2>3 DEF FinishNotModified, PollRecorded
  <2>4. CASE FinishFailed(s)
    BY <2>1, <2>4 DEF FinishFailed, TagAfterFailure
  <2> QED BY <2>2, <2>3, <2>4
<1>3. /\ UNCHANGED tables /\ poll'[s] = Idle /\ \A t \in Slots \ {s} : poll'[t] = poll[t]
      /\ channel' = [channel EXCEPT ![ch] = AfterPoll(@, tag)]
  BY <1>1, <1>2 DEF Finish
<1>4. Grows
  BY <1>3 DEF Grows, tables
<1>5. channel'[ch].tag = tag /\ \A d \in Channels \ {ch} : channel'[d] = channel[d]
  BY <1>1, <1>3 DEF AfterPoll, Rows
<1>6. FoundIsRecorded'
  <2>1. opened' = opened
    BY <1>3 DEF tables
  <2> SUFFICES ASSUME NEW d \in opened, channel'[d].tag # 0
               PROVE  RecordedThen(d, channel'[d].tag)
    BY <2>1 DEF FoundIsRecorded, Recorded, RecordedThen
  <2>2. CASE d = ch
    BY <1>2, <1>4, <1>5, <2>2, RecordedStays
  <2>3. CASE d # ch
    <3>1. Recorded(d, channel[d].tag) /\ channel'[d] = channel[d]
      BY <1>1, <1>5, <2>3 DEF RecordedInv, FoundIsRecorded
    <3> QED BY <1>4, <3>1, RecordedStays
  <2> QED BY <2>2, <2>3
<1>7. PollRecorded(poll[s])'
  BY <1>3, PollRecordedThen DEF Idle
<1> QED BY <1>3, <1>4, <1>6, <1>7, RecordedTurn

LEMMA RecordedAbandon ==
  ASSUME IInv, RecordedInv, NEW s \in Slots, Abandon(s)
  PROVE  RecordedInv'
<1>1. /\ poll'[s] = Idle /\ \A t \in Slots \ {s} : poll'[t] = poll[t]
      /\ UNCHANGED tables /\ UNCHANGED channel
  BY DEF Abandon, IInv
<1>2. PollRecorded(poll[s])'
  BY <1>1, PollRecordedThen DEF Idle
<1> QED BY <1>1, <1>2, QuietTurn

LEMMA RecordedStep ==
  ASSUME Premises, CapFits, IInv, RecordedInv, [Next]_vars
  PROVE  RecordedInv'
<1>1. ASSUME NEW ch \in Channels, ChannelStep(ch) \/ LeaseAny(ch)
      PROVE  RecordedInv'
  BY <1>1, RecordedChannelStep, RecordedLease DEF LeaseAny
<1>2. ASSUME NEW s \in Slots, PollStep(s)
      PROVE  RecordedInv'
  <2>1. CASE FetchNotModified(s) \/ FetchDocument(s)
    BY <2>1, RecordedFetch
  <2>2. CASE Raise(s) \/ RefuseEntry(s) \/ EntryConflicts(s)
    BY <2>2, RecordedFail DEF Raise, RefuseEntry, EntryConflicts
  <2>3. CASE ReadEntry(s) \/ ScanEnds(s)
    BY <2>3, RecordedRead, RecordedScanEnds
  <2>4. CASE EntryObserved(s) \/ EntryUnacknowledged(s)
    BY <2>4, RecordedCommit DEF EntryObserved, EntryUnacknowledged
  <2>5. CASE FinishSucceeded(s) \/ FinishNotModified(s) \/ FinishFailed(s)
    BY <2>5, RecordedFinish
  <2> QED BY <1>2, <2>1, <2>2, <2>3, <2>4, <2>5 DEF PollStep
<1>3. CASE UNCHANGED vars
  BY <1>3, QuietRows DEF vars, tables
<1> QED BY <1>1, <1>2, <1>3, RecordedAbandon, RecordedDelete DEF Next

LEMMA RecordedInit ==
  ASSUME Init
  PROVE  RecordedInv
<1>1. \A next : NewRow(next).tag = 0
  BY DEF NewRow
<1>2. \A ch \in Channels : channel[ch].tag = 0
  BY <1>1 DEF Init
<1>3. opened \subseteq Channels
  BY ChannelAssumption DEF Init, ChannelAssumption
<1>4. \A s \in Slots : PollRecorded(poll[s])
  BY DEF Init, PollRecorded, Idle
<1> QED BY <1>2, <1>3, <1>4 DEF RecordedInv, FoundIsRecorded

\* A stored validator stands for a recorded document, whatever polls overlap, fail or lose
\* the acknowledgement of a commit, as long as no document is longer than the cap.
THEOREM FoundAlwaysRecorded ==
  ASSUME CapFits PROVE Spec => []FoundIsRecorded
<1>1. Premises
  BY ChannelAssumption, LimitAssumption, EntryAssumption DEF Premises
<1>2. IInv /\ RecordedInv /\ [Next]_vars => RecordedInv'
  BY <1>1, RecordedStep
<1>3. RecordedInv => FoundIsRecorded
  BY DEF RecordedInv
<1> QED BY <1>2, <1>3, RecordedInit, Invariance, PTL DEF Spec

----------------------------------------------------------------------------
(* One poll for each channel *)

\* No slot turns to a channel, and no row of a polled channel loses its lease.
LEMMA StillOnePoll ==
  ASSUME IInv, OnePollPerChannel,
         \A s \in Slots :
           poll'[s].channel = poll[s].channel /\ (poll'[s].at = "idle" <=> poll[s].at = "idle"),
         \A s \in Slots : poll[s].at # "idle" =>
           channel'[poll[s].channel].lease = channel[poll[s].channel].lease
  PROVE  OnePollPerChannel'
BY DEF OnePollPerChannel, Polling

\* A slot is done; the row of no other slot's channel loses its lease.
LEMMA OnePollLess ==
  ASSUME IInv, OnePollPerChannel, NEW s \in Slots, poll'[s] = Idle,
         \A t \in Slots \ {s} : poll'[t] = poll[t],
         \A ch \in Channels \ {poll[s].channel} : channel'[ch].lease = channel[ch].lease,
         poll[s].at # "idle"
  PROVE  OnePollPerChannel'
<1>1. \A t \in Slots : poll[t].at # "idle" =>
        poll[t].channel \in Channels /\ poll[t].channel # NoChannel
  BY ChannelAssumption DEF IInv, PollOK, Types, ChannelAssumption
<1>2. Idle.at = "idle" /\ Idle.channel = NoChannel
  BY DEF Idle
<1> QED BY <1>1, <1>2 DEF OnePollPerChannel, Polling

LEMMA OnePollChannelStep ==
  ASSUME ~Overrun, IInv, OnePollPerChannel, NEW ch \in Channels, ChannelStep(ch)
  PROVE  OnePollPerChannel'
<1>1. channel \in [Channels -> Rows] /\ UNCHANGED poll
  BY DEF IInv, Types, ChannelStep, Publish, BecomesDue, LeaseExpires, ScheduleNow
<1>2. CASE LeaseExpires(ch)
  <2>1. \A s \in Slots : poll[s].channel # ch
    BY <1>2 DEF LeaseExpires, Polling
  <2>2. \A d \in Channels \ {ch} : channel'[d].lease = channel[d].lease
    BY <1>1, <1>2 DEF LeaseExpires
  <2>3. \A s \in Slots : poll[s].at # "idle" => poll[s].channel \in Channels
    BY DEF IInv, PollOK, Types
  <2> QED BY <1>1, <2>1, <2>2, <2>3, StillOnePoll
<1>3. CASE Publish(ch) \/ BecomesDue(ch) \/ ScheduleNow(ch)
  <2>1. \A d \in Channels : channel'[d].lease = channel[d].lease
    BY <1>1, <1>3 DEF Publish, BecomesDue, ScheduleNow, Rows
  <2>2. \A s \in Slots : poll[s].at # "idle" => poll[s].channel \in Channels
    BY DEF IInv, PollOK, Types
  <2> QED BY <1>1, <2>1, <2>2, StillOnePoll
<1> QED BY <1>2, <1>3 DEF ChannelStep

LEMMA OnePollDelete ==
  ASSUME IInv, OnePollPerChannel, DeletePublisher
  PROVE  OnePollPerChannel'
<1>1. channel \in [Channels -> Rows] /\ UNCHANGED poll
  BY DEF IInv, Types, DeletePublisher
<1>2. \A d \in Channels : channel'[d].lease = channel[d].lease
  BY <1>1 DEF DeletePublisher, Rows
<1>3. \A s \in Slots : poll[s].at # "idle" => poll[s].channel \in Channels
  BY DEF IInv, PollOK, Types
<1> QED BY <1>1, <1>2, <1>3, StillOnePoll

\* A leased row is not leased again.
LEMMA OnePollLease ==
  ASSUME IInv, OnePollPerChannel, NEW s \in Slots, NEW ch \in Channels, Lease(s, ch)
  PROVE  OnePollPerChannel'
<1> DEFINE q == [Idle EXCEPT !.at = "fetching", !.channel = ch, !.tag = channel[ch].tag]
<1>1. /\ channel' = [channel EXCEPT ![ch].lease = "live"] /\ channel \in [Channels -> Rows]
      /\ poll' = [poll EXCEPT ![s] = q] /\ poll \in [Slots -> Polls]
      /\ channel[ch].lease # "live"
  BY DEF Lease, Claimable, IInv, Types
<1>2. q.at = "fetching" /\ q.channel = ch
  BY DEF Idle
<1> HIDE DEF q
<1>3. poll'[s] = q /\ \A t \in Slots \ {s} : poll'[t] = poll[t]
  BY <1>1
<1>4. \A t \in Slots : poll[t].channel # ch
  BY <1>1, ChannelAssumption DEF OnePollPerChannel, IInv, PollOK, ChannelAssumption
<1>5. channel'[ch].lease = "live" /\ \A d \in Channels \ {ch} : channel'[d] = channel[d]
  BY <1>1 DEF Rows
<1>6. \A t \in Slots : poll[t].at # "idle" => poll[t].channel \in Channels
  BY DEF IInv, PollOK, Types
<1> QED BY <1>2, <1>3, <1>4, <1>5, <1>6 DEF OnePollPerChannel, Polling

LEMMA OnePollSlotStep ==
  ASSUME Premises, IInv, OnePollPerChannel, NEW s \in Slots, PollStep(s) \/ Abandon(s)
  PROVE  OnePollPerChannel'
<1>1. poll \in [Slots -> Polls] /\ poll[s] \in Polls /\ channel \in [Channels -> Rows]
  BY DEF IInv, PollOK, Types
<1>2. CASE FinishSucceeded(s) \/ FinishNotModified(s) \/ FinishFailed(s) \/ Abandon(s)
  <2>1. /\ poll'[s] = Idle /\ \A t \in Slots \ {s} : poll'[t] = poll[t]
        /\ poll[s].at # "idle"
        /\ \A ch \in Channels \ {poll[s].channel} : channel'[ch] = channel[ch]
    BY <1>1, <1>2 DEF FinishSucceeded, FinishNotModified, FinishFailed, Finish, Abandon
  <2> QED BY <2>1, OnePollLess
<1>3. CASE \/ FetchNotModified(s) \/ FetchDocument(s) \/ Raise(s) \/ ReadEntry(s)
           \/ RefuseEntry(s) \/ EntryConflicts(s) \/ ScanEnds(s)
  <2>1. /\ UNCHANGED channel /\ poll[s].at # "idle"
        /\ \A t \in Slots \ {s} : poll'[t] = poll[t]
    BY <1>1, <1>3 DEF FetchNotModified, FetchDocument, Raise, ReadEntry, RefuseEntry,
                      EntryConflicts, ScanEnds
  <2>2. poll'[s].channel = poll[s].channel /\ poll'[s].at # "idle"
    BY <1>1, <1>3 DEF FetchNotModified, FetchDocument, Raise, ReadEntry, RefuseEntry,
                      EntryConflicts, ScanEnds, Polls
  <2> QED BY <2>1, <2>2, StillOnePoll
<1>4. ASSUME NEW acknowledged \in BOOLEAN, CommitEntry(s, acknowledged)
      PROVE  OnePollPerChannel'
  <2> DEFINE q == IF acknowledged
                  THEN [poll[s] EXCEPT !.at = "scanning", !.pos = @ + 1, !.fresh = FALSE,
                                       !.admitted = IF poll[s].fresh THEN @ + 1 ELSE @]
                  ELSE [poll[s] EXCEPT !.at = "failing"]
  <2>1. poll' = [poll EXCEPT ![s] = q] /\ poll[s].at = "committing"
    BY <1>4 DEF CommitEntry
  <2>2. q.channel = poll[s].channel /\ q.at # "idle"
    BY <1>1 DEF Polls
  <2> HIDE DEF q
  <2>3. /\ poll'[s].channel = poll[s].channel /\ poll'[s].at # "idle" /\ poll[s].at # "idle"
        /\ \A t \in Slots \ {s} : poll'[t] = poll[t]
    BY <1>1, <2>1, <2>2
  <2>4. \A t \in Slots : poll[t].at # "idle" =>
          channel'[poll[t].channel].lease = channel[poll[t].channel].lease
    <3>1. CASE OfIndex(poll[s]) /\ poll[s].fresh
      <4>1. channel' = [channel EXCEPT ![Entry(poll[s])] = NewRow("due")]
        BY <1>4, <3>1 DEF CommitEntry
      <4>2. Entry(poll[s]) \notin opened
        BY <1>4, <3>1, CommitWrites DEF Premises
      <4>3. \A t \in Slots : poll[t].at # "idle" => poll[t].channel \in opened
        BY DEF IInv, PollOK
      <4> QED BY <1>1, <4>1, <4>2, <4>3 DEF IInv, Types
    <3>2. CASE ~(OfIndex(poll[s]) /\ poll[s].fresh)
      BY <1>4, <3>2 DEF CommitEntry
    <3> QED BY <3>1, <3>2
  <2> QED BY <2>3, <2>4, StillOnePoll
<1> QED BY <1>2, <1>3, <1>4 DEF PollStep, EntryObserved, EntryUnacknowledged

\* SKIP LOCKED and the lease leave a channel to one poll: complete, which writes the row
\* without asking whose lease it holds, writes it for the poll that holds it.
THEOREM AlwaysOnePollPerChannel ==
  ASSUME ~Overrun PROVE Spec => []OnePollPerChannel
<1>1. Premises
  BY ChannelAssumption, LimitAssumption, EntryAssumption DEF Premises
<1>2. Init => OnePollPerChannel
  BY DEF Init, OnePollPerChannel, Idle
<1>3. IInv /\ OnePollPerChannel /\ [Next]_vars => OnePollPerChannel'
  <2> SUFFICES ASSUME IInv, OnePollPerChannel, [Next]_vars
               PROVE  OnePollPerChannel'
    OBVIOUS
  <2>1. ASSUME NEW ch \in Channels, ChannelStep(ch) \/ LeaseAny(ch)
        PROVE  OnePollPerChannel'
    BY <2>1, OnePollChannelStep, OnePollLease DEF LeaseAny
  <2>2. CASE UNCHANGED vars
    BY <2>2, StillOnePoll DEF vars
  <2> QED BY <1>1, <2>1, <2>2, OnePollSlotStep, OnePollDelete DEF Next
<1> QED BY <1>2, <1>3, Invariance, PTL DEF Spec
=============================================================================
