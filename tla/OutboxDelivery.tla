--------------------------- MODULE OutboxDelivery ---------------------------
(***************************************************************************)
(* What the outbox promises a consumer: a message that its writer has       *)
(* committed is recorded in the consumer's inbox, once, in the same step     *)
(* that marks it as published, and it stays so.  Relays do not occur here.   *)
(***************************************************************************)
CONSTANT Messages

VARIABLES
  waiting,    \* messages committed by their writers and not yet published
  delivered   \* messages recorded in the inbox and marked as published

vars == <<waiting, delivered>>

Init == waiting = {} /\ delivered = {}

\* A writer's transaction makes some messages visible.
Announce(S) ==
  /\ S # {}
  /\ S \cap (waiting \cup delivered) = {}
  /\ waiting' = waiting \cup S
  /\ UNCHANGED delivered

\* A batch of messages is delivered as a whole.
Deliver(S) ==
  /\ S # {}
  /\ S \subseteq waiting
  /\ waiting' = waiting \ S
  /\ delivered' = delivered \cup S

Next == \E S \in SUBSET Messages : Announce(S) \/ Deliver(S)

Spec == Init /\ [][Next]_vars
=============================================================================
