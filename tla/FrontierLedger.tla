--------------------------- MODULE FrontierLedger ---------------------------
(***************************************************************************)
(* What the discovery tables promise whoever reads them: a URL is admitted   *)
(* once, by the channel that found it first; every channel that finds it is  *)
(* recorded once; and the outbox announces exactly that, in the transaction  *)
(* that records it.                                                          *)
(***************************************************************************)

CONSTANTS
  Channels,   \* discovery channels
  URLs,       \* URL fingerprints
  Unknown,    \* origin of a URL that is not admitted
  Seeded      \* channels that exist from the start

VARIABLES
  origin,     \* the channel that had a URL admitted
  observed,   \* which channel has found which URL
  opened,     \* the channels that exist
  announced   \* the messages about all that

vars == <<origin, observed, opened, announced>>

Admitted(ch, u)  == [type |-> "frontier.url_admitted", channel |-> ch, subject |-> u]
Observed(ch, u)  == [type |-> "discovery.item_observed", channel |-> ch, subject |-> u]
Opened(ch)       == [type |-> "discovery.channel_created", channel |-> ch, subject |-> ch]

Init ==
  /\ origin = [u \in URLs |-> Unknown]
  /\ observed = {}
  /\ opened = Seeded
  /\ announced = {}

\* A channel finds a URL that no channel has found before.
Admit(ch, u) ==
  /\ ch \in opened
  /\ origin[u] = Unknown
  /\ origin' = [origin EXCEPT ![u] = ch]
  /\ observed' = observed \cup {<<ch, u>>}
  /\ announced' = announced \cup {Admitted(ch, u), Observed(ch, u)}
  /\ UNCHANGED opened

\* A channel finds a URL that only other channels have found.
Confirm(ch, u) ==
  /\ ch \in opened
  /\ origin[u] # Unknown
  /\ <<ch, u>> \notin observed
  /\ observed' = observed \cup {<<ch, u>>}
  /\ announced' = announced \cup {Observed(ch, u)}
  /\ UNCHANGED <<origin, opened>>

\* A sitemap index lists a channel that does not exist yet.
Open(ch) ==
  /\ ch \notin opened
  /\ opened' = opened \cup {ch}
  /\ announced' = announced \cup {Opened(ch)}
  /\ UNCHANGED <<origin, observed>>

Next ==
  \/ \E ch \in Channels, u \in URLs : Admit(ch, u) \/ Confirm(ch, u)
  \/ \E ch \in Channels : Open(ch)

Spec == Init /\ [][Next]_vars
=============================================================================
