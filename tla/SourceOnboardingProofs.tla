----------------------- MODULE SourceOnboardingProofs -----------------------
(***************************************************************************)
(* Theorems about SourceOnboarding, for any names, domains and endpoints and *)
(* any number of calls at once.  The invariant says what each call still     *)
(* knows of the tables it has read, which others have changed since: rows    *)
(* are added and switched off, and never renamed, removed or switched on.    *)
(* What the calls hold locked is an invariant of its own.                    *)
(***************************************************************************)
EXTENDS SourceOnboarding, FiniteSets, FiniteSetTheorems, WellFoundedInduction, TLAPS

TableTypes ==
  /\ DOMAIN publishers \subseteq Ids
  /\ \A p \in DOMAIN publishers : publishers[p] \in PublisherRows
  /\ DOMAIN channels \subseteq Keys
  /\ \A k \in DOMAIN channels : channels[k] \in ChannelRows
  /\ DOMAIN jobs \subseteq Calls
  /\ \A j \in DOMAIN jobs : jobs[j] \in JobRows
  /\ outbox \subseteq Messages

ArgTypes ==
  /\ phase \in [Calls -> {"idle"} \cup Busy \cup Ended]
  /\ DOMAIN arg = {c \in Calls : phase[c] # "idle"}
  /\ \A c \in DOMAIN arg : arg[c] \in Args

ReadTypes ==
  /\ \A c \in DOMAIN slug : slug[c] \in Slugs
  /\ seen \in [Calls -> SUBSET Ids]
  /\ snap \in [Calls -> SUBSET Keys]

CallTypes == TableTypes /\ ArgTypes /\ ReadTypes

LockTypes == locks \in [Calls -> RowLocks]

\* What a call that is not done will be named by is free.
Named ==
  \A c \in Calls : c \in DOMAIN publishers \/ c \in DOMAIN jobs => phase[c] = "done"

\* The publishers a call has found have another domain, or slug, than it is to insert.
NewDomain(c) ==
  \A p \in seen[c] : p \in DOMAIN publishers /\ publishers[p].domain # arg[c].domain

NewSlug(c) ==
  /\ c \in DOMAIN slug
  /\ \A p \in seen[c] : p \in DOMAIN publishers /\ publishers[p].slug # slug[c]

\* A call that is about to insert.
Adding(c) ==
  \/ arg[c].kind = "discover" /\ NewDomain(c) /\ NewSlug(c) /\ Gapless(slug[c])
  \/ arg[c].kind = "create" /\ NewSlug(c)
  \/ /\ arg[c].kind = "create_channel"
     /\ arg[c].target \in DOMAIN publishers
     /\ Key(arg[c]) \notin snap[c]

\* A call that is about to update.
Updating(c) ==
  /\ phase[c] \in {"matching", "scheduling", "marking"} =>
       /\ arg[c].kind = "fetch" /\ arg[c].target # Unknown
       /\ seen[c] \subseteq DOMAIN publishers
  /\ phase[c] \in {"disabling", "switching"} =>
       arg[c].kind = "delete" /\ arg[c].target \in DOMAIN publishers
  /\ phase[c] \in {"scheduling", "marking", "switching"} => snap[c] \subseteq DOMAIN channels

\* A call that is over.
Over(c) ==
  /\ phase[c] = "integrity" =>
       LostRace(c) /\ (arg[c].kind \in {"discover", "create"} => c \in DOMAIN slug)
  /\ phase[c] = "done" /\ arg[c].kind = "delete" =>
       /\ SwitchedOff(c)
       /\ arg[c].target \in DOMAIN publishers
       /\ snap[c] \subseteq DOMAIN channels

CallInv(c) ==
  /\ phase[c] = "naming" => arg[c].kind = "discover" /\ NewDomain(c)
  /\ phase[c] = "adding" => Adding(c)
  /\ Updating(c)
  /\ Over(c)

IInv ==
  /\ CallTypes
  /\ Named
  /\ OutboxMatchesTables
  /\ SuffixesFollow
  /\ \A c \in Calls : CallInv(c)

LEMMA TypeParts == TypeOK <=> CallTypes /\ LockTypes
BY DEF TypeOK, CallTypes, TableTypes, ArgTypes, ReadTypes, LockTypes

----------------------------------------------------------------------------
(* Slugs *)

\* A call that has not made a publisher.
Nameless(c) == DOMAIN publishers \subseteq Ids /\ c \in Calls \ DOMAIN publishers

\* A nonempty set of numbers has a least one.
LEMMA Least ==
  ASSUME NEW T \in SUBSET Nat, T # {}
  PROVE  \E k \in T : \A i \in T : k <= i
<1> DEFINE R == OpToRel(<, Nat)
<1>1. PICK k \in T : \A i \in T : <<i, k>> \notin R
  <2>1. IsWellFoundedOn(R, Nat)
    BY NatLessThanWellFounded
  <2> HIDE DEF R
  <2> QED BY <2>1, WFMin
<1>2. \A i \in T : ~ (i < k)
  BY <1>1 DEF OpToRel
<1> QED BY <1>2

\* There are not enough publishers to take every suffix.
LEMMA SomeSuffixFree ==
  ASSUME SourcesAssumption, NEW c, Nameless(c), NEW name
  PROVE  \E k \in 1..(MaxCalls + 1) : <<name, k>> \notin TakenSlugs
<1> DEFINE S == 1..(MaxCalls + 1)
           T == Ids \ {c}
           f == [k \in S |-> CHOOSE p \in DOMAIN publishers : publishers[p].slug = <<name, k>>]
<1> SUFFICES ASSUME \A k \in S : <<name, k>> \in TakenSlugs
             PROVE  FALSE
  OBVIOUS
<1>1. ASSUME NEW k \in S
      PROVE  f[k] \in DOMAIN publishers /\ publishers[f[k]].slug = <<name, k>>
  <2>1. \E p \in DOMAIN publishers : publishers[p].slug = <<name, k>>
    BY DEF TakenSlugs
  <2> QED BY <2>1
<1>2. f \in [S -> T]
  BY <1>1 DEF Nameless
<1>3. /\ IsFiniteSet(S) /\ Cardinality(S) = MaxCalls + 1
      /\ IsFiniteSet(Ids) /\ Cardinality(Ids) = MaxCalls + 1
  BY FS_Interval DEF SourcesAssumption, Ids
<1>4. IsFiniteSet(T) /\ Cardinality(T) = MaxCalls
  <2>1. c \in Ids /\ MaxCalls \in Nat
    BY DEF Nameless, Calls, Ids, SourcesAssumption
  <2>2. IsFiniteSet(Ids \ {c}) /\ Cardinality(Ids \ {c}) = Cardinality(Ids) - 1
    BY <1>3, <2>1, FS_RemoveElement
  <2> QED BY <1>3, <2>1, <2>2
<1>5. Cardinality(T) < Cardinality(S)
  BY <1>3, <1>4 DEF SourcesAssumption
<1> HIDE DEF S, T, f
<1>6. PICK x, y \in S : x # y /\ f[x] = f[y]
  BY <1>2, <1>3, <1>4, <1>5, FS_PigeonHole
<1> QED BY <1>1, <1>6

\* The suffix that a discovery takes is free, and those before it are not.
LEMMA UniqueSlugIsFree ==
  ASSUME SourcesAssumption, NEW c, Nameless(c), NEW name
  PROVE  \E k \in 1..(MaxCalls + 1) :
           /\ UniqueSlug(name) = <<name, k>>
           /\ <<name, k>> \notin TakenSlugs
           /\ \A i \in 1..(k - 1) : <<name, i>> \in TakenSlugs
<1> DEFINE F == {k \in 1..(MaxCalls + 1) : <<name, k>> \notin TakenSlugs}
           Lowest(k) == <<name, k>> \notin TakenSlugs
                        /\ \A i \in 1..(k - 1) : <<name, i>> \in TakenSlugs
<1>1. PICK k \in F : \A i \in F : k <= i
  <2>1. F \in SUBSET Nat
    BY DEF SourcesAssumption
  <2>2. F # {}
    BY SomeSuffixFree
  <2> HIDE DEF F
  <2> QED BY <2>1, <2>2, Least
<1>2. Lowest(k)
  BY <1>1 DEF SourcesAssumption
<1>3. UniqueSlug(name) = <<name, CHOOSE j \in 1..(MaxCalls + 1) : Lowest(j)>>
  BY DEF UniqueSlug
<1> QED BY <1>1, <1>2, <1>3

----------------------------------------------------------------------------
(* What the other calls do not disturb *)

\* Rows stay, keep their keys, and are switched off at most.
Grow ==
  /\ \A p \in DOMAIN publishers :
       /\ p \in DOMAIN publishers'
       /\ publishers'[p].slug = publishers[p].slug
       /\ publishers'[p].domain = publishers[p].domain
       /\ publishers'[p].origin = publishers[p].origin
       /\ publishers'[p].active => publishers[p].active
  /\ \A k \in DOMAIN channels :
       /\ k \in DOMAIN channels'
       /\ channels'[k].origin = channels[k].origin
       /\ channels'[k].active => channels[k].active

\* Call c stays where it is.
Unmoved(c) ==
  /\ phase'[c] = phase[c]
  /\ phase[c] # "idle" => arg'[c] = arg[c]
  /\ c \in DOMAIN slug => c \in DOMAIN slug' /\ slug'[c] = slug[c]
  /\ seen'[c] = seen[c]
  /\ snap'[c] = snap[c]

LEMMA Undisturbed ==
  ASSUME NEW c \in Calls, CallInv(c), Grow, Unmoved(c)
  PROVE  CallInv(c)'
<1> USE DEF Unmoved, Grow
<1>1. CASE phase[c] = "idle"
  BY <1>1 DEF CallInv, Updating, Over
<1>2. CASE phase[c] # "idle"
  <2>1. NewDomain(c) => NewDomain(c)'
    BY <1>2 DEF NewDomain
  <2>2. NewSlug(c) => NewSlug(c)'
    BY DEF NewSlug
  <2>3. c \in DOMAIN slug /\ Gapless(slug[c]) => Gapless(slug[c])'
    BY DEF Gapless
  <2>4. phase'[c] = "adding" => Adding(c)'
    BY <1>2, <2>1, <2>2, <2>3 DEF CallInv, Adding, NewSlug, Key
  <2>5. Updating(c)'
    BY <1>2 DEF CallInv, Updating
  <2>6. Over(c)'
    <3>1. CASE phase[c] = "integrity" /\ arg[c].kind = "discover"
      BY <1>2, <3>1 DEF CallInv, Over, LostRace
    <3>2. CASE phase[c] = "integrity" /\ arg[c].kind = "create"
      BY <1>2, <3>2 DEF CallInv, Over, LostRace
    <3>3. CASE phase[c] = "integrity" /\ arg[c].kind \notin {"discover", "create"}
      BY <1>2, <3>3 DEF CallInv, Over, LostRace, Key
    <3>4. CASE phase[c] = "done"
      BY <1>2, <3>4 DEF CallInv, Over, SwitchedOff
    <3> QED BY <3>1, <3>2, <3>3, <3>4 DEF Over
  <2> QED BY <1>2, <2>1, <2>4, <2>5, <2>6 DEF CallInv
<1> QED BY <1>1, <1>2

\* A step of one call that leaves the tables alone.
LEMMA QuietStep ==
  ASSUME IInv, NEW c \in Calls, phase[c] # "done", UNCHANGED Tables,
         ArgTypes', ReadTypes', CallInv(c)',
         \A d \in Calls \ {c} : Unmoved(d)
  PROVE  IInv'
<1> USE DEF IInv, Tables
<1>1. CallTypes'
  BY DEF CallTypes, TableTypes
<1>2. Named'
  BY DEF Named, Unmoved
<1>3. OutboxMatchesTables' /\ SuffixesFollow'
  BY DEF OutboxMatchesTables, SuffixesFollow, Gapless
<1>4. Grow
  BY DEF Grow
<1>5. \A d \in Calls : CallInv(d)'
  BY <1>4, Undisturbed
<1> QED BY <1>1, <1>2, <1>3, <1>5
----------------------------------------------------------------------------
(* Steps that leave the tables alone *)

\* The arguments of one kind.
LEMMA Kinds ==
  ASSUME NEW a \in Args
  PROVE  /\ a.kind = "discover" => a \in DiscoverArgs
         /\ a.kind = "create" => a \in CreateArgs
         /\ a.kind = "create_channel" => a \in ChannelArgs
         /\ a.kind = "fetch" => a \in FetchArgs
         /\ a.kind = "delete" => a \in DeleteArgs
BY DEF Args, DiscoverArgs, CreateArgs, ChannelArgs, FetchArgs, DeleteArgs

\* A call that has begun goes on.
LEMMA MoveOn ==
  ASSUME ArgTypes, NEW c \in Calls, phase[c] # "idle", NEW p \in Busy \cup Ended,
         Goes(c, p), UNCHANGED arg
  PROVE  /\ ArgTypes'
         /\ phase'[c] = p
         /\ \A d \in Calls \ {c} : phase'[d] = phase[d]
<1>1. phase' = [phase EXCEPT ![c] = p] /\ phase \in [Calls -> {"idle"} \cup Busy \cup Ended]
  BY DEF Goes, ArgTypes
<1>2. p # "idle"
  BY DEF Busy, Ended
<1>3. phase' \in [Calls -> {"idle"} \cup Busy \cup Ended]
  BY <1>1
<1> QED BY <1>1, <1>2, <1>3 DEF ArgTypes

\* A request arrives.
LEMMA Arrive ==
  ASSUME ArgTypes, NEW c \in Calls, NEW a \in Args, Request(c, a),
         NEW p \in Busy \cup Ended, Goes(c, p)
  PROVE  /\ ArgTypes'
         /\ phase[c] = "idle"
         /\ phase'[c] = p
         /\ arg'[c] = a
         /\ \A d \in Calls \ {c} :
              phase'[d] = phase[d] /\ (phase[d] # "idle" => arg'[d] = arg[d])
<1>1. phase' = [phase EXCEPT ![c] = p] /\ phase \in [Calls -> {"idle"} \cup Busy \cup Ended]
  BY DEF Goes, ArgTypes
<1>2. p # "idle"
  BY DEF Busy, Ended
<1>3. phase' \in [Calls -> {"idle"} \cup Busy \cup Ended]
  BY <1>1
<1>4. /\ phase[c] = "idle"
      /\ DOMAIN arg' = DOMAIN arg \cup {c}
      /\ arg'[c] = a
      /\ \A d \in DOMAIN arg \ {c} : arg'[d] = arg[d]
  BY DEF Request, Put
<1>5. DOMAIN arg = {d \in Calls : phase[d] # "idle"} /\ \A d \in DOMAIN arg : arg[d] \in Args
  BY DEF ArgTypes
<1>6. DOMAIN arg' = {d \in Calls : phase'[d] # "idle"}
  BY <1>1, <1>2, <1>4, <1>5
<1>7. \A d \in DOMAIN arg' : arg'[d] \in Args
  BY <1>4, <1>5
<1> QED BY <1>1, <1>3, <1>4, <1>5, <1>6, <1>7 DEF ArgTypes

\* A call that ends without a trace.
LEMMA Ends ==
  ASSUME NEW c \in Calls, phase'[c] \in {"conflict", "not_found", "failed"}
  PROVE  CallInv(c)'
BY DEF CallInv, Updating, Over

LEMMA Stops ==
  ASSUME IInv, NEW c \in Calls, phase[c] \in Busy,
         NEW p \in {"conflict", "not_found", "failed"}, Raises(c, p)
  PROVE  IInv'
<1>1. ArgTypes /\ ReadTypes
  BY DEF IInv, CallTypes
<1>2. Goes(c, p) /\ UNCHANGED arg /\ p \in Busy \cup Ended
  BY DEF Raises, Returns, Ended
<1>3. phase[c] \notin {"idle", "done"}
  BY DEF Busy
<1>4. ArgTypes' /\ phase'[c] = p /\ \A d \in Calls \ {c} : phase'[d] = phase[d]
  BY <1>1, <1>2, <1>3, MoveOn
<1>5. UNCHANGED <<Tables, slug, seen, snap>>
  BY DEF Raises, Returns
<1>6. ReadTypes'
  BY <1>1, <1>5 DEF ReadTypes
<1>7. \A d \in Calls \ {c} : Unmoved(d)
  BY <1>2, <1>4, <1>5 DEF Unmoved
<1>8. CallInv(c)'
  BY <1>4, Ends
<1> QED BY <1>3, <1>4, <1>5, <1>6, <1>7, <1>8, QuietStep

LEMMA Rejects ==
  ASSUME IInv, NEW c \in Calls, NEW a \in Args, Request(c, a),
         NEW p \in {"conflict", "not_found", "failed"}, Returns(c, p)
  PROVE  IInv'
<1>1. ArgTypes /\ ReadTypes
  BY DEF IInv, CallTypes
<1>2. Goes(c, p) /\ p \in Busy \cup Ended
  BY DEF Returns, Ended
<1>4. /\ ArgTypes' /\ phase'[c] = p /\ phase[c] = "idle"
      /\ \A d \in Calls \ {c} :
           phase'[d] = phase[d] /\ (phase[d] # "idle" => arg'[d] = arg[d])
  BY <1>1, <1>2, Arrive
<1>5. UNCHANGED <<Tables, slug, seen, snap>>
  BY DEF Returns
<1>6. ReadTypes'
  BY <1>1, <1>5 DEF ReadTypes
<1>7. \A d \in Calls \ {c} : Unmoved(d)
  BY <1>4, <1>5 DEF Unmoved
<1>8. CallInv(c)'
  BY <1>4, Ends
<1> QED BY <1>4, <1>5, <1>6, <1>7, <1>8, QuietStep

\* A call that goes on, having read what it holds now.
LEMMA Reading ==
  ASSUME IInv, NEW c \in Calls, phase[c] \in Busy, NEW p \in Busy \cup {"integrity"},
         Goes(c, p), UNCHANGED <<Tables, arg>>, ReadTypes', CallInv(c)',
         \A d \in Calls \ {c} : /\ d \in DOMAIN slug => d \in DOMAIN slug' /\ slug'[d] = slug[d]
                                /\ seen'[d] = seen[d]
                                /\ snap'[d] = snap[d]
  PROVE  IInv'
<1>1. ArgTypes
  BY DEF IInv, CallTypes
<1>2. phase[c] \notin {"idle", "done"} /\ p \in Busy \cup Ended
  BY DEF Busy, Ended
<1>3. ArgTypes' /\ \A d \in Calls \ {c} : phase'[d] = phase[d]
  BY <1>1, <1>2, MoveOn
<1>4. \A d \in Calls \ {c} : Unmoved(d)
  BY <1>3 DEF Unmoved
<1>5. UNCHANGED Tables
  OBVIOUS
<1> QED BY <1>2, <1>3, <1>4, <1>5, QuietStep

\* A call that begins, having read what it holds now.
LEMMA Beginning ==
  ASSUME IInv, NEW c \in Calls, NEW a \in Args, Request(c, a), NEW p \in Busy,
         Goes(c, p), UNCHANGED Tables, ReadTypes', CallInv(c)',
         \A d \in Calls \ {c} : /\ d \in DOMAIN slug => d \in DOMAIN slug' /\ slug'[d] = slug[d]
                                /\ seen'[d] = seen[d]
                                /\ snap'[d] = snap[d]
  PROVE  IInv'
<1>1. ArgTypes
  BY DEF IInv, CallTypes
<1>2. /\ ArgTypes' /\ phase[c] = "idle"
      /\ \A d \in Calls \ {c} :
           phase'[d] = phase[d] /\ (phase[d] # "idle" => arg'[d] = arg[d])
  BY <1>1, Arrive
<1>3. \A d \in Calls \ {c} : Unmoved(d)
  BY <1>2 DEF Unmoved
<1> QED BY <1>2, <1>3, QuietStep

----------------------------------------------------------------------------
(* discover_publisher, create_publisher and create_channel, before they write *)

LEMMA CheckDomainStep ==
  ASSUME IInv, NEW c \in Calls, CheckDomain(c)
  PROVE  IInv'
<1>1. PICK a \in DiscoverArgs :
        /\ Request(c, a)
        /\ IF \E p \in DOMAIN publishers : publishers[p].domain = a.domain
             THEN Returns(c, "conflict")
             ELSE /\ Goes(c, "naming")
                  /\ seen' = [seen EXCEPT ![c] = DOMAIN publishers]
                  /\ UNCHANGED <<Tables, slug, snap>>
  BY DEF CheckDomain
<1>2. a \in Args
  BY DEF Args
<1>3. CASE \E p \in DOMAIN publishers : publishers[p].domain = a.domain
  BY <1>1, <1>2, <1>3, Rejects
<1>4. CASE ~ \E p \in DOMAIN publishers : publishers[p].domain = a.domain
  <2>1. /\ Goes(c, "naming") /\ UNCHANGED <<Tables, slug, snap>> /\ "naming" \in Busy
        /\ seen' = [seen EXCEPT ![c] = DOMAIN publishers]
    BY <1>1, <1>4 DEF Busy
  <2>2. TableTypes /\ ArgTypes /\ ReadTypes
    BY DEF IInv, CallTypes
  <2>3. phase'[c] = "naming" /\ arg'[c] = a /\ a.kind = "discover"
    BY <1>1, <1>2, <2>1, <2>2, Arrive DEF DiscoverArgs
  <2>4. /\ ReadTypes' /\ seen'[c] = DOMAIN publishers
        /\ \A d \in Calls \ {c} : seen'[d] = seen[d]
    BY <2>1, <2>2 DEF ReadTypes, TableTypes
  <2>5. CallInv(c)'
    BY <1>4, <2>1, <2>3, <2>4 DEF CallInv, NewDomain, Updating, Over, Tables
  <2> QED BY <1>1, <1>2, <2>1, <2>4, <2>5, Beginning
<1> QED BY <1>3, <1>4

LEMMA ChooseSlugStep ==
  ASSUME SourcesAssumption, IInv, NEW c \in Calls, ChooseSlug(c)
  PROVE  IInv'
<1>1. /\ phase[c] = "naming" /\ Goes(c, "adding")
      /\ slug' = Put(slug, c, UniqueSlug(arg[c].name))
      /\ UNCHANGED <<Tables, arg>> /\ UNCHANGED <<seen, snap>>
      /\ phase[c] \in Busy /\ "adding" \in Busy
  BY DEF ChooseSlug, Busy
<1>2. /\ TableTypes /\ ArgTypes /\ ReadTypes
      /\ arg[c] \in Args /\ arg[c].kind = "discover" /\ NewDomain(c)
  BY <1>1 DEF IInv, CallTypes, CallInv, ArgTypes
<1>3. arg[c].name \in Names
  BY <1>2, Kinds DEF DiscoverArgs
<1>4. Nameless(c)
  BY <1>1 DEF IInv, CallTypes, TableTypes, Named, Nameless
<1>5. PICK k \in 1..(MaxCalls + 1) :
        /\ UniqueSlug(arg[c].name) = <<arg[c].name, k>>
        /\ <<arg[c].name, k>> \notin TakenSlugs
        /\ \A i \in 1..(k - 1) : <<arg[c].name, i>> \in TakenSlugs
  BY <1>4, UniqueSlugIsFree
<1>6. /\ c \in DOMAIN slug' /\ slug'[c] = <<arg[c].name, k>>
      /\ DOMAIN slug' = DOMAIN slug \cup {c}
      /\ \A d \in DOMAIN slug \ {c} : slug'[d] = slug[d]
  BY <1>1, <1>5 DEF Put
<1>7. ReadTypes'
  <2>1. slug'[c] \in Slugs
    BY <1>3, <1>6 DEF Slugs
  <2>2. \A d \in DOMAIN slug' : slug'[d] \in Slugs
    BY <1>2, <1>6, <2>1 DEF ReadTypes
  <2> QED BY <1>1, <1>2, <2>2 DEF ReadTypes
<1>8. phase'[c] = "adding"
  BY <1>1, <1>2, MoveOn
<1>9. CallInv(c)'
  <2>1. NewDomain(c)'
    BY <1>1, <1>2 DEF NewDomain, Tables
  <2>2. NewSlug(c)'
    BY <1>1, <1>2, <1>5, <1>6 DEF NewSlug, NewDomain, TakenSlugs, Tables
  <2>3. Gapless(slug[c])'
    <3>1. publishers' = publishers
      BY <1>1 DEF Tables
    <3>2. \A i \in 1..(k - 1) : \E q \in DOMAIN publishers : publishers[q].slug = <<arg[c].name, i>>
      BY <1>5 DEF TakenSlugs
    <3>3. slug'[c][1] = arg[c].name /\ slug'[c][2] = k
      BY <1>6
    <3> QED BY <3>1, <3>2, <3>3 DEF Gapless
  <2>4. Adding(c)'
    BY <1>1, <1>2, <2>1, <2>2, <2>3 DEF Adding
  <2> QED BY <1>8, <2>4 DEF CallInv, Updating, Over
<1>10. \A d \in Calls \ {c} : d \in DOMAIN slug => d \in DOMAIN slug' /\ slug'[d] = slug[d]
  BY <1>6
<1> QED BY <1>1, <1>7, <1>9, <1>10, Reading

LEMMA CheckSlugStep ==
  ASSUME SourcesAssumption, IInv, NEW c \in Calls, CheckSlug(c)
  PROVE  IInv'
<1>1. PICK a \in CreateArgs :
        /\ Request(c, a)
        /\ IF a.slug \in TakenSlugs
             THEN Returns(c, "conflict")
             ELSE /\ Goes(c, "adding")
                  /\ slug' = Put(slug, c, a.slug)
                  /\ seen' = [seen EXCEPT ![c] = DOMAIN publishers]
                  /\ UNCHANGED <<Tables, snap>>
  BY DEF CheckSlug
<1>2. a \in Args
  BY DEF Args
<1>3. CASE a.slug \in TakenSlugs
  BY <1>1, <1>2, <1>3, Rejects
<1>4. CASE a.slug \notin TakenSlugs
  <2>1. /\ Goes(c, "adding") /\ UNCHANGED Tables /\ UNCHANGED snap /\ "adding" \in Busy
        /\ slug' = Put(slug, c, a.slug)
        /\ seen' = [seen EXCEPT ![c] = DOMAIN publishers]
    BY <1>1, <1>4 DEF Busy
  <2>2. TableTypes /\ ArgTypes /\ ReadTypes
    BY DEF IInv, CallTypes
  <2>3. /\ phase'[c] = "adding" /\ arg'[c] = a /\ a.kind = "create"
        /\ a.slug \in Slugs
    BY <1>1, <1>2, <2>1, <2>2, Arrive DEF CreateArgs, SourcesAssumption, Slugs
  <2>4. /\ seen' \in [Calls -> SUBSET Ids] /\ seen'[c] = DOMAIN publishers
        /\ \A d \in Calls \ {c} : seen'[d] = seen[d]
    BY <2>1, <2>2 DEF ReadTypes, TableTypes
  <2>5. /\ c \in DOMAIN slug' /\ slug'[c] = a.slug
        /\ DOMAIN slug' = DOMAIN slug \cup {c}
        /\ \A d \in DOMAIN slug \ {c} : slug'[d] = slug[d]
    BY <2>1 DEF Put
  <2>6. ReadTypes'
    BY <2>1, <2>2, <2>3, <2>4, <2>5 DEF ReadTypes
  <2>7. CallInv(c)'
    <3>1. NewSlug(c)'
      BY <1>4, <2>1, <2>4, <2>5 DEF NewSlug, TakenSlugs, Tables
    <3> QED BY <2>3, <3>1 DEF CallInv, Adding, Updating, Over
  <2>8. \A d \in Calls \ {c} : /\ d \in DOMAIN slug => d \in DOMAIN slug' /\ slug'[d] = slug[d]
                               /\ seen'[d] = seen[d]
                               /\ snap'[d] = snap[d]
    BY <2>1, <2>4, <2>5
  <2> QED BY <1>1, <1>2, <2>1, <2>6, <2>7, <2>8, Beginning
<1> QED BY <1>3, <1>4

LEMMA CheckChannelStep ==
  ASSUME SourcesAssumption, IInv, NEW c \in Calls, CheckChannel(c)
  PROVE  IInv'
<1>1. PICK a \in ChannelArgs :
        /\ Request(c, a)
        /\ IF a.target \notin DOMAIN publishers THEN Returns(c, "not_found")
           ELSE IF Key(a) \in DOMAIN channels THEN Returns(c, "conflict")
           ELSE /\ Goes(c, "adding")
                /\ snap' = [snap EXCEPT ![c] = DOMAIN channels]
                /\ UNCHANGED <<Tables, slug, seen>>
  BY DEF CheckChannel
<1>2. a \in Args
  BY DEF Args
<1>3. CASE a.target \notin DOMAIN publishers \/ Key(a) \in DOMAIN channels
  <2>1. Returns(c, "not_found") \/ Returns(c, "conflict")
    BY <1>1, <1>3
  <2> QED BY <1>1, <1>2, <2>1, Rejects
<1>4. CASE a.target \in DOMAIN publishers /\ Key(a) \notin DOMAIN channels
  <2>1. /\ Goes(c, "adding") /\ UNCHANGED Tables /\ UNCHANGED <<slug, seen>>
        /\ "adding" \in Busy
        /\ snap' = [snap EXCEPT ![c] = DOMAIN channels]
    BY <1>1, <1>4 DEF Busy
  <2>2. TableTypes /\ ArgTypes /\ ReadTypes
    BY DEF IInv, CallTypes
  <2>3. phase'[c] = "adding" /\ arg'[c] = a /\ a.kind = "create_channel"
    BY <1>1, <1>2, <2>1, <2>2, Arrive DEF ChannelArgs
  <2>4. /\ ReadTypes' /\ snap'[c] = DOMAIN channels
        /\ \A d \in Calls \ {c} : snap'[d] = snap[d]
    BY <2>1, <2>2 DEF ReadTypes, TableTypes
  <2>5. CallInv(c)'
    BY <1>4, <2>1, <2>3, <2>4 DEF CallInv, Adding, Key, Updating, Over, Tables
  <2> QED BY <1>1, <1>2, <2>1, <2>4, <2>5, Beginning
<1> QED BY <1>3, <1>4

\* A unique constraint.
LEMMA IntegrityStep ==
  ASSUME IInv, NEW c \in Calls, phase[c] = "adding", Raises(c, "integrity"),
         \/ arg[c].kind \in {"discover", "create"} /\ Violates(slug[c], arg[c].domain)
         \/ arg[c].kind = "create_channel" /\ Key(arg[c]) \in DOMAIN channels
  PROVE  IInv'
<1>1. /\ Goes(c, "integrity") /\ UNCHANGED <<Tables, arg>> /\ UNCHANGED <<slug, seen, snap>>
      /\ phase[c] \in Busy
  BY DEF Raises, Returns, Busy
<1>2. ArgTypes /\ ReadTypes /\ Adding(c)
  BY DEF IInv, CallTypes, CallInv
<1>3. phase'[c] = "integrity"
  BY <1>1, <1>2, MoveOn DEF Busy, Ended
<1>4. ReadTypes'
  BY <1>1, <1>2 DEF ReadTypes
<1>5. LostRace(c) /\ (arg[c].kind \in {"discover", "create"} => c \in DOMAIN slug)
  <2>1. CASE arg[c].kind = "discover"
    BY <1>2, <2>1 DEF Adding, NewDomain, NewSlug, Violates, LostRace
  <2>2. CASE arg[c].kind = "create"
    BY <1>2, <2>2 DEF Adding, NewSlug, Violates, LostRace
  <2>3. CASE arg[c].kind = "create_channel"
    BY <1>2, <2>3 DEF Adding, LostRace
  <2> QED BY <2>1, <2>2, <2>3
<1>6. (LostRace(c) /\ (arg[c].kind \in {"discover", "create"} => c \in DOMAIN slug))'
  BY <1>1, <1>5 DEF LostRace, Key, Tables
<1>7. CallInv(c)'
  BY <1>3, <1>6 DEF CallInv, Updating, Over
<1> QED BY <1>1, <1>4, <1>7, Reading

----------------------------------------------------------------------------
(* create_fetch_job and delete_publisher, before they commit *)

LEMMA ChooseTargetsStep ==
  ASSUME SourcesAssumption, IInv, NEW c \in Calls, ChooseTargets(c)
  PROVE  IInv'
<1>1. PICK a \in FetchArgs :
        /\ Request(c, a)
        /\ IF Targets(a.target) = {}
             THEN Returns(c, "not_found")
             ELSE /\ Goes(c, "matching")
                  /\ seen' = [seen EXCEPT ![c] = Targets(a.target)]
                  /\ UNCHANGED <<Tables, slug, snap>>
  BY DEF ChooseTargets
<1>2. a \in Args
  BY DEF Args
<1>3. CASE Targets(a.target) = {}
  BY <1>1, <1>2, <1>3, Rejects
<1>4. CASE Targets(a.target) # {}
  <2>1. /\ Goes(c, "matching") /\ UNCHANGED Tables /\ UNCHANGED <<slug, snap>>
        /\ "matching" \in Busy
        /\ seen' = [seen EXCEPT ![c] = Targets(a.target)]
    BY <1>1, <1>4 DEF Busy
  <2>2. TableTypes /\ ArgTypes /\ ReadTypes
    BY DEF IInv, CallTypes
  <2>3. phase'[c] = "matching" /\ arg'[c] = a /\ a.kind = "fetch"
    BY <1>1, <1>2, <2>1, <2>2, Arrive DEF FetchArgs
  <2>4. DOMAIN publishers \subseteq Ids /\ Targets(a.target) \subseteq DOMAIN publishers
    BY <2>2 DEF TableTypes, Targets
  <2>5. a.target # Unknown
    BY <1>4, <2>4 DEF Targets, SourcesAssumption, Ids
  <2>6. /\ ReadTypes' /\ seen'[c] = Targets(a.target)
        /\ \A d \in Calls \ {c} : seen'[d] = seen[d]
    BY <2>1, <2>2, <2>4 DEF ReadTypes
  <2>7. CallInv(c)'
    BY <2>1, <2>3, <2>4, <2>5, <2>6 DEF CallInv, Updating, Over, Tables
  <2> QED BY <1>1, <1>2, <2>1, <2>6, <2>7, Beginning
<1> QED BY <1>3, <1>4

LEMMA FindPublisherStep ==
  ASSUME IInv, NEW c \in Calls, FindPublisher(c)
  PROVE  IInv'
<1>1. PICK a \in DeleteArgs :
        /\ Request(c, a)
        /\ Returns(c, IF a.target \in DOMAIN publishers THEN "disabling" ELSE "not_found")
  BY DEF FindPublisher
<1>2. a \in Args /\ a.kind = "delete"
  BY DEF Args, DeleteArgs
<1>3. CASE a.target \notin DOMAIN publishers
  BY <1>1, <1>2, <1>3, Rejects
<1>4. CASE a.target \in DOMAIN publishers
  <2>1. /\ Goes(c, "disabling") /\ UNCHANGED Tables /\ UNCHANGED <<slug, seen, snap>>
        /\ "disabling" \in Busy
    BY <1>1, <1>4 DEF Returns, Busy
  <2>2. ArgTypes /\ ReadTypes
    BY DEF IInv, CallTypes
  <2>3. phase'[c] = "disabling" /\ arg'[c] = a
    BY <1>1, <1>2, <2>1, <2>2, Arrive
  <2>4. ReadTypes'
    BY <2>1, <2>2 DEF ReadTypes
  <2>5. CallInv(c)'
    BY <1>2, <1>4, <2>1, <2>3 DEF CallInv, Updating, Over, Tables
  <2> QED BY <1>1, <1>2, <2>1, <2>4, <2>5, Beginning
<1> QED BY <1>3, <1>4

\* An update matches some channels.
LEMMA Matching ==
  ASSUME IInv, NEW c \in Calls, phase[c] \in Busy, NEW p \in Busy, Goes(c, p),
         NEW S \in SUBSET DOMAIN channels, snap' = [snap EXCEPT ![c] = S],
         UNCHANGED <<Tables, arg>>, UNCHANGED <<slug, seen>>,
         \/ phase[c] = "matching" /\ p = "scheduling"
         \/ phase[c] = "disabling" /\ p = "switching"
  PROVE  IInv'
<1>1. TableTypes /\ ArgTypes /\ ReadTypes /\ Updating(c)
  BY DEF IInv, CallTypes, CallInv
<1>2. /\ ReadTypes' /\ snap'[c] = S
      /\ \A d \in Calls \ {c} : snap'[d] = snap[d]
  BY <1>1 DEF ReadTypes, TableTypes
<1>3. phase'[c] = p
  BY <1>1, MoveOn DEF Busy
<1>4. CallInv(c)'
  BY <1>1, <1>2, <1>3 DEF CallInv, Updating, Over, Tables
<1> QED BY <1>2, <1>4, Reading

LEMMA MatchChannelsStep ==
  ASSUME IInv, NEW c \in Calls, MatchChannels(c)
  PROVE  IInv'
<1> DEFINE S == {k \in DOMAIN channels : k[1] \in seen[c] /\ channels[k].active}
<1>1. /\ phase[c] = "matching" /\ snap' = [snap EXCEPT ![c] = S] /\ Goes(c, "scheduling")
      /\ UNCHANGED <<Tables, arg>> /\ UNCHANGED <<slug, seen>>
      /\ phase[c] \in Busy /\ "scheduling" \in Busy
  BY DEF MatchChannels, Busy
<1>2. S \in SUBSET DOMAIN channels
  OBVIOUS
<1> HIDE DEF S
<1> QED BY <1>1, <1>2, Matching

LEMMA MarkPublishersStep ==
  ASSUME IInv, NEW c \in Calls, MarkPublishers(c)
  PROVE  IInv'
<1>1. /\ phase[c] = "scheduling" /\ Goes(c, "marking")
      /\ UNCHANGED <<Tables, arg>> /\ UNCHANGED <<slug, seen, snap>>
      /\ phase[c] \in Busy /\ "marking" \in Busy
  BY DEF MarkPublishers, Reads, Busy
<1>2. ArgTypes /\ ReadTypes /\ Updating(c)
  BY DEF IInv, CallTypes, CallInv
<1>3. phase'[c] = "marking"
  BY <1>1, <1>2, MoveOn
<1>4. ReadTypes'
  BY <1>1, <1>2 DEF ReadTypes
<1>5. CallInv(c)'
  BY <1>1, <1>2, <1>3 DEF CallInv, Updating, Over, Tables
<1> QED BY <1>1, <1>4, <1>5, Reading

LEMMA MatchAllChannelsStep ==
  ASSUME IInv, NEW c \in Calls, MatchAllChannels(c)
  PROVE  IInv'
<1> DEFINE S == {k \in DOMAIN channels : k[1] = arg[c].target}
<1>1. /\ phase[c] = "disabling" /\ snap' = [snap EXCEPT ![c] = S] /\ Goes(c, "switching")
      /\ UNCHANGED <<Tables, arg>> /\ UNCHANGED <<slug, seen>>
      /\ phase[c] \in Busy /\ "switching" \in Busy
  BY DEF MatchAllChannels, Busy
<1>2. S \in SUBSET DOMAIN channels
  OBVIOUS
<1> HIDE DEF S
<1> QED BY <1>1, <1>2, Matching

\* A lock disturbs nothing that a call knows.
LEMMA LockStep ==
  ASSUME IInv, UNCHANGED Tables, UNCHANGED phase, UNCHANGED Reads
  PROVE  IInv'
<1> USE DEF Tables, Reads
<1>1. CallTypes'
  BY DEF IInv, CallTypes, TableTypes, ArgTypes, ReadTypes
<1>2. Named' /\ OutboxMatchesTables' /\ SuffixesFollow'
  BY DEF IInv, Named, OutboxMatchesTables, SuffixesFollow, Gapless
<1>3. \A d \in Calls : Unmoved(d)
  BY DEF Unmoved
<1>4. Grow
  BY DEF Grow
<1>5. \A d \in Calls : CallInv(d)'
  BY <1>3, <1>4, Undisturbed DEF IInv
<1> QED BY <1>1, <1>2, <1>5 DEF IInv

\* Only a call that waits for a lock is part of a deadlock.
LEMMA Waiting ==
  ASSUME NEW c \in Calls, WaitsFor(c) # {}
  PROVE  phase[c] \in {"scheduling", "switching", "marking", "disabling"}
<1>1. phase[c] \in {"scheduling", "switching"} \/ WantedPublishers(c) # {}
  BY DEF WaitsFor, WantedChannels
<1>2. phase[c] \notin {"marking", "disabling"} => WantedPublishers(c) = {}
  BY ZenonT(30) DEF WantedPublishers
<1> QED BY <1>1, <1>2

LEMMA BreakDeadlockStep ==
  ASSUME IInv, NEW c \in Calls, BreakDeadlock(c)
  PROVE  IInv'
<1>1. WaitsFor(c) # {} /\ Raises(c, "failed")
  BY DEF BreakDeadlock, Deadlock
<1>2. phase[c] \in Busy
  BY <1>1, Waiting DEF Busy
<1> QED BY <1>1, <1>2, Stops

----------------------------------------------------------------------------
(* Steps that write *)

\* The publishers, channels and jobs that the messages of the outbox are about.
PublisherMessages ==
  {[type |-> IF publishers[p].origin = "found" THEN "source_discovered"
             ELSE "publisher_created", of |-> p] : p \in DOMAIN publishers}
ChannelMessages ==
  {[type |-> "channel_created", of |-> k] :
     k \in {k \in DOMAIN channels : channels[k].origin = "added"}}
JobMessages == {[type |-> "job_scheduled", of |-> j] : j \in DOMAIN jobs}

LEMMA MessageParts ==
  LET parts == PublisherMessages \cup ChannelMessages \cup JobMessages
  IN  /\ OutboxMatchesTables <=> outbox = parts
      /\ OutboxMatchesTables' <=> outbox' = parts'
BY DEF OutboxMatchesTables, PublisherMessages, ChannelMessages, JobMessages

\* A step that writes.
LEMMA LoudStep ==
  ASSUME IInv, Grow, TableTypes', ArgTypes', ReadTypes', OutboxMatchesTables', SuffixesFollow',
         Named', \A d \in Calls : CallInv(d)' \/ Unmoved(d)
  PROVE  IInv'
<1>1. CallTypes'
  BY DEF CallTypes
<1>2. \A d \in Calls : CallInv(d)'
  BY Undisturbed DEF IInv
<1> QED BY <1>1, <1>2 DEF IInv

\* The write of a call, which ends it.
LEMMA Commit ==
  ASSUME IInv, NEW c \in Calls, phase[c] \in Busy, Goes(c, "done"), UNCHANGED Reads,
         Grow, TableTypes', OutboxMatchesTables', SuffixesFollow',
         DOMAIN publishers' \subseteq DOMAIN publishers \cup {c},
         DOMAIN jobs' \subseteq DOMAIN jobs \cup {c},
         arg[c].kind = "delete" =>
           (SwitchedOff(c) /\ arg[c].target \in DOMAIN publishers
            /\ snap[c] \subseteq DOMAIN channels)'
  PROVE  IInv'
<1>1. ArgTypes /\ ReadTypes /\ Named
  BY DEF IInv, CallTypes
<1>2. UNCHANGED arg /\ UNCHANGED <<slug, seen, snap>>
  BY DEF Reads
<1>3. "done" \in Busy \cup Ended /\ phase[c] # "idle"
  BY DEF Busy, Ended
<1>4. ArgTypes' /\ phase'[c] = "done" /\ \A d \in Calls \ {c} : phase'[d] = phase[d]
  BY <1>1, <1>2, <1>3, MoveOn
<1>5. ReadTypes'
  BY <1>1, <1>2 DEF ReadTypes
<1>6. Named'
  BY <1>1, <1>4 DEF Named
<1>7. CallInv(c)'
  BY <1>2, <1>4 DEF CallInv, Updating, Over
<1>8. \A d \in Calls \ {c} : Unmoved(d)
  BY <1>2, <1>4 DEF Unmoved
<1> QED BY <1>4, <1>5, <1>6, <1>7, <1>8, LoudStep

\* A suffix that had no gap before it has none later.
LEMMA StillGapless ==
  ASSUME Grow, NEW s, Gapless(s)
  PROVE  \A i \in 1..(s[2] - 1) : \E q \in DOMAIN publishers' : publishers'[q].slug = <<s[1], i>>
BY DEF Grow, Gapless

\* No publisher is added, or one whose suffix has no gap before it.
LEMMA SuffixesStillFollow ==
  ASSUME IInv, Grow,
         \A p \in DOMAIN publishers' \ DOMAIN publishers :
           publishers'[p].origin = "found" => Gapless(publishers'[p].slug)
  PROVE  SuffixesFollow'
<1> SUFFICES ASSUME NEW p \in DOMAIN publishers', publishers'[p].origin = "found"
             PROVE  Gapless(publishers[p].slug)'
  BY DEF SuffixesFollow
<1>1. Gapless(publishers'[p].slug)
  BY DEF IInv, SuffixesFollow, Grow
<1> QED BY <1>1, StillGapless DEF Gapless

LEMMA RegisterFoundStep ==
  ASSUME SourcesAssumption, IInv, NEW c \in Calls, RegisterFound(c)
  PROVE  IInv'
<1> DEFINE found == arg[c].found
           row == [slug |-> slug[c], domain |-> arg[c].domain, active |-> TRUE,
                   ready |-> found # <<>>, fetched |-> FALSE, origin |-> "found"]
           note == [type |-> "source_discovered", of |-> c]
<1>1. phase[c] = "adding" /\ arg[c].kind = "discover"
  BY DEF RegisterFound
<1>2. CASE Violates(slug[c], arg[c].domain)
  BY <1>1, <1>2, IntegrityStep DEF RegisterFound
<1>3. CASE ~ Violates(slug[c], arg[c].domain)
  <2>1. /\ publishers' = Put(publishers, c, row)
        /\ channels' = FoundChannels(c, found, arg[c].manual)
        /\ outbox' = outbox \cup {note}
        /\ Goes(c, "done") /\ UNCHANGED jobs /\ UNCHANGED Reads
    BY <1>3 DEF RegisterFound
  <2>2. TableTypes /\ ArgTypes /\ ReadTypes /\ Adding(c) /\ OutboxMatchesTables
    BY <1>1 DEF IInv, CallTypes, CallInv
  <2>3. c \in DOMAIN slug /\ slug[c] \in Slugs /\ Gapless(slug[c])
    BY <1>1, <2>2 DEF Adding, NewSlug, ReadTypes
  <2>4. c \in Ids \ DOMAIN publishers
    BY <1>1 DEF IInv, Named, Calls, Ids, SourcesAssumption
  <2>5. arg[c] \in DiscoverArgs
    BY <1>1, <2>2, Kinds DEF ArgTypes
  <2>6. arg[c].domain \in Domains /\ Range(found) \subseteq Endpoints
    BY <2>5 DEF DiscoverArgs, Range, SourcesAssumption
  <2>7. row \in PublisherRows /\ row.origin = "found" /\ row.slug = slug[c]
    BY <2>3, <2>6 DEF PublisherRows
  <2> HIDE DEF row
  <2>8. /\ DOMAIN publishers' = DOMAIN publishers \cup {c}
        /\ publishers'[c] = row
        /\ \A p \in DOMAIN publishers : publishers'[p] = publishers[p]
    BY <2>1, <2>4 DEF Put
  <2>9. /\ DOMAIN channels' = DOMAIN channels \cup ({c} \X Range(found))
        /\ \A k \in DOMAIN channels : channels'[k] = channels[k]
        /\ \A k \in DOMAIN channels' \ DOMAIN channels :
             channels'[k] \in ChannelRows /\ channels'[k].origin = "found"
    BY <2>1 DEF FoundChannels, FirstPoll, ChannelRows
  <2> HIDE DEF found
  <2>10. Grow
    BY <2>8, <2>9 DEF Grow
  <2>11. TableTypes'
    <3>1. /\ DOMAIN publishers' \subseteq Ids
          /\ \A p \in DOMAIN publishers' : publishers'[p] \in PublisherRows
      BY <2>2, <2>4, <2>7, <2>8 DEF TableTypes
    <3>2. /\ DOMAIN channels' \subseteq Keys
          /\ \A k \in DOMAIN channels' : channels'[k] \in ChannelRows
      BY <2>2, <2>4, <2>6, <2>9 DEF TableTypes, Keys
    <3>3. outbox' \subseteq Messages
      BY <2>1, <2>2, <2>4 DEF TableTypes, Messages
    <3> QED BY <2>1, <2>2, <3>1, <3>2, <3>3 DEF TableTypes
  <2>12. OutboxMatchesTables'
    <3>1. PublisherMessages' = PublisherMessages \cup {note}
      BY <2>4, <2>7, <2>8 DEF PublisherMessages
    <3>2. ChannelMessages' = ChannelMessages
      BY <2>9 DEF ChannelMessages
    <3>3. JobMessages' = JobMessages
      BY <2>1 DEF JobMessages
    <3> QED BY <2>1, <2>2, <3>1, <3>2, <3>3, MessageParts
  <2>13. SuffixesFollow'
    BY <2>3, <2>7, <2>8, <2>10, SuffixesStillFollow
  <2>14. phase[c] \in Busy /\ arg[c].kind # "delete"
    BY <1>1 DEF Busy
  <2> QED BY <2>1, <2>8, <2>10, <2>11, <2>12, <2>13, <2>14, Commit
<1> QED BY <1>2, <1>3

LEMMA RegisterCreatedStep ==
  ASSUME SourcesAssumption, IInv, NEW c \in Calls, RegisterCreated(c)
  PROVE  IInv'
<1> DEFINE row == [slug |-> slug[c], domain |-> arg[c].domain, active |-> TRUE,
                   ready |-> FALSE, fetched |-> FALSE, origin |-> "created"]
           note == [type |-> "publisher_created", of |-> c]
<1>1. phase[c] = "adding" /\ arg[c].kind = "create"
  BY DEF RegisterCreated
<1>2. CASE Violates(slug[c], arg[c].domain)
  BY <1>1, <1>2, IntegrityStep DEF RegisterCreated
<1>3. CASE ~ Violates(slug[c], arg[c].domain)
  <2>1. /\ publishers' = Put(publishers, c, row)
        /\ outbox' = outbox \cup {note}
        /\ Goes(c, "done") /\ UNCHANGED <<channels, jobs>> /\ UNCHANGED Reads
    BY <1>3 DEF RegisterCreated
  <2>2. TableTypes /\ ArgTypes /\ ReadTypes /\ Adding(c) /\ OutboxMatchesTables
    BY <1>1 DEF IInv, CallTypes, CallInv
  <2>3. slug[c] \in Slugs
    BY <1>1, <2>2 DEF Adding, NewSlug, ReadTypes
  <2>4. c \in Ids \ DOMAIN publishers
    BY <1>1 DEF IInv, Named, Calls, Ids, SourcesAssumption
  <2>5. arg[c].domain \in Domains
    BY <1>1, <2>2, Kinds DEF ArgTypes, CreateArgs
  <2>6. row \in PublisherRows /\ row.origin = "created"
    BY <2>3, <2>5 DEF PublisherRows
  <2> HIDE DEF row
  <2>7. /\ DOMAIN publishers' = DOMAIN publishers \cup {c}
        /\ publishers'[c] = row
        /\ \A p \in DOMAIN publishers : publishers'[p] = publishers[p]
    BY <2>1, <2>4 DEF Put
  <2>8. Grow
    BY <2>1, <2>7 DEF Grow
  <2>9. TableTypes'
    <3>1. outbox' \subseteq Messages
      BY <2>1, <2>2, <2>4 DEF TableTypes, Messages
    <3> QED BY <2>1, <2>2, <2>4, <2>6, <2>7, <3>1 DEF TableTypes
  <2>10. OutboxMatchesTables'
    <3>1. PublisherMessages' = PublisherMessages \cup {note}
      BY <2>4, <2>6, <2>7 DEF PublisherMessages
    <3>2. ChannelMessages' = ChannelMessages /\ JobMessages' = JobMessages
      BY <2>1 DEF ChannelMessages, JobMessages
    <3> QED BY <2>1, <2>2, <3>1, <3>2, MessageParts
  <2>11. SuffixesFollow'
    BY <2>6, <2>7, <2>8, SuffixesStillFollow
  <2>12. phase[c] \in Busy /\ arg[c].kind # "delete"
    BY <1>1 DEF Busy
  <2> QED BY <2>1, <2>7, <2>8, <2>9, <2>10, <2>11, <2>12, Commit
<1> QED BY <1>2, <1>3

LEMMA AddChannelStep ==
  ASSUME IInv, NEW c \in Calls, AddChannel(c)
  PROVE  IInv'
<1> DEFINE row == [active |-> TRUE, next |-> "due", origin |-> "added"]
           key == Key(arg[c])
<1>1. phase[c] = "adding" /\ arg[c].kind = "create_channel"
  BY DEF AddChannel
<1>2. CASE key \in DOMAIN channels
  BY <1>1, <1>2, IntegrityStep DEF AddChannel
<1>3. CASE key \notin DOMAIN channels
  <2>1. /\ channels' = Put(channels, key, row)
        /\ outbox' = outbox \cup {[type |-> "channel_created", of |-> key]}
        /\ Goes(c, "done") /\ UNCHANGED <<publishers, jobs>> /\ UNCHANGED Reads
    BY <1>3 DEF AddChannel
  <2>2. TableTypes /\ ArgTypes /\ Adding(c) /\ OutboxMatchesTables
    BY <1>1 DEF IInv, CallTypes, CallInv
  <2>3. key \in Keys
    <3>1. arg[c] \in ChannelArgs
      BY <1>1, <2>2, Kinds DEF ArgTypes
    <3>2. arg[c].target \in Ids /\ arg[c].endpoint \in Endpoints
      BY <1>1, <2>2, <3>1 DEF Adding, TableTypes, ChannelArgs
    <3> QED BY <3>2 DEF Key, Keys
  <2> HIDE DEF key
  <2>4. /\ DOMAIN channels' = DOMAIN channels \cup {key}
        /\ channels'[key] = row
        /\ \A k \in DOMAIN channels : channels'[k] = channels[k]
    BY <1>3, <2>1 DEF Put
  <2>5. Grow
    BY <2>1, <2>4 DEF Grow
  <2>6. TableTypes'
    <3>1. outbox' \subseteq Messages
      BY <2>1, <2>2, <2>3 DEF TableTypes, Messages
    <3>2. row \in ChannelRows
      BY DEF ChannelRows
    <3> QED BY <2>1, <2>2, <2>3, <2>4, <3>1, <3>2 DEF TableTypes
  <2>7. OutboxMatchesTables'
    <3>1. ChannelMessages' = ChannelMessages \cup {[type |-> "channel_created", of |-> key]}
      BY <1>3, <2>4 DEF ChannelMessages
    <3>2. PublisherMessages' = PublisherMessages /\ JobMessages' = JobMessages
      BY <2>1 DEF PublisherMessages, JobMessages
    <3> QED BY <2>1, <2>2, <3>1, <3>2, MessageParts
  <2>8. SuffixesFollow'
    BY <2>1, <2>5, SuffixesStillFollow
  <2>9. phase[c] \in Busy /\ arg[c].kind # "delete"
    BY <1>1 DEF Busy
  <2> QED BY <2>1, <2>5, <2>6, <2>7, <2>8, <2>9, Commit
<1> QED BY <1>2, <1>3

LEMMA CommitJobStep ==
  ASSUME IInv, NEW c \in Calls, CommitJob(c)
  PROVE  IInv'
<1> DEFINE job == [target |-> arg[c].target, ids |-> seen[c], status |-> "scheduled"]
<1>1. /\ phase[c] = "marking" /\ phase[c] \in Busy
      /\ channels' = [k \in DOMAIN channels |->
           IF k \in snap[c] /\ channels[k].active
           THEN [channels[k] EXCEPT !.next = "due"] ELSE channels[k]]
      /\ publishers' = [p \in DOMAIN publishers |->
           IF p \in seen[c] THEN [publishers[p] EXCEPT !.fetched = TRUE] ELSE publishers[p]]
      /\ jobs' = Put(jobs, c, job)
      /\ outbox' = outbox \cup {[type |-> "job_scheduled", of |-> c]}
      /\ Goes(c, "done") /\ UNCHANGED Reads
  BY DEF CommitJob, Busy
<1>2. TableTypes /\ ArgTypes /\ ReadTypes /\ Updating(c) /\ OutboxMatchesTables
  BY DEF IInv, CallTypes, CallInv
<1>3. arg[c].kind = "fetch" /\ arg[c].target \in Ids \cup {All}
  <2>1. arg[c].kind = "fetch" /\ arg[c].target # Unknown
    BY <1>1, <1>2 DEF Updating
  <2>2. arg[c] \in FetchArgs
    BY <1>1, <1>2, <2>1, Kinds DEF ArgTypes
  <2> QED BY <2>1, <2>2 DEF FetchArgs
<1>4. job \in JobRows
  BY <1>2, <1>3 DEF JobRows, ReadTypes
<1> HIDE DEF job
<1>5. /\ DOMAIN channels' = DOMAIN channels
      /\ \A k \in DOMAIN channels :
           /\ channels'[k] \in ChannelRows
           /\ channels'[k].origin = channels[k].origin
           /\ channels'[k].active = channels[k].active
  BY <1>1, <1>2 DEF TableTypes, ChannelRows
<1>6. /\ DOMAIN publishers' = DOMAIN publishers
      /\ \A p \in DOMAIN publishers :
           /\ publishers'[p] \in PublisherRows
           /\ publishers'[p].slug = publishers[p].slug
           /\ publishers'[p].domain = publishers[p].domain
           /\ publishers'[p].origin = publishers[p].origin
           /\ publishers'[p].active = publishers[p].active
  BY <1>1, <1>2 DEF TableTypes, PublisherRows
<1>7. /\ DOMAIN jobs' = DOMAIN jobs \cup {c}
      /\ \A j \in DOMAIN jobs' : jobs'[j] \in JobRows
  BY <1>1, <1>2, <1>4 DEF Put, TableTypes
<1>8. Grow
  BY <1>5, <1>6 DEF Grow
<1>9. TableTypes'
  <2>1. outbox' \subseteq Messages
    BY <1>1, <1>2 DEF TableTypes, Messages, Calls, Ids
  <2> QED BY <1>2, <1>5, <1>6, <1>7, <2>1 DEF TableTypes
<1>10. OutboxMatchesTables'
  <2>1. JobMessages' = JobMessages \cup {[type |-> "job_scheduled", of |-> c]}
    BY <1>7 DEF JobMessages
  <2>2. PublisherMessages' = PublisherMessages
    BY <1>6 DEF PublisherMessages
  <2>3. ChannelMessages' = ChannelMessages
    BY <1>5 DEF ChannelMessages
  <2> QED BY <1>1, <1>2, <2>1, <2>2, <2>3, MessageParts
<1>11. SuffixesFollow'
  BY <1>6, <1>8, SuffixesStillFollow
<1> QED BY <1>1, <1>3, <1>6, <1>7, <1>8, <1>9, <1>10, <1>11, Commit

LEMMA CommitDeleteStep ==
  ASSUME IInv, NEW c \in Calls, CommitDelete(c)
  PROVE  IInv'
<1> DEFINE t == arg[c].target
<1>1. /\ phase[c] = "switching" /\ phase[c] \in Busy
      /\ publishers' = [publishers EXCEPT ![t].active = FALSE]
      /\ channels' = [k \in DOMAIN channels |->
           IF k \in snap[c] THEN [channels[k] EXCEPT !.active = FALSE] ELSE channels[k]]
      /\ Goes(c, "done") /\ UNCHANGED <<jobs, outbox>> /\ UNCHANGED Reads
  BY DEF CommitDelete, Busy
<1>2. /\ TableTypes /\ OutboxMatchesTables
      /\ t \in DOMAIN publishers /\ snap[c] \subseteq DOMAIN channels
  BY <1>1 DEF IInv, CallTypes, CallInv, Updating
<1>3. UNCHANGED arg /\ UNCHANGED snap
  BY <1>1 DEF Reads
<1>4. /\ DOMAIN channels' = DOMAIN channels
      /\ \A k \in DOMAIN channels :
           /\ channels'[k] \in ChannelRows
           /\ channels'[k].origin = channels[k].origin
           /\ channels'[k].active = (k \notin snap[c] /\ channels[k].active)
  BY <1>1, <1>2 DEF TableTypes, ChannelRows
<1>5. /\ DOMAIN publishers' = DOMAIN publishers
      /\ \A p \in DOMAIN publishers :
           /\ publishers'[p] \in PublisherRows
           /\ publishers'[p].slug = publishers[p].slug
           /\ publishers'[p].domain = publishers[p].domain
           /\ publishers'[p].origin = publishers[p].origin
           /\ publishers'[p].active = (p # t /\ publishers[p].active)
  BY <1>1, <1>2 DEF TableTypes, PublisherRows
<1>6. Grow
  BY <1>4, <1>5 DEF Grow
<1>7. TableTypes'
  BY <1>1, <1>2, <1>4, <1>5 DEF TableTypes
<1>8. OutboxMatchesTables'
  <2>1. PublisherMessages' = PublisherMessages
    BY <1>5 DEF PublisherMessages
  <2>2. ChannelMessages' = ChannelMessages
    BY <1>4 DEF ChannelMessages
  <2>3. JobMessages' = JobMessages
    BY <1>1 DEF JobMessages
  <2> QED BY <1>1, <1>2, <2>1, <2>2, <2>3, MessageParts
<1>9. SuffixesFollow'
  BY <1>5, <1>6, SuffixesStillFollow
<1>10. (SwitchedOff(c) /\ arg[c].target \in DOMAIN publishers
        /\ snap[c] \subseteq DOMAIN channels)'
  BY <1>2, <1>3, <1>4, <1>5 DEF SwitchedOff
<1> QED BY <1>1, <1>5, <1>6, <1>7, <1>8, <1>9, <1>10, Commit

\* A step beside the calls.
LEMMA Beside ==
  ASSUME IInv, UNCHANGED <<publishers, outbox>>, UNCHANGED phase, UNCHANGED Reads, TableTypes',
         DOMAIN jobs' = DOMAIN jobs, DOMAIN channels' = DOMAIN channels,
         \A k \in DOMAIN channels : /\ channels'[k].origin = channels[k].origin
                                    /\ channels'[k].active = channels[k].active
  PROVE  IInv'
<1>1. ArgTypes /\ ReadTypes /\ Named /\ OutboxMatchesTables
  BY DEF IInv, CallTypes
<1>2. ArgTypes' /\ ReadTypes'
  BY <1>1 DEF ArgTypes, ReadTypes, Reads
<1>3. Grow
  BY DEF Grow
<1>4. Named'
  BY <1>1 DEF Named
<1>5. OutboxMatchesTables'
  <2>1. PublisherMessages' = PublisherMessages
    BY DEF PublisherMessages
  <2>2. ChannelMessages' = ChannelMessages
    BY DEF ChannelMessages
  <2>3. JobMessages' = JobMessages
    BY DEF JobMessages
  <2> QED BY <1>1, <2>1, <2>2, <2>3, MessageParts
<1>6. SuffixesFollow'
  BY <1>3, SuffixesStillFollow
<1>7. \A d \in Calls : Unmoved(d)
  BY DEF Unmoved, Reads
<1> QED BY <1>2, <1>3, <1>4, <1>5, <1>6, <1>7, LoudStep

LEMMA CompleteStaleStep ==
  ASSUME IInv, NEW p, CompleteStale(p)
  PROVE  IInv'
<1>1. /\ DOMAIN jobs' = DOMAIN jobs
      /\ \A j \in DOMAIN jobs' :
           jobs'[j] = jobs[j] \/ jobs'[j] = [jobs[j] EXCEPT !.status = "completed"]
      /\ UNCHANGED <<publishers, outbox>> /\ UNCHANGED channels /\ UNCHANGED phase
      /\ UNCHANGED Reads
  BY DEF CompleteStale
<1>2. TableTypes
  BY DEF IInv, CallTypes
<1>3. \A j \in DOMAIN jobs' : jobs'[j] \in JobRows
  BY <1>1, <1>2 DEF TableTypes, JobRows
<1>4. TableTypes'
  BY <1>1, <1>2, <1>3 DEF TableTypes
<1> QED BY <1>1, <1>4, Beside

LEMMA PollStep ==
  ASSUME IInv, NEW k \in DOMAIN channels, Poll(k)
  PROVE  IInv'
<1>1. /\ channels' = [channels EXCEPT ![k].next = "later"]
      /\ UNCHANGED <<publishers, outbox>> /\ UNCHANGED jobs /\ UNCHANGED phase
      /\ UNCHANGED Reads
  BY DEF Poll
<1>2. TableTypes
  BY DEF IInv, CallTypes
<1>3. /\ DOMAIN channels' = DOMAIN channels
      /\ \A l \in DOMAIN channels :
           /\ channels'[l] \in ChannelRows
           /\ channels'[l].origin = channels[l].origin
           /\ channels'[l].active = channels[l].active
  BY <1>1, <1>2 DEF TableTypes, ChannelRows
<1>4. TableTypes'
  BY <1>1, <1>2, <1>3 DEF TableTypes
<1> QED BY <1>1, <1>3, <1>4, Beside

----------------------------------------------------------------------------
(* The invariant *)

LEMMA InitInvariant ==
  ASSUME SourcesAssumption, Init
  PROVE  IInv
<1>1. /\ DOMAIN publishers = {0} /\ DOMAIN channels = {<<0, First.endpoint>>}
      /\ DOMAIN jobs = {} /\ DOMAIN arg = {} /\ DOMAIN slug = {}
      /\ \A c \in Calls : phase[c] = "idle"
      /\ publishers[0] = [slug |-> <<First.name, 1>>, domain |-> First.domain, active |-> TRUE,
                          ready |-> FALSE, fetched |-> FALSE, origin |-> "created"]
      /\ channels[<<0, First.endpoint>>] = [active |-> TRUE, next |-> "later", origin |-> "added"]
  BY DEF Init
<1>2. First.name \in Names /\ First.domain \in Domains /\ First.endpoint \in Endpoints
  BY DEF SourcesAssumption
<1>3. 0 \in Ids /\ 0 \notin Calls /\ 1 \in 1..(MaxCalls + 1)
  BY DEF Ids, Calls, SourcesAssumption
<1>4. CallTypes
  <2>1. publishers[0] \in PublisherRows
    BY <1>1, <1>2, <1>3 DEF PublisherRows, Slugs
  <2>2. channels[<<0, First.endpoint>>] \in ChannelRows
    BY <1>1 DEF ChannelRows
  <2>3. <<0, First.endpoint>> \in Keys
    BY <1>2, <1>3 DEF Keys
  <2>4. outbox \subseteq Messages
    BY <1>3, <2>3 DEF Init, Messages
  <2>5. phase \in [Calls -> {"idle"} \cup Busy \cup Ended]
    BY DEF Init
  <2>6. seen \in [Calls -> SUBSET Ids] /\ snap \in [Calls -> SUBSET Keys]
    BY DEF Init
  <2>7. DOMAIN publishers \subseteq Ids /\ DOMAIN channels \subseteq Keys
    BY <1>1, <1>3, <2>3
  <2>8. TableTypes
    BY <1>1, <2>1, <2>2, <2>4, <2>7 DEF TableTypes
  <2> QED BY <1>1, <2>5, <2>6, <2>8 DEF CallTypes, ArgTypes, ReadTypes
<1>5. Named
  BY <1>1, <1>3 DEF Named
<1>6. OutboxMatchesTables
  <2>1. PublisherMessages = {[type |-> "publisher_created", of |-> 0]}
    BY <1>1 DEF PublisherMessages
  <2>2. ChannelMessages = {[type |-> "channel_created", of |-> <<0, First.endpoint>>]}
    BY <1>1 DEF ChannelMessages
  <2>3. JobMessages = {}
    BY <1>1 DEF JobMessages
  <2> QED BY <2>1, <2>2, <2>3, MessageParts DEF Init
<1>7. SuffixesFollow
  BY <1>1 DEF SuffixesFollow
<1>8. \A c \in Calls : CallInv(c)
  BY <1>1 DEF CallInv, Updating, Over
<1> QED BY <1>4, <1>5, <1>6, <1>7, <1>8 DEF IInv

LEMMA CallPreserves ==
  ASSUME SourcesAssumption, IInv, NEW c \in Calls, Call(c)
  PROVE  IInv'
<1>1. CASE Fail(c)
  BY <1>1, Stops DEF Fail
<1>2. CASE HomepageFails(c)
  <2>1. PICK a \in DiscoverArgs : Request(c, a) /\ Returns(c, "failed")
    BY <1>2 DEF HomepageFails
  <2> QED BY <2>1, Rejects DEF Args
<1>3. CASE CheckDomain(c) \/ ChooseSlug(c) \/ RegisterFound(c)
  BY <1>3, CheckDomainStep, ChooseSlugStep, RegisterFoundStep
<1>4. CASE CheckSlug(c) \/ RegisterCreated(c)
  BY <1>4, CheckSlugStep, RegisterCreatedStep
<1>5. CASE CheckChannel(c) \/ AddChannel(c)
  BY <1>5, CheckChannelStep, AddChannelStep
<1>6. CASE ChooseTargets(c) \/ MatchChannels(c) \/ MarkPublishers(c) \/ CommitJob(c)
  BY <1>6, ChooseTargetsStep, MatchChannelsStep, MarkPublishersStep, CommitJobStep
<1>7. CASE FindPublisher(c) \/ MatchAllChannels(c) \/ CommitDelete(c)
  BY <1>7, FindPublisherStep, MatchAllChannelsStep, CommitDeleteStep
<1>8. CASE LockChannel(c) \/ LockPublisher(c)
  BY <1>8, LockStep DEF LockChannel, LockPublisher
<1>9. CASE BreakDeadlock(c)
  BY <1>9, BreakDeadlockStep
<1> QED BY <1>1, <1>2, <1>3, <1>4, <1>5, <1>6, <1>7, <1>8, <1>9 DEF Call

LEMMA StepPreserves ==
  ASSUME SourcesAssumption, IInv, [Next]_vars
  PROVE  IInv'
<1>1. ASSUME NEW c \in Calls, Call(c)
      PROVE  IInv'
  BY <1>1, CallPreserves
<1>2. ASSUME NEW p \in DOMAIN publishers, CompleteStale(p)
      PROVE  IInv'
  BY <1>2, CompleteStaleStep
<1>3. ASSUME NEW k \in DOMAIN channels, Poll(k)
      PROVE  IInv'
  BY <1>3, PollStep
<1>4. CASE UNCHANGED vars
  <2>1. /\ UNCHANGED <<publishers, outbox>> /\ UNCHANGED <<channels, jobs>> /\ UNCHANGED phase
        /\ UNCHANGED Reads
    BY <1>4 DEF vars, Reads
  <2>2. TableTypes
    BY DEF IInv, CallTypes
  <2>3. TableTypes'
    BY <2>1, <2>2 DEF TableTypes
  <2> QED BY <2>1, <2>3, Beside
<1> QED BY <1>1, <1>2, <1>3, <1>4 DEF Next, Finished

LEMMA Invariance == Spec => []IInv
<1>1. Init => IInv
  BY InitInvariant, SourcesAssumption
<1>2. IInv /\ [Next]_vars => IInv'
  BY StepPreserves, SourcesAssumption
<1> QED BY <1>1, <1>2, PTL DEF Spec

----------------------------------------------------------------------------
(* The row locks *)

\* What call c has locked, and why.
LocksOf(c) ==
  /\ locks[c].channels # {} => phase[c] \in {"scheduling", "marking", "switching"}
  /\ locks[c].publishers # {} => phase[c] \in {"marking", "disabling", "switching"}
  /\ phase[c] = "scheduling" => \A k \in snap[c] : k[1] \in seen[c]
  /\ phase[c] = "disabling" => locks[c].publishers \subseteq {arg[c].target}
  /\ phase[c] = "switching" =>
       /\ locks[c].publishers = {arg[c].target}
       /\ locks[c].channels \subseteq snap[c]
       /\ \A k \in snap[c] : k[1] = arg[c].target

\* No row is locked by two calls.
Apart ==
  \A c, d \in Calls : c # d =>
    /\ locks[c].channels \cap locks[d].channels = {}
    /\ locks[c].publishers \cap locks[d].publishers = {}

LockInv == LockTypes /\ Apart /\ \A c \in Calls : LocksOf(c)

\* The other calls stay where they are.
LEMMA OthersUnmoved ==
  ASSUME IInv, NEW c \in Calls, Call(c), NEW d \in Calls \ {c}
  PROVE  Unmoved(d)
<1>1. /\ phase \in [Calls -> {"idle"} \cup Busy \cup Ended]
      /\ DOMAIN arg = {x \in Calls : phase[x] # "idle"}
      /\ seen \in [Calls -> SUBSET Ids] /\ snap \in [Calls -> SUBSET Keys]
  BY DEF IInv, CallTypes, ArgTypes, ReadTypes
<1>2. \A p : Goes(c, p) => phase'[d] = phase[d]
  BY <1>1 DEF Goes
<1>3. \A a : Request(c, a) => (phase[d] # "idle" => arg'[d] = arg[d])
  BY <1>1 DEF Request, Put
<1>4. \A x : slug' = Put(slug, c, x) => (d \in DOMAIN slug => d \in DOMAIN slug' /\ slug'[d] = slug[d])
  BY DEF Put
<1>5. \A S : seen' = [seen EXCEPT ![c] = S] => seen'[d] = seen[d]
  BY <1>1
<1>6. \A S : snap' = [snap EXCEPT ![c] = S] => snap'[d] = snap[d]
  BY <1>1
<1>7. CASE Fail(c) \/ HomepageFails(c) \/ BreakDeadlock(c) \/ FindPublisher(c)
  BY <1>2, <1>3, <1>7
     DEF Fail, HomepageFails, BreakDeadlock, FindPublisher, Raises, Returns, Unmoved
<1>8. CASE CheckDomain(c) \/ CheckSlug(c)
  <2>1. CASE CheckDomain(c)
    BY <1>2, <1>3, <1>5, <2>1 DEF CheckDomain, Returns, Unmoved
  <2>2. CASE CheckSlug(c)
    BY <1>2, <1>3, <1>4, <1>5, <2>2 DEF CheckSlug, Returns, Unmoved
  <2> QED BY <1>8, <2>1, <2>2
<1>9. CASE ChooseSlug(c)
  BY <1>2, <1>4, <1>9 DEF ChooseSlug, Unmoved
<1>10. CASE RegisterFound(c) \/ RegisterCreated(c) \/ AddChannel(c)
  BY <1>2, <1>10 DEF RegisterFound, RegisterCreated, AddChannel, Raises, Returns, Reads, Unmoved
<1>11. CASE CheckChannel(c) \/ ChooseTargets(c)
  <2>1. CASE CheckChannel(c)
    BY <1>2, <1>3, <1>6, <2>1 DEF CheckChannel, Returns, Unmoved
  <2>2. CASE ChooseTargets(c)
    BY <1>2, <1>3, <1>5, <2>2 DEF ChooseTargets, Returns, Unmoved
  <2> QED BY <1>11, <2>1, <2>2
<1>12. CASE MatchChannels(c) \/ MatchAllChannels(c)
  BY <1>2, <1>6, <1>12 DEF MatchChannels, MatchAllChannels, Unmoved
<1>13. CASE MarkPublishers(c) \/ CommitJob(c) \/ CommitDelete(c)
  BY <1>2, <1>13 DEF MarkPublishers, CommitJob, CommitDelete, Reads, Unmoved
<1>14. CASE LockChannel(c) \/ LockPublisher(c)
  BY <1>14 DEF LockChannel, LockPublisher, Reads, Unmoved
<1> QED BY <1>7, <1>8, <1>9, <1>10, <1>11, <1>12, <1>13, <1>14 DEF Call

\* What the locks are when a call has moved.
LEMMA LocksMove ==
  ASSUME IInv, LockInv, NEW c \in Calls, NEW p, Goes(c, p)
  PROVE  /\ phase'[c] = p
         /\ locks'[c] = IF p \in Ended THEN NoLocks ELSE locks[c]
         /\ \A d \in Calls \ {c} : locks'[d] = locks[d]
         /\ LockTypes' /\ Apart'
<1>1. phase \in [Calls -> {"idle"} \cup Busy \cup Ended] /\ locks \in [Calls -> RowLocks]
  BY DEF IInv, CallTypes, ArgTypes, LockInv, LockTypes
<1>2. phase'[c] = p
  BY <1>1 DEF Goes
<1>3. NoLocks \in RowLocks /\ NoLocks.channels = {} /\ NoLocks.publishers = {}
  BY DEF NoLocks, RowLocks
<1> HIDE DEF NoLocks
<1>4. /\ locks'[c] = IF p \in Ended THEN NoLocks ELSE locks[c]
      /\ \A d \in Calls \ {c} : locks'[d] = locks[d]
      /\ LockTypes'
  BY <1>1, <1>3 DEF Goes, LockTypes
<1>5. Apart'
  BY <1>3, <1>4 DEF LockInv, Apart
<1> QED BY <1>2, <1>4, <1>5

LEMMA LocksStay ==
  ASSUME NEW d \in Calls, LocksOf(d), Unmoved(d), locks'[d] = locks[d]
  PROVE  LocksOf(d)'
BY DEF LocksOf, Unmoved

\* A call moves, and the locks it keeps are those of its new place.
LEMMA LocksGo ==
  ASSUME IInv, LockInv, NEW c \in Calls, Call(c), NEW p, Goes(c, p),
         p \notin Ended => LocksOf(c)'
  PROVE  LockInv'
<1>1. /\ phase'[c] = p
      /\ locks'[c] = IF p \in Ended THEN NoLocks ELSE locks[c]
      /\ \A d \in Calls \ {c} : locks'[d] = locks[d]
      /\ LockTypes' /\ Apart'
  BY LocksMove
<1>2. \A d \in Calls \ {c} : LocksOf(d)'
  BY <1>1, OthersUnmoved, LocksStay DEF LockInv
<1>3. LocksOf(c)'
  BY <1>1 DEF LocksOf, NoLocks, Ended
<1> QED BY <1>1, <1>2, <1>3 DEF LockInv

\* Before its update a call holds nothing.
LEMMA NothingLocked ==
  ASSUME IInv, LockInv, NEW c \in Calls, Call(c), NEW p \in {"naming", "adding", "matching", "disabling"},
         Goes(c, p), phase[c] \in {"idle", "naming"}
  PROVE  LockInv'
<1>1. phase'[c] = p /\ p \notin Ended /\ locks'[c] = locks[c]
  BY LocksMove DEF Ended
<1>2. LocksOf(c)'
  BY <1>1 DEF LocksOf, LockInv
<1> QED BY <1>2, LocksGo

\* A row that nobody holds is locked.
LEMMA ChannelLocked ==
  ASSUME IInv, LockInv, NEW c \in Calls, LockChannel(c)
  PROVE  LockInv'
<1>1. PICK k \in WantedChannels(c) :
        /\ \A d \in Calls : k \notin locks[d].channels
        /\ locks' = [locks EXCEPT ![c].channels = @ \cup {k}]
        /\ UNCHANGED phase /\ UNCHANGED Reads
  BY DEF LockChannel
<1>2. /\ locks \in [Calls -> RowLocks] /\ LocksOf(c) /\ Apart
      /\ snap \in [Calls -> SUBSET Keys]
  BY DEF IInv, CallTypes, ReadTypes, LockInv, LockTypes
<1>3. k \in snap[c] /\ phase[c] \in {"scheduling", "switching"}
  BY <1>1 DEF WantedChannels
<1>4. /\ locks'[c].channels = locks[c].channels \cup {k}
      /\ locks'[c].publishers = locks[c].publishers
      /\ \A d \in Calls \ {c} : locks'[d] = locks[d]
      /\ LockTypes'
  BY <1>1, <1>2, <1>3 DEF RowLocks, LockTypes
<1>5. Apart'
  BY <1>1, <1>2, <1>4 DEF Apart
<1>6. LocksOf(c)'
  BY <1>1, <1>2, <1>3, <1>4 DEF LocksOf, Reads
<1>7. \A d \in Calls \ {c} : LocksOf(d)'
  BY <1>1, <1>4 DEF LockInv, LocksOf, Reads
<1> QED BY <1>4, <1>5, <1>6, <1>7 DEF LockInv

LEMMA PublisherLocked ==
  ASSUME IInv, LockInv, NEW c \in Calls, LockPublisher(c)
  PROVE  LockInv'
<1>1. PICK p \in WantedPublishers(c) :
        /\ \A d \in Calls : p \notin locks[d].publishers
        /\ locks' = [locks EXCEPT ![c].publishers = @ \cup {p}]
        /\ UNCHANGED phase /\ UNCHANGED Reads
  BY DEF LockPublisher
<1>2. /\ locks \in [Calls -> RowLocks] /\ LocksOf(c) /\ Apart
      /\ seen \in [Calls -> SUBSET Ids] /\ TableTypes /\ Updating(c)
  BY DEF IInv, CallTypes, ReadTypes, LockInv, LockTypes, CallInv
<1>3. \/ phase[c] = "marking" /\ p \in seen[c]
      \/ phase[c] = "disabling" /\ p = arg[c].target
  BY <1>1, ZenonT(30) DEF WantedPublishers
<1>4. p \in Ids
  BY <1>2, <1>3 DEF TableTypes, Updating
<1>5. /\ locks'[c].publishers = locks[c].publishers \cup {p}
      /\ locks'[c].channels = locks[c].channels
      /\ \A d \in Calls \ {c} : locks'[d] = locks[d]
      /\ LockTypes'
  BY <1>1, <1>2, <1>4 DEF RowLocks, LockTypes
<1>6. Apart'
  BY <1>1, <1>2, <1>5 DEF Apart
<1>7. LocksOf(c)'
  BY <1>1, <1>2, <1>3, <1>5 DEF LocksOf, Reads
<1>8. \A d \in Calls \ {c} : LocksOf(d)'
  BY <1>1, <1>5 DEF LockInv, LocksOf, Reads
<1> QED BY <1>5, <1>6, <1>7, <1>8 DEF LockInv

LEMMA CallKeepsLocks ==
  ASSUME IInv, LockInv, NEW c \in Calls, Call(c)
  PROVE  LockInv'
<1>1. ASSUME NEW p \in Ended, Goes(c, p)
      PROVE  LockInv'
  BY <1>1, LocksGo
<1>2. ASSUME NEW p \in {"naming", "adding", "matching", "disabling"}, Goes(c, p), phase[c] \in {"idle", "naming"}
      PROVE  LockInv'
  BY <1>2, NothingLocked
<1>3. /\ snap \in [Calls -> SUBSET Keys] /\ seen \in [Calls -> SUBSET Ids]
      /\ LocksOf(c)
  BY DEF IInv, CallTypes, ReadTypes, LockInv
<1>4. CASE Fail(c) \/ HomepageFails(c) \/ BreakDeadlock(c)
  BY <1>1, <1>4 DEF Fail, HomepageFails, BreakDeadlock, Raises, Returns, Ended
<1>5. CASE CheckDomain(c) \/ CheckSlug(c) \/ CheckChannel(c) \/ ChooseTargets(c) \/ FindPublisher(c)
  <2>1. phase[c] = "idle"
    BY <1>5 DEF CheckDomain, CheckSlug, CheckChannel, ChooseTargets, FindPublisher, Request
  <2>2. \E p \in Ended \cup {"naming", "adding", "matching", "disabling"} : Goes(c, p)
    BY <1>5 DEF CheckDomain, CheckSlug, CheckChannel, ChooseTargets, FindPublisher, Returns, Ended
  <2> QED BY <1>1, <1>2, <2>1, <2>2
<1>6. CASE ChooseSlug(c)
  BY <1>2, <1>6 DEF ChooseSlug
<1>7. CASE RegisterFound(c) \/ RegisterCreated(c) \/ AddChannel(c) \/ CommitJob(c) \/ CommitDelete(c)
  BY <1>1, <1>7
     DEF RegisterFound, RegisterCreated, AddChannel, CommitJob, CommitDelete, Raises, Returns, Ended
<1>8. CASE MatchChannels(c)
  <2> DEFINE S == {k \in DOMAIN channels : k[1] \in seen[c] /\ channels[k].active}
  <2>1. /\ phase[c] = "matching" /\ Goes(c, "scheduling") /\ "scheduling" \notin Ended
        /\ snap' = [snap EXCEPT ![c] = S] /\ UNCHANGED seen
    BY <1>8 DEF MatchChannels, Ended
  <2>2. phase'[c] = "scheduling" /\ locks'[c] = locks[c]
    BY <2>1, LocksMove
  <2>3. snap'[c] = S
    BY <1>3, <2>1
  <2>4. LocksOf(c)'
    BY <1>3, <2>1, <2>2, <2>3 DEF LocksOf
  <2> QED BY <2>1, <2>4, LocksGo
<1>9. CASE MarkPublishers(c)
  <2>1. phase[c] = "scheduling" /\ Goes(c, "marking") /\ "marking" \notin Ended
    BY <1>9 DEF MarkPublishers, Ended
  <2>2. phase'[c] = "marking" /\ locks'[c] = locks[c]
    BY <2>1, LocksMove
  <2>3. LocksOf(c)'
    BY <2>2 DEF LocksOf
  <2> QED BY <2>1, <2>3, LocksGo
<1>10. CASE MatchAllChannels(c)
  <2> DEFINE S == {k \in DOMAIN channels : k[1] = arg[c].target}
  <2>1. /\ phase[c] = "disabling" /\ Goes(c, "switching") /\ "switching" \notin Ended
        /\ snap' = [snap EXCEPT ![c] = S] /\ UNCHANGED arg /\ WantedPublishers(c) = {}
    BY <1>10 DEF MatchAllChannels, Ended
  <2>2. phase'[c] = "switching" /\ locks'[c] = locks[c]
    BY <2>1, LocksMove
  <2>3. snap'[c] = S
    BY <1>3, <2>1
  <2>4. locks[c].publishers = {arg[c].target}
    <3>1. arg[c].target \in locks[c].publishers
      BY <2>1, ZenonT(30) DEF WantedPublishers
    <3> QED BY <1>3, <2>1, <3>1 DEF LocksOf
  <2>5. LocksOf(c)'
    BY <1>3, <2>1, <2>2, <2>3, <2>4 DEF LocksOf
  <2> QED BY <2>1, <2>5, LocksGo
<1>11. CASE LockChannel(c)
  BY <1>11, ChannelLocked
<1>12. CASE LockPublisher(c)
  BY <1>12, PublisherLocked
<1> QED BY <1>4, <1>5, <1>6, <1>7, <1>8, <1>9, <1>10, <1>11, <1>12 DEF Call

\* Nobody else touches the locks.
LEMMA StepKeepsLocks ==
  ASSUME IInv, LockInv, [Next]_vars
  PROVE  LockInv'
<1>1. ASSUME NEW c \in Calls, Call(c)
      PROVE  LockInv'
  BY <1>1, CallKeepsLocks
<1>2. CASE UNCHANGED phase /\ UNCHANGED locks /\ UNCHANGED Reads
  BY <1>2 DEF LockInv, LockTypes, Apart, LocksOf, Reads
<1>3. CASE (\E p \in DOMAIN publishers : CompleteStale(p)) \/ (\E k \in DOMAIN channels : Poll(k))
  BY <1>2, <1>3 DEF CompleteStale, Poll
<1>4. CASE UNCHANGED vars
  BY <1>2, <1>4 DEF vars, Reads
<1> QED BY <1>1, <1>3, <1>4 DEF Next, Finished

LEMMA LockInvariance == Spec => [](IInv /\ LockInv)
<1>1. Init => LockInv
  <2> SUFFICES ASSUME Init PROVE LockInv
    OBVIOUS
  <2>1. NoLocks \in RowLocks /\ NoLocks.channels = {} /\ NoLocks.publishers = {}
    BY DEF NoLocks, RowLocks
  <2>2. LockTypes /\ \A c \in Calls : locks[c] = NoLocks /\ phase[c] = "idle"
    BY <2>1 DEF Init, LockTypes
  <2> QED BY <2>1, <2>2 DEF LockInv, Apart, LocksOf
<1>2. IInv /\ LockInv /\ [Next]_vars => LockInv'
  BY StepKeepsLocks
<1> QED BY <1>1, <1>2, Invariance, PTL DEF Spec

----------------------------------------------------------------------------
(* Theorems *)

\* The tables and the calls keep their types: a name's suffixes never run out, and a
\* job has a target that is there.
THEOREM TypeCorrect == Spec => []TypeOK
<1>1. IInv /\ LockInv => TypeOK
  BY TypeParts DEF IInv, LockInv
<1> QED BY <1>1, LockInvariance, PTL

\* There is a message for each row and for nothing else, however many calls race and
\* whichever of them fail: the row and its message are one transaction.
THEOREM OutboxAlwaysMatches == Spec => []OutboxMatchesTables
<1>1. IInv => OutboxMatchesTables
  BY DEF IInv
<1> QED BY <1>1, Invariance, PTL

\* _unique_slug leaves no gap in the suffixes of a name, though it reads without a lock.
THEOREM SuffixesAlwaysFollow == Spec => []SuffixesFollow
<1>1. IInv => SuffixesFollow
  BY DEF IInv
<1> QED BY <1>1, Invariance, PTL

\* A call that a unique constraint ends has looked for its key before, and has lost it to
\* a call that came between, or is a create_publisher whose domain is taken.
THEOREM FailsOnlyAfterRace == Spec => []FailsOnlyOnRace
<1>1. IInv => FailsOnlyOnRace
  BY DEF IInv, CallInv, Over, FailsOnlyOnRace
<1> QED BY <1>1, Invariance, PTL

\* What delete_publisher has switched off stays off.
THEOREM DeletionsLast == Spec => []DeletedForGood
<1>1. IInv => DeletedForGood
  BY DEF IInv, CallInv, Over, DeletedForGood
<1> QED BY <1>1, Invariance, PTL

\* What a call that waits can wait for.
LEMMA WaitsOnPhase ==
  ASSUME IInv, LockInv, NEW c \in Calls, NEW d \in WaitsFor(c)
  PROVE  /\ c # d /\ d \in Calls
         /\ \/ /\ phase[c] \in {"scheduling", "switching"}
               /\ phase[d] \in {"scheduling", "marking", "switching"}
               /\ \E k \in snap[c] : k \in locks[d].channels
            \/ /\ phase[c] = "marking"
               /\ phase[d] \in {"marking", "disabling", "switching"}
               /\ \E p \in seen[c] : p \in locks[d].publishers
            \/ /\ phase[c] = "disabling"
               /\ phase[d] \in {"marking", "disabling", "switching"}
<1>1. /\ d \in Calls \ {c}
      /\ WantedChannels(c) \cap locks[d].channels # {} \/ WantedPublishers(c) \cap locks[d].publishers # {}
  BY DEF WaitsFor
<1>2. LocksOf(d)
  BY <1>1 DEF LockInv
<1>3. CASE WantedChannels(c) \cap locks[d].channels # {}
  BY <1>1, <1>2, <1>3 DEF WantedChannels, LocksOf
<1>4. CASE WantedPublishers(c) \cap locks[d].publishers # {}
  <2>1. PICK p \in WantedPublishers(c) : p \in locks[d].publishers
    BY <1>4
  <2>2. (phase[c] = "marking" /\ p \in seen[c]) \/ phase[c] = "disabling"
    BY <2>1, ZenonT(30) DEF WantedPublishers
  <2> QED BY <1>1, <1>2, <2>1, <2>2 DEF LocksOf
<1> QED BY <1>1, <1>3, <1>4

\* Some call in a deadlock is a fetch job: a deletion that waits for a channel has its
\* publisher, and with it every channel that another deletion could hold.
LEMMA DeadlockHasJob ==
  ASSUME IInv, LockInv, NEW D \in SUBSET Calls, Deadlock(D)
  PROVE  \E c \in D : phase[c] \in {"scheduling", "marking"}
<1> SUFFICES ASSUME \A c \in D : phase[c] \notin {"scheduling", "marking"}
             PROVE  FALSE
  OBVIOUS
<1>1. \A x \in D : \E y \in D : y \in WaitsFor(x)
  BY DEF Deadlock
<1>2. \A x \in D : phase[x] \in {"switching", "disabling"}
  BY <1>1, WaitsOnPhase
<1>3. ASSUME NEW x \in D, phase[x] = "switching"
      PROVE  FALSE
  <2>1. PICK y \in D : y \in WaitsFor(x)
    BY <1>1
  <2>2. PICK k \in snap[x] : k \in locks[y].channels
    BY <1>3, <2>1, WaitsOnPhase
  <2>3. phase[y] = "switching" /\ x # y
    BY <1>2, <1>3, <2>1, WaitsOnPhase
  <2>4. LocksOf(x) /\ LocksOf(y) /\ Apart
    BY DEF LockInv
  <2>5. k[1] = arg[x].target /\ k[1] = arg[y].target
    BY <1>3, <2>2, <2>3, <2>4 DEF LocksOf
  <2>6. arg[x].target \in locks[x].publishers /\ arg[x].target \in locks[y].publishers
    BY <1>3, <2>3, <2>4, <2>5 DEF LocksOf
  <2> QED BY <2>3, <2>4, <2>6 DEF Apart
<1>4. ASSUME NEW x \in D, phase[x] = "disabling"
      PROVE  FALSE
  <2>1. PICK y \in D : y \in WaitsFor(x)
    BY <1>1
  <2>2. phase[y] = "disabling"
    BY <1>2, <1>3
  <2>3. WantedPublishers(x) \cap locks[y].publishers # {}
    BY <1>4, <2>1 DEF WaitsFor, WantedChannels
  <2>4. locks[y].publishers = {arg[y].target}
    BY <2>2, <2>3 DEF LockInv, LocksOf
  <2>5. WantedPublishers(y) = {}
    BY <2>2, <2>4, ZenonT(30) DEF WantedPublishers
  <2>6. WaitsFor(y) = {}
    BY <2>2, <2>5 DEF WaitsFor, WantedChannels
  <2> QED BY <1>1, <2>6
<1>5. PICK x \in D : TRUE
  BY DEF Deadlock
<1> QED BY <1>2, <1>3, <1>4, <1>5

LEMMA DeadlockCases ==
  ASSUME IInv, LockInv, NEW D \in SUBSET Calls, Deadlock(D)
  PROVE  \E c, d \in D :
           /\ arg[c].kind = "fetch"
           /\ d \in WaitsFor(c)
           /\ \/ arg[d].kind = "delete" /\ arg[d].target \in seen[c]
              \/ phase[d] = phase[c]
<1>1. \A x \in D : \E y \in D : y \in WaitsFor(x)
  BY DEF Deadlock
<1>2. \A x \in Calls : Updating(x) /\ LocksOf(x)
  BY DEF IInv, CallInv, LockInv
<1>3. CASE \E x \in D : phase[x] = "marking"
  <2>1. PICK c \in D : phase[c] = "marking"
    BY <1>3
  <2>2. PICK d \in D : d \in WaitsFor(c)
    BY <1>1
  <2>3. PICK p \in seen[c] : p \in locks[d].publishers /\ phase[d] \in {"marking", "disabling", "switching"}
    BY <2>1, <2>2, WaitsOnPhase
  <2>4. arg[c].kind = "fetch"
    BY <1>2, <2>1 DEF Updating
  <2>5. phase[d] # "marking" => arg[d].kind = "delete" /\ arg[d].target = p
    BY <1>2, <2>3 DEF Updating, LocksOf
  <2> QED BY <2>1, <2>2, <2>3, <2>4, <2>5
<1>4. CASE ~ \E x \in D : phase[x] = "marking"
  <2>1. PICK c \in D : phase[c] = "scheduling"
    BY <1>4, DeadlockHasJob
  <2>2. PICK d \in D : d \in WaitsFor(c)
    BY <1>1
  <2>3. PICK k \in snap[c] : k \in locks[d].channels /\ phase[d] \in {"scheduling", "switching"}
    BY <1>4, <2>1, <2>2, WaitsOnPhase
  <2>4. arg[c].kind = "fetch" /\ k[1] \in seen[c]
    BY <1>2, <2>1 DEF Updating, LocksOf
  <2>5. phase[d] = "switching" => arg[d].kind = "delete" /\ arg[d].target = k[1]
    BY <1>2, <2>3 DEF Updating, LocksOf
  <2> QED BY <2>1, <2>2, <2>3, <2>4, <2>5
<1> QED BY <1>3, <1>4

\* Deletions never deadlock among themselves: a deadlock has a fetch job that waits for a
\* deletion of one of its publishers, or for a job at the same update.
THEOREM DeadlockAlwaysNeedsJob == Spec => []DeadlockNeedsJob
<1>1. IInv /\ LockInv => DeadlockNeedsJob
  BY DeadlockCases DEF DeadlockNeedsJob
<1> QED BY <1>1, LockInvariance, PTL
=============================================================================
