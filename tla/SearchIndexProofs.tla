-------------------------- MODULE SearchIndexProofs --------------------------
(***************************************************************************)
(* Proofs about SearchIndex, for any users, listings, skill profiles and   *)
(* any number of commits and faults: the types, and that what the search   *)
(* knows of a user and of a listing is what the services committed last,   *)
(* as soon as no event of it is on its way.                                *)
(***************************************************************************)
EXTENDS SearchIndex, Sums, SequenceTheorems

-----------------------------------------------------------------------------
(* The inductive invariant: types.                                         *)

Values == BOOLEAN \cup Nat \cup Profiles \cup SkillSets
Messages == [key : Keys, kind : Kinds, n : 1..MaxCommits, value : Values, again : BOOLEAN]

SavedMessages == {m \in Messages : m.kind = "skills"}

(* Every message on its way, wherever it is.                               *)
Listed(s) == {s[i] : i \in 1..Len(s)}
Way == queue \cup saving \cup Listed(outbox)

(* A location that was committed is never taken away.                      *)
Located(doc) == doc # NoDoc /\ doc.profile.located

(* A message is of a change that was committed, and has a value the field  *)
(* can take.                                                               *)
MessageHolds(m) ==
  /\ m.kind = "listing" <=> m.key \in Listings
  /\ m.key \in Users => m.n <= commits[m.key]
  /\ m.key \in Listings => m.key \in listed
  /\ m.kind = "verified" => m.value \in BOOLEAN
  /\ m.kind = "profile" =>
       m.value \in Profiles /\ (m.value.located => Located(source[m.key]))
  /\ m.kind = "skills" => m.value \in SkillSets

SourceHolds ==
  /\ source \in [Users -> Documents \cup {NoDoc}]
  /\ listed \subseteq Listings
  /\ commits \in [Users -> Nat] /\ Committed <= MaxCommits

WayHolds ==
  /\ outbox \in Seq(Messages) /\ queue \subseteq Messages /\ saving \subseteq SavedMessages
  /\ \A m \in Way : MessageHolds(m)

Index == [Keys -> Documents \cup {NoDoc}]

IndexHolds ==
  /\ index \in Index /\ reindex \in Index \cup {NoIndex}
  /\ \A u \in Users : Located(index[u]) => Located(source[u])
  /\ reindex # NoIndex => \A u \in Users : Located(reindex[u]) => Located(source[u])
  /\ handlers \in 0..Len(HandlerOrder)
  /\ last \in [Users -> [Fields -> 0..MaxCommits]]
  /\ astray \subseteq Keys \X (Fields \cup {"listing"})
  /\ early \subseteq Keys \X (Fields \cup {"listing"})

TypesHold == SourceHolds /\ WayHolds /\ IndexHolds

-----------------------------------------------------------------------------
(* The inductive invariant: what the index says.                           *)

On(k, kind) == {m \in Way : m.key = k /\ m.kind = kind}
Trusted(u, f) == <<u, f>> \notin astray /\ (f = "verified" \/ <<u, f>> \notin early)

(* Nothing is known yet of a user who is not registered.                   *)
NewUser(u) ==
  ~Registered(u) =>
    /\ \A m \in Way : m.key # u
    /\ index[u] = NoDoc /\ (reindex # NoIndex => reindex[u] = NoDoc)
    /\ \A f \in Fields : last[u][f] = 0

(* The latest event of a field was applied: those that are still on their  *)
(* way are older, or further copies of it.                                 *)
Settled(u, f) ==
  /\ last[u][f] = 0 => source[u][f] = Blank[f]
  /\ index[u] # NoDoc => index[u][f] = source[u][f]
  /\ \A m \in On(u, f) : /\ m.n <= last[u][f]
                         /\ m.n = last[u][f] => m.value = source[u][f]

(* Or the latest is still on its way, and carries what the service says.   *)
Coming(u, f) ==
  \E m \in On(u, f) :
    /\ m.n > last[u][f] /\ m.value = source[u][f]
    /\ \A o \in On(u, f) : o.n <= m.n /\ (o.n = m.n => o.value = m.value)

FieldHolds(u, f) ==
  /\ last[u][f] <= commits[u]
  /\ Registered(u) /\ Trusted(u, f) => Settled(u, f) \/ Coming(u, f)
  /\ Registered(u) /\ <<u, f>> \notin astray /\ index[u] = NoDoc
       => On(u, "registered") # {}

(* An index that is being filled differs from the one behind the alias     *)
(* only in what was written meanwhile.                                     *)
CopyHolds(u, f) ==
  reindex # NoIndex /\ <<u, f>> \notin astray =>
    /\ index[u] = NoDoc <=> reindex[u] = NoDoc
    /\ index[u] # NoDoc => index[u][f] = reindex[u][f]

ListingHolds(l) ==
  <<l, "listing">> \notin astray =>
    /\ l \in listed => index[l] # NoDoc \/ On(l, "listing") # {}
    /\ reindex # NoIndex => (index[l] = NoDoc <=> reindex[l] = NoDoc)

UserHolds(u) ==
  NewUser(u) /\ \A f \in Fields : FieldHolds(u, f) /\ CopyHolds(u, f)

FollowHolds ==
  (\A u \in Users : UserHolds(u)) /\ (\A l \in Listings : ListingHolds(l))

IInv == TypesHold /\ FollowHolds

-----------------------------------------------------------------------------
(* Users, listings and documents.                                          *)

LEMMA KeyFacts ==
  /\ \A u \in Users : u \in Keys /\ u \notin Listings
  /\ \A l \in Listings : l \in Keys /\ l \notin Users
  /\ MaxCommits \in Nat
BY SearchIndexAssumption DEF Keys

LEMMA DocFacts ==
  /\ NoDoc \notin Documents
  /\ Blank \in Documents /\ Blank # NoDoc /\ ~Located(Blank)
  /\ \A old, new \in Profiles : /\ Merged(old, new) \in Profiles
                                /\ Merged(old, new).located = (old.located \/ new.located)
                                /\ (old.located => new.located) => Merged(old, new) = new
<1>1. NoDoc \notin Documents
  BY DEF NoDoc, Documents
<1>2. NoProfile \in Profiles /\ NoProfile.located = FALSE
  BY DEF NoProfile, Profiles
<1>3. Blank \in Documents /\ ~Located(Blank)
  BY <1>2 DEF Blank, Documents, Located
<1>4. ASSUME NEW old \in Profiles, NEW new \in Profiles
      PROVE  /\ Merged(old, new) \in Profiles
             /\ Merged(old, new).located = (old.located \/ new.located)
             /\ (old.located => new.located) => Merged(old, new) = new
  BY DEF Merged, Profiles
<1>. QED
  BY <1>1, <1>3, <1>4

LEMMA UpdatedFacts ==
  ASSUME NEW doc \in Documents, NEW m \in Messages, MessageHolds(m), m.kind \in Fields
  PROVE  /\ Updated(doc, m) \in Documents
         /\ m.kind # "profile" => Updated(doc, m)[m.kind] = m.value
         /\ m.kind = "profile" => Updated(doc, m)[m.kind] = Merged(doc.profile, m.value)
         /\ \A f \in Fields \ {m.kind} : Updated(doc, m)[f] = doc[f]
<1>1. CASE m.kind = "verified"
  BY <1>1 DEF Updated, Documents, MessageHolds, Fields
<1>2. CASE m.kind = "profile"
  <2>1. doc.profile \in Profiles /\ m.value \in Profiles
    BY <1>2 DEF Documents, MessageHolds
  <2>2. Merged(doc.profile, m.value) \in Profiles
    BY <2>1, DocFacts
  <2>. QED
    BY <1>2, <2>2 DEF Updated, Documents, Fields
<1>3. CASE m.kind = "skills"
  BY <1>3 DEF Updated, Documents, MessageHolds, Fields
<1>. QED
  BY <1>1, <1>2, <1>3 DEF Fields

(* Together the commits of all keep to the bound, and so do those of each. *)
LEMMA CommittedFacts ==
  ASSUME SourceHolds
  PROVE  /\ SumFunction(commits) \in Nat /\ \A u \in Users : commits[u] <= SumFunction(commits)
         /\ IsFiniteSet(listed) /\ Cardinality(listed) \in Nat
<1>1. /\ IsFiniteSet(DOMAIN commits) /\ DOMAIN commits = Users
      /\ \A v \in DOMAIN commits : commits[v] \in Nat
  BY SearchIndexAssumption DEF SourceHolds
<1>2. /\ SumFunction(commits) \in Nat
      /\ \A u \in DOMAIN commits : commits[u] <= SumFunction(commits)
  BY <1>1, SumFunctionNat
<1>3. IsFiniteSet(listed)
  BY SearchIndexAssumption, FS_Subset DEF SourceHolds
<1>4. Cardinality(listed) \in Nat
  BY <1>3, FS_CardinalityType
<1>. QED
  BY <1>1, <1>2, <1>3, <1>4

LEMMA CommitBounds ==
  ASSUME SourceHolds, NEW u \in Users
  PROVE  /\ commits[u] \in 0..MaxCommits /\ commits[u] <= SumFunction(commits)
         /\ SumFunction(commits) \in Nat /\ Cardinality(listed) \in Nat
<1>1. commits[u] \in Nat /\ SumFunction(commits) + Cardinality(listed) <= MaxCommits
  BY DEF SourceHolds, Committed
<1>. QED
  BY <1>1, CommittedFacts, KeyFacts

LEMMA CommitSum ==
  ASSUME SourceHolds, NEW u \in Users, NEW k \in Nat,
         commits' = [commits EXCEPT ![u] = @ + k], Committed + k <= MaxCommits, listed' = listed
  PROVE  commits' \in [Users -> Nat] /\ Committed' <= MaxCommits
<1>1. commits \in [Users -> Nat] /\ commits' \in [Users -> Nat]
  BY DEF SourceHolds
<1>2. /\ \A v \in Users \ {u} : commits'[v] = commits[v]
      /\ commits'[u] = commits[u] + k
  BY <1>1
<1>3. SumFunction(commits') = SumFunction(commits) + k
  <2>. DEFINE f == commits
              g == commits'
  <2>1. IsFiniteSet(DOMAIN f) /\ k \in Int
    BY <1>1, SearchIndexAssumption
  <2>2. \A v \in DOMAIN f : f[v] \in Int
    BY <1>1
  <2>3. DOMAIN g = DOMAIN f \cup {u}
    BY <1>1
  <2>4. \A v \in DOMAIN f \ {u} : g[v] = f[v]
    BY <1>1, <1>2
  <2>5. g[u] = (IF u \in DOMAIN f THEN f[u] ELSE 0) + k
    BY <1>1, <1>2
  <2>. HIDE DEF f, g
  <2>6. SumFunction(g) = SumFunction(f) + k
    BY <2>1, <2>2, <2>3, <2>4, <2>5, SumFunctionChanged
  <2>. QED
    BY <2>6 DEF f, g
<1>4. SumFunction(commits) \in Nat /\ Cardinality(listed) \in Nat
  BY CommitBounds
<1>. QED
  BY <1>1, <1>3, <1>4, KeyFacts DEF Committed

-----------------------------------------------------------------------------
(* The messages of a sequence.                                             *)

LEMMA ListedConcat ==
  \A S : \A s, t \in Seq(S) : s \o t \in Seq(S) /\ Listed(s \o t) = Listed(s) \cup Listed(t)
<1>. SUFFICES ASSUME NEW S, NEW s \in Seq(S), NEW t \in Seq(S)
              PROVE  s \o t \in Seq(S) /\ Listed(s \o t) = Listed(s) \cup Listed(t)
  OBVIOUS
<1>1. /\ s \o t \in Seq(S) /\ Len(s \o t) = Len(s) + Len(t)
      /\ \A i \in 1 .. Len(s) + Len(t) :
           (s \o t)[i] = IF i <= Len(s) THEN s[i] ELSE t[i - Len(s)]
  BY ConcatProperties
<1>2. Len(s) \in Nat /\ Len(t) \in Nat
  OBVIOUS
<1>3. \A i \in 1..Len(s) : s[i] \in Listed(s \o t)
  <2>. TAKE i \in 1..Len(s)
  <2>1. i \in 1..Len(s \o t) /\ (s \o t)[i] = s[i]
    BY <1>1, <1>2
  <2>. QED
    BY <2>1 DEF Listed
<1>4. \A i \in 1..Len(t) : t[i] \in Listed(s \o t)
  <2>. TAKE i \in 1..Len(t)
  <2>1. Len(s) + i \in 1..Len(s \o t) /\ (s \o t)[Len(s) + i] = t[i]
    BY <1>1, <1>2
  <2>. QED
    BY <2>1 DEF Listed
<1>5. \A i \in 1..Len(s \o t) : (s \o t)[i] \in Listed(s) \cup Listed(t)
  <2>. TAKE i \in 1..Len(s \o t)
  <2>1. CASE i <= Len(s)
    BY <1>1, <1>2, <2>1 DEF Listed
  <2>2. CASE ~(i <= Len(s))
    <3>1. i - Len(s) \in 1..Len(t) /\ (s \o t)[i] = t[i - Len(s)]
      BY <1>1, <1>2, <2>2
    <3>. QED
      BY <3>1 DEF Listed
  <2>. QED
    BY <2>1, <2>2
<1>6. Listed(s \o t) \subseteq Listed(s) \cup Listed(t)
  BY <1>5 DEF Listed
<1>7. Listed(s) \subseteq Listed(s \o t) /\ Listed(t) \subseteq Listed(s \o t)
  BY <1>3, <1>4 DEF Listed
<1>. QED
  BY <1>1, <1>6, <1>7

LEMMA ListedAppend ==
  ASSUME NEW S, NEW s \in Seq(S), NEW e \in S
  PROVE  Append(s, e) \in Seq(S) /\ Listed(Append(s, e)) = Listed(s) \cup {e}
<1>. DEFINE t == <<e>>
<1>1. t \in Seq(S) /\ Append(s, e) = s \o t
  BY AppendIsConcat
<1>2. Listed(t) = {e}
  BY DEF Listed
<1>. HIDE DEF t
<1>3. s \o t \in Seq(S) /\ Listed(s \o t) = Listed(s) \cup Listed(t)
  BY <1>1, ListedConcat
<1>. QED
  BY <1>1, <1>2, <1>3

LEMMA ListedTail ==
  ASSUME NEW S, NEW s \in Seq(S), s # <<>>
  PROVE  /\ Head(s) \in S /\ Tail(s) \in Seq(S)
         /\ Listed(s) = {Head(s)} \cup Listed(Tail(s))
<1>. DEFINE t == <<Head(s)>>
            r == Tail(s)
<1>1. Head(s) \in S /\ r \in Seq(S)
  BY HeadTailProperties
<1>2. t \in Seq(S)
  BY <1>1
<1>3. s = t \o r
  OBVIOUS
<1>4. Listed(t) = {Head(s)}
  BY DEF Listed
<1>. HIDE DEF t, r
<1>5. Listed(t \o r) = Listed(t) \cup Listed(r)
  BY <1>1, <1>2, ListedConcat
<1>6. Listed(s) = {Head(s)} \cup Listed(r)
  BY <1>3, <1>4, <1>5
<1>. QED
  BY <1>1, <1>6 DEF r

-----------------------------------------------------------------------------
(* What the index says is preserved by a commit of one user.               *)

LEMMA MessageFacts ==
  ASSUME TypesHold, NEW m \in Way
  PROVE  /\ m \in Messages /\ MessageHolds(m)
         /\ m.key \in Keys /\ m.kind \in Kinds /\ m.n \in 1..MaxCommits
         /\ m.kind # "listing" => m.key \in Users
         /\ m.kind = "listing" => m.key \in Listings
<1>1. Listed(outbox) \subseteq Messages
  BY DEF Listed, TypesHold, WayHolds
<1>2. m \in Messages /\ MessageHolds(m)
  BY <1>1 DEF Way, TypesHold, WayHolds, SavedMessages
<1>. QED
  BY <1>2 DEF Messages, MessageHolds, Keys

(* A user nothing changes for.                                             *)
LEMMA UserSame ==
  ASSUME NEW u \in Users, UserHolds(u),
         source'[u] = source[u], commits'[u] = commits[u], index'[u] = index[u],
         last'[u] = last[u], reindex' = reindex, astray \subseteq astray', early \subseteq early',
         \A kind : On(u, kind)' = On(u, kind)
  PROVE  UserHolds(u)'
<1>1. NewUser(u)'
  <2>1. (\A m \in Way : m.key # u) => \A m \in Way' : m.key # u
    <3>. SUFFICES ASSUME NEW m \in Way', m.key = u, \A o \in Way : o.key # u PROVE FALSE
      OBVIOUS
    <3>1. m \in On(u, m.kind)'
      BY DEF On
    <3>. QED
      BY <3>1 DEF On
  <2>. QED
    BY <2>1 DEF UserHolds, NewUser, Registered
<1>2. ASSUME NEW f \in Fields
      PROVE  FieldHolds(u, f)' /\ CopyHolds(u, f)'
  <2>1. FieldHolds(u, f) /\ CopyHolds(u, f)
    BY DEF UserHolds
  <2>2. Trusted(u, f)' => Trusted(u, f)
    BY DEF Trusted
  <2>3. Settled(u, f) => Settled(u, f)'
    BY DEF Settled
  <2>4. Coming(u, f) => Coming(u, f)'
    BY DEF Coming
  <2>. QED
    BY <2>1, <2>2, <2>3, <2>4 DEF FieldHolds, CopyHolds, Registered
<1>. QED
  BY <1>1, <1>2 DEF UserHolds

LEMMA ListingSame ==
  ASSUME NEW l \in Listings, ListingHolds(l), index'[l] = index[l], reindex' = reindex,
         astray \subseteq astray', l \in listed' => l \in listed,
         On(l, "listing") \subseteq On(l, "listing")' \/ <<l, "listing">> \in astray'
  PROVE  ListingHolds(l)'
BY DEF ListingHolds

(* The events of a commit: of its user, with stamps of their own, one of a *)
(* kind, with the values of the account.                                   *)
NewEvents(new, u, account, k) ==
  /\ \A m \in new : /\ m \in Messages /\ m.key = u /\ m.kind # "listing"
                    /\ m.n \in (commits[u] + 1)..(commits[u] + k)
                    /\ m.kind \in Fields => m.value = account[m.kind]
  /\ \A m, o \in new : m.kind = o.kind => m = o

(* A user's account and new events are committed; a field without an event *)
(* does not change.                                                        *)
Committing(new, u, account, k) ==
  /\ source'[u] = account /\ commits'[u] = commits[u] + k
  /\ \A v \in Users \ {u} : source'[v] = source[v] /\ commits'[v] = commits[v]
  /\ UNCHANGED <<listed, index, reindex, last, astray, early>>
  /\ Way' = Way \cup new /\ NewEvents(new, u, account, k)
  /\ \A f \in Fields : (\A m \in new : m.kind # f) =>
       account[f] = IF Registered(u) THEN source[u][f] ELSE Blank[f]
  /\ Registered(u) \/ \E m \in new : m.kind = "registered"

LEMMA CommitFollows ==
  ASSUME TypesHold, FollowHolds, NEW u \in Users, NEW account, NEW k \in Nat, NEW new,
         Committing(new, u, account, k), account # NoDoc
  PROVE  FollowHolds'
<1>. USE DEF Committing, NewEvents
<1>1. commits[u] \in Nat
  BY DEF TypesHold, SourceHolds
<1>2. /\ source'[u] = account /\ commits'[u] = commits[u] + k /\ commits[u] \in Nat
      /\ \A v \in Users \ {u} : source'[v] = source[v] /\ commits'[v] = commits[v]
  BY <1>1
<1>3. \A kind : On(u, kind)' = On(u, kind) \cup {m \in new : m.kind = kind}
  BY DEF On
<1>4. \A key, kind : key # u => On(key, kind)' = On(key, kind)
  BY DEF On
<1>5. ASSUME NEW v \in Users, v # u
      PROVE  UserHolds(v)'
  <2>1. UserHolds(v) /\ \A kind : On(v, kind)' = On(v, kind)
    BY <1>4, <1>5 DEF FollowHolds
  <2>. QED
    BY <1>2, <1>5, <2>1, UserSame
<1>6. ASSUME NEW l \in Listings
      PROVE  ListingHolds(l)'
  <2>1. ListingHolds(l) /\ On(l, "listing")' = On(l, "listing")
    BY <1>4, KeyFacts DEF FollowHolds
  <2>. QED
    BY <2>1, ListingSame
<1>7. NewUser(u)'
  BY <1>2 DEF NewUser, Registered
<1>8. ASSUME NEW f \in Fields
      PROVE  FieldHolds(u, f)' /\ CopyHolds(u, f)'
  <2>1. NewUser(u) /\ FieldHolds(u, f) /\ CopyHolds(u, f)
    BY DEF FollowHolds, UserHolds
  <2>2. CopyHolds(u, f)'
    BY <2>1 DEF CopyHolds
  <2>3. last'[u][f] = last[u][f] /\ last[u][f] \in Nat /\ last[u][f] <= commits[u]
    BY <2>1, KeyFacts DEF TypesHold, IndexHolds, FieldHolds
  <2>4. On(u, "registered")' # {} \/ index'[u] # NoDoc \/ <<u, f>> \in astray'
    <3>1. CASE Registered(u)
      BY <1>3, <2>1, <3>1 DEF FieldHolds
    <3>2. CASE \E m \in new : m.kind = "registered"
      BY <1>3, <3>2
    <3>. QED
      BY <3>1, <3>2
  <2>5. Trusted(u, f)' => Settled(u, f)' \/ Coming(u, f)'
    <3>1. CASE \E m \in new : m.kind = f
      <4>1. PICK m \in new : m.kind = f
        BY <3>1
      <4>2. /\ m.n \in Nat /\ m.n > commits[u] /\ m.value = account[f]
        BY <1>2, <4>1
      <4>3. m \in On(u, f)' /\ m.n > last'[u][f] /\ m.value = source'[u][f]
        BY <1>2, <1>3, <2>3, <4>1, <4>2
      <4>4. ASSUME NEW o \in On(u, f)'
            PROVE  o.n <= m.n /\ (o.n = m.n => o.value = m.value)
        <5>1. CASE o \in On(u, f)
          <6>1. o \in Way /\ o.key = u
            BY <5>1 DEF On
          <6>2. o.n \in Nat /\ o.n <= commits[u]
            BY <6>1, MessageFacts DEF MessageHolds
          <6>. QED
            BY <1>2, <4>2, <6>2
        <5>2. CASE o \in new /\ o.kind = f
          BY <4>1, <4>2, <5>2
        <5>. QED
          BY <1>3, <4>4, <5>1, <5>2
      <4>. QED
        BY <4>3, <4>4 DEF Coming
    <3>2. CASE \A m \in new : m.kind # f
      <4>1. On(u, f)' = On(u, f)
        BY <3>2 DEF On
      <4>2. CASE Registered(u)
        <5>1. source'[u][f] = source[u][f]
          BY <1>2, <3>2, <4>2
        <5>2. Trusted(u, f)' => Trusted(u, f)
          BY DEF Trusted
        <5>3. Settled(u, f) => Settled(u, f)'
          BY <4>1, <5>1 DEF Settled
        <5>4. Coming(u, f) => Coming(u, f)'
          BY <4>1, <5>1 DEF Coming
        <5>. QED
          BY <2>1, <4>2, <5>2, <5>3, <5>4 DEF FieldHolds
      <4>3. CASE ~Registered(u)
        <5>1. source'[u][f] = account[f] /\ account[f] = Blank[f]
          BY <1>2, <3>2, <4>3
        <5>3. index'[u] = NoDoc
          BY <2>1, <4>3 DEF NewUser
        <5>2. On(u, f)' = {}
          BY <2>1, <4>1, <4>3 DEF NewUser, On
        <5>. QED
          BY <5>1, <5>2, <5>3 DEF Settled
      <4>. QED
        BY <4>2, <4>3
    <3>. QED
      BY <3>1, <3>2
  <2>6. last'[u][f] <= commits'[u]
    BY <1>2, <2>3
  <2>. QED
    BY <2>2, <2>4, <2>5, <2>6 DEF FieldHolds
<1>9. UserHolds(u)'
  BY <1>7, <1>8 DEF UserHolds
<1>. QED
  BY <1>5, <1>6, <1>9 DEF FollowHolds

-----------------------------------------------------------------------------
(* Messages that move, are copied or are lost.                             *)

(* Why a message may be lost: what it would have written is not trusted.   *)
Excused(m) ==
  /\ m.kind \in Fields => ~Trusted(m.key, m.kind)
  /\ m.kind = "registered" => \A f \in Fields : <<m.key, f>> \in astray
  /\ m.kind = "listing" => <<m.key, "listing">> \in astray

(* Messages move, are copied or are excused; nothing else happens.         *)
Moving ==
  /\ UNCHANGED <<source, commits, listed, index, reindex, last>>
  /\ astray \subseteq astray' /\ early \subseteq early'
  /\ \A m \in Way' : \E o \in Way : /\ o.key = m.key /\ o.kind = m.kind
                                   /\ o.n = m.n /\ o.value = m.value
  /\ \A m \in Way : m \in Way' \/ Excused(m)'

LEMMA WayFollows ==
  ASSUME TypesHold, FollowHolds, Moving
  PROVE  FollowHolds'
<1>. USE DEF Moving
<1>1. ASSUME NEW key, NEW kind, NEW m \in On(key, kind)'
      PROVE  \E o \in On(key, kind) : o.n = m.n /\ o.value = m.value
  <2>1. m \in Way' /\ m.key = key /\ m.kind = kind
    BY <1>1 DEF On
  <2>2. PICK o \in Way : o.key = key /\ o.kind = kind /\ o.n = m.n /\ o.value = m.value
    BY <2>1
  <2>. QED
    BY <2>2 DEF On
<1>2. ASSUME NEW key, NEW kind, NEW m \in On(key, kind)
      PROVE  m \in On(key, kind)' \/ Excused(m)'
  BY <1>2 DEF On
<1>3. ASSUME NEW l \in Listings
      PROVE  ListingHolds(l)'
  <2>1. ListingHolds(l)
    BY DEF FollowHolds
  <2>2. ASSUME <<l, "listing">> \notin astray', NEW m \in On(l, "listing")
        PROVE  m \in On(l, "listing")'
    <3>1. m.key = l /\ m.kind = "listing"
      BY <2>2 DEF On
    <3>2. ~Excused(m)'
      BY <2>2, <3>1 DEF Excused
    <3>. QED
      BY <1>2, <2>2, <3>2
  <2>. QED
    BY <2>1, <2>2 DEF ListingHolds
<1>4. ASSUME NEW u \in Users
      PROVE  UserHolds(u)'
  <2>1. NewUser(u)'
    <3>1. NewUser(u)
      BY DEF FollowHolds, UserHolds
    <3>. QED
      BY <3>1 DEF NewUser, Registered
  <2>2. ASSUME NEW f \in Fields
        PROVE  FieldHolds(u, f)' /\ CopyHolds(u, f)'
    <3>1. FieldHolds(u, f) /\ CopyHolds(u, f)
      BY DEF FollowHolds, UserHolds
    <3>2. CopyHolds(u, f)'
      BY <3>1 DEF CopyHolds
    <3>3. Trusted(u, f)' => Trusted(u, f)
      BY DEF Trusted
    <3>4. Settled(u, f) => Settled(u, f)'
      BY <1>1 DEF Settled
    <3>5. Coming(u, f) /\ Trusted(u, f)' => Coming(u, f)'
      <4>. SUFFICES ASSUME Coming(u, f), Trusted(u, f)' PROVE Coming(u, f)'
        OBVIOUS
      <4>1. PICK m \in On(u, f) :
              /\ m.n > last[u][f] /\ m.value = source[u][f]
              /\ \A o \in On(u, f) : o.n <= m.n /\ (o.n = m.n => o.value = m.value)
        BY DEF Coming
      <4>2. m.key = u /\ m.kind = f
        BY <4>1 DEF On
      <4>3. ~Excused(m)'
        BY <4>2 DEF Excused, Trusted
      <4>4. m \in On(u, f)'
        BY <1>2, <4>1, <4>3
      <4>5. \A o \in On(u, f)' : o.n <= m.n /\ (o.n = m.n => o.value = m.value)
        BY <1>1, <4>1
      <4>. QED
        BY <4>1, <4>4, <4>5 DEF Coming
    <3>6. ASSUME On(u, "registered") # {}, <<u, f>> \notin astray'
          PROVE  On(u, "registered")' # {}
      <4>1. PICK m : m \in On(u, "registered")
        BY <3>6
      <4>2. m.key = u /\ m.kind = "registered"
        BY <4>1 DEF On
      <4>3. ~Excused(m)'
        BY <3>6, <4>2 DEF Excused
      <4>. QED
        BY <1>2, <4>1, <4>3
    <3>. QED
      BY <3>1, <3>2, <3>3, <3>4, <3>5, <3>6 DEF FieldHolds, Registered
  <2>. QED
    BY <2>1, <2>2 DEF UserHolds
<1>. QED
  BY <1>3, <1>4 DEF FollowHolds

-----------------------------------------------------------------------------
(* Messages that are handled.                                              *)

(* The way after a message was taken from the queue: a copy of it may be   *)
(* elsewhere still.                                                        *)
TakenFrom(m) == Way' \subseteq Way /\ Way \ {m} \subseteq Way'

LEMMA DoneTakes ==
  ASSUME NEW m \in queue, queue' = queue \ {m}, UNCHANGED <<saving, outbox>>
  PROVE  TakenFrom(m) /\ m \in Way
BY DEF TakenFrom, Way

LEMMA TakenOn ==
  ASSUME NEW m, TakenFrom(m)
  PROVE  \A key, kind : /\ On(key, kind)' \subseteq On(key, kind)
                        /\ key # m.key \/ kind # m.kind => On(key, kind)' = On(key, kind)
                        /\ On(key, kind) \ {m} \subseteq On(key, kind)'
BY DEF TakenFrom, On

LEMMA RegisteredFollows ==
  ASSUME TypesHold, FollowHolds, NEW m \in queue, HandleRegistered(m)
  PROVE  FollowHolds'
<1>. PICK u : u = m.key
  OBVIOUS
<1>1. /\ index' = [index EXCEPT ![u] = Blank] /\ m.kind = "registered"
      /\ UNCHANGED <<source, commits, listed, reindex, last, early>>
      /\ astray \subseteq astray' /\ TakenFrom(m) /\ m \in Way
  BY DoneTakes DEF HandleRegistered, Done, services
<1>2. u \in Users /\ u \in Keys /\ index \in Index
  BY <1>1, MessageFacts, KeyFacts DEF TypesHold, IndexHolds
<1>3. index'[u] = Blank /\ \A k \in Keys \ {u} : index'[k] = index[k]
  BY <1>1, <1>2 DEF Index
<1>4. ASSUME NEW f \in Fields, <<u, f>> \notin astray'
      PROVE  reindex = NoIndex /\ last[u][f] = 0
  <2>1. <<u, f>> \notin Touched(u, Fields) /\ ~(last[u][f] > 0)
    BY <1>4 DEF HandleRegistered
  <2>2. last[u][f] \in Nat
    BY <1>2, KeyFacts DEF TypesHold, IndexHolds
  <2>. QED
    BY <2>1, <2>2 DEF Touched
<1>5. ASSUME NEW l \in Listings
      PROVE  ListingHolds(l)'
  <2>1. l # u /\ l \in Keys /\ ListingHolds(l)
    BY <1>2, KeyFacts DEF FollowHolds
  <2>2. On(l, "listing")' = On(l, "listing")
    BY <1>1, <2>1, TakenOn
  <2>. QED
    BY <1>1, <1>3, <2>1, <2>2, ListingSame
<1>6. ASSUME NEW v \in Users, v # u
      PROVE  UserHolds(v)'
  <2>1. UserHolds(v) /\ v \in Keys
    BY KeyFacts DEF FollowHolds
  <2>2. \A kind : On(v, kind)' = On(v, kind)
    BY <1>1, <1>6, TakenOn
  <2>. QED
    BY <1>1, <1>3, <1>6, <2>1, <2>2, UserSame
<1>7. UserHolds(u)'
  <2>1. NewUser(u) /\ m \in Way
    BY <1>1, <1>2 DEF FollowHolds, UserHolds
  <2>2. Registered(u)
    BY <2>1 DEF NewUser
  <2>3. ASSUME NEW f \in Fields
        PROVE  FieldHolds(u, f)' /\ CopyHolds(u, f)'
    <3>1. FieldHolds(u, f)
      BY <1>2 DEF FollowHolds, UserHolds
    <3>2. CopyHolds(u, f)'
      BY <1>1, <1>4 DEF CopyHolds
    <3>3. On(u, f)' = On(u, f)
      <4>1. f # m.kind
        BY <1>1 DEF Fields
      <4>. QED
        BY <1>1, <4>1, TakenOn
    <3>4. Trusted(u, f)' => Trusted(u, f) /\ last[u][f] = 0
      BY <1>1, <1>4 DEF Trusted
    <3>5. Settled(u, f) /\ last[u][f] = 0 => Settled(u, f)'
      BY <1>1, <1>3, <3>3 DEF Settled
    <3>6. Coming(u, f) => Coming(u, f)'
      BY <1>1, <3>3 DEF Coming
    <3>7. index'[u] # NoDoc
      BY <1>3, DocFacts
    <3>. QED
      BY <1>1, <2>2, <3>1, <3>2, <3>4, <3>5, <3>6, <3>7 DEF FieldHolds
  <2>. QED
    BY <1>1, <2>2, <2>3 DEF UserHolds, NewUser, Registered
<1>. QED
  BY <1>5, <1>6, <1>7 DEF FollowHolds

LEMMA ListingFollows ==
  ASSUME TypesHold, FollowHolds, NEW m \in queue, HandleListing(m)
  PROVE  FollowHolds'
<1>. PICK l : l = m.key
  OBVIOUS
<1>1. /\ index' = [index EXCEPT ![l] = Blank] /\ m.kind = "listing"
      /\ UNCHANGED <<source, commits, listed, reindex, last, early>>
      /\ astray \subseteq astray' /\ TakenFrom(m) /\ m \in Way
  BY DoneTakes DEF HandleListing, Done, services
<1>2. l \in Listings /\ l \in Keys /\ index \in Index
  BY <1>1, MessageFacts, KeyFacts DEF TypesHold, IndexHolds
<1>3. index'[l] = Blank /\ \A k \in Keys \ {l} : index'[k] = index[k]
  BY <1>1, <1>2 DEF Index
<1>4. <<l, "listing">> \notin astray' => reindex = NoIndex
  BY DEF HandleListing, Touched
<1>5. ASSUME NEW v \in Users
      PROVE  UserHolds(v)'
  <2>1. UserHolds(v) /\ v \in Keys /\ v # l
    BY <1>2, KeyFacts DEF FollowHolds
  <2>2. \A kind : On(v, kind)' = On(v, kind)
    BY <1>1, <2>1, TakenOn
  <2>. QED
    BY <1>1, <1>3, <2>1, <2>2, UserSame
<1>6. ASSUME NEW k \in Listings, k # l
      PROVE  ListingHolds(k)'
  <2>1. ListingHolds(k) /\ k \in Keys
    BY KeyFacts DEF FollowHolds
  <2>2. On(k, "listing")' = On(k, "listing")
    BY <1>1, <1>6, TakenOn
  <2>. QED
    BY <1>1, <1>3, <1>6, <2>1, <2>2, ListingSame
<1>7. ListingHolds(l)'
  BY <1>1, <1>3, <1>4, DocFacts DEF ListingHolds
<1>. QED
  BY <1>5, <1>6, <1>7 DEF FollowHolds

(* What an update does to the field it is of.                              *)
LEMMA UpdateField ==
  ASSUME TypesHold, FollowHolds, NEW m \in Way, NEW u \in Users, NEW f \in Fields,
         m.key = u, m.kind = f, TakenFrom(m),
         UNCHANGED <<source, commits, reindex, early>>, astray \subseteq astray',
         index[u] # NoDoc, index'[u] # NoDoc, m.value = source[u][f] => index'[u][f] = m.value,
         last'[u][f] = IF m.n > last[u][f] THEN m.n ELSE last[u][f],
         <<u, f>> \in astray' \/ (reindex = NoIndex /\ ~(m.n < last[u][f]))
  PROVE  FieldHolds(u, f)' /\ CopyHolds(u, f)'
<1>1. FieldHolds(u, f) /\ NewUser(u)
  BY DEF FollowHolds, UserHolds
<1>2. /\ last[u][f] \in Nat /\ m.n \in Nat \ {0} /\ m.n <= commits[u]
      /\ commits[u] \in Nat
  BY MessageFacts, KeyFacts DEF TypesHold, IndexHolds, SourceHolds, MessageHolds
<1>3. Registered(u) /\ m \in On(u, f)
  BY <1>1 DEF NewUser, On
<1>4. last'[u][f] <= commits'[u]
  BY <1>1, <1>2 DEF FieldHolds
<1>5. CopyHolds(u, f)'
  BY DEF CopyHolds
<1>6. Trusted(u, f)' => Settled(u, f)' \/ Coming(u, f)'
  <2>. SUFFICES ASSUME Trusted(u, f)' PROVE Settled(u, f)' \/ Coming(u, f)'
    OBVIOUS
  <2>1. last'[u][f] = m.n /\ m.n >= last[u][f]
    BY <1>2 DEF Trusted
  <2>2. Settled(u, f) \/ Coming(u, f)
    BY <1>1, <1>3 DEF FieldHolds, Trusted
  <2>3. On(u, f)' \subseteq On(u, f)
    BY TakenOn
  <2>4. \A o \in On(u, f) : o.n \in Nat
    BY MessageFacts DEF On
  <2>5. CASE Settled(u, f)
    <3>1. m.n = last[u][f] /\ m.value = source[u][f]
      BY <1>2, <1>3, <2>1, <2>5 DEF Settled
    <3>2. Settled(u, f)'
      BY <1>2, <2>1, <2>3, <2>5, <3>1 DEF Settled
    <3>. QED
      BY <3>2
  <2>6. CASE Coming(u, f)
    <3>1. PICK w \in On(u, f) :
            /\ w.n > last[u][f] /\ w.value = source[u][f]
            /\ \A o \in On(u, f) : o.n <= w.n /\ (o.n = w.n => o.value = w.value)
      BY <2>6 DEF Coming
    <3>2. CASE m.n = w.n
      <4>1. m.value = source[u][f]
        BY <1>3, <3>1, <3>2
      <4>2. Settled(u, f)'
        BY <1>2, <2>1, <2>3, <3>1, <3>2, <4>1 DEF Settled
      <4>. QED
        BY <4>2
    <3>3. CASE m.n # w.n
      <4>1. w # m /\ w.n > m.n
        BY <1>2, <1>3, <2>4, <3>1, <3>3
      <4>2. w \in On(u, f)'
        BY <3>1, <4>1, TakenOn
      <4>3. Coming(u, f)'
        BY <2>1, <2>3, <3>1, <4>1, <4>2 DEF Coming
      <4>. QED
        BY <4>3
    <3>. QED
      BY <3>2, <3>3
  <2>. QED
    BY <2>2, <2>5, <2>6
<1>. QED
  BY <1>1, <1>4, <1>5, <1>6 DEF FieldHolds

LEMMA UpdateFollows ==
  ASSUME TypesHold, FollowHolds, NEW m \in queue, HandleUpdate(m)
  PROVE  FollowHolds'
<1>. PICK u, f : u = m.key /\ f = m.kind
  OBVIOUS
<1>1. /\ index' = [index EXCEPT ![u] = Updated(index[u], m)] /\ f \in Fields
      /\ last' = [last EXCEPT ![u][f] = IF m.n > @ THEN m.n ELSE @]
      /\ UNCHANGED <<source, commits, listed, reindex, early>>
      /\ astray \subseteq astray' /\ TakenFrom(m) /\ m \in Way /\ index[u] # NoDoc
      /\ <<u, f>> \in astray' \/ (reindex = NoIndex /\ ~(m.n < last[u][f]))
  BY DoneTakes DEF HandleUpdate, Done, services, Touched
<1>2. /\ u \in Users /\ u \in Keys /\ index \in Index
      /\ last \in [Users -> [Fields -> 0..MaxCommits]]
      /\ m \in Messages /\ MessageHolds(m)
  <2>1. f # "listing"
    BY <1>1 DEF Fields
  <2>. QED
    BY <1>1, <2>1, MessageFacts, KeyFacts DEF TypesHold, IndexHolds
<1>3. index'[u] = Updated(index[u], m) /\ \A k \in Keys \ {u} : index'[k] = index[k]
  BY <1>1, <1>2 DEF Index
<1>4. /\ last'[u][f] = IF m.n > last[u][f] THEN m.n ELSE last[u][f]
      /\ \A g \in Fields \ {f} : last'[u][g] = last[u][g]
      /\ \A v \in Users \ {u} : last'[v] = last[v]
  BY <1>1, <1>2
<1>5. /\ index'[u] \in Documents
      /\ m.value = source[u][f] => index'[u][f] = m.value
      /\ \A g \in Fields \ {f} : index'[u][g] = index[u][g]
  <2>1. index[u] \in Documents
    BY <1>1, <1>2 DEF Index
  <2>2. /\ Updated(index[u], m) \in Documents
        /\ f # "profile" => Updated(index[u], m)[f] = m.value
        /\ f = "profile" => Updated(index[u], m)[f] = Merged(index[u].profile, m.value)
        /\ \A g \in Fields \ {f} : Updated(index[u], m)[g] = index[u][g]
    BY <1>1, <1>2, <2>1, UpdatedFacts
  <2>3. CASE f = "profile"
    <3>1. index[u].profile \in Profiles /\ m.value \in Profiles
      BY <1>2, <2>1, <2>3 DEF Documents, MessageHolds
    <3>2. m.value = source[u].profile => (index[u].profile.located => m.value.located)
      BY <1>1, <1>2 DEF TypesHold, IndexHolds, Located
    <3>3. m.value = source[u].profile => Merged(index[u].profile, m.value) = m.value
      BY <3>1, <3>2, DocFacts
    <3>. QED
      BY <1>3, <2>2, <2>3, <3>3
  <2>4. CASE f # "profile"
    BY <1>3, <2>2, <2>4
  <2>. QED
    BY <2>3, <2>4
<1>6. index'[u] # NoDoc
  BY <1>5, DocFacts
<1>7. ASSUME NEW l \in Listings
      PROVE  ListingHolds(l)'
  <2>1. l # u /\ l \in Keys /\ ListingHolds(l)
    BY <1>2, KeyFacts DEF FollowHolds
  <2>2. On(l, "listing")' = On(l, "listing")
    BY <1>1, <2>1, TakenOn
  <2>. QED
    BY <1>1, <1>3, <2>1, <2>2, ListingSame
<1>8. ASSUME NEW v \in Users, v # u
      PROVE  UserHolds(v)'
  <2>1. UserHolds(v) /\ v \in Keys
    BY KeyFacts DEF FollowHolds
  <2>2. \A kind : On(v, kind)' = On(v, kind)
    BY <1>1, <1>8, TakenOn
  <2>. QED
    BY <1>1, <1>3, <1>4, <1>8, <2>1, <2>2, UserSame
<1>9. UserHolds(u)'
  <2>1. NewUser(u)' /\ Registered(u)
    BY <1>1, <1>2 DEF FollowHolds, UserHolds, NewUser, Registered
  <2>2. FieldHolds(u, f)' /\ CopyHolds(u, f)'
    BY <1>1, <1>2, <1>4, <1>5, <1>6, UpdateField
  <2>3. ASSUME NEW g \in Fields, g # f
        PROVE  FieldHolds(u, g)' /\ CopyHolds(u, g)'
    <3>1. FieldHolds(u, g) /\ CopyHolds(u, g)
      BY <1>2 DEF FollowHolds, UserHolds
    <3>2. On(u, g)' = On(u, g)
      BY <1>1, <2>3, TakenOn
    <3>3. last'[u][g] = last[u][g] /\ index'[u][g] = index[u][g]
      BY <1>4, <1>5, <2>3
    <3>4. CopyHolds(u, g)'
      BY <1>1, <1>6, <3>1, <3>3 DEF CopyHolds
    <3>5. Trusted(u, g)' => Trusted(u, g)
      BY <1>1 DEF Trusted
    <3>6. Settled(u, g) => Settled(u, g)'
      BY <1>1, <3>2, <3>3 DEF Settled
    <3>7. Coming(u, g) => Coming(u, g)'
      BY <1>1, <3>2, <3>3 DEF Coming
    <3>. QED
      BY <1>1, <1>6, <2>1, <3>1, <3>3, <3>4, <3>5, <3>6, <3>7 DEF FieldHolds
  <2>. QED
    BY <2>1, <2>2, <2>3 DEF UserHolds
<1>. QED
  BY <1>7, <1>8, <1>9 DEF FollowHolds

(* The alias moves: what was written meanwhile is astray, the rest is the  *)
(* same in both.                                                           *)
LEMMA SwitchFollows ==
  ASSUME TypesHold, FollowHolds, ReindexSwitch
  PROVE  FollowHolds'
<1>1. /\ index' = reindex /\ reindex' = NoIndex /\ reindex # NoIndex
      /\ UNCHANGED <<source, commits, listed, last, astray, early, outbox, saving, queue>>
  BY DEF ReindexSwitch, services
<1>2. \A key, kind : On(key, kind)' = On(key, kind)
  BY <1>1 DEF On, Way, Listed
<1>3. \A l \in Listings : ListingHolds(l)'
  BY <1>1, <1>2 DEF FollowHolds, ListingHolds
<1>4. ASSUME NEW u \in Users
      PROVE  UserHolds(u)'
  <2>1. UserHolds(u)
    BY DEF FollowHolds
  <2>2. NewUser(u)'
    BY <1>1, <2>1 DEF UserHolds, NewUser, Registered, Way, Listed
  <2>3. ASSUME NEW f \in Fields
        PROVE  FieldHolds(u, f)' /\ CopyHolds(u, f)'
    <3>1. FieldHolds(u, f) /\ CopyHolds(u, f)
      BY <2>1 DEF UserHolds
    <3>2. Trusted(u, f)' => Trusted(u, f) /\ <<u, f>> \notin astray
      BY <1>1 DEF Trusted
    <3>3. Settled(u, f) /\ <<u, f>> \notin astray => Settled(u, f)'
      BY <1>1, <1>2, <3>1 DEF Settled, CopyHolds
    <3>4. Coming(u, f) => Coming(u, f)'
      BY <1>1, <1>2 DEF Coming
    <3>5. CopyHolds(u, f)'
      BY <1>1 DEF CopyHolds
    <3>6. <<u, f>> \notin astray' /\ index'[u] = NoDoc => index[u] = NoDoc
      BY <1>1, <3>1 DEF CopyHolds
    <3>. QED
      BY <1>1, <1>2, <3>1, <3>2, <3>3, <3>4, <3>5, <3>6 DEF FieldHolds, Registered
  <2>. QED
    BY <2>2, <2>3 DEF UserHolds
<1>. QED
  BY <1>3, <1>4 DEF FollowHolds

(* A copy is the same as what it copies; without a copy nothing is said.   *)
LEMMA CopyFollows ==
  ASSUME TypesHold, FollowHolds, reindex' \in {index, NoIndex},
         UNCHANGED <<source, commits, listed, last, astray, early, outbox, saving, queue, index>>
  PROVE  FollowHolds'
<1>1. \A key, kind : On(key, kind)' = On(key, kind)
  BY DEF On, Way, Listed
<1>2. \A l \in Listings : ListingHolds(l)'
  BY <1>1 DEF FollowHolds, ListingHolds
<1>3. ASSUME NEW u \in Users
      PROVE  UserHolds(u)'
  <2>1. UserHolds(u)
    BY DEF FollowHolds
  <2>2. NewUser(u)'
    BY <2>1 DEF UserHolds, NewUser, Registered, Way, Listed
  <2>3. ASSUME NEW f \in Fields
        PROVE  FieldHolds(u, f)' /\ CopyHolds(u, f)'
    <3>1. FieldHolds(u, f)
      BY <2>1 DEF UserHolds
    <3>2. CopyHolds(u, f)'
      BY DEF CopyHolds
    <3>. QED
      BY <1>1, <3>1, <3>2 DEF FieldHolds, Registered, Trusted, Settled, Coming
  <2>. QED
    BY <2>2, <2>3 DEF UserHolds
<1>. QED
  BY <1>2, <1>3 DEF FollowHolds

-----------------------------------------------------------------------------
(* The commits of the use cases.                                           *)

(* What holds of a message goes on to hold: nothing is uncommitted.        *)
LEMMA MessageKept ==
  ASSUME NEW m \in Messages, MessageHolds(m), listed \subseteq listed',
         \A u \in Users : Located(source[u]) => Located(source'[u]),
         \A u \in Users : \A i \in Nat : i <= commits[u] => i <= commits'[u], m.n \in Nat
  PROVE  MessageHolds(m)'
BY DEF MessageHolds, Messages, Keys

LEMMA CommitStep ==
  ASSUME IInv, NEW u \in Users, NEW account \in Documents, NEW k \in Nat, NEW new,
         source' = [source EXCEPT ![u] = account],
         commits' = [commits EXCEPT ![u] = @ + k], Committed + k <= MaxCommits,
         outbox' \in Seq(Messages), queue' \subseteq Messages, saving' \subseteq SavedMessages,
         Committing(new, u, account, k), Located(source[u]) => Located(account), handlers' = handlers,
         account.skills \in SkillSets \/ \A m \in new : m.kind # "skills"
  PROVE  IInv'
<1>1. TypesHold /\ FollowHolds /\ account # NoDoc
  BY DocFacts DEF IInv
<1>2. FollowHolds'
  BY <1>1, CommitFollows
<1>. USE DEF Committing
<1>3. /\ source \in [Users -> Documents \cup {NoDoc}] /\ commits \in [Users -> Nat]
  BY <1>1 DEF TypesHold, SourceHolds
<1>4. /\ source'[u] = account /\ commits'[u] = commits[u] + k
      /\ \A v \in Users \ {u} : source'[v] = source[v] /\ commits'[v] = commits[v]
      /\ source' \in [Users -> Documents \cup {NoDoc}]
  BY <1>3
<1>5. SourceHolds'
  <2>1. commits' \in [Users -> Nat] /\ Committed' <= MaxCommits
    BY <1>1, CommitSum DEF TypesHold
  <2>. QED
    BY <1>1, <1>4, <2>1 DEF TypesHold, SourceHolds
<1>10. \A v \in Users : Located(source[v]) => Located(source'[v])
  BY <1>4
<1>6. ASSUME NEW m \in Way'
      PROVE  MessageHolds(m)'
  <2>1. CASE m \in Way
    <3>1. \A v \in Users : \A i \in Nat : i <= commits[v] => i <= commits'[v]
      <4>. TAKE v \in Users
      <4>. TAKE i \in Nat
      <4>1. commits[v] \in Nat /\ (commits'[v] = commits[v] \/ commits'[v] = commits[v] + k)
        BY <1>3, <1>4
      <4>. QED
        BY <4>1
    <3>2. m \in Messages /\ m.n \in Nat /\ MessageHolds(m)
      BY <1>1, <2>1, MessageFacts, KeyFacts
    <3>. QED
      BY <1>10, <3>1, <3>2, MessageKept
  <2>2. CASE m \in new
    <3>1. /\ m \in Messages /\ m.key = u /\ m.kind # "listing"
          /\ m.n \in (commits[u] + 1)..(commits[u] + k)
          /\ m.kind \in Fields => m.value = account[m.kind]
      BY <2>2 DEF NewEvents
    <3>2. m.n <= commits'[u] /\ m.key \notin Listings
      BY <1>3, <1>4, <3>1, KeyFacts
    <3>3. account.verified \in BOOLEAN /\ account.profile \in Profiles
      BY DEF Documents
    <3>4. m.kind = "verified" => m.value \in BOOLEAN
      BY <3>1, <3>3 DEF Fields
    <3>5. m.kind = "profile" => m.value \in Profiles /\ (m.value.located => Located(source'[u]))
      BY <1>1, <1>4, <3>1, <3>3 DEF Fields, Located
    <3>6. m.kind = "skills" => m.value \in SkillSets
      BY <2>2, <3>1 DEF Fields
    <3>. QED
      BY <3>1, <3>2, <3>4, <3>5, <3>6 DEF MessageHolds
  <2>. QED
    BY <2>1, <2>2
<1>7. IndexHolds'
  BY <1>1, <1>10 DEF TypesHold, IndexHolds
<1>. QED
  BY <1>2, <1>5, <1>6, <1>7 DEF IInv, TypesHold, WayHolds

(* The message of an event is well formed when its value is.               *)
LEMMA EventIsMessage ==
  ASSUME NEW key \in Keys, NEW kind \in Kinds, NEW n \in 1..MaxCommits, NEW value \in Values
  PROVE  /\ Event(key, kind, n, value) \in Messages
         /\ LET m == Event(key, kind, n, value) IN
            m.key = key /\ m.kind = kind /\ m.n = n /\ m.value = value
BY DEF Event, Messages

(* Where there is room for all, there is for each.                         *)
LEMMA CommitRoom ==
  ASSUME TypesHold, NEW u \in Users, NEW k \in Nat, Committed + k <= MaxCommits
  PROVE  commits[u] \in 0..MaxCommits /\ commits[u] + k <= MaxCommits
<1>1. SourceHolds
  BY DEF TypesHold
<1>2. /\ commits[u] \in 0..MaxCommits /\ commits[u] <= SumFunction(commits)
      /\ SumFunction(commits) \in Nat /\ Cardinality(listed) \in Nat
  BY <1>1, CommitBounds
<1>3. SumFunction(commits) + Cardinality(listed) + k <= MaxCommits
  BY DEF Committed
<1>. QED
  BY <1>2, <1>3, KeyFacts

(* A commit to the outbox: of events of different kinds.                   *)
OutboxCommit(u, account, kinds) ==
  /\ kinds \in Seq({"registered", "verified", "profile"})
  /\ \A i, j \in 1..Len(kinds) : kinds[i] = kinds[j] => i = j
  /\ Commit(u, account, kinds) /\ (Located(source[u]) => Located(account))
  /\ \A f \in Fields : (\A i \in 1..Len(kinds) : kinds[i] # f) =>
       account[f] = IF Registered(u) THEN source[u][f] ELSE Blank[f]
  /\ Registered(u) \/ \E i \in 1..Len(kinds) : kinds[i] = "registered"

LEMMA OutboxCommitStep ==
  ASSUME IInv, NEW u \in Users, NEW account \in Documents, NEW kinds,
         OutboxCommit(u, account, kinds)
  PROVE  IInv'
<1>. USE DEF OutboxCommit
<1>. DEFINE k == Len(kinds)
            event(i) == Event(u, kinds[i], commits[u] + i,
                              IF kinds[i] = "registered" THEN 0 ELSE account[kinds[i]])
            events == [i \in 1..k |-> event(i)]
            new == Listed(events)
<1>1. /\ Committed + k <= MaxCommits
      /\ source' = [source EXCEPT ![u] = account]
      /\ commits' = [commits EXCEPT ![u] = @ + k]
      /\ outbox' = outbox \o events
      /\ UNCHANGED <<listed, saving, queue, index, reindex, handlers, last, astray, early>>
  BY DEF Commit, search
<1>2. TypesHold /\ FollowHolds /\ k \in Nat
  BY DEF IInv
<1>3. commits[u] \in 0..MaxCommits /\ commits[u] + k <= MaxCommits
  BY <1>1, <1>2, CommitRoom
<1>4. ASSUME NEW i \in 1..k
      PROVE  /\ event(i) \in Messages /\ event(i).key = u /\ event(i).kind = kinds[i]
             /\ event(i).n = commits[u] + i
             /\ kinds[i] \in Fields => event(i).value = account[kinds[i]]
  <2>1. kinds[i] \in {"registered", "verified", "profile"} /\ commits[u] + i \in 1..MaxCommits
    BY <1>3, KeyFacts
  <2>2. (IF kinds[i] = "registered" THEN 0 ELSE account[kinds[i]]) \in Values
    BY <2>1, KeyFacts DEF Documents, Values
  <2>3. u \in Keys /\ kinds[i] \in Kinds
    BY <2>1, KeyFacts DEF Kinds, Fields
  <2>4. kinds[i] \in Fields => (IF kinds[i] = "registered" THEN 0 ELSE account[kinds[i]]) = account[kinds[i]]
    BY DEF Fields
  <2>. QED
    BY <2>1, <2>2, <2>3, <2>4, EventIsMessage
<1>5. events \in Seq(Messages) /\ Len(events) = k
  BY <1>2, <1>4
<1>6. /\ \A m \in new : \E i \in 1..k : m = event(i)
      /\ \A i \in 1..k : event(i) \in new
  BY <1>5 DEF Listed
<1>7. outbox \in Seq(Messages)
  BY <1>2 DEF TypesHold, WayHolds
<1>. HIDE DEF event, events
<1>8. outbox' \in Seq(Messages) /\ Listed(outbox') = Listed(outbox) \cup new
  BY <1>1, <1>5, <1>7, ListedConcat
<1>. HIDE DEF new
<1>9. Way' = Way \cup new
  <2>1. Way' = queue \cup saving \cup Listed(outbox')
    BY <1>1 DEF Way, Listed
  <2>. QED
    BY <1>8, <2>1 DEF Way
<1>10. NewEvents(new, u, account, k)
  <2>1. ASSUME NEW m \in new
        PROVE  /\ m \in Messages /\ m.key = u /\ m.kind # "listing"
               /\ m.n \in (commits[u] + 1)..(commits[u] + k)
               /\ m.kind \in Fields => m.value = account[m.kind]
    <3>1. PICK i \in 1..k : m = event(i)
      BY <1>6
    <3>2. kinds[i] # "listing" /\ commits[u] + i \in (commits[u] + 1)..(commits[u] + k)
      BY <1>3
    <3>. QED
      BY <1>4, <3>1, <3>2
  <2>2. ASSUME NEW m \in new, NEW o \in new, m.kind = o.kind
        PROVE  m = o
    <3>1. PICK i \in 1..k : m = event(i)
      BY <1>6
    <3>2. PICK j \in 1..k : o = event(j)
      BY <1>6
    <3>3. kinds[i] = kinds[j]
      BY <1>4, <2>2, <3>1, <3>2
    <3>. QED
      BY <3>1, <3>2, <3>3
  <2>. QED
    BY <2>1, <2>2 DEF NewEvents
<1>11. \A i \in 1..k : \E m \in new : m.kind = kinds[i]
  BY <1>4, <1>6
<1>12. \A m \in new : m.kind # "skills"
  <2>. TAKE m \in new
  <2>1. PICK i \in 1..k : m = event(i)
    BY <1>6
  <2>2. kinds[i] # "skills"
    OBVIOUS
  <2>. QED
    BY <1>4, <2>1, <2>2
<1>13. Committing(new, u, account, k)
  <2>1. /\ source \in [Users -> Documents \cup {NoDoc}] /\ commits \in [Users -> Nat]
    BY <1>2 DEF TypesHold, SourceHolds
  <2>2. /\ source'[u] = account /\ commits'[u] = commits[u] + k
        /\ \A v \in Users \ {u} : source'[v] = source[v] /\ commits'[v] = commits[v]
    BY <1>1, <2>1
  <2>3. \A f \in Fields : (\A m \in new : m.kind # f) =>
           account[f] = IF Registered(u) THEN source[u][f] ELSE Blank[f]
    BY <1>11
  <2>4. Registered(u) \/ \E m \in new : m.kind = "registered"
    BY <1>11
  <2>. QED
    BY <1>1, <1>9, <1>10, <2>2, <2>3, <2>4 DEF Committing
<1>14. queue' \subseteq Messages /\ saving' \subseteq SavedMessages
  BY <1>1, <1>2 DEF TypesHold, WayHolds
<1>. QED
  BY <1>1, <1>2, <1>8, <1>12, <1>13, <1>14, CommitStep

LEMMA RegisterStep ==
  ASSUME IInv, NEW u \in Users, Register(u)
  PROVE  IInv'
<1>. DEFINE kinds == <<"registered">>
<1>1. Commit(u, Blank, kinds) /\ ~Registered(u)
  BY DEF Register
<1>2. /\ kinds \in Seq({"registered", "verified", "profile"}) /\ Len(kinds) = 1
      /\ kinds[1] = "registered"
  OBVIOUS
<1>. HIDE DEF kinds
<1>3. Blank \in Documents /\ ~Located(source[u])
  BY <1>1, DocFacts DEF Registered, Located
<1>4. \A i, j \in 1..Len(kinds) : kinds[i] = kinds[j] => i = j
  BY <1>2
<1>5. \A f \in Fields : Blank[f] = IF Registered(u) THEN source[u][f] ELSE Blank[f]
  BY <1>1
<1>6. OutboxCommit(u, Blank, kinds)
  BY <1>1, <1>2, <1>3, <1>4, <1>5 DEF OutboxCommit
<1>. QED
  BY <1>3, <1>6, OutboxCommitStep

LEMMA GoogleStep ==
  ASSUME IInv, NEW u \in Users, RegisterWithGoogle(u)
  PROVE  IInv'
<1>. DEFINE kinds == <<"registered", "verified">>
            account == [Blank EXCEPT !.verified = TRUE]
<1>1. Commit(u, account, kinds) /\ ~Registered(u)
  BY DEF RegisterWithGoogle
<1>2. /\ kinds \in Seq({"registered", "verified", "profile"}) /\ Len(kinds) = 2
      /\ kinds[1] = "registered" /\ kinds[2] = "verified"
  OBVIOUS
<1>3. account \in Documents /\ account.profile = Blank.profile /\ account.skills = Blank.skills
  BY DocFacts DEF Documents
<1>4. ~Located(source[u])
  BY <1>1 DEF Registered, Located
<1>. HIDE DEF kinds, account
<1>5. \A i, j \in 1..Len(kinds) : kinds[i] = kinds[j] => i = j
  BY <1>2
<1>6. ASSUME NEW f \in Fields, \A i \in 1..Len(kinds) : kinds[i] # f
      PROVE  account[f] = IF Registered(u) THEN source[u][f] ELSE Blank[f]
  <2>1. f \in {"profile", "skills"}
    BY <1>2, <1>6 DEF Fields
  <2>. QED
    BY <1>1, <1>3, <2>1
<1>7. OutboxCommit(u, account, kinds)
  BY <1>1, <1>2, <1>4, <1>5, <1>6 DEF OutboxCommit
<1>. QED
  BY <1>3, <1>7, OutboxCommitStep

LEMMA VerifyStep ==
  ASSUME IInv, NEW u \in Users, Verify(u)
  PROVE  IInv'
<1>. DEFINE kinds == <<"verified">>
            account == [source[u] EXCEPT !.verified = TRUE]
<1>1. Commit(u, account, kinds) /\ Registered(u)
  BY DEF Verify
<1>2. /\ kinds \in Seq({"registered", "verified", "profile"}) /\ Len(kinds) = 1
      /\ kinds[1] = "verified"
  OBVIOUS
<1>3. source[u] \in Documents
  BY <1>1 DEF IInv, TypesHold, SourceHolds, Registered
<1>4. /\ account \in Documents /\ account.profile = source[u].profile
      /\ account.skills = source[u].skills
  BY <1>3 DEF Documents
<1>. HIDE DEF kinds, account
<1>5. Located(source[u]) => Located(account)
  BY <1>4, DocFacts DEF Located
<1>6. \A i, j \in 1..Len(kinds) : kinds[i] = kinds[j] => i = j
  BY <1>2
<1>7. ASSUME NEW f \in Fields, \A i \in 1..Len(kinds) : kinds[i] # f
      PROVE  account[f] = IF Registered(u) THEN source[u][f] ELSE Blank[f]
  <2>1. f \in {"profile", "skills"}
    BY <1>2, <1>7 DEF Fields
  <2>. QED
    BY <1>1, <1>4, <2>1
<1>8. OutboxCommit(u, account, kinds)
  BY <1>1, <1>2, <1>5, <1>6, <1>7 DEF OutboxCommit
<1>. QED
  BY <1>4, <1>8, OutboxCommitStep

LEMMA EditStep ==
  ASSUME IInv, NEW u \in Users, NEW edit \in Edits, EditProfile(u, edit)
  PROVE  IInv'
<1>. DEFINE kinds == <<"profile">>
            account == [source[u] EXCEPT !.profile = Merged(@, edit)]
<1>1. Commit(u, account, kinds) /\ Registered(u)
  BY DEF EditProfile
<1>2. /\ kinds \in Seq({"registered", "verified", "profile"}) /\ Len(kinds) = 1
      /\ kinds[1] = "profile"
  OBVIOUS
<1>3. source[u] \in Documents /\ source[u].profile \in Profiles /\ edit \in Profiles
  BY <1>1, EditsAssumption DEF IInv, TypesHold, SourceHolds, Registered, Documents
<1>4. /\ Merged(source[u].profile, edit) \in Profiles
      /\ source[u].profile.located => Merged(source[u].profile, edit).located
  BY <1>3, DocFacts
<1>5. /\ account \in Documents /\ account.profile = Merged(source[u].profile, edit)
      /\ account.skills = source[u].skills /\ account.verified = source[u].verified
  BY <1>3, <1>4 DEF Documents
<1>. HIDE DEF kinds, account
<1>6. Located(source[u]) => Located(account)
  BY <1>4, <1>5, DocFacts DEF Located
<1>7. \A i, j \in 1..Len(kinds) : kinds[i] = kinds[j] => i = j
  BY <1>2
<1>8. ASSUME NEW f \in Fields, \A i \in 1..Len(kinds) : kinds[i] # f
      PROVE  account[f] = IF Registered(u) THEN source[u][f] ELSE Blank[f]
  <2>1. f \in {"verified", "skills"}
    BY <1>2, <1>8 DEF Fields
  <2>. QED
    BY <1>1, <1>5, <2>1
<1>9. OutboxCommit(u, account, kinds)
  BY <1>1, <1>2, <1>6, <1>7, <1>8 DEF OutboxCommit
<1>. QED
  BY <1>5, <1>9, OutboxCommitStep

LEMMA SaveSkillsStep ==
  ASSUME IInv, NEW u \in Users, NEW skills \in SkillSets, SaveSkills(u, skills)
  PROVE  IInv'
<1>. DEFINE account == [source[u] EXCEPT !.skills = skills]
            e == Event(u, "skills", commits[u] + 1, skills)
            new == {e}
<1>1. /\ Registered(u) /\ Committed < MaxCommits
      /\ source' = [source EXCEPT ![u] = account]
      /\ commits' = [commits EXCEPT ![u] = @ + 1]
      /\ saving' = saving \cup {e}
      /\ UNCHANGED <<listed, outbox, queue, index, reindex, handlers, last, astray, early>>
  BY DEF SaveSkills, search
<1>2. TypesHold /\ FollowHolds
  BY DEF IInv
<1>3. source[u] \in Documents /\ commits[u] \in Nat
  BY <1>1, <1>2 DEF TypesHold, SourceHolds, Registered
<1>5. /\ account \in Documents /\ account.profile = source[u].profile
      /\ account.skills = skills /\ account.verified = source[u].verified
  BY <1>3 DEF Documents
<1>6. Committed + 1 <= MaxCommits
  <2>1. SumFunction(commits) \in Nat /\ Cardinality(listed) \in Nat
    BY <1>2, CommitBounds DEF TypesHold
  <2>. QED
    BY <1>1, <2>1, KeyFacts DEF Committed
<1>7. commits[u] + 1 \in 1..MaxCommits
  BY <1>2, <1>3, <1>6, CommitRoom, KeyFacts
<1>8. e \in Messages /\ e.key = u /\ e.kind = "skills" /\ e.n = commits[u] + 1 /\ e.value = skills
  BY <1>7, EventIsMessage, KeyFacts DEF Kinds, Fields, Values
<1>9. Way' = Way \cup new
  BY <1>1 DEF Way, Listed
<1>. HIDE DEF e, account
<1>10. NewEvents(new, u, account, 1)
  BY <1>3, <1>5, <1>8 DEF NewEvents
<1>11. \A f \in Fields : (\A m \in new : m.kind # f) =>
         account[f] = IF Registered(u) THEN source[u][f] ELSE Blank[f]
  BY <1>1, <1>5, <1>8 DEF Fields
<1>12. /\ source'[u] = account /\ commits'[u] = commits[u] + 1
       /\ \A v \in Users \ {u} : source'[v] = source[v] /\ commits'[v] = commits[v]
  BY <1>1, <1>2 DEF TypesHold, SourceHolds
<1>. HIDE DEF new
<1>13. Committing(new, u, account, 1)
  BY <1>1, <1>9, <1>10, <1>11, <1>12 DEF Committing
<1>14. Located(source[u]) => Located(account)
  BY <1>5, DocFacts DEF Located
<1>15. outbox' \in Seq(Messages) /\ queue' \subseteq Messages /\ saving' \subseteq SavedMessages
  BY <1>1, <1>2, <1>8 DEF TypesHold, WayHolds, SavedMessages
<1>. QED
  BY <1>1, <1>2, <1>5, <1>6, <1>13, <1>14, <1>15, CommitStep

(* A listing is published: its event is in the outbox.                     *)
LEMMA ListStep ==
  ASSUME IInv, NEW l \in Listings, List(l)
  PROVE  IInv'
<1>. DEFINE e == Event(l, "listing", 1, 0)
<1>1. /\ l \notin listed /\ Committed < MaxCommits /\ listed' = listed \cup {l}
      /\ outbox' = Append(outbox, e)
      /\ UNCHANGED <<source, commits, saving, queue, index, reindex, handlers, last, astray, early>>
  BY DEF List, search
<1>2. TypesHold /\ FollowHolds /\ SourceHolds
  BY DEF IInv, TypesHold
<1>3. SourceHolds'
  <2>1. IsFiniteSet(listed) /\ Cardinality(listed) \in Nat /\ SumFunction(commits) \in Nat
    BY <1>2, CommittedFacts
  <2>3. Cardinality(listed') = Cardinality(listed) + 1
    BY <1>1, <2>1, FS_AddElement
  <2>4. SumFunction(commits) + Cardinality(listed) < MaxCommits
    BY <1>1 DEF Committed
  <2>5. SumFunction(commits) + Cardinality(listed') <= MaxCommits
    BY <2>1, <2>3, <2>4, KeyFacts
  <2>6. Committed' <= MaxCommits
    BY <1>1, <2>5 DEF Committed
  <2>. QED
    BY <1>1, <1>2, <2>6 DEF SourceHolds, Registered
<1>4. e \in Messages /\ e.key = l /\ e.kind = "listing" /\ e.n = 1 /\ e.value = 0
  <2>1. 1 \in 1..MaxCommits
    <3>1. SumFunction(commits) \in Nat /\ Cardinality(listed) \in Nat
      BY <1>2, CommittedFacts
    <3>. QED
      BY <1>1, <3>1, KeyFacts DEF Committed
  <2>2. l \in Keys
    BY KeyFacts
  <2>3. "listing" \in Kinds /\ 0 \in Values
    BY DEF Kinds, Values
  <2>. QED
    BY <2>1, <2>2, <2>3, EventIsMessage
<1>5. outbox \in Seq(Messages)
  BY <1>2 DEF TypesHold, WayHolds
<1>. HIDE DEF e
<1>6. outbox' \in Seq(Messages) /\ Listed(outbox') = Listed(outbox) \cup {e}
  BY <1>1, <1>4, <1>5, ListedAppend
<1>7. Way' = Way \cup {e}
  <2>1. Way' = queue \cup saving \cup Listed(outbox')
    BY <1>1 DEF Way, Listed
  <2>. QED
    BY <1>6, <2>1 DEF Way
<1>8. ASSUME NEW m \in Way'
      PROVE  MessageHolds(m)'
  <2>1. CASE m \in Way
    <3>1. m \in Messages /\ m.n \in Nat /\ MessageHolds(m)
      BY <1>2, <2>1, MessageFacts, KeyFacts
    <3>. QED
      BY <1>1, <3>1, MessageKept
  <2>2. CASE m = e
    BY <1>1, <1>4, <2>2, KeyFacts DEF MessageHolds
  <2>. QED
    BY <1>7, <2>1, <2>2
<1>9. WayHolds'
  BY <1>1, <1>2, <1>6, <1>8 DEF TypesHold, WayHolds
<1>10. IndexHolds'
  BY <1>1, <1>2 DEF TypesHold, IndexHolds
<1>11. \A key, kind : On(key, kind)' = On(key, kind) \cup {m \in {e} : m.key = key /\ m.kind = kind}
  BY <1>7 DEF On
<1>12. ASSUME NEW u \in Users
       PROVE  UserHolds(u)'
  <2>1. UserHolds(u) /\ u # l
    BY <1>2, KeyFacts DEF FollowHolds
  <2>2. \A kind : On(u, kind)' = On(u, kind)
    BY <1>4, <1>11, <2>1
  <2>. QED
    BY <1>1, <2>1, <2>2, UserSame
<1>13. ASSUME NEW k \in Listings
       PROVE  ListingHolds(k)'
  <2>1. ListingHolds(k)
    BY <1>2 DEF FollowHolds
  <2>2. CASE k = l
    <3>1. e \in On(k, "listing")'
      BY <1>4, <1>7, <2>2 DEF On
    <3>. QED
      BY <1>1, <2>1, <3>1 DEF ListingHolds
  <2>3. CASE k # l
    <3>1. k \in listed' => k \in listed
      BY <1>1, <2>3
    <3>2. On(k, "listing") \subseteq On(k, "listing")'
      BY <1>11
    <3>. QED
      BY <1>1, <2>1, <3>1, <3>2, ListingSame
  <2>. QED
    BY <2>2, <2>3
<1>. QED
  BY <1>3, <1>9, <1>10, <1>12, <1>13 DEF IInv, TypesHold, FollowHolds

-----------------------------------------------------------------------------
(* The worker, the skill service and the messages the consumer drops.      *)

LEMMA MovingStep ==
  ASSUME IInv, Moving, outbox' \in Seq(Messages),
         queue' \subseteq Messages, saving' \subseteq SavedMessages,
         astray' \subseteq Keys \X (Fields \cup {"listing"}),
         early' \subseteq Keys \X (Fields \cup {"listing"}), handlers' \in 0..Len(HandlerOrder)
  PROVE  IInv'
<1>1. TypesHold /\ FollowHolds
  BY DEF IInv
<1>2. FollowHolds'
  BY <1>1, WayFollows
<1>3. UNCHANGED <<source, commits, listed, index, reindex, last>>
  BY DEF Moving
<1>4. SourceHolds' /\ IndexHolds'
  BY <1>1, <1>3 DEF TypesHold, SourceHolds, IndexHolds, Registered, Committed
<1>5. ASSUME NEW m \in Way'
      PROVE  MessageHolds(m)'
  <2>1. PICK o \in Way : o.key = m.key /\ o.kind = m.kind /\ o.n = m.n /\ o.value = m.value
    BY DEF Moving
  <2>2. MessageHolds(o)
    BY <1>1 DEF TypesHold, WayHolds
  <2>. QED
    BY <1>3, <2>1, <2>2 DEF MessageHolds
<1>. QED
  BY <1>2, <1>4, <1>5 DEF IInv, TypesHold, WayHolds

LEMMA RelayStep ==
  ASSUME IInv, Relay
  PROVE  IInv'
<1>1. /\ outbox # <<>> /\ queue' = queue \cup {Head(outbox)} /\ outbox' = Tail(outbox)
      /\ UNCHANGED <<source, listed, commits, saving, index, reindex, handlers, last, astray, early>>
  BY DEF Relay
<1>2. TypesHold /\ outbox \in Seq(Messages)
  BY DEF IInv, TypesHold, WayHolds
<1>3. /\ Head(outbox) \in Messages /\ outbox' \in Seq(Messages)
      /\ Listed(outbox) = {Head(outbox)} \cup Listed(outbox')
  BY <1>1, <1>2, ListedTail
<1>4. Way' = Way
  <2>1. Way' = queue' \cup saving \cup Listed(outbox')
    BY <1>1 DEF Way, Listed
  <2>. QED
    BY <1>1, <1>3, <2>1 DEF Way
<1>5. Moving
  BY <1>1, <1>4 DEF Moving
<1>. QED
  BY <1>1, <1>2, <1>3, <1>5, MovingStep DEF TypesHold, WayHolds, IndexHolds

LEMMA RelayUnmarkedStep ==
  ASSUME IInv, RelayUnmarked
  PROVE  IInv'
<1>. DEFINE h == Head(outbox)
            o == [h EXCEPT !.again = TRUE]
<1>1. /\ outbox # <<>> /\ queue' = queue \cup {o}
      /\ UNCHANGED <<source, listed, commits, outbox, saving, index, reindex, handlers, last, astray, early>>
  BY DEF RelayUnmarked, services
<1>2. TypesHold /\ outbox \in Seq(Messages)
  BY DEF IInv, TypesHold, WayHolds
<1>3. h \in Messages /\ h \in Listed(outbox)
  BY <1>1, <1>2, ListedTail
<1>4. o \in Messages /\ o.key = h.key /\ o.kind = h.kind /\ o.n = h.n /\ o.value = h.value
  BY <1>3 DEF Messages
<1>. HIDE DEF h, o
<1>5. Way' = Way \cup {o} /\ h \in Way
  BY <1>1, <1>3 DEF Way, Listed
<1>6. Moving
  BY <1>1, <1>4, <1>5 DEF Moving
<1>. QED
  BY <1>1, <1>2, <1>4, <1>6, MovingStep DEF TypesHold, WayHolds, IndexHolds

LEMMA PublishStep ==
  ASSUME IInv, NEW m \in saving, PublishSkills(m)
  PROVE  IInv'
<1>1. /\ saving' = saving \ {m} /\ queue' = queue \cup {m}
      /\ UNCHANGED <<source, listed, commits, outbox, index, reindex, handlers, last, astray, early>>
  BY DEF PublishSkills
<1>2. TypesHold
  BY DEF IInv
<1>3. Way' = Way
  BY <1>1 DEF Way, Listed
<1>4. Moving
  BY <1>1, <1>3 DEF Moving
<1>. QED
  BY <1>1, <1>2, <1>4, MovingStep DEF TypesHold, WayHolds, IndexHolds, SavedMessages

(* Profiles saved and not published are lost: they were of skills.         *)
LEMMA CrashStep ==
  ASSUME IInv, SkillServiceCrash
  PROVE  IInv'
<1>1. /\ saving' = {} /\ astray' = astray \cup {<<m.key, "skills">> : m \in saving}
      /\ UNCHANGED <<source, listed, commits, outbox, queue, index, reindex, handlers, last, early>>
  BY DEF SkillServiceCrash, search
<1>2. TypesHold
  BY DEF IInv
<1>3. \A m \in saving : m \in Messages /\ m.kind = "skills" /\ m.key \in Keys
  BY <1>2 DEF TypesHold, WayHolds, SavedMessages, Messages
<1>4. Way' \subseteq Way /\ \A m \in Way : m \in Way' \/ m \in saving
  BY <1>1 DEF Way, Listed
<1>5. ASSUME NEW m \in saving
      PROVE  Excused(m)'
  <2>1. <<m.key, m.kind>> \in astray'
    BY <1>1, <1>3
  <2>. QED
    BY <1>3, <2>1 DEF Excused, Trusted
<1>6. Moving
  BY <1>1, <1>4, <1>5 DEF Moving
<1>7. astray' \subseteq Keys \X (Fields \cup {"listing"})
  BY <1>1, <1>2, <1>3 DEF TypesHold, IndexHolds, Fields
<1>. QED
  BY <1>1, <1>2, <1>6, <1>7, MovingStep DEF TypesHold, WayHolds, IndexHolds

LEMMA DropStep ==
  ASSUME IInv, NEW m \in queue, DropEarly(m)
  PROVE  IInv'
<1>1. /\ m.kind \in Fields /\ m.kind # "verified" /\ queue' = queue \ {m}
      /\ early' = early \cup {<<m.key, m.kind>>}
      /\ UNCHANGED <<source, listed, commits, outbox, saving, index, reindex, handlers, last, astray>>
  BY DEF DropEarly, Done, Requeued, services
<1>2. TypesHold /\ m \in Way
  BY DEF IInv, Way
<1>3. TakenFrom(m) /\ m.key \in Keys
  BY <1>1, <1>2, DoneTakes, MessageFacts
<1>4. Excused(m)'
  BY <1>1 DEF Excused, Trusted, Fields
<1>5. Moving
  BY <1>1, <1>3, <1>4 DEF Moving, TakenFrom
<1>6. early' \subseteq Keys \X (Fields \cup {"listing"})
  BY <1>1, <1>2, <1>3 DEF TypesHold, IndexHolds
<1>. QED
  BY <1>1, <1>2, <1>5, <1>6, MovingStep DEF TypesHold, WayHolds, IndexHolds

(* A message is gone, and what it would have written is astray.            *)
LEMMA LostStep ==
  ASSUME IInv, NEW m \in queue, queue' = queue \ {m}, astray' = astray \cup Lost(m),
         UNCHANGED <<source, listed, commits, outbox, saving, index, reindex, handlers,
                     last, early>>
  PROVE  IInv'
<1>. DEFINE gone == IF m.kind = "registered" THEN Fields ELSE {m.kind}
<1>1. astray' = astray \cup {<<m.key, f>> : f \in gone}
  BY DEF Lost
<1>2. TypesHold /\ m \in Way
  BY DEF IInv, Way
<1>3. TakenFrom(m) /\ m.key \in Keys /\ m.kind \in Kinds
  BY <1>2, DoneTakes, MessageFacts
<1>4. gone \subseteq Fields \cup {"listing"}
  BY <1>3 DEF Kinds
<1>5. /\ m.kind # "registered" => m.kind \in gone
      /\ m.kind = "registered" => gone = Fields
  OBVIOUS
<1>. HIDE DEF gone
<1>6. \A f \in gone : <<m.key, f>> \in astray'
  BY <1>1
<1>7. Excused(m)'
  BY <1>5, <1>6 DEF Excused, Trusted, Fields
<1>8. Moving
  BY <1>1, <1>3, <1>7 DEF Moving, TakenFrom
<1>9. astray' \subseteq Keys \X (Fields \cup {"listing"})
  BY <1>1, <1>2, <1>3, <1>4 DEF TypesHold, IndexHolds
<1>. QED
  BY <1>2, <1>8, <1>9, MovingStep DEF TypesHold, WayHolds, IndexHolds

LEMMA FailStep ==
  ASSUME IInv, NEW m \in queue, Fail(m) \/ AckUnhandled(m)
  PROVE  IInv'
<1>1. /\ queue' = queue \ {m} /\ astray' = astray \cup Lost(m)
      /\ UNCHANGED <<source, listed, commits, outbox, saving, index, reindex, handlers,
                     last, early>>
  BY DEF Fail, AckUnhandled, services
<1>. QED
  BY <1>1, LostStep

-----------------------------------------------------------------------------
(* The messages the consumer handles, and the new index.                   *)

(* What a handled message leaves of the types.                             *)
LEMMA HandledTypes ==
  ASSUME TypesHold, FollowHolds', NEW m \in queue, Done(m),
         index' \in Index, \A u \in Users : Located(index'[u]) => Located(source[u]),
         last' \in [Users -> [Fields -> 0..MaxCommits]],
         astray' \subseteq Keys \X (Fields \cup {"listing"}), UNCHANGED early
  PROVE  IInv'
<1>1. /\ queue' = queue \ {m}
      /\ UNCHANGED <<source, listed, commits, outbox, saving, reindex, handlers>>
  BY DEF Done, services
<1>2. Way' \subseteq Way
  BY <1>1 DEF Way, Listed
<1>3. WayHolds'
  BY <1>1, <1>2 DEF TypesHold, WayHolds, MessageHolds
<1>4. SourceHolds' /\ IndexHolds'
  BY <1>1 DEF TypesHold, SourceHolds, IndexHolds, Committed, Index
<1>. QED
  BY <1>3, <1>4 DEF IInv, TypesHold

LEMMA TouchedType ==
  ASSUME NEW k \in Keys, NEW fields, fields \subseteq Fields \cup {"listing"}
  PROVE  Touched(k, fields) \subseteq Keys \X (Fields \cup {"listing"})
BY DEF Touched

LEMMA BlankWritten ==
  ASSUME index \in Index, \A u \in Users : Located(index[u]) => Located(source[u]),
         NEW k \in Keys, index' = [index EXCEPT ![k] = Blank]
  PROVE  index' \in Index /\ \A u \in Users : Located(index'[u]) => Located(source[u])
<1>1. index' \in Index
  BY DocFacts DEF Index
<1>2. ASSUME NEW u \in Users, Located(index'[u])
      PROVE  Located(source[u])
  <2>1. index'[u] = Blank \/ index'[u] = index[u]
    BY KeyFacts DEF Index
  <2>. QED
    BY <1>2, <2>1, DocFacts
<1>. QED
  BY <1>1, <1>2

LEMMA HandleStep ==
  ASSUME IInv, NEW m \in queue, HandleRegistered(m) \/ HandleListing(m) \/ HandleUpdate(m)
  PROVE  IInv'
<1>1. TypesHold /\ FollowHolds /\ m \in Way
  BY DEF IInv, Way
<1>2. /\ m \in Messages /\ MessageHolds(m) /\ m.key \in Keys /\ m.n \in 1..MaxCommits
      /\ m.kind # "listing" => m.key \in Users
  BY <1>1, MessageFacts
<1>3. /\ index \in Index /\ last \in [Users -> [Fields -> 0..MaxCommits]]
      /\ astray \subseteq Keys \X (Fields \cup {"listing"})
      /\ \A u \in Users : Located(index[u]) => Located(source[u])
  BY <1>1 DEF TypesHold, IndexHolds
<1>4. CASE HandleRegistered(m)
  <2>1. FollowHolds' /\ Done(m) /\ UNCHANGED <<last, early>>
    BY <1>1, <1>4, RegisteredFollows DEF HandleRegistered
  <2>2. index' = [index EXCEPT ![m.key] = Blank]
    BY <1>4 DEF HandleRegistered
  <2>5. index' \in Index /\ \A u \in Users : Located(index'[u]) => Located(source[u])
    BY <1>2, <1>3, <2>2, BlankWritten
  <2>3. Touched(m.key, Fields) \subseteq Keys \X (Fields \cup {"listing"})
    BY <1>2, TouchedType
  <2>4. astray' \subseteq Keys \X (Fields \cup {"listing"})
    BY <1>2, <1>3, <1>4, <2>3 DEF HandleRegistered
  <2>. QED
    BY <1>1, <1>3, <2>1, <2>4, <2>5, HandledTypes
<1>5. CASE HandleListing(m)
  <2>1. FollowHolds' /\ Done(m) /\ UNCHANGED <<last, early>>
    BY <1>1, <1>5, ListingFollows DEF HandleListing
  <2>2. index' = [index EXCEPT ![m.key] = Blank]
    BY <1>5 DEF HandleListing
  <2>5. index' \in Index /\ \A u \in Users : Located(index'[u]) => Located(source[u])
    BY <1>2, <1>3, <2>2, BlankWritten
  <2>3. Touched(m.key, {"listing"}) \subseteq Keys \X (Fields \cup {"listing"})
    BY <1>2, TouchedType
  <2>4. astray' \subseteq Keys \X (Fields \cup {"listing"})
    BY <1>3, <1>5, <2>3 DEF HandleListing
  <2>. QED
    BY <1>1, <1>3, <2>1, <2>4, <2>5, HandledTypes
<1>6. CASE HandleUpdate(m)
  <2>1. /\ FollowHolds' /\ Done(m) /\ UNCHANGED early /\ m.kind \in Fields
        /\ index[m.key] # NoDoc
        /\ index' = [index EXCEPT ![m.key] = Updated(index[m.key], m)]
        /\ last' = [last EXCEPT ![m.key][m.kind] = IF m.n > @ THEN m.n ELSE @]
    BY <1>1, <1>6, UpdateFollows DEF HandleUpdate
  <2>2. index' \in Index
    <3>1. index[m.key] \in Documents
      BY <1>2, <1>3, <2>1 DEF Index
    <3>2. Updated(index[m.key], m) \in Documents
      BY <1>2, <2>1, <3>1, UpdatedFacts
    <3>. QED
      BY <1>3, <2>1, <3>2 DEF Index
  <2>6. ASSUME NEW u \in Users, Located(index'[u])
        PROVE  Located(source[u])
    <3>1. CASE u # m.key
      BY <1>3, <2>1, <2>6, <3>1, KeyFacts DEF Index
    <3>2. CASE u = m.key
      <4>1. index[u] \in Documents /\ index'[u] = Updated(index[u], m)
        BY <1>2, <1>3, <2>1, <3>2 DEF Index
      <4>2. CASE m.kind # "profile"
        <5>1. Updated(index[u], m).profile = index[u].profile
          BY <1>2, <2>1, <4>1, <4>2, UpdatedFacts DEF Fields
        <5>. QED
          BY <1>3, <2>1, <2>6, <3>2, <4>1, <5>1 DEF Located
      <4>3. CASE m.kind = "profile"
        <5>1. Updated(index[u], m).profile = Merged(index[u].profile, m.value)
          BY <1>2, <2>1, <4>1, <4>3, UpdatedFacts DEF Fields
        <5>2. index[u].profile \in Profiles /\ m.value \in Profiles
          BY <1>2, <4>1, <4>3 DEF Documents, MessageHolds
        <5>3. Merged(index[u].profile, m.value).located =
                (index[u].profile.located \/ m.value.located)
          BY <5>2, DocFacts
        <5>4. index[u].profile.located \/ m.value.located
          BY <2>6, <4>1, <5>1, <5>3 DEF Located
        <5>5. m.value.located => Located(source[u])
          BY <1>2, <3>2, <4>3 DEF MessageHolds
        <5>. QED
          BY <1>3, <2>1, <3>2, <5>4, <5>5 DEF Located
      <4>. QED
        BY <4>2, <4>3
    <3>. QED
      BY <3>1, <3>2
  <2>3. last' \in [Users -> [Fields -> 0..MaxCommits]]
    <3>1. m.n \in 0..MaxCommits /\ m.key \in Users
      BY <1>2, <2>1, KeyFacts DEF Fields
    <3>. QED
      BY <1>3, <2>1, <3>1
  <2>4. Touched(m.key, {m.kind}) \subseteq Keys \X (Fields \cup {"listing"})
    BY <1>2, <2>1, TouchedType
  <2>5. astray' \subseteq Keys \X (Fields \cup {"listing"})
    <3>1. astray' \subseteq astray \cup Touched(m.key, {m.kind}) \cup {<<m.key, m.kind>>}
      BY <1>6 DEF HandleUpdate
    <3>2. <<m.key, m.kind>> \in Keys \X (Fields \cup {"listing"})
      BY <1>2, <2>1
    <3>. QED
      BY <1>3, <2>4, <3>1, <3>2
  <2>. QED
    BY <1>1, <2>1, <2>2, <2>3, <2>5, <2>6, HandledTypes
<1>. QED
  BY <1>4, <1>5, <1>6

LEMMA StartStep ==
  ASSUME IInv, ReindexCopy \/ ReindexSwitch \/ ReindexDies \/ Restart \/ SetHandler
  PROVE  IInv'
<1>1. /\ UNCHANGED <<source, listed, commits, outbox, saving, queue, last, astray, early>>
      /\ reindex' \in {index, reindex, NoIndex} /\ index' \in {index, reindex}
      /\ reindex = NoIndex => index' = index
  BY DEF ReindexCopy, ReindexSwitch, ReindexDies, Restart, SetHandler, services
<1>2. TypesHold /\ FollowHolds /\ handlers \in 0..Len(HandlerOrder)
  BY DEF IInv, TypesHold, IndexHolds
<1>3. handlers' \in 0..Len(HandlerOrder)
  <2>1. Len(HandlerOrder) = 5
    BY DEF HandlerOrder
  <2>2. handlers' \in {handlers, 0} \/ (handlers < 5 /\ handlers' = handlers + 1)
    BY <2>1 DEF ReindexCopy, ReindexSwitch, ReindexDies, Restart, SetHandler
  <2>. QED
    BY <1>2, <2>1, <2>2
<1>4. SourceHolds' /\ IndexHolds'
  BY <1>1, <1>2, <1>3 DEF TypesHold, SourceHolds, IndexHolds, Committed, Index
<1>5. Way' = Way
  BY <1>1 DEF Way, Listed
<1>6. WayHolds'
  BY <1>1, <1>2, <1>5 DEF TypesHold, WayHolds, MessageHolds
<1>7. FollowHolds'
  <2>1. CASE ReindexSwitch
    BY <1>2, <2>1, SwitchFollows
  <2>2. CASE ReindexCopy \/ ReindexDies
    <3>1. index' = index /\ reindex' \in {index, NoIndex}
      BY <2>2 DEF ReindexCopy, ReindexDies
    <3>. QED
      BY <1>1, <1>2, <3>1, CopyFollows
  <2>3. CASE Restart \/ SetHandler
    <3>1. index' = index /\ reindex' = reindex
      BY <2>3 DEF Restart, SetHandler
    <3>2. Moving
      BY <1>1, <1>5, <3>1 DEF Moving
    <3>. QED
      BY <1>2, <3>2, WayFollows
  <2>. QED
    BY <2>1, <2>2, <2>3
<1>. QED
  BY <1>4, <1>6, <1>7 DEF IInv, TypesHold

-----------------------------------------------------------------------------
(* The invariant.                                                          *)

LEMMA InvInit ==
  ASSUME Init
  PROVE  IInv
<1>1. Way = {}
  BY DEF Init, Way, Listed
<1>2. SumFunction(commits) = 0
  <2>. DEFINE f == commits
  <2>1. IsFiniteSet(DOMAIN f) /\ \A u \in DOMAIN f : f[u] = 0
    BY SearchIndexAssumption DEF Init
  <2>. HIDE DEF f
  <2>2. SumFunction(f) = 0
    BY <2>1, SumFunctionZero
  <2>. QED
    BY <2>2 DEF f
<1>3. SourceHolds
  <2>1. Cardinality(listed) = 0
    BY FS_EmptySet DEF Init
  <2>. QED
    BY <1>2, <2>1, KeyFacts DEF Init, SourceHolds, Registered, Committed
<1>4. WayHolds
  BY <1>1 DEF Init, WayHolds
<1>5. IndexHolds
  <2>1. \A u \in Users : ~Located(index[u])
    BY KeyFacts DEF Init, Located
  <2>2. Len(HandlerOrder) \in 0..Len(HandlerOrder)
    BY DEF HandlerOrder
  <2>. QED
    BY <2>1, <2>2, KeyFacts DEF Init, IndexHolds, Index
<1>6. FollowHolds
  <2>1. ASSUME NEW u \in Users
        PROVE  UserHolds(u)
    BY <1>1, <1>5, KeyFacts DEF Init, UserHolds, NewUser, FieldHolds, CopyHolds, Registered, Index, IndexHolds
  <2>2. ASSUME NEW l \in Listings
        PROVE  ListingHolds(l)
    BY DEF Init, ListingHolds
  <2>. QED
    BY <2>1, <2>2 DEF FollowHolds
<1>. QED
  BY <1>3, <1>4, <1>5, <1>6 DEF IInv, TypesHold

LEMMA InvStep ==
  ASSUME IInv, [Next]_vars
  PROVE  IInv'
<1>1. CASE UserStep
  <2>. PICK u \in Users : \/ Register(u) \/ RegisterWithGoogle(u) \/ Verify(u)
                          \/ \E edit \in Edits : EditProfile(u, edit)
                          \/ \E skills \in SkillSets : SaveSkills(u, skills)
    BY <1>1 DEF UserStep
  <2>. QED
    BY RegisterStep, GoogleStep, VerifyStep, EditStep, SaveSkillsStep
<1>2. CASE \E l \in Listings : List(l)
  BY <1>2, ListStep
<1>3. CASE Relay \/ RelayUnmarked
  BY <1>3, RelayStep, RelayUnmarkedStep
<1>4. CASE (\E m \in saving : PublishSkills(m)) \/ SkillServiceCrash
  BY <1>4, PublishStep, CrashStep
<1>5. CASE \E m \in queue : Handle(m) \/ Fail(m) \/ AckUnhandled(m)
  BY <1>5, HandleStep, DropStep, FailStep DEF Handle
<1>6. CASE ReindexCopy \/ ReindexSwitch \/ ReindexDies \/ Restart \/ SetHandler
  BY <1>6, StartStep
<1>7. CASE UNCHANGED vars
  <2>1. UNCHANGED <<source, listed, commits, outbox, saving, queue, index, reindex,
                    handlers, last, astray, early>>
    BY <1>7 DEF vars, services, search
  <2>2. TypesHold /\ FollowHolds /\ Way' = Way
    BY <2>1 DEF IInv, Way, Listed
  <2>3. Moving
    BY <2>1, <2>2 DEF Moving
  <2>. QED
    BY <2>1, <2>2, <2>3, MovingStep DEF TypesHold, WayHolds, IndexHolds
<1>. QED
  BY <1>1, <1>2, <1>3, <1>4, <1>5, <1>6, <1>7 DEF Next

LEMMA InvAlways == Spec => []IInv
<1>1. Init => IInv
  BY InvInit
<1>2. IInv /\ [Next]_vars => IInv'
  BY InvStep
<1>. QED
  BY <1>1, <1>2, PTL DEF Spec

LEMMA InvTypes == IInv => TypeOK
<1>. SUFFICES ASSUME IInv PROVE TypeOK
  OBVIOUS
<1>1. TypesHold
  BY DEF IInv
<1>2. commits \in [Users -> 0..MaxCommits]
  <2>1. \A u \in Users : commits[u] \in 0..MaxCommits
    BY <1>1, CommitBounds DEF TypesHold
  <2>. QED
    BY <1>1, <2>1 DEF TypesHold, SourceHolds
<1>3. ASSUME NEW m \in Way
      PROVE  /\ WellFormed(m)
             /\ m.key \in Users => m.n <= commits[m.key]
             /\ m.key \in Listings => m.key \in listed
  BY <1>1, <1>3, MessageFacts DEF WellFormed, MessageHolds
<1>4. /\ \A i \in 1..Len(outbox) : outbox[i] \in Way
      /\ \A m \in queue \cup saving : m \in Way
  BY DEF Way, Listed
<1>. QED
  BY <1>1, <1>2, <1>3, <1>4 DEF TypeOK, TypesHold, SourceHolds, IndexHolds, Index

LEMMA InvFollows == IInv => IndexFollows
<1>. SUFFICES ASSUME IInv PROVE IndexFollows
  OBVIOUS
<1>1. FollowHolds
  BY DEF IInv
<1>2. \A k, kinds : Pending(k, kinds) <=> \E m \in Way : m.key = k /\ m.kind \in kinds
  BY DEF Pending, Way, Listed
<1>3. ASSUME NEW u \in Users, NEW f \in Fields, UpToDate(u, f)
      PROVE  index[u] # NoDoc /\ index[u][f] = source[u][f]
  <2>1. FieldHolds(u, f)
    BY <1>1 DEF FollowHolds, UserHolds
  <2>2. On(u, "registered") = {} /\ On(u, f) = {}
    BY <1>2, <1>3 DEF On, UpToDate
  <2>3. index[u] # NoDoc
    BY <1>3, <2>1, <2>2 DEF FieldHolds, UpToDate
  <2>4. Settled(u, f)
    BY <1>3, <2>1, <2>2 DEF FieldHolds, UpToDate, Trusted, Coming
  <2>. QED
    BY <2>3, <2>4 DEF Settled
<1>4. ASSUME NEW l \in listed, ~Pending(l, {"listing"}), <<l, "listing">> \notin astray
      PROVE  index[l] # NoDoc
  <2>1. l \in Listings
    BY DEF IInv, TypesHold, SourceHolds
  <2>2. On(l, "listing") = {}
    BY <1>2, <1>4 DEF On
  <2>. QED
    BY <1>1, <1>4, <2>1, <2>2 DEF FollowHolds, ListingHolds
<1>. QED
  BY <1>3, <1>4 DEF IndexFollows

(* A page that does not show all candidates is full.                       *)
LEMMA PageFull ==
  ASSUME NEW all, IsFiniteSet(all), NEW size \in Nat, NEW hits \in SUBSET all,
         Cardinality(hits) = IF Cardinality(all) < size THEN Cardinality(all) ELSE size
  PROVE  hits = all \/ Cardinality(hits) = size
<1>1. CASE Cardinality(hits) = Cardinality(all)
  BY <1>1, FS_Subset
<1>2. CASE Cardinality(hits) # Cardinality(all)
  BY <1>2
<1>. QED
  BY <1>1, <1>2

LEMMA InvStrangers == IInv => RecommendsStrangers
<1>. SUFFICES ASSUME IInv, NEW u \in Users, NEW v \in Users, NEW known \in SUBSET Users,
                     NEW size \in 1..PageSize, Searchable(u), Searchable(v), u # v,
                     NEW hits \in Hits(u, known, size)
              PROVE  IF v \in known
                     THEN HasClauses(source[u]) => v \notin hits \ {u}
                     ELSE Fits(source[u], source[v]) =>
                            v \in hits \ {u} \/ Cardinality(hits \ {u}) >= Places(u, size)
  BY DEF RecommendsStrangers, Recommended
<1>. DEFINE all == Candidates(u, known)
            me == index[u]
<1>1. ASSUME NEW w \in {u, v}
      PROVE  /\ index[w] # NoDoc /\ index[w].profile = source[w].profile
             /\ index[w].skills = source[w].skills /\ source[w] \in Documents
  <2>1. IndexFollows /\ Searchable(w) /\ w \in Users
    BY InvFollows
  <2>2. index[w] # NoDoc /\ index[w]["profile"] = source[w]["profile"]
    BY <2>1 DEF IndexFollows, Searchable, Fields
  <2>3. index[w]["skills"] = source[w]["skills"]
    BY <2>1 DEF IndexFollows, Searchable, Fields
  <2>4. source[w] \in Documents
    BY <2>1 DEF Searchable, UpToDate, Registered, IInv, TypesHold, SourceHolds
  <2>. QED
    BY <2>2, <2>3, <2>4
<1>2. /\ HasClauses(me) <=> HasClauses(source[u])
      /\ Fits(index[v], me) <=> Fits(source[u], source[v])
      /\ me # NoDoc /\ index[v] # NoDoc
  BY <1>1 DEF HasClauses, Fits
<1>3. HasClauses(me) =>
        all = {w \in {x \in Users : index[x] # NoDoc} : Fits(index[w], me)} \ known
  BY <1>2 DEF Candidates
<1>4. hits \subseteq all /\ all \subseteq Users
  BY DEF Hits, Candidates
<1>5. CASE v \in known
  BY <1>2, <1>3, <1>4, <1>5
<1>6. ASSUME v \notin known, Fits(source[u], source[v]), v \notin hits
      PROVE  Cardinality(hits \ {u}) >= Places(u, size)
  <2>1. HasClauses(me)
    BY <1>1, <1>2, <1>6 DEF HasClauses, Fits, NoSkills
  <2>2. v \in all
    BY <1>2, <1>3, <1>6, <2>1
  <2>3. IsFiniteSet(all) /\ size \in Nat
    BY <1>4, SearchIndexAssumption, FS_Subset
  <2>4. Cardinality(hits) = IF Cardinality(all) < size THEN Cardinality(all) ELSE size
    BY DEF Hits
  <2>5. Cardinality(hits) = size
    BY <1>4, <1>6, <2>2, <2>3, <2>4, PageFull
  <2>6. IsFiniteSet(hits)
    BY <1>4, <2>3, FS_Subset
  <2>7. CASE u \notin hits
    <3>1. hits \ {u} = hits
      BY <2>7
    <3>. QED
      BY <2>3, <2>5, <3>1 DEF Places
  <2>8. CASE u \in hits
    <3>1. Fits(me, me)
      BY <1>3, <1>4, <2>1, <2>8
    <3>2. me.skills.offered \cap me.skills.wanted = {}
      BY <1>1, SearchIndexAssumption DEF Documents, NoSkills
    <3>3. source[u].profile.languages # {}
      BY <1>1, <3>1, <3>2 DEF Fits
    <3>4. Cardinality(hits \ {u}) = size - 1
      BY <2>5, <2>6, <2>8, FS_RemoveElement
    <3>. QED
      BY <2>3, <3>3, <3>4 DEF Places
  <2>. QED
    BY <2>7, <2>8
<1>. QED
  BY <1>5, <1>6

-----------------------------------------------------------------------------
(* The theorems.                                                           *)

(* Every variable has its type, and a message that is on its way is for a  *)
(* change that was committed (the outbox of the user service, the skill    *)
(* profiles that are published after they are saved, es_proxy_queue).      *)
THEOREM SearchTyped == Spec => []TypeOK
  BY InvAlways, InvTypes, PTL

(* When nothing of a field or of the registration is on its way, the       *)
(* search says of it what the service committed last, and finds every      *)
(* published listing, whatever order the messages were handled in, however *)
(* often the worker repeated one and whenever the index was made anew;     *)
(* unless a fault or an event that came early says otherwise               *)
(* (eventConsumer, UserService, ExpertService, WorkshopService, setupES).  *)
THEOREM IndexAlwaysFollows == Spec => []IndexFollows
  BY InvAlways, InvFollows, PTL

(* Two searchable users who share a language, or of whom one offers what   *)
(* the other wants, are recommended to each other, whatever the scores and *)
(* however many hits are asked for, unless they know each other or all     *)
(* places are taken; and nobody known to a user with skills or languages   *)
(* is (UserRepository.find, UserService.getRecommendedUsers).              *)
THEOREM StrangersRecommended == Spec => []RecommendsStrangers
  BY InvAlways, InvStrangers, PTL
=============================================================================
