----------------------------- MODULE SearchIndex -----------------------------
(***************************************************************************)
(* The search index (es-proxy) and the services it follows.                *)
(*                                                                         *)
(* The user service commits an outbox event with every change of an        *)
(* account; its worker publishes them in order and may publish one again.  *)
(* The skill service saves a skill profile and publishes the event itself, *)
(* after the write.  The consumer takes messages without a prefetch limit, *)
(* so the writes they lead to reach Elasticsearch in any order.  Only      *)
(* user.registered makes a user's document, and makes it anew; the others  *)
(* update fields of the document that is there.  A message whose update    *)
(* fails is dropped, since no error of Elasticsearch counts as transient;  *)
(* user.verified goes back to the queue whatever the error.  A process     *)
(* consumes before its handlers are set, one after the other, and          *)
(* acknowledges what has none yet.                                         *)
(***************************************************************************)
EXTENDS Naturals, Sequences, FiniteSets, Functions

CONSTANTS
  Users,
  Listings,        \* experts and published workshops
  SkillSets,       \* skill profiles: skills offered and wanted
  Languages,       \* languages a user may speak
  Edits,           \* profiles a user may ask for
  PageSize,        \* how many hits a search asks for at most
  MaxCommits,      \* bound on the events of all users and listings
  MaxFaults        \* bound on events published again, failures of
                   \* Elasticsearch, starts and changes of the mapping together

ASSUME SearchIndexAssumption ==
  /\ IsFiniteSet(Users) /\ IsFiniteSet(Listings)
  /\ Users \cap Listings = {}
  /\ \A s \in SkillSets : s.offered \cap s.wanted = {}
  /\ {PageSize, MaxCommits, MaxFaults} \subseteq Nat

(* A profile is what the search reads of it: the languages, and whether    *)
(* there is a location.  Names and usernames, which no query reads, are    *)
(* left out.                                                               *)
Profiles == [languages : SUBSET Languages, located : BOOLEAN]
NoProfile == [languages |-> {}, located |-> FALSE]

ASSUME EditsAssumption == Edits \subseteq Profiles

VARIABLES
  source,     \* what the services have committed, by user
  listed,     \* listings that were published
  commits,    \* stamps of the events of each user so far
  outbox,     \* committed events the worker has not finished with
  saving,     \* skill profiles saved and not published yet
  queue,      \* messages of es_proxy_queue that are not acknowledged
  index,      \* the documents behind the alias
  reindex,    \* a new index being filled, or NoIndex
  handlers,   \* how many of its handlers the process started last has set
  last,       \* history: stamp of the latest event applied to each field
  astray,     \* history: fields whose events a fault lost or put out of order
  early,      \* history: fields whose events came before the document
  faults      \* repeated publications, failures and reindexings so far

services == <<source, listed, commits, outbox, saving>>
search == <<queue, index, reindex, handlers>>
vars == <<services, search, last, astray, early, faults>>

Fields == {"verified", "profile", "skills"}
Keys == Users \cup Listings
NoSkills == [offered |-> {}, wanted |-> {}]
NoDoc == [none |-> TRUE]
NoIndex == <<>>

(* The document user.registered makes has nothing but the id; a new        *)
(* account has nothing to show either.                                     *)
Blank == [verified |-> FALSE, profile |-> NoProfile, skills |-> NoSkills]

(* startConsumer sets them in this order; listing stands for the expert's  *)
(* handler and for the workshop's, which comes last.                       *)
HandlerOrder == <<"registered", "verified", "profile", "skills", "listing">>

Init ==
  /\ source = [u \in Users |-> NoDoc]
  /\ listed = {}
  /\ commits = [u \in Users |-> 0]
  /\ outbox = <<>> /\ saving = {} /\ queue = {}
  /\ index = [k \in Keys |-> NoDoc]
  /\ reindex = NoIndex
  /\ handlers = Len(HandlerOrder)
  /\ last = [u \in Users |-> [f \in Fields |-> 0]]
  /\ astray = {} /\ early = {}
  /\ faults = 0

Registered(u) == source[u] # NoDoc

(* An event carries the value a field has from now on; registered carries  *)
(* none.  again tells a second copy of a message from the first.           *)
Event(k, kind, n, value) ==
  [key |-> k, kind |-> kind, n |-> n, value |-> value, again |-> FALSE]

-----------------------------------------------------------------------------
(* The user service: each use case commits its change and its events.      *)

Committed == SumFunction(commits) + Cardinality(listed)

Commit(u, account, kinds) ==
  /\ Committed + Len(kinds) <= MaxCommits
  /\ source' = [source EXCEPT ![u] = account]
  /\ commits' = [commits EXCEPT ![u] = @ + Len(kinds)]
  /\ outbox' = outbox \o [i \in 1..Len(kinds) |->
                  Event(u, kinds[i], commits[u] + i,
                        IF kinds[i] = "registered" THEN 0 ELSE account[kinds[i]])]
  /\ UNCHANGED <<listed, saving, search, last, astray, early, faults>>

Register(u) == ~Registered(u) /\ Commit(u, Blank, <<"registered">>)

(* The third event of this use case carries a name alone.                  *)
RegisterWithGoogle(u) ==
  /\ ~Registered(u)
  /\ Commit(u, [Blank EXCEPT !.verified = TRUE], <<"registered", "verified">>)

Verify(u) ==
  /\ Registered(u) /\ ~source[u].verified
  /\ Commit(u, [source[u] EXCEPT !.verified = TRUE], <<"verified">>)

(* A location is left alone by what names none: an edit or an update cannot*)
(* take one away.                                                          *)
Merged(old, new) == [new EXCEPT !.located = old.located \/ new.located]

(* The event carries the profile as it was saved, not the edit.            *)
EditProfile(u, edit) ==
  /\ Registered(u)
  /\ Commit(u, [source[u] EXCEPT !.profile = Merged(@, edit)], <<"profile">>)

(* Mutant: the event is written outside the transaction of the change.    *)
ListOutside(l) ==
  /\ l \notin listed /\ Committed < MaxCommits
  /\ outbox' = Append(outbox, Event(l, "listing", 1, 0))
  /\ UNCHANGED <<source, listed, commits, saving, search, last, astray, early, faults>>
(* An expert is approved, a workshop is published.                         *)
List(l) ==
  /\ l \notin listed /\ Committed < MaxCommits
  /\ listed' = listed \cup {l}
  /\ outbox' = Append(outbox, Event(l, "listing", 1, 0))
  /\ UNCHANGED <<source, commits, saving, search, last, astray, early, faults>>

(* The outbox worker publishes the oldest event and marks it; it stops in  *)
(* between, and publishes it again.                                        *)
Relay ==
  /\ outbox # <<>>
  /\ queue' = queue \cup {Head(outbox)}
  /\ outbox' = Tail(outbox)
  /\ UNCHANGED <<source, listed, commits, saving, index, reindex, handlers,
                 last, astray, early, faults>>

RelayUnmarked ==
  /\ outbox # <<>> /\ faults < MaxFaults
  /\ queue' = queue \cup {[Head(outbox) EXCEPT !.again = TRUE]}
  /\ faults' = faults + 1
  /\ UNCHANGED <<services, index, reindex, handlers, last, astray, early>>

-----------------------------------------------------------------------------
(* The skill service: the profile is saved, and then published.            *)

SaveSkills(u, skills) ==
  /\ Registered(u) /\ Committed < MaxCommits
  /\ source' = [source EXCEPT ![u].skills = skills]
  /\ commits' = [commits EXCEPT ![u] = @ + 1]
  /\ saving' = saving \cup {Event(u, "skills", commits[u] + 1, skills)}
  /\ UNCHANGED <<listed, outbox, search, last, astray, early, faults>>

PublishSkills(m) ==
  /\ m \in saving
  /\ saving' = saving \ {m}
  /\ queue' = queue \cup {m}
  /\ UNCHANGED <<source, listed, commits, outbox, index, reindex, handlers,
                 last, astray, early, faults>>

SkillServiceCrash ==
  /\ saving # {}
  /\ saving' = {}
  /\ astray' = astray \cup {<<m.key, "skills">> : m \in saving}
  /\ UNCHANGED <<source, listed, commits, outbox, search, last, early, faults>>

-----------------------------------------------------------------------------
(* The consumer.  A message that comes while a new index is being filled   *)
(* is written to the old one alone.  While a process replaces another both *)
(* take messages of the queue, so that a message may meet the handlers of  *)
(* the old process although the new one has not set its own.               *)

Touched(k, fields) == IF reindex = NoIndex THEN {} ELSE {<<k, f>> : f \in fields}

Done(m) == queue' = queue \ {m} /\ UNCHANGED <<services, reindex, handlers, faults>>

HandleRegistered(m) ==
  /\ m \in queue /\ m.kind = "registered"
  /\ index' = [index EXCEPT ![m.key] = Blank]
  /\ astray' = astray \cup Touched(m.key, Fields)
                      \cup {<<m.key, f>> : f \in {g \in Fields : last[m.key][g] > 0}}
  /\ Done(m) /\ UNCHANGED <<last, early>>

(* The document is looked for, and then updated or made; whichever way two *)
(* messages for it meet, the whole document is written.                    *)
HandleListing(m) ==
  /\ m \in queue /\ m.kind = "listing"
  /\ index' = [index EXCEPT ![m.key] = Blank]
  /\ astray' = astray \cup Touched(m.key, {"listing"})
  /\ Done(m) /\ UNCHANGED <<last, early>>

(* Mutant: an update replaces the document.                                *)
UpdatedWhole(doc, m) == [Blank EXCEPT ![m.kind] = m.value]
(* A field that an update does not name is left alone.                     *)
Updated(doc, m) ==
  IF m.kind = "profile" THEN [doc EXCEPT !.profile = Merged(@, m.value)]
  ELSE [doc EXCEPT ![m.kind] = m.value]

HandleUpdate(m) ==
  /\ m \in queue /\ m.kind \in Fields
  /\ index[m.key] # NoDoc
  /\ index' = [index EXCEPT ![m.key] = Updated(@, m)]
  /\ last' = [last EXCEPT ![m.key][m.kind] = IF m.n > @ THEN m.n ELSE @]
  /\ astray' = astray \cup Touched(m.key, {m.kind})
                      \cup IF m.n < last[m.key][m.kind] THEN {<<m.key, m.kind>>} ELSE {}
  /\ Done(m) /\ UNCHANGED early

(* Mutant: a failed verification is dropped like any other message.        *)
NeverRequeued(m) == FALSE
(* The handler of user.verified has failures tried again: the message      *)
(* stays where it is.                                                      *)
Requeued(m) == m.kind = "verified"

DropEarly(m) ==
  /\ m \in queue /\ m.kind \in Fields
  /\ index[m.key] = NoDoc /\ ~Requeued(m)
  /\ early' = early \cup {<<m.key, m.kind>>}
  /\ Done(m) /\ UNCHANGED <<index, last, astray>>

(* What a message that is gone would have written.                         *)
Lost(m) == {<<m.key, f>> : f \in IF m.kind = "registered" THEN Fields ELSE {m.kind}}

(* Elasticsearch fails.  After any error of user.verified the message is   *)
(* back in the queue.                                                      *)
Fail(m) ==
  /\ m \in queue /\ ~Requeued(m)
  /\ faults < MaxFaults
  /\ queue' = queue \ {m}
  /\ faults' = faults + 1
  /\ astray' = astray \cup Lost(m)
  /\ UNCHANGED <<services, index, reindex, handlers, last, early>>

Handle(m) == HandleRegistered(m) \/ HandleListing(m) \/ HandleUpdate(m) \/ DropEarly(m)

-----------------------------------------------------------------------------
(* The start of a process.  setupES: when the mapping has changed, it fills*)
(* a new index from the one behind the alias and moves the alias; the      *)
(* process it replaces goes on handling messages.  startConsumer: it       *)
(* consumes as soon as the consumer is made, and sets its handlers then.   *)

ReindexCopy ==
  /\ reindex = NoIndex /\ faults < MaxFaults
  /\ reindex' = index
  /\ faults' = faults + 1
  /\ UNCHANGED <<services, queue, index, handlers, last, astray, early>>

ReindexSwitch ==
  /\ reindex # NoIndex
  /\ index' = reindex
  /\ reindex' = NoIndex
  /\ handlers' = 0
  /\ UNCHANGED <<services, queue, last, astray, early, faults>>

(* The process dies before it moves the alias: the new index is forgotten. *)
ReindexDies ==
  /\ reindex # NoIndex
  /\ reindex' = NoIndex
  /\ UNCHANGED <<services, queue, index, handlers, last, astray, early, faults>>

(* A start that finds the mapping as it should be.                         *)
Restart ==
  /\ faults < MaxFaults
  /\ handlers' = 0
  /\ faults' = faults + 1
  /\ UNCHANGED <<services, queue, index, reindex, last, astray, early>>

SetHandler ==
  /\ handlers < Len(HandlerOrder)
  /\ handlers' = handlers + 1
  /\ UNCHANGED <<services, queue, index, reindex, last, astray, early, faults>>

(* "ack if no handler": the bindings are durable, the handlers are not.    *)
AckUnhandled(m) ==
  /\ m \in queue /\ \A i \in 1..handlers : HandlerOrder[i] # m.kind
  /\ queue' = queue \ {m}
  /\ astray' = astray \cup Lost(m)
  /\ UNCHANGED <<services, index, reindex, handlers, last, early, faults>>

UserStep ==
  \E u \in Users : \/ Register(u) \/ RegisterWithGoogle(u) \/ Verify(u)
                   \/ \E edit \in Edits : EditProfile(u, edit)
                   \/ \E skills \in SkillSets : SaveSkills(u, skills)

Next ==
  \/ UserStep
  \/ \E l \in Listings : List(l)
  \/ Relay \/ RelayUnmarked
  \/ \E m \in saving : PublishSkills(m)
  \/ SkillServiceCrash
  \/ \E m \in queue : Handle(m) \/ Fail(m) \/ AckUnhandled(m)
  \/ ReindexCopy \/ ReindexSwitch \/ ReindexDies \/ Restart \/ SetHandler

(* The worker and the broker go on delivering, and a start comes to an end.*)
Fairness ==
  /\ WF_vars(Relay) /\ WF_vars(\E m \in queue : Handle(m) \/ AckUnhandled(m))
  /\ WF_vars(ReindexSwitch \/ ReindexDies) /\ WF_vars(SetHandler)

Spec == Init /\ [][Next]_vars /\ Fairness
-----------------------------------------------------------------------------
(* Recommended users: who shares a language with the user, offers what the *)
(* user wants or wants what the user offers, less those the user service   *)
(* says the user knows.  With neither skills nor languages to go by, the   *)
(* query by location takes everybody, known or not, and without a location *)
(* there is no query.                                                      *)

(* Mutant: only one of the two clauses for skills is built.                *)
FitsOneWay(doc, me) ==
  \/ doc.profile.languages \cap me.profile.languages # {}
  \/ doc.skills.offered \cap me.skills.wanted # {}
Fits(doc, me) ==
  \/ doc.profile.languages \cap me.profile.languages # {}
  \/ doc.skills.offered \cap me.skills.wanted # {}
  \/ doc.skills.wanted \cap me.skills.offered # {}

HasClauses(me) == me.profile.languages # {} \/ me.skills # NoSkills

Candidates(u, known) ==
  LET me == index[u]
      found == {v \in Users : index[v] # NoDoc} IN
  IF me = NoDoc THEN {}
  ELSE IF HasClauses(me) THEN {v \in found : Fits(index[v], me)} \ known
  ELSE IF me.profile.located THEN found ELSE {}

(* The hits with the best scores, size of them.  The scores are left open: *)
(* any of the candidates may be among the best.                            *)
Hits(u, known, size) ==
  LET all == Candidates(u, known) IN
  {hits \in SUBSET all :
     Cardinality(hits) = IF Cardinality(all) < size THEN Cardinality(all) ELSE size}

(* The user is among the hits like anybody else, and taken out afterwards. *)
Recommended(u, known, size) == {hits \ {u} : hits \in Hits(u, known, size)}

-----------------------------------------------------------------------------
(* Properties.                                                             *)

Documents == [verified : BOOLEAN, profile : Profiles,
              skills : SkillSets \cup {NoSkills}]
Kinds == Fields \cup {"registered", "listing"}
WellFormed(m) ==
  /\ m.key \in Keys /\ m.kind \in Kinds /\ m.n \in 1..MaxCommits
  /\ m.kind = "listing" <=> m.key \in Listings

(* Every variable has its type, and messages are for what was committed.   *)
TypeOK ==
  /\ source \in [Users -> Documents \cup {NoDoc}]
  /\ listed \subseteq Listings
  /\ commits \in [Users -> 0..MaxCommits]
  /\ \A i \in 1..Len(outbox) : WellFormed(outbox[i])
  /\ \A m \in queue \cup saving :
       /\ WellFormed(m)
       /\ m.key \in Users => m.n <= commits[m.key]
       /\ m.key \in Listings => m.key \in listed
  /\ index \in [Keys -> Documents \cup {NoDoc}]
  /\ reindex = NoIndex \/ reindex \in [Keys -> Documents \cup {NoDoc}]
  /\ handlers \in 0..Len(HandlerOrder)
  /\ last \in [Users -> [Fields -> 0..MaxCommits]]
  /\ astray \cup early \subseteq Keys \X (Fields \cup {"listing"})

Pending(k, kinds) ==
  \E m \in queue \cup saving \cup {outbox[i] : i \in 1..Len(outbox)} :
    m.key = k /\ m.kind \in kinds

(* No event of the field or of the registration is on its way, and none    *)
(* was lost or put out of order by a fault, nor dropped because it came    *)
(* before the document.                                                    *)
UpToDate(u, f) ==
  /\ Registered(u) /\ ~Pending(u, {"registered", f})
  /\ <<u, f>> \notin astray
  /\ f = "verified" \/ <<u, f>> \notin early

(* The index says what the services say: a field in the user's document    *)
(* that is up to date is what the service committed last; a listing is     *)
(* found however its messages meet (eventConsumer, UserService,            *)
(* ExpertService and WorkshopService of es-proxy).                         *)
IndexFollows ==
  /\ \A u \in Users, f \in Fields :
       UpToDate(u, f) => index[u] # NoDoc /\ index[u][f] = source[u][f]
  /\ \A l \in listed :
       (~Pending(l, {"listing"}) /\ <<l, "listing">> \notin astray) => index[l] # NoDoc

Searchable(u) == UpToDate(u, "profile") /\ UpToDate(u, "skills")

(* How many hits are left for others: with a language the user matches the *)
(* query too, and takes a place.                                           *)
Places(u, size) == IF source[u].profile.languages # {} THEN size - 1 ELSE size

(* What the user and skill services committed decides who is recommended:  *)
(* of two searchable users who share a language, or of whom one offers     *)
(* what the other wants, each is recommended to the other, whatever the    *)
(* scores and however many hits are asked for, unless they know each other *)
(* or there is no place left for them; and nobody known to a user with     *)
(* skills or languages is (UserRepository.find,                            *)
(* UserService.getRecommendedUsers).                                       *)
RecommendsStrangers ==
  \A u, v \in Users :
    Searchable(u) /\ Searchable(v) /\ u # v =>
      \A known \in SUBSET Users, size \in 1..PageSize :
        \A list \in Recommended(u, known, size) :
          IF v \in known
            THEN HasClauses(source[u]) => v \notin list
            ELSE Fits(source[u], source[v]) => v \in list \/ Cardinality(list) >= Places(u, size)

(* A verified email is known to the search in the end: the handler has     *)
(* user.verified tried again until user.registered has made the document.  *)
(* What stops it is a registration or verification that got lost, in a     *)
(* failure or for want of a handler, or was written to an index that was   *)
(* being replaced, or a registration handled once more.  A verification is *)
(* never taken back, so that []<> says here what ~> would.                 *)
VerifiedReachesSearch ==
  \A u \in Users :
    []<>(Registered(u) /\ source[u].verified =>
           <<u, "verified">> \in astray \/ (index[u] # NoDoc /\ index[u].verified))
=============================================================================
