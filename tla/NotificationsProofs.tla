-------------------------- MODULE NotificationsProofs --------------------------
(***************************************************************************)
(* Proofs about Connections and Notifications, for any users, any number   *)
(* of answers, handlers and calls at once and any bounds.                  *)
(*                                                                         *)
(* Of the connections: the types, that a connection is accepted only when  *)
(* both users asked for it, and that the outbox tells what became of every *)
(* row.  Of the notifications: the types, that the counter documents of a  *)
(* user add up to the unread notifications, that every event that was      *)
(* delivered and finished has told its user, that a cached counter that    *)
(* nothing disturbed shows the count of the database, and what the pages   *)
(* of the list leave out.                                                  *)
(***************************************************************************)
EXTENDS Notifications, Sums


-----------------------------------------------------------------------------
(* Connections: the inductive invariant.                                   *)

(* A row has an id that was drawn, and that no other row has; one of its   *)
(* two users requested it, and only they asked for it.                     *)
RowHolds(p) ==
  /\ rows[p].id < nextId
  /\ rows[p].requester \in p
  /\ rows[p].requester \in asked[rows[p].id]
  /\ asked[rows[p].id] \subseteq p
  /\ \A q \in Pairs : rows[q].id = rows[p].id => q = p

RowsHold == \A p \in Pairs : rows[p] # NoRow => RowHolds(p)

(* The row an answer is about has not moved to other users: the id names   *)
(* the row of that pair, requested by that user, or none.                  *)
AnswerHolds(c) ==
  LET a == answer[c] IN
  /\ a.id < nextId
  /\ a.requester # a.other /\ a.pair = {a.requester, a.other}
  /\ \A p \in Pairs : rows[p].id = a.id => p = a.pair /\ rows[p].requester = a.requester

AnswersHold == \A c \in Answers : answer[c] # Idle => AnswerHolds(c)

(* What was announced of which row.                                        *)
Says == {<<outbox[n].kind, outbox[n].id>> : n \in DOMAIN outbox}

(* Only ids that were drawn are spoken of, and each has an event.          *)
EventsHold ==
  /\ nextId <= Len(outbox) + 1
  /\ \A s \in Says : s[2] < nextId

(* OutboxTellsFate, in terms of Says.                                      *)
FateTold ==
  /\ \A p \in Pairs : rows[p] # NoRow =>
       /\ <<"rejected", rows[p].id>> \notin Says
       /\ rows[p].status = "ACCEPTED" <=> <<"accepted", rows[p].id>> \in Says
  /\ \A id \in 1..(nextId - 1) :
       (\A p \in Pairs : rows[p].id # id) => <<"rejected", id>> \in Says

IInv ==
  /\ ConnectionsTypeOK
  /\ RowsHold /\ AnswersHold /\ EventsHold
  /\ AcceptedByBoth /\ FateTold

-----------------------------------------------------------------------------
(* Lemmas about the parts of a state.                                      *)

LEMMA PairFacts ==
  ASSUME NEW u \in Users, NEW v \in Users, u # v
  PROVE  {u, v} \in Pairs
<1>1. <<u, v>> \in {q \in Users \X Users : q[1] # q[2]}
  OBVIOUS
<1>. QED BY <1>1 DEF Pairs

LEMMA FateIsTold == FateTold <=> OutboxTellsFate
<1>1. \A k, i : Said(k, i) <=> <<k, i>> \in Says
  BY DEF Said, Says
<1>. QED BY <1>1 DEF FateTold, OutboxTellsFate, Live

(* A pair of which two different users are members is those two.           *)
LEMMA PairOfTwo ==
  ASSUME NEW p \in Pairs, NEW u \in p, NEW v \in p, u # v
  PROVE  p = {u, v} /\ u \in Users /\ v \in Users
BY DEF Pairs

LEMMA RowFacts ==
  ASSUME ConnectionsTypeOK, NEW p \in Pairs
  PROVE  /\ rows[p] # NoRow => rows[p] \in Row
         /\ rows[p] = NoRow <=> rows[p].id = 0
BY ConnectionsAssumption DEF ConnectionsTypeOK, Row, NoRow, Ids

(* What Publish adds is the only thing said that was not said before.      *)
LEMMA PublishSays ==
  ASSUME ConnectionsTypeOK,
         NEW kind \in {"requested", "accepted", "rejected"},
         NEW id \in Ids, NEW u \in Users, NEW v \in Users,
         Publish(kind, id, u, v)
  PROVE  /\ outbox' \in Seq(Event)
         /\ Len(outbox') = Len(outbox) + 1 /\ Len(outbox') <= MaxEvents
         /\ Says' = Says \cup {<<kind, id>>}
<1>. DEFINE e == [kind |-> kind, id |-> id, requester |-> u, other |-> v]
<1>1. /\ outbox \in Seq(Event) /\ Len(outbox) < MaxEvents
      /\ outbox' = Append(outbox, e) /\ e \in Event
  BY DEF ConnectionsTypeOK, Publish, Event
<1>2. /\ outbox' \in Seq(Event) /\ Len(outbox') = Len(outbox) + 1
      /\ DOMAIN outbox' = 1..(Len(outbox) + 1) /\ DOMAIN outbox = 1..Len(outbox)
      /\ Len(outbox) \in Nat
      /\ \A n \in DOMAIN outbox : outbox'[n] = outbox[n]
      /\ outbox'[Len(outbox) + 1] = e
  BY <1>1
<1>3. Len(outbox') <= MaxEvents
  BY <1>1, <1>2, ConnectionsAssumption
<1>4. DOMAIN outbox' = DOMAIN outbox \cup {Len(outbox) + 1}
  BY <1>2
<1>5. <<e.kind, e.id>> = <<kind, id>>
  OBVIOUS
<1>. QED BY <1>2, <1>3, <1>4, <1>5 DEF Says

(* Nothing is said but the three kinds of events, of ids.                  *)
LEMMA SaysType ==
  ASSUME ConnectionsTypeOK
  PROVE  Says \subseteq {"requested", "accepted", "rejected"} \X Ids
<1>1. \A n \in DOMAIN outbox : outbox[n] \in Event
  BY DEF ConnectionsTypeOK
<1>. QED BY <1>1 DEF Says, Event

-----------------------------------------------------------------------------
(* The steps.                                                              *)

LEMMA InitHolds == ConnectionsInit => IInv
<1>. SUFFICES ASSUME ConnectionsInit PROVE IInv
  OBVIOUS
<1>1. ConnectionsTypeOK
  BY ConnectionsAssumption
     DEF ConnectionsInit, ConnectionsTypeOK, Ids
<1>2. RowsHold /\ AnswersHold /\ AcceptedByBoth
  BY DEF ConnectionsInit, RowsHold, AnswersHold, AcceptedByBoth
<1>3. EventsHold /\ FateTold
  BY DEF ConnectionsInit, EventsHold, FateTold, Says
<1>. QED BY <1>1, <1>2, <1>3 DEF IInv

LEMMA RequestHolds ==
  ASSUME IInv, NEW u \in Users, NEW v \in Users, Request(u, v)
  PROVE  IInv'
<1>. DEFINE p == {u, v}
            r == [id |-> nextId, requester |-> u, status |-> "PENDING"]
<1>1. /\ p \in Pairs /\ u # v /\ rows[p] = NoRow
      /\ rows' = [rows EXCEPT ![p] = r]
      /\ asked' = [asked EXCEPT ![nextId] = {u}]
      /\ nextId' = nextId + 1 /\ answer' = answer
      /\ Publish("requested", nextId, u, v)
  BY PairFacts DEF Request, PendingRow
<1>2. ConnectionsTypeOK /\ RowsHold /\ AnswersHold /\ EventsHold
      /\ AcceptedByBoth /\ FateTold
  BY DEF IInv
<1>3. nextId \in Ids
  BY <1>1, <1>2, ConnectionsAssumption
     DEF Publish, EventsHold, ConnectionsTypeOK, Ids
<1>4. /\ outbox' \in Seq(Event)
      /\ Len(outbox') = Len(outbox) + 1 /\ Len(outbox') <= MaxEvents
      /\ Says' = Says \cup {<<"requested", nextId>>}
  BY <1>1, <1>2, <1>3, PublishSays
<1>5. ConnectionsTypeOK'
  <2>1. r \in Row
    BY <1>3 DEF Row
  <2>. QED BY <1>1, <1>2, <1>3, <1>4, <2>1, ConnectionsAssumption
            DEF ConnectionsTypeOK, Ids
<1>6. /\ rows'[p] = r /\ r.id = nextId /\ r.requester = u /\ r.status = "PENDING"
      /\ \A q \in Pairs \ {p} : rows'[q] = rows[q]
      /\ asked'[nextId] = {u} /\ \A i \in Ids \ {nextId} : asked'[i] = asked[i]
  BY <1>1, <1>2, <1>3 DEF ConnectionsTypeOK
<1>7. /\ nextId \in Nat
      /\ \A q \in Pairs : rows[q] # NoRow => rows[q].id \in Ids /\ rows[q].id < nextId
      /\ \A q \in Pairs : rows[q].id # nextId
  <2>1. nextId \in Nat /\ nextId # 0
    BY <1>3, ConnectionsAssumption DEF Ids
  <2>. QED BY <1>2, <2>1, RowFacts DEF RowsHold, RowHolds, Row, Ids
<1>8. RowsHold'
  <2>. SUFFICES ASSUME NEW q \in Pairs, rows'[q] # NoRow PROVE RowHolds(q)'
    BY DEF RowsHold
  <2>1. CASE q = p
    <3>1. rows'[q].id < nextId'
      BY <1>1, <1>6, <1>7, <2>1
    <3>2. /\ rows'[q].requester \in q
          /\ rows'[q].requester \in asked'[rows'[q].id]
          /\ asked'[rows'[q].id] \subseteq q
      BY <1>6, <2>1
    <3>3. \A o \in Pairs : rows'[o].id = rows'[q].id => o = q
      BY <1>6, <1>7, <2>1
    <3>. QED BY <3>1, <3>2, <3>3 DEF RowHolds
  <2>2. CASE q # p
    <3>1. rows'[q] = rows[q] /\ RowHolds(q) /\ rows[q].id \in Ids \ {nextId}
      BY <1>2, <1>6, <1>7, <2>2 DEF RowsHold
    <3>2. rows'[q].id < nextId'
      BY <1>1, <1>7, <3>1, ConnectionsAssumption DEF RowHolds, Ids
    <3>3. \A o \in Pairs : rows'[o].id = rows'[q].id => o = q
      BY <1>6, <3>1 DEF RowHolds
    <3>. QED BY <1>6, <3>1, <3>2, <3>3 DEF RowHolds
  <2>. QED BY <2>1, <2>2
<1>9. AnswersHold'
  <2>. SUFFICES ASSUME NEW c \in Answers, answer'[c] # Idle PROVE AnswerHolds(c)'
    BY DEF AnswersHold
  <2>1. AnswerHolds(c) /\ answer'[c] = answer[c] /\ answer[c] \in AnswerCall
    BY <1>1, <1>2 DEF AnswersHold, ConnectionsTypeOK
  <2>2. answer[c].id < nextId /\ answer[c].id < nextId' /\ answer[c].id # nextId
    BY <1>1, <1>7, <2>1, ConnectionsAssumption DEF AnswerHolds, AnswerCall, Ids
  <2>. QED BY <1>6, <2>1, <2>2 DEF AnswerHolds
<1>10. EventsHold'
  <2>1. nextId' <= Len(outbox') + 1
    BY <1>1, <1>2, <1>4, <1>7 DEF EventsHold, ConnectionsTypeOK
  <2>2. \A s \in Says' : s[2] < nextId'
    BY <1>1, <1>2, <1>4, <1>7, SaysType, ConnectionsAssumption DEF EventsHold, Ids
  <2>. QED BY <2>1, <2>2 DEF EventsHold
<1>11. AcceptedByBoth'
  <2>. SUFFICES ASSUME NEW q \in Pairs, rows'[q] # NoRow, rows'[q].status = "ACCEPTED"
                PROVE  asked'[rows'[q].id] = q
    BY DEF AcceptedByBoth
  <2>1. q # p /\ rows'[q] = rows[q]
    BY <1>6
  <2>. QED BY <1>2, <1>6, <1>7, <2>1 DEF AcceptedByBoth
<1>12. FateTold'
  <2>1. \A s \in Says : s[2] # nextId
    BY <1>2, <1>7, SaysType, ConnectionsAssumption DEF EventsHold, Ids
  <2>2. ASSUME NEW q \in Pairs, rows'[q] # NoRow
        PROVE  /\ <<"rejected", rows'[q].id>> \notin Says'
               /\ rows'[q].status = "ACCEPTED" <=> <<"accepted", rows'[q].id>> \in Says'
    <3>1. CASE q = p
      BY <1>4, <1>6, <2>1, <3>1
    <3>2. CASE q # p
      BY <1>2, <1>4, <1>6, <2>2, <3>2 DEF FateTold
    <3>. QED BY <3>1, <3>2
  <2>3. ASSUME NEW i \in 1..(nextId' - 1), \A q \in Pairs : rows'[q].id # i
        PROVE  <<"rejected", i>> \in Says'
    <3>1. i # nextId /\ i \in 1..(nextId - 1)
      BY <1>1, <1>6, <1>7, <2>3
    <3>2. rows[p].id # i
      BY <1>1, <3>1, <1>7 DEF NoRow
    <3>3. \A q \in Pairs : rows[q].id # i
      BY <1>6, <2>3, <3>2
    <3>. QED BY <1>2, <1>4, <3>1, <3>3 DEF FateTold
  <2>. QED BY <2>2, <2>3 DEF FateTold
<1>. QED BY <1>5, <1>8, <1>9, <1>10, <1>11, <1>12 DEF IInv

(* Calls that end, and rows that keep id and requester or go, leave what   *)
(* the calls under way rely on.                                            *)
AnswersMayEnd ==
  /\ answer' \in [Answers -> AnswerCall \cup {Idle}]
  /\ \A c \in Answers : answer'[c] = answer[c] \/ answer'[c] = Idle

LEMMA AnswersKept ==
  ASSUME IInv, AnswersMayEnd, nextId' = nextId,
         \A p \in Pairs : \/ rows'[p] = NoRow
                          \/ /\ rows'[p].id = rows[p].id
                             /\ rows'[p].requester = rows[p].requester
  PROVE  AnswersHold'
<1>. SUFFICES ASSUME NEW c \in Answers, answer'[c] # Idle PROVE AnswerHolds(c)'
  BY DEF AnswersHold
<1>1. AnswerHolds(c) /\ answer'[c] = answer[c] /\ answer[c] \in AnswerCall
  BY DEF IInv, AnswersHold, AnswersMayEnd
<1>2. answer[c].id # 0
  BY <1>1, ConnectionsAssumption DEF AnswerCall, Ids
<1>3. \A p \in Pairs : rows'[p].id = answer[c].id =>
        p = answer[c].pair /\ rows'[p].requester = answer[c].requester
  BY <1>1, <1>2 DEF AnswerHolds, NoRow
<1>. QED BY <1>1, <1>3 DEF AnswerHolds

(* An event of a row that is there: the bound and the ids.                 *)
LEMMA EventsKept ==
  ASSUME IInv, nextId' = nextId,
         NEW kind \in {"requested", "accepted", "rejected"}, NEW id \in Ids,
         NEW u \in Users, NEW v \in Users,
         id < nextId, Publish(kind, id, u, v)
  PROVE  EventsHold'
<1>1. ConnectionsTypeOK /\ EventsHold
  BY DEF IInv
<1>2. Len(outbox') = Len(outbox) + 1 /\ Says' = Says \cup {<<kind, id>>}
  BY <1>1, PublishSays
<1>3. Len(outbox) \in Nat /\ nextId \in Nat
  BY <1>1, ConnectionsAssumption DEF ConnectionsTypeOK
<1>4. nextId' <= Len(outbox') + 1
  BY <1>1, <1>2, <1>3 DEF EventsHold
<1>5. \A s \in Says' : s[2] < nextId'
  BY <1>1, <1>2 DEF EventsHold
<1>. QED BY <1>4, <1>5 DEF EventsHold

(* The user who did not request a row joins it.                            *)
LEMMA JoiningHolds ==
  ASSUME IInv, AnswersMayEnd, nextId' = nextId,
         NEW p \in Pairs, rows[p] # NoRow, NEW w \in p, w # rows[p].requester,
         rows' = [rows EXCEPT ![p].status = "ACCEPTED"],
         asked' = [asked EXCEPT ![rows[p].id] = @ \cup {w}],
         Publish("accepted", rows[p].id, rows[p].requester, w)
  PROVE  IInv'
<1>. DEFINE id == rows[p].id
<1>1. ConnectionsTypeOK /\ RowsHold /\ EventsHold /\ AcceptedByBoth /\ FateTold
  BY DEF IInv
<1>2. /\ rows[p] \in Row /\ id \in Ids /\ rows[p].requester \in Users /\ w \in Users
      /\ RowHolds(p)
  BY <1>1, RowFacts DEF Row, RowsHold, Pairs
<1>3. /\ outbox' \in Seq(Event) /\ Len(outbox') <= MaxEvents
      /\ Says' = Says \cup {<<"accepted", id>>}
  BY <1>1, <1>2, PublishSays
<1>4. /\ rows'[p] = [rows[p] EXCEPT !.status = "ACCEPTED"]
      /\ rows'[p] \in Row /\ rows'[p].id = id /\ rows'[p].status = "ACCEPTED"
      /\ rows'[p].requester = rows[p].requester
      /\ \A q \in Pairs \ {p} : rows'[q] = rows[q]
      /\ asked'[id] = asked[id] \cup {w}
      /\ \A i \in Ids \ {id} : asked'[i] = asked[i]
  BY <1>1, <1>2 DEF ConnectionsTypeOK, Row
<1>5. /\ \A q \in Pairs : rows'[q].id = rows[q].id /\ rows'[q].requester = rows[q].requester
      /\ \A q \in Pairs : rows'[q] # NoRow <=> rows[q] # NoRow
      /\ \A q \in Pairs \ {p} : rows[q].id # id
  <2>1. \A q \in Pairs \ {p} : rows[q].id # id
    BY <1>2 DEF RowHolds
  <2>2. rows'[p] # NoRow
    BY <1>4, ConnectionsAssumption DEF Row, Ids, NoRow
  <2>. QED BY <1>4, <2>1, <2>2
<1>6. ConnectionsTypeOK'
  <2>1. rows' \in [Pairs -> Row \cup {NoRow}]
    BY <1>1, <1>4 DEF ConnectionsTypeOK
  <2>2. asked' \in [Ids -> SUBSET Users]
    BY <1>1, <1>2 DEF ConnectionsTypeOK
  <2>. QED BY <1>1, <1>3, <2>1, <2>2 DEF ConnectionsTypeOK, AnswersMayEnd
<1>7. asked'[id] = p
  <2>1. p = {rows[p].requester, w}
    BY <1>2, PairOfTwo DEF RowHolds
  <2>. QED BY <1>2, <1>4, <2>1 DEF RowHolds
<1>8. RowsHold'
  <2>. SUFFICES ASSUME NEW q \in Pairs, rows'[q] # NoRow PROVE RowHolds(q)'
    BY DEF RowsHold
  <2>1. RowHolds(q) /\ rows[q] \in Row /\ rows[q].id \in Ids
    BY <1>1, <1>5, RowFacts DEF RowsHold, Row
  <2>2. \A o \in Pairs : rows'[o].id = rows'[q].id => o = q
    BY <1>5, <2>1 DEF RowHolds
  <2>3. /\ rows'[q].requester \in asked'[rows'[q].id]
        /\ asked'[rows'[q].id] \subseteq q
    BY <1>4, <1>5, <1>7, <2>1 DEF RowHolds
  <2>. QED BY <1>5, <2>1, <2>2, <2>3 DEF RowHolds
<1>9. AnswersHold'
  BY <1>5, AnswersKept
<1>10. EventsHold'
  BY <1>2, EventsKept DEF RowHolds
<1>11. AcceptedByBoth'
  <2>. SUFFICES ASSUME NEW q \in Pairs, rows'[q] # NoRow, rows'[q].status = "ACCEPTED"
                PROVE  asked'[rows'[q].id] = q
    BY DEF AcceptedByBoth
  <2>1. CASE q = p
    BY <1>4, <1>7, <2>1
  <2>2. CASE q # p
    <3>1. rows[q] # NoRow /\ rows'[q] = rows[q] /\ rows[q].id \in Ids \ {id}
      BY <1>1, <1>4, <1>5, <2>2, RowFacts DEF Row
    <3>. QED BY <1>1, <1>4, <3>1 DEF AcceptedByBoth
  <2>. QED BY <2>1, <2>2
<1>12. FateTold'
  <2>1. ASSUME NEW q \in Pairs, rows'[q] # NoRow
        PROVE  /\ <<"rejected", rows'[q].id>> \notin Says'
               /\ rows'[q].status = "ACCEPTED" <=> <<"accepted", rows'[q].id>> \in Says'
    <3>1. CASE q = p
      <4>1. <<"rejected", id>> \notin Says /\ <<"rejected", id>> # <<"accepted", id>>
        BY <1>1 DEF FateTold
      <4>2. rows'[q].id = id /\ rows'[q].status = "ACCEPTED"
        BY <1>4, <3>1
      <4>. QED BY <1>3, <4>1, <4>2
    <3>2. CASE q # p
      BY <1>1, <1>3, <1>4, <1>5, <2>1, <3>2 DEF FateTold
    <3>. QED BY <3>1, <3>2
  <2>2. ASSUME NEW i \in 1..(nextId' - 1), \A q \in Pairs : rows'[q].id # i
        PROVE  <<"rejected", i>> \in Says'
    BY <1>1, <1>3, <1>5, <2>2 DEF FateTold
  <2>. QED BY <2>1, <2>2 DEF FateTold
<1>. QED BY <1>6, <1>8, <1>9, <1>10, <1>11, <1>12 DEF IInv

LEMMA RequestBackHolds ==
  ASSUME IInv, NEW u \in Users, NEW v \in Users, RequestBack(u, v)
  PROVE  IInv'
<1>1. AnswersMayEnd
  BY DEF RequestBack, AnswersMayEnd, IInv, ConnectionsTypeOK
<1>. QED BY <1>1, PairFacts, JoiningHolds DEF RequestBack, IsRequestOfOther

(* Steps of calls.                                                         *)

LEMMA EndMayEnd ==
  ASSUME IInv, NEW c \in Answers, answer' = [answer EXCEPT ![c] = Idle]
  PROVE  AnswersMayEnd
BY DEF IInv, ConnectionsTypeOK, AnswersMayEnd

LEMMA ReadRowHolds ==
  ASSUME IInv, NEW c \in Answers, NEW u \in Users, NEW op \in {"accept", "reject"},
         ReadRow(c, u, op)
  PROVE  IInv'
<1>1. ConnectionsTypeOK /\ RowsHold /\ AnswersHold
  BY DEF IInv
<1>2. PICK p \in Pairs :
        /\ rows[p] # NoRow /\ u \in p /\ rows[p].requester # u
        /\ answer' = [answer EXCEPT ![c] = [op |-> op, pair |-> p, id |-> rows[p].id,
                         requester |-> rows[p].requester, other |-> u]]
        /\ UNCHANGED <<rows, outbox, asked, nextId>>
  BY DEF ReadRow
<1>3. rows[p] \in Row /\ RowHolds(p)
  BY <1>1, <1>2, RowFacts DEF RowsHold
<1>4. ConnectionsTypeOK'
  <2>1. [op |-> op, pair |-> p, id |-> rows[p].id, requester |-> rows[p].requester,
         other |-> u] \in AnswerCall
    BY <1>3 DEF AnswerCall, Row
  <2>. QED BY <1>1, <1>2, <2>1 DEF ConnectionsTypeOK
<1>5. AnswersHold'
  <2>. SUFFICES ASSUME NEW d \in Answers, answer'[d] # Idle PROVE AnswerHolds(d)'
    BY DEF AnswersHold
  <2>1. CASE d # c
    BY <1>1, <1>2, <2>1 DEF ConnectionsTypeOK, AnswersHold, AnswerHolds
  <2>2. CASE d = c
    <3>1. /\ answer'[d].id = rows[p].id /\ answer'[d].pair = p
          /\ answer'[d].requester = rows[p].requester /\ answer'[d].other = u
      BY <1>1, <1>2, <2>2 DEF ConnectionsTypeOK
    <3>2. p = {rows[p].requester, u}
      BY <1>2, <1>3, PairOfTwo DEF RowHolds
    <3>. QED BY <1>2, <1>3, <3>1, <3>2 DEF RowHolds, AnswerHolds
  <2>. QED BY <2>1, <2>2
<1>. QED BY <1>2, <1>4, <1>5
         DEF IInv, RowsHold, RowHolds, EventsHold, Says, AcceptedByBoth, FateTold

LEMMA AcceptHolds ==
  ASSUME IInv, NEW c \in Answers, Accept(c)
  PROVE  IInv'
<1>1. answer[c] # Idle /\ answer' = [answer EXCEPT ![c] = Idle] /\ nextId' = nextId
  BY DEF Accept, Idle
<1>2. AnswersMayEnd
  BY <1>1, EndMayEnd
<1>3. answer[c] \in AnswerCall /\ AnswerHolds(c)
  BY <1>1 DEF IInv, ConnectionsTypeOK, AnswersHold
<1>4. CASE ~Found(c)
  <2>1. UNCHANGED <<rows, outbox, asked, nextId>>
    BY <1>4 DEF Accept
  <2>2. AnswersHold'
    BY <1>2, <2>1, AnswersKept
  <2>. QED BY <1>2, <2>1, <2>2
           DEF IInv, ConnectionsTypeOK, AnswersMayEnd, RowsHold, RowHolds,
               EventsHold, Says, AcceptedByBoth, FateTold
<1>5. CASE Found(c)
  <2>. DEFINE p == answer[c].pair
  <2>1. p \in Pairs /\ rows[p] # NoRow /\ rows[p].id = answer[c].id
    BY <1>3, <1>5 DEF AnswerCall, Found
  <2>2. /\ rows[p].requester = answer[c].requester
        /\ answer[c].other \in p /\ answer[c].other # rows[p].requester
    BY <1>3, <2>1 DEF AnswerHolds
  <2>3. /\ rows' = [rows EXCEPT ![p].status = "ACCEPTED"]
        /\ asked' = [asked EXCEPT ![rows[p].id] = @ \cup {answer[c].other}]
        /\ Publish("accepted", rows[p].id, rows[p].requester, answer[c].other)
    BY <1>5, <2>1, <2>2 DEF Accept
  <2>. QED BY <1>1, <1>2, <2>1, <2>2, <2>3, JoiningHolds
<1>. QED BY <1>4, <1>5

LEMMA RejectHolds ==
  ASSUME IInv, NEW c \in Answers, Reject(c)
  PROVE  IInv'
<1>. DEFINE id == answer[c].id
            p == answer[c].pair
<1>1. /\ answer[c] # Idle /\ answer' = [answer EXCEPT ![c] = Idle]
      /\ rows' = Remaining(c) /\ UNCHANGED <<asked, nextId>>
      /\ Publish("rejected", id, answer[c].requester, answer[c].other)
  BY DEF Reject, Idle
<1>2. ConnectionsTypeOK /\ RowsHold /\ EventsHold /\ AcceptedByBoth /\ FateTold
  BY DEF IInv
<1>3. /\ answer[c] \in AnswerCall /\ AnswerHolds(c) /\ id \in Ids /\ p \in Pairs
      /\ answer[c].requester \in Users /\ answer[c].other \in Users
  BY <1>1 DEF IInv, ConnectionsTypeOK, AnswersHold, AnswerCall
<1>4. /\ outbox' \in Seq(Event) /\ Len(outbox') <= MaxEvents
      /\ Says' = Says \cup {<<"rejected", id>>}
  BY <1>1, <1>2, <1>3, PublishSays
<1>5. AnswersMayEnd
  BY <1>1, EndMayEnd
<1>6. rows' \in [Pairs -> Row \cup {NoRow}]
  BY <1>1, <1>2 DEF Remaining, ConnectionsTypeOK
(* A row that is left is as it was, and is not the one that was rejected.  *)
<1>7. \A q \in Pairs : rows'[q] # NoRow => rows'[q] = rows[q] /\ rows[q].id # id
  <2>. SUFFICES ASSUME NEW q \in Pairs, rows'[q] # NoRow
                PROVE  rows'[q] = rows[q] /\ rows[q].id # id
    OBVIOUS
  <2>1. rows'[q] = rows[q]
    BY <1>1, <1>2 DEF Remaining, ConnectionsTypeOK
  <2>2. CASE Found(c)
    <3>1. rows'[p] = NoRow
      BY <1>1, <1>2, <1>3, <2>2 DEF Remaining, ConnectionsTypeOK
    <3>. QED BY <1>3, <2>1, <3>1 DEF AnswerHolds
  <2>3. CASE ~Found(c)
    BY <1>3, <2>1, <2>3 DEF AnswerHolds, Found
  <2>. QED BY <2>1, <2>2, <2>3
<1>8. \A q \in Pairs : rows'[q] = rows[q] \/ (rows'[q] = NoRow /\ rows[q].id = id)
  <2>1. CASE Found(c)
    <3>1. rows[p].id = id
      BY <2>1 DEF Found
    <3>. QED BY <1>1, <1>2, <1>3, <2>1, <3>1 DEF Remaining, ConnectionsTypeOK
  <2>2. CASE ~Found(c)
    BY <1>1, <2>2 DEF Remaining
  <2>. QED BY <2>1, <2>2
<1>9. ConnectionsTypeOK'
  BY <1>1, <1>2, <1>4, <1>5, <1>6 DEF ConnectionsTypeOK, AnswersMayEnd
<1>10. RowsHold'
  <2>. SUFFICES ASSUME NEW q \in Pairs, rows'[q] # NoRow PROVE RowHolds(q)'
    BY DEF RowsHold
  <2>1. rows'[q] = rows[q] /\ RowHolds(q) /\ rows[q].id # 0
    BY <1>2, <1>7, RowFacts DEF RowsHold
  <2>2. \A o \in Pairs : rows'[o].id = rows'[q].id => o = q
    BY <1>7, <2>1 DEF RowHolds, NoRow
  <2>. QED BY <1>1, <2>1, <2>2 DEF RowHolds
<1>11. AnswersHold'
  BY <1>1, <1>5, <1>8, AnswersKept
<1>12. EventsHold'
  BY <1>1, <1>3, EventsKept DEF AnswerHolds
<1>13. AcceptedByBoth'
  BY <1>1, <1>2, <1>7 DEF AcceptedByBoth
<1>14. FateTold'
  <2>1. ASSUME NEW q \in Pairs, rows'[q] # NoRow
        PROVE  /\ <<"rejected", rows'[q].id>> \notin Says'
               /\ rows'[q].status = "ACCEPTED" <=> <<"accepted", rows'[q].id>> \in Says'
    BY <1>2, <1>4, <1>7, <2>1 DEF FateTold
  <2>2. ASSUME NEW i \in 1..(nextId' - 1), \A q \in Pairs : rows'[q].id # i
        PROVE  <<"rejected", i>> \in Says'
    <3>1. CASE i = id
      BY <1>4, <3>1
    <3>2. CASE i # id
      BY <1>1, <1>2, <1>4, <1>8, <2>2, <3>2 DEF FateTold
    <3>. QED BY <3>1, <3>2
  <2>. QED BY <2>1, <2>2 DEF FateTold
<1>. QED BY <1>9, <1>10, <1>11, <1>12, <1>13, <1>14 DEF IInv

LEMMA FailHolds ==
  ASSUME IInv, NEW c \in Answers, Fail(c)
  PROVE  IInv'
<1>1. AnswersMayEnd /\ UNCHANGED <<rows, outbox, asked, nextId>>
  BY EndMayEnd DEF Fail
<1>2. AnswersHold'
  BY <1>1, AnswersKept
<1>. QED BY <1>1, <1>2
         DEF IInv, ConnectionsTypeOK, AnswersMayEnd, RowsHold, RowHolds,
             EventsHold, Says, AcceptedByBoth, FateTold

LEMMA StepHolds == IInv /\ [ConnectionsNext]_connections => IInv'
<1>. SUFFICES ASSUME IInv, [ConnectionsNext]_connections PROVE IInv'
  OBVIOUS
<1>1. ASSUME NEW u \in Users, NEW v \in Users, Request(u, v) PROVE IInv'
  BY <1>1, RequestHolds
<1>2. ASSUME NEW u \in Users, NEW v \in Users, RequestBack(u, v) PROVE IInv'
  BY <1>2, RequestBackHolds
<1>3. ASSUME NEW c \in Answers, NEW u \in Users, NEW op \in {"accept", "reject"},
             ReadRow(c, u, op)
      PROVE  IInv'
  BY <1>3, ReadRowHolds
<1>4. ASSUME NEW c \in Answers, Accept(c) PROVE IInv'
  BY <1>4, AcceptHolds
<1>5. ASSUME NEW c \in Answers, Reject(c) PROVE IInv'
  BY <1>5, RejectHolds
<1>6. ASSUME NEW c \in Answers, Fail(c) PROVE IInv'
  BY <1>6, FailHolds
<1>7. CASE UNCHANGED connections
  BY <1>7 DEF connections, IInv, ConnectionsTypeOK, RowsHold, RowHolds, AnswersHold,
              AnswerHolds, EventsHold, Says, AcceptedByBoth, FateTold
<1>. QED BY <1>1, <1>2, <1>3, <1>4, <1>5, <1>6, <1>7 DEF ConnectionsNext

-----------------------------------------------------------------------------
(* The theorems.                                                           *)

(* Rows, events and calls have their types, and the outbox its bound.      *)
THEOREM ConnectionsTyped == ConnectionsSpec => []ConnectionsTypeOK
<1>1. IInv => ConnectionsTypeOK
  BY DEF IInv
<1>. QED BY <1>1, InitHolds, StepHolds, PTL DEF ConnectionsSpec

(* Nobody is connected without having asked for it: a row is accepted only *)
(* when both of its users have (UserConnectionRepository.upsert,           *)
(* AcceptConnection).                                                      *)
THEOREM AcceptedByBothAlways == ConnectionsSpec => []AcceptedByBoth
<1>1. IInv => AcceptedByBoth
  BY DEF IInv
<1>. QED BY <1>1, InitHolds, StepHolds, PTL DEF ConnectionsSpec

(* The events that were committed tell the fate of every row, although     *)
(* accepting and rejecting write a row they read before their transaction. *)
THEOREM FateToldAlways == ConnectionsSpec => []OutboxTellsFate
<1>1. IInv => OutboxTellsFate
  BY FateIsTold DEF IInv
<1>. QED BY <1>1, InitHolds, StepHolds, PTL DEF ConnectionsSpec


-----------------------------------------------------------------------------
(* Notifications: the inductive invariant.                                 *)

(* What a job can be: a markRead call between its look and its             *)
(* transaction, a transaction and what follows its commit, a count to be   *)
(* read from the database, or one to be put into the cache.                *)
Looks == [stage : {"look"}, op : {"mark"}, n : Nat, user : Users]
Txs == [stage : {"tx", "cache", "decr"}, op : {"create", "mark"}, n : Nat,
        user : Users, clean : BOOLEAN, rid : Nat \ {0}]
Loads == [stage : {"load"}, op : {"count"}, user : Users]
Fills == [stage : {"insert", "fill"}, op : {"count"}, user : Users,
          count : Int, clean : BOOLEAN]
AnyJob == {NoJob} \cup Looks \cup Txs \cup Loads \cup Fills

IsNote(n, u) == n \in DOMAIN notes /\ notes[n].recipient = u

(* A job works for the user its event or notification is for; a handler    *)
(* that has committed has told it.                                         *)
JobHolds(j) ==
  /\ job[j] \in Looks => IsNote(job[j].n, job[j].user)
  /\ job[j] \in Txs /\ job[j].op = "mark" => IsNote(job[j].n, job[j].user)
  /\ job[j] \in Txs /\ job[j].op = "create" =>
       /\ job[j].stage # "decr"
       /\ job[j].n \in DOMAIN outbox /\ job[j].user = Recipient(outbox[job[j].n])
       /\ job[j].stage = "cache" => Told(job[j].n)

JobsHold == job \in [Jobs -> AnyJob] /\ \A j \in Jobs : JobHolds(j)

Notes == [event : 1..MaxEvents, recipient : Users, isRead : BOOLEAN]

(* Notifications are of the events of the outbox, for the user each is for.*)
NotesHold ==
  /\ notes \in Seq(Notes)
  /\ \A i \in DOMAIN notes : /\ notes[i].event \in DOMAIN outbox
                             /\ notes[i].recipient = Recipient(outbox[notes[i].event])

FiniteCounters == UNION {[D -> Int] : D \in {E \in SUBSET (Nat \ {0}) : IsFiniteSet(E)}}
CountersTyped == counters \in [Users -> FiniteCounters]

Caches == [set : BOOLEAN, ttl : BOOLEAN, count : Int]

(* Every delivery is finished, at work or waits to come again.             *)
DeliveriesHold ==
  /\ sent \in [1..MaxEvents -> 0..MaxRelays]
  /\ queue \in [1..MaxEvents -> Nat]
  /\ \A n \in 1..MaxEvents : queue[n] + Cardinality(Handling(n)) <= sent[n]

RestTyped ==
  /\ cache \in [Users -> Caches]
  /\ dropped \subseteq 1..MaxEvents /\ disturbed \subseteq Users
  /\ calls \in 0..MaxCalls
  /\ doubled \in [Users -> Nat] /\ faults \in 0..MaxFaults

TypesHold == /\ JobsHold /\ NotesHold /\ CountersTyped /\ DeliveriesHold
             /\ RestTyped

(* The connections of the user service, whose invariant is IInv.           *)
Inv == IInv /\ TypesHold

-----------------------------------------------------------------------------
(* The sets of jobs the module speaks of, by what their jobs are.          *)

LEMMA JobKinds ==
  ASSUME JobsHold, NEW j \in Jobs
  PROVE  /\ job[j] \in AnyJob
         /\ job[j] # NoJob <=> job[j].stage # "none"
         /\ job[j].stage = "look" <=> job[j] \in Looks
         /\ job[j].stage \in {"tx", "cache", "decr"} <=> job[j] \in Txs
         /\ job[j].stage = "load" <=> job[j] \in Loads
         /\ job[j].stage \in {"insert", "fill"} <=> job[j] \in Fills
<1>1. job[j] \in AnyJob
  BY DEF JobsHold
<1>. QED
  BY <1>1 DEF AnyJob, NoJob, Looks, Txs, Loads, Fills

LEMMA OutboxFacts ==
  ASSUME ConnectionsTypeOK, NEW n \in DOMAIN outbox
  PROVE  n \in 1..MaxEvents /\ outbox[n] \in Event /\ Recipient(outbox[n]) \in Users
<1>1. outbox \in Seq(Event) /\ Len(outbox) <= MaxEvents
  BY DEF ConnectionsTypeOK
<1>2. n \in 1..Len(outbox) /\ outbox[n] \in Event /\ Len(outbox) \in Nat
  BY <1>1
<1>3. n \in 1..MaxEvents
  BY <1>1, <1>2, ConnectionsAssumption
<1>. QED
  BY <1>2, <1>3 DEF Event, Recipient

LEMMA NoteFacts ==
  ASSUME NotesHold, NEW n \in DOMAIN notes
  PROVE  n \in Nat \ {0} /\ notes[n] \in Notes /\ notes[n].recipient \in Users
<1>1. notes \in Seq(Notes)
  BY DEF NotesHold
<1>2. n \in 1..Len(notes) /\ notes[n] \in Notes /\ Len(notes) \in Nat
  BY <1>1
<1>. QED
  BY <1>2 DEF Notes

LEMMA HandlingTxs ==
  ASSUME JobsHold, NEW n
  PROVE  Handling(n) = {j \in Jobs : job[j] \in Txs /\ job[j].op = "create"
                                       /\ job[j].n = n}
<1>1. ASSUME NEW j \in Jobs
      PROVE  job[j] # NoJob /\ job[j].op = "create" <=> job[j] \in Txs /\ job[j].op = "create"
  <2>1. job[j] \in AnyJob
    BY DEF JobsHold
  <2>. QED
    BY <2>1 DEF AnyJob, NoJob, Looks, Txs, Loads, Fills
<1>. QED
  BY <1>1 DEF Handling

LEMMA TrailingTxs ==
  ASSUME JobsHold, NEW u
  PROVE  Trailing(u) = {j \in Jobs : job[j] \in Txs /\ job[j].stage \in {"cache", "decr"}
                                       /\ job[j].user = u}
<1>1. ASSUME NEW j \in Jobs
      PROVE  job[j] # NoJob /\ job[j].stage \in {"cache", "decr"}
               <=> job[j] \in Txs /\ job[j].stage \in {"cache", "decr"}
  BY JobKinds DEF Txs
<1>. QED
  BY <1>1 DEF Trailing, Busy

LEMMA HandlingFinite ==
  ASSUME NEW n
  PROVE  IsFiniteSet(Handling(n)) /\ Cardinality(Handling(n)) \in Nat
<1>1. Handling(n) \in SUBSET Jobs
  BY DEF Handling
<1>2. IsFiniteSet(Handling(n))
  BY <1>1, NotificationsAssumption, FS_Subset
<1>. QED
  BY <1>2, FS_CardinalityType

-----------------------------------------------------------------------------
(* The counter documents.                                                  *)

LEMMA CounterFacts ==
  ASSUME CountersTyped, NEW u \in Users
  PROVE  /\ DOMAIN counters[u] \subseteq Nat \ {0} /\ IsFiniteSet(DOMAIN counters[u])
         /\ counters[u] \in [DOMAIN counters[u] -> Int]
         /\ counters[u] = Empty <=> DOMAIN counters[u] = {}
<1>1. PICK D : D \in SUBSET (Nat \ {0}) /\ IsFiniteSet(D) /\ counters[u] \in [D -> Int]
  BY DEF CountersTyped, FiniteCounters
<1>2. DOMAIN counters[u] = D
  BY <1>1
<1>. QED
  BY <1>1, <1>2 DEF Empty

LEMMA FirstFacts ==
  ASSUME CountersTyped, NEW u \in Users, counters[u] # Empty
  PROVE  /\ First(u) \in DOMAIN counters[u] /\ First(u) \in Nat \ {0}
         /\ \A r \in DOMAIN counters[u] : First(u) <= r
<1>1. DOMAIN counters[u] \in SUBSET Nat /\ DOMAIN counters[u] # {}
  BY CounterFacts
<1>2. /\ First(u) \in DOMAIN counters[u]
      /\ \A r \in DOMAIN counters[u] : First(u) <= r
  BY <1>1, MinIsLeast DEF First
<1>. QED
  BY <1>2, CounterFacts

LEMMA CountInt ==
  ASSUME CountersTyped, NEW u \in Users
  PROVE  Count(u) \in Int
BY CounterFacts, FirstFacts DEF Count

LEMMA NewRecordFacts ==
  ASSUME JobsHold, CountersTyped, NEW u \in Users
  PROVE  /\ NewRecord(u) \in Nat \ {0}
         /\ \A r \in DOMAIN counters[u] : r < NewRecord(u)
<1>. DEFINE W == {k \in Busy(u) : job[k].stage = "tx"}
            R == {job[k].rid : k \in W}
<1>1. \A k \in W : job[k] \in Txs
  BY JobKinds DEF Busy
<1>2. R \subseteq Nat \ {0}
  BY <1>1 DEF Txs
<1>3. IsFiniteSet(R)
  <2>1. IsFiniteSet(W)
    BY NotificationsAssumption, FS_Subset DEF Busy
  <2>. DEFINE g == [k \in W |-> job[k].rid]
  <2>2. g \in Surjection(W, R)
    BY DEF Surjection
  <2>. QED
    BY <2>1, <2>2, FS_Surjection
<1>4. DOMAIN counters[u] \subseteq Nat \ {0} /\ IsFiniteSet(DOMAIN counters[u])
  BY CounterFacts
<1>5. RecordIds(u) = DOMAIN counters[u] \cup R
  BY DEF RecordIds
<1>. HIDE DEF R, W
<1>6. IsFiniteSet(RecordIds(u)) /\ \A r \in RecordIds(u) : r \in Nat \ {0}
  BY <1>2, <1>3, <1>4, <1>5, FS_Union
<1>7. CASE RecordIds(u) = {}
  BY <1>5, <1>7 DEF NewRecord
<1>8. CASE RecordIds(u) # {}
  <2>1. /\ Max(RecordIds(u)) \in RecordIds(u)
        /\ \A r \in RecordIds(u) : Max(RecordIds(u)) >= r
    BY <1>6, <1>8, MaxIsGreatest
  <2>2. \A r \in DOMAIN counters[u] : r \in Nat /\ Max(RecordIds(u)) >= r
    BY <1>4, <1>5, <2>1
  <2>3. Max(RecordIds(u)) \in Nat
    BY <1>6, <2>1
  <2>. HIDE DEF RecordIds
  <2>4. NewRecord(u) = Max(RecordIds(u)) + 1
    BY <1>8 DEF NewRecord
  <2>. QED
    BY <2>2, <2>3, <2>4
<1>. QED
  BY <1>7, <1>8

LEMMA TxType ==
  ASSUME JobsHold, CountersTyped, NEW op \in {"create", "mark"}, NEW n \in Nat,
         NEW u \in Users
  PROVE  /\ Tx(op, n, u) \in Txs /\ Tx(op, n, u).stage = "tx" /\ Tx(op, n, u).op = op
         /\ Tx(op, n, u).n = n /\ Tx(op, n, u).user = u
<1>. DEFINE rid == IF counters[u] = Empty THEN NewRecord(u) ELSE First(u)
<1>1. rid \in Nat \ {0}
  BY FirstFacts, NewRecordFacts
<1>. HIDE DEF rid
<1>2. Tx(op, n, u) = [stage |-> "tx", op |-> op, n |-> n, user |-> u, clean |-> TRUE,
                      rid |-> rid]
  BY DEF Tx, rid
<1>. QED
  BY <1>1, <1>2 DEF Txs

-----------------------------------------------------------------------------
(* What a step of one job does to the others: nothing, or it spoils them.  *)

Soft(k) ==
  \/ job'[k] = job[k]
  \/ job[k] \in Txs \cup Fills /\ job'[k] = [job[k] EXCEPT !.clean = FALSE]

(* A step at which only j does more than that.                             *)
StepOf(j) == /\ job' = [k \in Jobs |-> job'[k]]
             /\ \A k \in Jobs \ {j} : Soft(k)

NotesGrow ==
  \A n \in DOMAIN notes : /\ n \in DOMAIN notes'
                          /\ notes'[n].recipient = notes[n].recipient
                          /\ notes'[n].event = notes[n].event

OutboxGrows ==
  \A n \in DOMAIN outbox : n \in DOMAIN outbox' /\ outbox'[n] = outbox[n]

LEMMA SoftFacts ==
  ASSUME JobsHold, NEW k \in Jobs, Soft(k)
  PROVE  /\ job'[k] \in AnyJob
         /\ job'[k] \in Looks <=> job[k] \in Looks
         /\ job'[k] \in Txs <=> job[k] \in Txs
         /\ job'[k] \in Fills <=> job[k] \in Fills
         /\ job[k] \in Looks => job'[k] = job[k]
         /\ job[k] \in Txs => /\ job'[k].stage = job[k].stage /\ job'[k].op = job[k].op
                              /\ job'[k].n = job[k].n /\ job'[k].user = job[k].user
         /\ job[k] \in Fills => /\ job'[k].stage = job[k].stage
                                /\ job'[k].user = job[k].user
                                /\ job'[k].count = job[k].count
                                /\ job'[k].clean => job[k].clean
<1>1. job[k] \in AnyJob
  BY DEF JobsHold
<1>2. CASE job'[k] = job[k]
  BY <1>1, <1>2
<1>3. CASE job[k] \in Txs /\ job'[k] = [job[k] EXCEPT !.clean = FALSE]
  <2>1. job'[k] \in Txs
    BY <1>3 DEF Txs
  <2>2. job[k] \notin Fills /\ job[k] \notin Looks /\ job'[k] \notin Looks /\ job'[k] \notin Fills
    BY <1>3, <2>1 DEF Txs, Fills, Looks
  <2>3. /\ job'[k].stage = job[k].stage /\ job'[k].op = job[k].op
        /\ job'[k].n = job[k].n /\ job'[k].user = job[k].user
    BY <1>3 DEF Txs
  <2>. QED
    BY <1>3, <2>1, <2>2, <2>3 DEF AnyJob
<1>4. CASE job[k] \in Fills /\ job'[k] = [job[k] EXCEPT !.clean = FALSE]
  <2>1. job'[k] \in Fills
    BY <1>4 DEF Fills
  <2>2. job[k] \notin Txs /\ job[k] \notin Looks /\ job'[k] \notin Looks /\ job'[k] \notin Txs
    BY <1>4, <2>1 DEF Txs, Fills, Looks
  <2>3. /\ job'[k].stage = job[k].stage /\ job'[k].user = job[k].user
        /\ job'[k].count = job[k].count /\ ~job'[k].clean
    BY <1>4 DEF Fills
  <2>. QED
    BY <1>4, <2>1, <2>2, <2>3 DEF AnyJob
<1>. QED
  BY <1>2, <1>3, <1>4 DEF Soft

LEMMA SetStep ==
  ASSUME JobsHold, NEW j \in Jobs, NEW r, Set(j, r)
  PROVE  StepOf(j) /\ job'[j] = r
BY DEF JobsHold, Set, StepOf, Soft

LEMMA CommitStep ==
  ASSUME JobsHold, NEW j \in Jobs, AfterCommit(j)
  PROVE  StepOf(j) /\ job'[j] = [job[j] EXCEPT !.stage = "cache"]
<1>1. ASSUME NEW k \in Jobs \ {j}, Spoilt(j, k)
      PROVE  job[k] \in Txs \cup Fills
  BY <1>1, JobKinds DEF Spoilt
<1>. QED
  BY <1>1 DEF AfterCommit, StepOf, Soft

LEMMA SpoilStep ==
  ASSUME JobsHold, NEW j \in Jobs, Spoil(j)
  PROVE  StepOf(j) /\ job'[j] = NoJob
<1>1. ASSUME NEW k \in Jobs \ {j}, job[k].stage \in {"insert", "fill"}
      PROVE  job[k] \in Txs \cup Fills
  BY <1>1, JobKinds
<1>. QED
  BY <1>1 DEF Spoil, StepOf, Soft

LEMMA JobsKept ==
  ASSUME JobsHold, NotesGrow, OutboxGrows, NEW j \in Jobs, StepOf(j),
         job'[j] \in AnyJob, JobHolds(j)'
  PROVE  JobsHold'
<1>1. \A k \in Jobs : job'[k] \in AnyJob
  BY SoftFacts DEF StepOf
<1>2. ASSUME NEW k \in Jobs \ {j}
      PROVE  JobHolds(k)'
  <2>1. Soft(k) /\ JobHolds(k)
    BY DEF StepOf, JobsHold
  <2>2. ASSUME NEW n, NEW u, IsNote(n, u)
        PROVE  IsNote(n, u)'
    BY <2>2 DEF IsNote, NotesGrow
  <2>3. ASSUME NEW n, Told(n)
        PROVE  Told(n)'
    BY <2>3 DEF Told, NotesGrow
  <2>4. CASE job[k] \in Looks
    <3>1. job'[k] = job[k] /\ job'[k] \notin Txs
      BY <2>1, <2>4, SoftFacts DEF Looks, Txs
    <3>. QED
      BY <2>1, <2>2, <2>4, <3>1 DEF JobHolds
  <2>5. CASE job[k] \in Txs
    <3>1. /\ job'[k] \in Txs /\ job'[k] \notin Looks
          /\ job'[k].stage = job[k].stage /\ job'[k].op = job[k].op
          /\ job'[k].n = job[k].n /\ job'[k].user = job[k].user
      BY <2>1, <2>5, SoftFacts DEF Looks, Txs
    <3>2. CASE job[k].op = "mark"
      BY <2>1, <2>2, <2>5, <3>1, <3>2 DEF JobHolds
    <3>3. CASE job[k].op = "create"
      <4>. PICK n : n = job[k].n
        OBVIOUS
      <4>1. /\ job[k].stage # "decr" /\ n \in DOMAIN outbox
            /\ job[k].user = Recipient(outbox[n])
            /\ job[k].stage = "cache" => Told(n)
        BY <2>1, <2>5, <3>3 DEF JobHolds
      <4>2. /\ n \in DOMAIN outbox' /\ outbox'[n] = outbox[n]
        BY <4>1 DEF OutboxGrows
      <4>3. job[k].stage = "cache" => Told(n)'
        BY <4>1, <2>3
      <4>4. job[k].user = Recipient(outbox'[n])
        BY <4>1, <4>2
      <4>. QED
        BY <3>1, <3>3, <4>1, <4>2, <4>3, <4>4 DEF JobHolds, Recipient, Told
    <3>. QED
      BY <2>5, <3>2, <3>3 DEF Txs
  <2>6. CASE job[k] \notin Looks /\ job[k] \notin Txs
    <3>1. job'[k] \notin Looks /\ job'[k] \notin Txs
      BY <2>1, <2>6, SoftFacts
    <3>. QED
      BY <3>1 DEF JobHolds
  <2>. QED
    BY <2>4, <2>5, <2>6
<1>3. \A k \in Jobs : JobHolds(k)'
  BY <1>2
<1>. QED
  BY <1>1, <1>3 DEF JobsHold, StepOf

(* No job starts to handle an event.                                       *)
LEMMA HandlingShrinks ==
  ASSUME JobsHold, JobsHold', NEW j \in Jobs, StepOf(j),
         job'[j] \in Txs /\ job'[j].op = "create"
           => job[j] \in Txs /\ job[j].op = "create" /\ job[j].n = job'[j].n,
         NEW n
  PROVE  Handling(n)' \subseteq Handling(n)
<1>1. Handling(n) = {k \in Jobs : job[k] \in Txs /\ job[k].op = "create" /\ job[k].n = n}
  BY HandlingTxs
<1>2. Handling(n)' = {k \in Jobs : job'[k] \in Txs /\ job'[k].op = "create" /\ job'[k].n = n}
  <2>1. \A k \in Jobs : job'[k] # NoJob /\ job'[k].op = "create"
                          <=> job'[k] \in Txs /\ job'[k].op = "create"
    BY DEF JobsHold, AnyJob, NoJob, Looks, Txs, Loads, Fills
  <2>. QED
    BY <2>1 DEF Handling
<1>3. ASSUME NEW k \in Jobs, k # j, job'[k] \in Txs, job'[k].op = "create", job'[k].n = n
      PROVE  job[k] \in Txs /\ job[k].op = "create" /\ job[k].n = n
  <2>1. Soft(k)
    BY <1>3 DEF StepOf
  <2>. QED
    BY <1>3, <2>1, SoftFacts
<1>. QED
  BY <1>1, <1>2, <1>3

LEMMA DeliveriesKept ==
  ASSUME DeliveriesHold, UNCHANGED <<sent, queue>>,
         \A n \in 1..MaxEvents : Handling(n)' \subseteq Handling(n)
  PROVE  DeliveriesHold'
<1>1. ASSUME NEW n \in 1..MaxEvents
      PROVE  queue'[n] + Cardinality(Handling(n)') <= sent'[n]
  <2>1. IsFiniteSet(Handling(n)) /\ Cardinality(Handling(n)) \in Nat
    BY HandlingFinite
  <2>2. IsFiniteSet(Handling(n)')
    BY <2>1, <1>1, FS_Subset
  <2>3. Cardinality(Handling(n)') \in Nat
    BY <2>2, FS_CardinalityType
  <2>4. Cardinality(Handling(n)') <= Cardinality(Handling(n))
    BY <2>1, <1>1, FS_Subset
  <2>5. queue[n] + Cardinality(Handling(n)) <= sent[n] /\ queue[n] \in Nat /\ sent[n] \in Nat
    BY NotificationsAssumption DEF DeliveriesHold
  <2>. QED
    BY <2>1, <2>3, <2>4, <2>5
<1>. QED
  BY <1>1 DEF DeliveriesHold

-----------------------------------------------------------------------------
(* The types are preserved, action by action.                              *)

LEMMA NoJobIsNone == NoJob \in AnyJob /\ NoJob \notin Looks /\ NoJob \notin Txs
                       /\ NoJob \notin Loads /\ NoJob \notin Fills
BY DEF AnyJob, NoJob, Looks, Txs, Loads, Fills

LEMMA NoJobHolds ==
  ASSUME NEW j \in Jobs, job'[j] = NoJob
  PROVE  job'[j] \in AnyJob /\ JobHolds(j)' /\ job'[j] \notin Txs
BY NoJobIsNone DEF JobHolds

(* A step of j that changes neither store nor deliveries.                  *)
LEMMA QuietStep ==
  ASSUME TypesHold, UNCHANGED <<notes, outbox, counters, sent, queue>>,
         NEW j \in Jobs, StepOf(j), job'[j] \in AnyJob, JobHolds(j)',
         job'[j] \in Txs /\ job'[j].op = "create"
           => job[j] \in Txs /\ job[j].op = "create" /\ job[j].n = job'[j].n,
         RestTyped'
  PROVE  TypesHold'
<1>1. NotesGrow /\ OutboxGrows
  BY DEF NotesGrow, OutboxGrows
<1>2. JobsHold'
  BY <1>1, JobsKept DEF TypesHold
<1>3. NotesHold' /\ CountersTyped'
  BY DEF TypesHold, NotesHold, CountersTyped
<1>4. \A n \in 1..MaxEvents : Handling(n)' \subseteq Handling(n)
  BY <1>2, HandlingShrinks DEF TypesHold
<1>5. DeliveriesHold'
  BY <1>4, DeliveriesKept DEF TypesHold
<1>. QED
  BY <1>2, <1>3, <1>5 DEF TypesHold

LEMMA IncrTypes ==
  ASSUME TypesHold, NEW j \in Jobs, Incr(j), UNCHANGED connections
  PROVE  TypesHold'
<1>1. StepOf(j) /\ job'[j] = NoJob
  BY SpoilStep DEF Incr, TypesHold
<1>2. job[j] \in Txs
  BY JobKinds DEF Incr, Is, TypesHold
<1>3. job[j].user \in Users /\ cache[job[j].user] \in Caches
  BY <1>2 DEF Txs, TypesHold, RestTyped
<1>4. cache' \in [Users -> Caches]
  BY <1>3 DEF Incr, Move, TypesHold, RestTyped, Caches
<1>5. RestTyped'
  BY <1>3, <1>4 DEF Incr, Disturb, TypesHold, RestTyped, delivery, store
<1>. QED
  BY <1>1, <1>5, NoJobHolds, QuietStep DEF Incr, delivery, store, connections

LEMMA DecrTypes ==
  ASSUME TypesHold, NEW j \in Jobs, Decr(j), UNCHANGED connections
  PROVE  TypesHold'
<1>1. StepOf(j) /\ job'[j] = NoJob
  BY SpoilStep DEF Decr, TypesHold
<1>2. job[j] \in Txs
  BY JobKinds DEF Decr, Is, TypesHold
<1>3. job[j].user \in Users /\ cache[job[j].user] \in Caches
  BY <1>2 DEF Txs, TypesHold, RestTyped
<1>4. cache' \in [Users -> Caches]
  BY <1>3 DEF Decr, Move, TypesHold, RestTyped, Caches
<1>5. RestTyped'
  BY <1>3, <1>4 DEF Decr, Disturb, TypesHold, RestTyped, delivery, store
<1>. QED
  BY <1>1, <1>5, NoJobHolds, QuietStep DEF Decr, delivery, store, connections

LEMMA CheckKeyTypes ==
  ASSUME TypesHold, NEW j \in Jobs, CheckKey(j), UNCHANGED connections
  PROVE  TypesHold'
<1>1. job[j] \in Txs /\ job[j].op = "mark" /\ JobHolds(j)
  BY JobKinds DEF CheckKey, Is, TypesHold, JobsHold
<1>2. job[j].user \in Users
  BY <1>1 DEF Txs
<1>3. RestTyped'
  BY <1>2 DEF CheckKey, Disturb, TypesHold, RestTyped, delivery, store
<1>4. UNCHANGED <<notes, outbox, counters, sent, queue>>
  BY DEF CheckKey, delivery, store, connections
<1>5. CASE Goto(j, "decr")
  <2>1. StepOf(j) /\ job'[j] = [job[j] EXCEPT !.stage = "decr"]
    BY <1>5 DEF Goto, TypesHold, JobsHold, StepOf, Soft
  <2>2. /\ job'[j] \in Txs /\ job'[j].op = "mark"
        /\ job'[j].n = job[j].n /\ job'[j].user = job[j].user
    BY <1>1, <2>1 DEF Txs
  <2>3. job'[j] \notin Looks
    BY <2>2 DEF Looks, Txs
  <2>4. IsNote(job[j].n, job[j].user)
    BY <1>1 DEF JobHolds
  <2>5. JobHolds(j)'
    BY <1>4, <2>2, <2>3, <2>4 DEF JobHolds, IsNote
  <2>. QED
    BY <1>3, <1>4, <2>1, <2>2, <2>5, QuietStep DEF AnyJob
<1>6. CASE Spoil(j)
  <2>1. StepOf(j) /\ job'[j] = NoJob
    BY <1>6, SpoilStep DEF TypesHold
  <2>. QED
    BY <1>3, <1>4, <2>1, NoJobHolds, QuietStep
<1>. QED
  BY <1>5, <1>6 DEF CheckKey

LEMMA OpenNoteTypes ==
  ASSUME TypesHold, NEW j \in Jobs, NEW n \in DOMAIN notes, OpenNote(j, n),
         UNCHANGED connections
  PROVE  TypesHold'
<1>. DEFINE r == [stage |-> "look", op |-> "mark", n |-> n, user |-> notes[n].recipient]
<1>1. StepOf(j) /\ job'[j] = r
  BY SetStep DEF OpenNote, TypesHold
<1>2. n \in Nat /\ notes[n].recipient \in Users
  BY NoteFacts DEF TypesHold
<1>3. r \in Looks /\ r \notin Txs
  BY <1>2 DEF Looks, Txs
<1>4. UNCHANGED <<notes, outbox, counters, sent, queue>>
  BY DEF OpenNote, delivery, store, connections
<1>5. RestTyped'
  BY NotificationsAssumption
     DEF OpenNote, TypesHold, RestTyped, delivery, store, caching
<1>6. JobHolds(j)'
  BY <1>1, <1>3, <1>4 DEF JobHolds, IsNote
<1>. QED
  BY <1>1, <1>3, <1>4, <1>5, <1>6, QuietStep DEF AnyJob

LEMMA BeginMarkTypes ==
  ASSUME TypesHold, NEW j \in Jobs, BeginMark(j), UNCHANGED connections
  PROVE  TypesHold'
<1>1. job[j] \in Looks /\ JobHolds(j)
  BY JobKinds DEF BeginMark, Is, TypesHold, JobsHold
<1>. PICK n, u : n = job[j].n /\ u = job[j].user
  OBVIOUS
<1>2. n \in Nat /\ u \in Users /\ IsNote(n, u)
  BY <1>1 DEF Looks, JobHolds
<1>3. StepOf(j) /\ job'[j] = Tx("mark", n, u)
  BY SetStep DEF BeginMark, Begin, TypesHold
<1>4. job'[j] \in Txs /\ job'[j].op = "mark" /\ job'[j].n = n /\ job'[j].user = u
  BY <1>2, <1>3, TxType DEF TypesHold
<1>5. UNCHANGED <<notes, outbox, counters, sent, queue>>
  BY DEF BeginMark, delivery, store, connections
<1>6. RestTyped'
  BY DEF BeginMark, TypesHold, RestTyped, delivery, store, caching
<1>7. job'[j] \notin Looks
  BY <1>4 DEF Looks, Txs
<1>8. JobHolds(j)'
  BY <1>2, <1>4, <1>5, <1>7 DEF JobHolds, IsNote
<1>. QED
  BY <1>3, <1>4, <1>5, <1>6, <1>8, QuietStep DEF AnyJob

LEMMA AbortTypes ==
  ASSUME ConnectionsTypeOK, TypesHold, NEW j \in Jobs, job[j] # NoJob, job[j].stage = "tx", Abort(j),
         faults' \in 0..MaxFaults, UNCHANGED connections
  PROVE  TypesHold'
<1>1. StepOf(j) /\ job'[j] = NoJob
  BY SetStep DEF Abort, End, TypesHold
<1>2. job[j] \in Txs /\ JobHolds(j)
  BY JobKinds DEF TypesHold, JobsHold
<1>3. job[j].op = "create" => job[j].n \in 1..MaxEvents
  BY <1>2, OutboxFacts DEF JobHolds
<1>4. RestTyped'
  BY <1>3 DEF Abort, TypesHold, RestTyped, delivery, store, caching
<1>. QED
  BY <1>1, <1>4, NoJobHolds, QuietStep DEF Abort, delivery, store, connections

LEMMA RedisFailsTypes ==
  ASSUME TypesHold, NEW j \in Jobs, RedisFails(j), UNCHANGED connections
  PROVE  TypesHold'
<1>1. StepOf(j) /\ job'[j] = NoJob
  BY SetStep DEF RedisFails, End, TypesHold
<1>2. job[j] \in Txs
  BY JobKinds DEF RedisFails, TypesHold
<1>3. job[j].user \in Users
  BY <1>2 DEF Txs
<1>4. RestTyped'
  BY <1>3, NotificationsAssumption
     DEF RedisFails, Disturb, TypesHold, RestTyped, delivery, store
<1>. QED
  BY <1>1, <1>4, NoJobHolds, QuietStep DEF RedisFails, delivery, store, connections

LEMMA CountJobHolds ==
  ASSUME NEW j \in Jobs, job'[j] \in Loads \cup Fills
  PROVE  job'[j] \in AnyJob /\ JobHolds(j)' /\ job'[j] \notin Txs
<1>1. job'[j] \notin Looks /\ job'[j] \notin Txs
  BY DEF Looks, Txs, Loads, Fills
<1>. QED
  BY <1>1 DEF JobHolds, AnyJob

LEMMA MissTypes ==
  ASSUME TypesHold, NEW j \in Jobs, NEW u \in Users, Miss(j, u), UNCHANGED connections
  PROVE  TypesHold'
<1>1. StepOf(j) /\ job'[j] = [stage |-> "load", op |-> "count", user |-> u]
  BY SetStep DEF Miss, TypesHold
<1>2. job'[j] \in Loads \cup Fills
  BY <1>1 DEF Loads
<1>3. RestTyped'
  BY NotificationsAssumption DEF Miss, TypesHold, RestTyped, delivery, store, caching
<1>. QED
  BY <1>1, <1>2, <1>3, CountJobHolds, QuietStep
     DEF Miss, delivery, store, connections

LEMMA LoadCountTypes ==
  ASSUME TypesHold, NEW j \in Jobs, LoadCount(j), UNCHANGED connections
  PROVE  TypesHold'
<1>1. job[j] \in Loads
  BY JobKinds DEF LoadCount, Is, TypesHold
<1>. PICK u : u = job[j].user
  OBVIOUS
<1>2. u \in Users /\ Count(u) \in Int
  BY <1>1, CountInt DEF Loads, TypesHold
<1>. PICK n : n = Count(u)
  OBVIOUS
<1>3. PICK s \in {"insert", "fill"}, b \in BOOLEAN :
        Set(j, [stage |-> s, op |-> "count", user |-> u, count |-> n, clean |-> b])
  <2>1. \E s \in {"insert", "fill"} : s = IF counters[u] = Empty THEN "insert" ELSE "fill"
    OBVIOUS
  <2>2. (Trailing(u) = {}) \in BOOLEAN
    OBVIOUS
  <2>. QED
    BY <2>1, <2>2 DEF LoadCount
<1>4. /\ StepOf(j)
      /\ job'[j] = [stage |-> s, op |-> "count", user |-> u, count |-> n, clean |-> b]
  BY <1>3, SetStep DEF TypesHold
<1>5. job'[j] \in Loads \cup Fills
  BY <1>2, <1>4 DEF Fills
<1>6. RestTyped'
  BY DEF LoadCount, TypesHold, RestTyped, delivery, store, caching
<1>. QED
  BY <1>4, <1>5, <1>6, CountJobHolds, QuietStep
     DEF LoadCount, delivery, store, connections

LEMMA FillTypes ==
  ASSUME TypesHold, NEW j \in Jobs, Fill(j), UNCHANGED connections
  PROVE  TypesHold'
<1>1. StepOf(j) /\ job'[j] = NoJob
  BY SetStep DEF Fill, End, TypesHold
<1>2. job[j] \in Fills
  BY JobKinds DEF Fill, Is, TypesHold
<1>3. job[j].user \in Users /\ job[j].count \in Int
  BY <1>2 DEF Fills
<1>4. cache' \in [Users -> Caches]
  BY <1>3 DEF Fill, TypesHold, RestTyped, Caches
<1>5. RestTyped'
  BY <1>3, <1>4 DEF Fill, TypesHold, RestTyped, delivery, store
<1>. QED
  BY <1>1, <1>5, NoJobHolds, QuietStep DEF Fill, delivery, store, connections

LEMMA ExpireTypes ==
  ASSUME TypesHold, NEW u \in Users, Expire(u), UNCHANGED connections
  PROVE  TypesHold'
<1>1. UNCHANGED <<notes, outbox, counters, sent, queue, job>>
  BY DEF Expire, delivery, store, connections
<1>2. JobsHold' /\ NotesHold' /\ CountersTyped' /\ DeliveriesHold'
  BY <1>1 DEF TypesHold, JobsHold, JobHolds, IsNote, Told, NotesHold, CountersTyped,
              DeliveriesHold, Handling
<1>3. NoKey \in Caches
  BY DEF NoKey, Caches
<1>4. RestTyped'
  BY <1>3, NotificationsAssumption DEF Expire, TypesHold, RestTyped, delivery, store
<1>. QED
  BY <1>2, <1>4 DEF TypesHold

LEMMA CrashTypes ==
  ASSUME TypesHold, Crash, UNCHANGED connections
  PROVE  TypesHold'
<1>1. UNCHANGED <<notes, outbox, counters, sent>> /\ job' = [j \in Jobs |-> NoJob]
  BY DEF Crash, delivery, store, connections
<1>2. JobsHold'
  BY <1>1, NoJobIsNone DEF JobsHold, JobHolds
<1>3. NotesHold' /\ CountersTyped'
  BY <1>1 DEF TypesHold, NotesHold, CountersTyped
<1>4. DeliveriesHold'
  <2>1. queue' = [n \in 1..MaxEvents |-> queue[n] + Cardinality(Handling(n))]
    BY DEF Crash, Returned, TypesHold, DeliveriesHold
  <2>2. ASSUME NEW n \in 1..MaxEvents
        PROVE  /\ queue'[n] \in Nat
               /\ queue'[n] + Cardinality(Handling(n)') <= sent'[n]
    <3>1. Handling(n)' = {}
      BY <1>1 DEF Handling
    <3>2. Cardinality(Handling(n)') = 0
      BY <3>1, FS_EmptySet
    <3>3. queue[n] + Cardinality(Handling(n)) <= sent[n] /\ queue[n] \in Nat
      BY DEF TypesHold, DeliveriesHold
    <3>4. queue'[n] = queue[n] + Cardinality(Handling(n))
      BY <2>1
    <3>. QED
      BY <1>1, <3>2, <3>3, <3>4, HandlingFinite
  <2>. QED
    BY <1>1, <2>1, <2>2 DEF TypesHold, DeliveriesHold
<1>5. RestTyped'
  BY NotificationsAssumption DEF Crash, TypesHold, RestTyped, store
<1>. QED
  BY <1>2, <1>3, <1>4, <1>5 DEF TypesHold

LEMMA ReceiveTypes ==
  ASSUME ConnectionsTypeOK, TypesHold, NEW j \in Jobs, NEW n \in DOMAIN outbox,
         Receive(j, n), UNCHANGED connections
  PROVE  TypesHold'
<1>. PICK u : u = Recipient(outbox[n])
  OBVIOUS
<1>1. n \in 1..MaxEvents /\ n \in Nat /\ u \in Users
  BY OutboxFacts
<1>2. StepOf(j) /\ job'[j] = Tx("create", n, u)
  BY SetStep DEF Receive, Begin, TypesHold
<1>3. /\ job'[j] \in Txs /\ job'[j].stage = "tx" /\ job'[j].op = "create"
      /\ job'[j].n = n /\ job'[j].user = u
  BY <1>1, <1>2, TxType DEF TypesHold
<1>4. UNCHANGED <<notes, outbox, counters>>
  BY DEF Receive, store, connections
<1>5. NotesGrow /\ OutboxGrows
  BY <1>4 DEF NotesGrow, OutboxGrows
<1>6. JobHolds(j)'
  BY <1>3, <1>4 DEF JobHolds, Looks, Txs
<1>7. JobsHold'
  BY <1>2, <1>3, <1>5, <1>6, JobsKept DEF TypesHold, AnyJob
<1>8. NotesHold' /\ CountersTyped'
  BY <1>4 DEF TypesHold, NotesHold, CountersTyped
<1>9. RestTyped'
  BY DEF Receive, TypesHold, RestTyped, store, caching
<1>10. \A k \in Jobs \ {j} : job'[k] = job[k]
  BY DEF Receive, Begin, Set, TypesHold, JobsHold
<1>11. j \notin Handling(n) /\ Handling(n)' = Handling(n) \cup {j}
  BY <1>3, <1>10, NoJobIsNone DEF Receive, Handling
<1>12. \A m \in 1..MaxEvents \ {n} : Handling(m)' = Handling(m)
  BY <1>3, <1>10, NoJobIsNone DEF Receive, Handling
<1>13. Cardinality(Handling(n)') = Cardinality(Handling(n)) + 1
  BY <1>11, HandlingFinite, FS_AddElement
<1>14. \A m \in 1..MaxEvents : /\ queue[m] + Cardinality(Handling(m)) <= sent[m]
                               /\ queue[m] \in Nat /\ sent[m] \in 0..MaxRelays
                               /\ Cardinality(Handling(m)) \in Nat
  BY HandlingFinite DEF TypesHold, DeliveriesHold
<1>15. MaxRelays \in Nat
  BY NotificationsAssumption
<1>16. CASE SumFunction(sent) < MaxRelays /\ sent' = [sent EXCEPT ![n] = @ + 1]
              /\ UNCHANGED queue
  <2>1. IsFiniteSet(1..MaxEvents)
    BY ConnectionsAssumption, FS_Interval
  <2>2. sent[n] <= SumFunction(sent) /\ SumFunction(sent) \in Nat
    <3>1. DOMAIN sent = 1..MaxEvents /\ \A m \in DOMAIN sent : sent[m] \in Nat
      BY <1>15 DEF TypesHold, DeliveriesHold
    <3>. QED
      BY <1>1, <2>1, <3>1, SumFunctionNat
  <2>3. sent[n] + 1 \in 0..MaxRelays
    BY <1>1, <1>14, <1>15, <1>16, <2>2
  <2>4. sent' \in [1..MaxEvents -> 0..MaxRelays]
    BY <1>1, <1>16, <2>3 DEF TypesHold, DeliveriesHold
  <2>5. ASSUME NEW m \in 1..MaxEvents
        PROVE  queue'[m] + Cardinality(Handling(m)') <= sent'[m]
    <3>1. CASE m = n
      BY <1>13, <1>14, <1>16, <3>1 DEF TypesHold, DeliveriesHold
    <3>2. CASE m # n
      BY <1>12, <1>14, <1>16, <3>2 DEF TypesHold, DeliveriesHold
    <3>. QED
      BY <3>1, <3>2
  <2>6. DeliveriesHold'
    BY <1>16, <2>4, <2>5 DEF TypesHold, DeliveriesHold
  <2>. QED
    BY <1>7, <1>8, <1>9, <2>6 DEF TypesHold
<1>17. CASE queue[n] > 0 /\ queue' = [queue EXCEPT ![n] = @ - 1] /\ UNCHANGED sent
  <2>1. queue[n] - 1 \in Nat
    BY <1>1, <1>14, <1>17
  <2>2. queue' \in [1..MaxEvents -> Nat]
    BY <1>1, <1>17, <2>1 DEF TypesHold, DeliveriesHold
  <2>3. ASSUME NEW m \in 1..MaxEvents
        PROVE  queue'[m] + Cardinality(Handling(m)') <= sent'[m]
    <3>1. CASE m = n
      BY <1>13, <1>14, <1>17, <3>1 DEF TypesHold, DeliveriesHold
    <3>2. CASE m # n
      BY <1>12, <1>14, <1>17, <3>2 DEF TypesHold, DeliveriesHold
    <3>. QED
      BY <3>1, <3>2
  <2>4. DeliveriesHold'
    BY <1>17, <2>2, <2>3 DEF TypesHold, DeliveriesHold
  <2>. QED
    BY <1>7, <1>8, <1>9, <2>4 DEF TypesHold
<1>. QED
  BY <1>16, <1>17 DEF Receive

-----------------------------------------------------------------------------
(* Steps that change the store.                                            *)

LEMMA CountersStep ==
  ASSUME CountersTyped, NEW u \in Users, NEW rid \in Nat \ {0}, NEW f,
         f \in [DOMAIN counters[u] \cup {rid} -> Int],
         counters' = [counters EXCEPT ![u] = f]
  PROVE  /\ CountersTyped' /\ counters'[u] = f
         /\ \A v \in Users \ {u} : counters'[v] = counters[v]
<1>1. /\ DOMAIN counters[u] \cup {rid} \in SUBSET (Nat \ {0})
      /\ IsFiniteSet(DOMAIN counters[u] \cup {rid})
  BY CounterFacts, FS_AddElement
<1>2. f \in FiniteCounters
  BY <1>1 DEF FiniteCounters
<1>. QED
  BY <1>2 DEF CountersTyped

LEMMA AddFacts ==
  ASSUME CountersTyped, NEW u \in Users, NEW rid \in Nat \ {0}, NEW d \in Int,
         Add(u, rid, d)
  PROVE  /\ CountersTyped'
         /\ DOMAIN counters'[u] = DOMAIN counters[u] \cup {rid}
         /\ counters'[u][rid] = (IF rid \in DOMAIN counters[u] THEN counters[u][rid] ELSE 0) + d
         /\ \A r \in DOMAIN counters[u] \ {rid} : counters'[u][r] = counters[u][r]
         /\ \A v \in Users \ {u} : counters'[v] = counters[v]
         /\ SumFunction(counters'[u]) = SumFunction(counters[u]) + d
<1>. DEFINE c == counters[u]
            f == [r \in DOMAIN c \cup {rid} |->
                    (IF r \in DOMAIN c THEN c[r] ELSE 0) + (IF r = rid THEN d ELSE 0)]
<1>1. IsFiniteSet(DOMAIN c) /\ c \in [DOMAIN c -> Int]
  BY CounterFacts
<1>2. f \in [DOMAIN c \cup {rid} -> Int]
  BY <1>1
<1>3. counters' = [counters EXCEPT ![u] = f]
  BY DEF Add
<1>4. DOMAIN f = DOMAIN c \cup {rid}
  OBVIOUS
<1>5. f[rid] = (IF rid \in DOMAIN c THEN c[rid] ELSE 0) + d
  BY <1>1
<1>6. \A r \in DOMAIN c \ {rid} : f[r] = c[r]
  BY <1>1
<1>. HIDE DEF f
<1>7. /\ CountersTyped' /\ counters'[u] = f
      /\ \A v \in Users \ {u} : counters'[v] = counters[v]
  BY <1>2, <1>3, CountersStep
<1>8. SumFunction(f) = SumFunction(c) + d
  <2>1. \A r \in DOMAIN c : c[r] \in Int
    BY <1>1
  <2>. HIDE DEF c
  <2>. QED
    BY <1>1, <1>4, <1>5, <1>6, <2>1, SumFunctionChanged
<1>. QED
  BY <1>4, <1>5, <1>6, <1>7, <1>8

LEMMA CreateFacts ==
  ASSUME ConnectionsTypeOK, TypesHold, NEW j \in Jobs, Create(j), UNCHANGED connections
  PROVE  /\ TypesHold' /\ NotesGrow
         /\ job[j] \in Txs /\ job[j].stage = "tx" /\ job[j].op = "create"
         /\ job'[j] = [job[j] EXCEPT !.stage = "cache"] /\ StepOf(j)
         /\ notes' = Append(notes, [event |-> job[j].n, recipient |-> job[j].user,
                                    isRead |-> FALSE])
         /\ Add(job[j].user, job[j].rid, 1)
<1>1. /\ job[j] \in Txs /\ job[j].stage = "tx" /\ job[j].op = "create"
      /\ JobHolds(j)
  BY JobKinds DEF Create, Is, TypesHold, JobsHold
<1>. PICK n, u, rid : n = job[j].n /\ u = job[j].user /\ rid = job[j].rid
  OBVIOUS
<1>2. u \in Users /\ rid \in Nat \ {0} /\ n \in DOMAIN outbox /\ u = Recipient(outbox[n])
  BY <1>1 DEF Txs, JobHolds
<1>3. StepOf(j) /\ job'[j] = [job[j] EXCEPT !.stage = "cache"]
  BY CommitStep DEF Create, TypesHold
<1>4. /\ job'[j] \in Txs /\ job'[j].stage = "cache" /\ job'[j].op = "create"
      /\ job'[j].n = n /\ job'[j].user = u
  BY <1>1, <1>3 DEF Txs
<1>5. UNCHANGED <<outbox, sent, queue, dropped>>
  BY DEF Create, delivery, connections
<1>. DEFINE note == [event |-> n, recipient |-> u, isRead |-> FALSE]
<1>6. notes' = Append(notes, note)
  BY DEF Create
<1>7. notes \in Seq(Notes)
  BY DEF TypesHold, NotesHold
<1>8. CASE note \in Notes
  <2>. HIDE DEF note
  <2>1. /\ notes' \in Seq(Notes) /\ Len(notes) \in Nat
        /\ DOMAIN notes' = 1..(Len(notes) + 1) /\ DOMAIN notes = 1..Len(notes)
        /\ notes'[Len(notes) + 1] = note
        /\ \A i \in 1..Len(notes) : notes'[i] = notes[i]
    BY <1>6, <1>7, <1>8
  <2>2. NotesGrow /\ OutboxGrows
    BY <1>5, <2>1 DEF NotesGrow, OutboxGrows
  <2>3. note.event = n /\ note.recipient = u
    BY DEF note
  <2>4. NotesHold'
    <3>1. ASSUME NEW i \in DOMAIN notes'
          PROVE  /\ notes'[i].event \in DOMAIN outbox'
                 /\ notes'[i].recipient = Recipient(outbox'[notes'[i].event])
      <4>1. CASE i \in 1..Len(notes)
        BY <1>5, <2>1, <4>1 DEF TypesHold, NotesHold, Recipient
      <4>2. CASE i = Len(notes) + 1
        BY <1>2, <1>5, <2>1, <2>3, <4>2 DEF Recipient
      <4>. QED
        BY <2>1, <4>1, <4>2
    <3>. QED
      BY <2>1, <3>1 DEF NotesHold, Notes, Recipient
  <2>5. Told(n)'
    BY <2>1, <2>3 DEF Told
  <2>6. JobHolds(j)'
    BY <1>2, <1>4, <1>5, <2>5 DEF JobHolds, Looks, Txs, Told, Recipient
  <2>7. JobsHold'
    BY <1>3, <1>4, <2>2, <2>6, JobsKept DEF TypesHold, AnyJob
  <2>8. Add(u, rid, 1)
    BY DEF Create, CountUp
  <2>9. CountersTyped'
    BY <1>2, <2>8, AddFacts DEF TypesHold
  <2>10. \A m \in 1..MaxEvents : Handling(m)' \subseteq Handling(m)
    BY <1>1, <1>3, <1>4, <2>7, HandlingShrinks DEF TypesHold
  <2>11. DeliveriesHold'
    BY <1>5, <2>10, DeliveriesKept DEF TypesHold
  <2>12. RestTyped'
    BY <1>2 DEF Create, Disturb, TypesHold, RestTyped, delivery
  <2>. QED
    BY <1>1, <1>3, <1>6, <2>2, <2>4, <2>7, <2>8, <2>9, <2>11, <2>12 DEF TypesHold, note
<1>9. note \in Notes
  BY <1>2, OutboxFacts DEF Notes
<1>. QED
  BY <1>8, <1>9

LEMMA MarkFacts ==
  ASSUME TypesHold, NEW j \in Jobs, Mark(j), UNCHANGED connections
  PROVE  /\ TypesHold' /\ NotesGrow
         /\ job[j] \in Txs /\ job[j].stage = "tx" /\ job[j].op = "mark"
         /\ job'[j] = [job[j] EXCEPT !.stage = "cache"] /\ StepOf(j)
         /\ job[j].n \in DOMAIN notes /\ notes[job[j].n].recipient = job[j].user
         /\ notes' = [notes EXCEPT ![job[j].n].isRead = TRUE]
         /\ Add(job[j].user, job[j].rid, -1)
<1>1. /\ job[j] \in Txs /\ job[j].stage = "tx" /\ job[j].op = "mark"
      /\ JobHolds(j)
  BY JobKinds DEF Mark, Is, TypesHold, JobsHold
<1>. PICK n, u, rid : n = job[j].n /\ u = job[j].user /\ rid = job[j].rid
  OBVIOUS
<1>2. u \in Users /\ rid \in Nat \ {0} /\ n \in DOMAIN notes /\ notes[n].recipient = u
  BY <1>1 DEF Txs, JobHolds, IsNote
<1>3. StepOf(j) /\ job'[j] = [job[j] EXCEPT !.stage = "cache"]
  BY CommitStep DEF Mark, TypesHold
<1>4. /\ job'[j] \in Txs /\ job'[j].stage = "cache" /\ job'[j].op = "mark"
      /\ job'[j].n = n /\ job'[j].user = u
  BY <1>1, <1>3 DEF Txs
<1>5. UNCHANGED <<outbox, sent, queue, dropped>>
  BY DEF Mark, delivery, connections
<1>6. notes' = [notes EXCEPT ![n].isRead = TRUE]
  BY DEF Mark
<1>7. notes \in Seq(Notes) /\ notes[n] \in Notes
  BY <1>2, NoteFacts DEF TypesHold, NotesHold
<1>. PICK m : m = [notes[n] EXCEPT !.isRead = TRUE]
  OBVIOUS
<1>8. m \in Notes /\ m.recipient = notes[n].recipient /\ m.event = notes[n].event
  BY <1>7 DEF Notes
<1>9. notes' = [notes EXCEPT ![n] = m]
  BY <1>6
<1>10. /\ notes' \in Seq(Notes) /\ DOMAIN notes' = DOMAIN notes
       /\ notes'[n] = m
       /\ \A i \in DOMAIN notes \ {n} : notes'[i] = notes[i]
  BY <1>2, <1>7, <1>8, <1>9
<1>11. NotesGrow /\ OutboxGrows
  BY <1>5, <1>8, <1>10 DEF NotesGrow, OutboxGrows
<1>12. NotesHold'
  <2>1. ASSUME NEW i \in DOMAIN notes'
        PROVE  /\ notes'[i].event \in DOMAIN outbox'
               /\ notes'[i].recipient = Recipient(outbox'[notes'[i].event])
    <3>1. i \in DOMAIN notes /\ notes'[i].event = notes[i].event
            /\ notes'[i].recipient = notes[i].recipient
      BY <1>8, <1>10
    <3>. QED
      BY <1>5, <3>1 DEF TypesHold, NotesHold, Recipient
  <2>. QED
    BY <1>10, <2>1 DEF NotesHold, Notes, Recipient
<1>13. IsNote(n, u)'
  BY <1>2, <1>11 DEF IsNote, NotesGrow
<1>14. JobHolds(j)'
  BY <1>4, <1>13 DEF JobHolds, Looks, Txs, IsNote
<1>15. JobsHold'
  BY <1>3, <1>4, <1>11, <1>14, JobsKept DEF TypesHold, AnyJob
<1>16. Add(u, rid, -1)
  BY DEF Mark
<1>17. CountersTyped'
  <2>1. -1 \in Int
    OBVIOUS
  <2>. QED
    BY <1>2, <1>16, <2>1, AddFacts DEF TypesHold
<1>18. \A i \in 1..MaxEvents : Handling(i)' \subseteq Handling(i)
  BY <1>3, <1>4, <1>15, HandlingShrinks DEF TypesHold
<1>19. DeliveriesHold'
  BY <1>5, <1>18, DeliveriesKept DEF TypesHold
<1>20. RestTyped'
  BY <1>2 DEF Mark, Disturb, TypesHold, RestTyped, delivery
<1>. QED
  BY <1>1, <1>2, <1>3, <1>6, <1>11, <1>12, <1>15, <1>16, <1>17, <1>19, <1>20
     DEF TypesHold

LEMMA InsertCountFacts ==
  ASSUME TypesHold, NEW j \in Jobs, InsertCount(j), UNCHANGED connections
  PROVE  /\ TypesHold'
         /\ job[j] \in Fills /\ StepOf(j) /\ job'[j] = [job[j] EXCEPT !.stage = "fill"]
         /\ DOMAIN counters'[job[j].user] = DOMAIN counters[job[j].user] \cup {NewRecord(job[j].user)}
         /\ counters'[job[j].user][NewRecord(job[j].user)] = 0
         /\ \A r \in DOMAIN counters[job[j].user] :
              counters'[job[j].user][r] = counters[job[j].user][r]
         /\ \A v \in Users \ {job[j].user} : counters'[v] = counters[v]
         /\ SumFunction(counters'[job[j].user]) = SumFunction(counters[job[j].user])
         /\ \A r \in DOMAIN counters[job[j].user] : r < NewRecord(job[j].user)
<1>1. job[j] \in Fills
  BY JobKinds DEF InsertCount, Is, TypesHold
<1>. PICK u, rid : u = job[j].user /\ rid = NewRecord(u)
  OBVIOUS
<1>2. /\ u \in Users /\ rid \in Nat \ {0}
      /\ \A r \in DOMAIN counters[u] : r < rid
  BY <1>1, NewRecordFacts DEF Fills, TypesHold
<1>3. StepOf(j) /\ job'[j] = [job[j] EXCEPT !.stage = "fill"]
  BY DEF InsertCount, Goto, TypesHold, JobsHold, StepOf, Soft
<1>4. job'[j] \in Loads \cup Fills
  BY <1>1, <1>3 DEF Fills
<1>5. JobHolds(j)' /\ job'[j] \in AnyJob /\ job'[j] \notin Txs
  BY <1>4, CountJobHolds
<1>6. UNCHANGED <<outbox, notes, sent, queue, dropped>>
  BY DEF InsertCount, delivery, connections
<1>7. Add(u, rid, 0)
  BY DEF InsertCount
<1>8. /\ CountersTyped'
      /\ DOMAIN counters'[u] = DOMAIN counters[u] \cup {rid}
      /\ counters'[u][rid] = (IF rid \in DOMAIN counters[u] THEN counters[u][rid] ELSE 0) + 0
      /\ \A r \in DOMAIN counters[u] \ {rid} : counters'[u][r] = counters[u][r]
      /\ \A v \in Users \ {u} : counters'[v] = counters[v]
      /\ SumFunction(counters'[u]) = SumFunction(counters[u]) + 0
  BY <1>2, <1>7, AddFacts DEF TypesHold
<1>9. rid \notin DOMAIN counters[u]
  <2>1. \A r \in DOMAIN counters[u] : r \in Nat /\ r < rid
    BY <1>2, CounterFacts DEF TypesHold
  <2>. QED
    BY <1>2, <2>1
<1>10. SumFunction(counters[u]) \in Int
  <2>1. \A r \in DOMAIN counters[u] : counters[u][r] \in Int
    BY <1>2, CounterFacts DEF TypesHold
  <2>. QED
    BY <1>2, <2>1, CounterFacts, SumFunctionInt DEF TypesHold
<1>12. NotesGrow /\ OutboxGrows
  BY <1>6 DEF NotesGrow, OutboxGrows
<1>13. JobsHold'
  BY <1>3, <1>5, <1>12, JobsKept DEF TypesHold
<1>14. \A i \in 1..MaxEvents : Handling(i)' \subseteq Handling(i)
  BY <1>3, <1>5, <1>13, HandlingShrinks DEF TypesHold
<1>15. DeliveriesHold'
  BY <1>6, <1>14, DeliveriesKept DEF TypesHold
<1>16. NotesHold' /\ RestTyped'
  BY <1>6 DEF InsertCount, TypesHold, RestTyped, NotesHold, delivery, caching
<1>17. TypesHold'
  BY <1>8, <1>13, <1>15, <1>16 DEF TypesHold
<1>18. counters'[u][rid] = 0 /\ \A r \in DOMAIN counters[u] : counters'[u][r] = counters[u][r]
  BY <1>8, <1>9
<1>19. SumFunction(counters'[u]) = SumFunction(counters[u])
  BY <1>8, <1>10
<1>. QED
  BY <1>1, <1>2, <1>3, <1>8, <1>17, <1>18, <1>19

(* The user service only adds to the outbox.                               *)
LEMMA ConnectionsAppend ==
  ASSUME ConnectionsTypeOK, ConnectionsNext
  PROVE  OutboxGrows
<1>1. outbox \in Seq(Event)
  BY DEF ConnectionsTypeOK
<1>2. outbox' = outbox \/ \E k, i, u, v : Publish(k, i, u, v)
  BY DEF ConnectionsNext, Request, RequestBack, ReadRow, Accept, Reject, Fail
<1>3. ASSUME NEW e, outbox' = Append(outbox, e)
      PROVE  OutboxGrows
  <2>1. ASSUME NEW n \in DOMAIN outbox
        PROVE  n \in DOMAIN outbox' /\ outbox'[n] = outbox[n]
    BY <1>1, <1>3
  <2>. QED
    BY <2>1 DEF OutboxGrows
<1>. QED
  BY <1>2, <1>3 DEF Publish, OutboxGrows

LEMMA ConnectionsStepTypes ==
  ASSUME ConnectionsTypeOK, TypesHold, ConnectionsNext, UNCHANGED notifications
  PROVE  TypesHold'
<1>1. OutboxGrows /\ NotesGrow
  BY ConnectionsAppend DEF NotesGrow, notifications, store
<1>2. UNCHANGED <<sent, queue, dropped, notes, counters, doubled, cache, disturbed, job,
                  calls, faults>>
  BY DEF notifications, delivery, store, caching
<1>3. JobsHold'
  <2>1. ASSUME NEW j \in Jobs
        PROVE  JobHolds(j)'
    <3>1. JobHolds(j)
      BY DEF TypesHold, JobsHold
    <3>2. CASE job[j] \in Txs /\ job[j].op = "create"
      <4>1. job[j].n \in DOMAIN outbox' /\ outbox'[job[j].n] = outbox[job[j].n]
        BY <1>1, <3>1, <3>2 DEF JobHolds, OutboxGrows
      <4>. QED
        BY <1>2, <3>1, <3>2, <4>1 DEF JobHolds, Recipient, Told, Looks, Txs
    <3>3. CASE ~(job[j] \in Txs /\ job[j].op = "create")
      BY <1>2, <3>1, <3>3 DEF JobHolds, IsNote
    <3>. QED
      BY <3>2, <3>3
  <2>. QED
    BY <1>2, <2>1 DEF JobsHold, TypesHold
<1>4. NotesHold'
  BY <1>1, <1>2 DEF NotesHold, TypesHold, OutboxGrows, Recipient
<1>5. CountersTyped' /\ RestTyped' /\ DeliveriesHold'
  BY <1>2 DEF CountersTyped, RestTyped, DeliveriesHold, TypesHold, Handling
<1>. QED
  BY <1>3, <1>4, <1>5 DEF TypesHold

-----------------------------------------------------------------------------
(* Every step preserves the types.                                         *)

LEMMA HandleStepTypes ==
  ASSUME ConnectionsTypeOK, TypesHold, NEW j \in Jobs, HandleStep(j), UNCHANGED connections
  PROVE  TypesHold'
<1>1. ASSUME NEW n \in DOMAIN outbox, Receive(j, n) PROVE TypesHold'
  BY <1>1, ReceiveTypes
<1>2. CASE Create(j)
  BY <1>2, CreateFacts
<1>3. CASE Incr(j)
  BY <1>3, IncrTypes
<1>. QED
  BY <1>1, <1>2, <1>3 DEF HandleStep

LEMMA MarkStepTypes ==
  ASSUME TypesHold, NEW j \in Jobs, MarkStep(j), UNCHANGED connections
  PROVE  TypesHold'
<1>1. ASSUME NEW n \in DOMAIN notes, OpenNote(j, n) PROVE TypesHold'
  BY <1>1, OpenNoteTypes
<1>2. CASE BeginMark(j)
  BY <1>2, BeginMarkTypes
<1>3. CASE Mark(j)
  BY <1>3, MarkFacts
<1>4. CASE CheckKey(j)
  BY <1>4, CheckKeyTypes
<1>5. CASE Decr(j)
  BY <1>5, DecrTypes
<1>. QED
  BY <1>1, <1>2, <1>3, <1>4, <1>5 DEF MarkStep

LEMMA CountStepTypes ==
  ASSUME TypesHold, NEW j \in Jobs, CountStep(j), UNCHANGED connections
  PROVE  TypesHold'
<1>1. ASSUME NEW u \in Users, Miss(j, u) PROVE TypesHold'
  BY <1>1, MissTypes
<1>2. CASE LoadCount(j)
  BY <1>2, LoadCountTypes
<1>3. CASE InsertCount(j)
  BY <1>3, InsertCountFacts
<1>4. CASE Fill(j)
  BY <1>4, FillTypes
<1>. QED
  BY <1>1, <1>2, <1>3, <1>4 DEF CountStep

LEMMA AbortStepTypes ==
  ASSUME ConnectionsTypeOK, TypesHold, NEW j \in Jobs, UNCHANGED connections,
         WriteConflict(j) \/ DatabaseFails(j)
  PROVE  TypesHold'
<1>1. faults' \in 0..MaxFaults
  BY NotificationsAssumption DEF WriteConflict, DatabaseFails, TypesHold, RestTyped
<1>. QED
  BY <1>1, AbortTypes DEF WriteConflict, DatabaseFails

LEMMA NotificationsStepTypes ==
  ASSUME ConnectionsTypeOK, TypesHold, NotificationsNext, UNCHANGED connections
  PROVE  TypesHold'
<1>1. ASSUME NEW j \in Jobs, HandleStep(j) PROVE TypesHold'
  BY <1>1, HandleStepTypes
<1>2. ASSUME NEW j \in Jobs, MarkStep(j) PROVE TypesHold'
  BY <1>2, MarkStepTypes
<1>3. ASSUME NEW j \in Jobs, CountStep(j) PROVE TypesHold'
  BY <1>3, CountStepTypes
<1>4. ASSUME NEW j \in Jobs, WriteConflict(j) \/ DatabaseFails(j) PROVE TypesHold'
  BY <1>4, AbortStepTypes
<1>5. ASSUME NEW j \in Jobs, RedisFails(j) PROVE TypesHold'
  BY <1>5, RedisFailsTypes
<1>6. ASSUME NEW u \in Users, Expire(u) PROVE TypesHold'
  BY <1>6, ExpireTypes
<1>7. CASE Crash
  BY <1>7, CrashTypes
<1>. QED
  BY <1>1, <1>2, <1>3, <1>4, <1>5, <1>6, <1>7 DEF NotificationsNext

LEMMA StutterTypes == TypesHold /\ UNCHANGED vars => TypesHold'
BY DEF vars, connections, TypesHold, JobsHold, JobHolds, IsNote, Told, NotesHold, Notes,
       CountersTyped, DeliveriesHold, RestTyped, Handling, Recipient

(* Every step of the module is one of the user service or one of the       *)
(* notification service.                                                   *)
LEMMA StepIsOfOne ==
  ASSUME [Next]_vars
  PROVE  \/ ConnectionsNext /\ UNCHANGED notifications
         \/ NotificationsNext /\ UNCHANGED connections
         \/ UNCHANGED vars
BY DEF Next

LEMMA InvStep == Inv /\ [Next]_vars => Inv'
<1>. SUFFICES ASSUME Inv, [Next]_vars PROVE Inv'
  OBVIOUS
<1>1. IInv /\ TypesHold /\ ConnectionsTypeOK
  BY DEF Inv, IInv
<1>2. [ConnectionsNext]_connections
  BY StepIsOfOne DEF vars
<1>3. IInv'
  BY <1>1, <1>2, StepHolds
<1>4. TypesHold'
  BY <1>1, StepIsOfOne, ConnectionsStepTypes, NotificationsStepTypes, StutterTypes
<1>. QED
  BY <1>3, <1>4 DEF Inv

LEMMA InvInit == Init => Inv
<1>. SUFFICES ASSUME Init PROVE Inv
  OBVIOUS
<1>1. IInv
  BY InitHolds DEF Init
<1>2. JobsHold
  BY NoJobIsNone DEF Init, JobsHold, JobHolds
<1>3. NotesHold
  BY DEF Init, NotesHold
<1>4. CountersTyped
  <2>1. IsFiniteSet({})
    BY FS_EmptySet
  <2>2. Empty \in [{} -> Int]
    BY DEF Empty
  <2>3. Empty \in FiniteCounters
    BY <2>1, <2>2 DEF FiniteCounters
  <2>. QED
    BY <2>3 DEF Init, CountersTyped
<1>5. DeliveriesHold
  <2>1. ASSUME NEW n \in 1..MaxEvents
        PROVE  Cardinality(Handling(n)) = 0
    <3>1. Handling(n) = {}
      BY DEF Init, Handling
    <3>. QED
      BY <3>1, FS_EmptySet
  <2>. QED
    BY <2>1, NotificationsAssumption DEF Init, DeliveriesHold
<1>6. RestTyped
  <2>1. NoKey \in Caches
    BY DEF NoKey, Caches
  <2>. QED
    BY <2>1, NotificationsAssumption DEF Init, RestTyped
<1>. QED
  BY <1>1, <1>2, <1>3, <1>4, <1>5, <1>6 DEF Inv, TypesHold

LEMMA InvAlways == Spec => []Inv
BY InvInit, InvStep, PTL DEF Spec

LEMMA InvTypes == Inv => TypeOK
<1>. SUFFICES ASSUME Inv PROVE TypeOK
  OBVIOUS
<1>1. ConnectionsTypeOK /\ TypesHold
  BY DEF Inv, IInv
<1>2. \A u \in Users : DOMAIN counters[u] \subseteq Nat /\ Range(counters[u]) \subseteq Int
  BY <1>1, CounterFacts DEF TypesHold, Range
<1>3. queue \in [1..MaxEvents -> 0..MaxRelays]
  <2>1. ASSUME NEW n \in 1..MaxEvents
        PROVE  queue[n] \in 0..MaxRelays
    <3>1. /\ queue[n] + Cardinality(Handling(n)) <= sent[n]
          /\ queue[n] \in Nat /\ sent[n] \in 0..MaxRelays
      BY <1>1 DEF TypesHold, DeliveriesHold
    <3>. QED
      BY <3>1, HandlingFinite, NotificationsAssumption
  <2>. QED
    BY <1>1, <2>1 DEF TypesHold, DeliveriesHold
<1>4. \A j \in Jobs : job[j].stage \in {"none", "look", "tx", "cache", "decr",
                                        "load", "insert", "fill"}
  BY <1>1 DEF TypesHold, JobsHold, AnyJob, NoJob, Looks, Txs, Loads, Fills
<1>5. notes \in Seq([event : 1..MaxEvents, recipient : Users, isRead : BOOLEAN])
  BY <1>1 DEF TypesHold, NotesHold, Notes
<1>6. \A u \in Users : cache[u] \in [set : BOOLEAN, ttl : BOOLEAN, count : Int]
  BY <1>1 DEF TypesHold, RestTyped, Caches
<1>. QED
  BY <1>1, <1>2, <1>3, <1>4, <1>5, <1>6 DEF TypeOK, TypesHold, DeliveriesHold, RestTyped

(* Collections, deliveries, cache and jobs of the notification service     *)
(* keep their types, and so do the connections that feed it: whatever      *)
(* events, calls, copies and faults there are.                             *)
THEOREM NotificationsTyped == Spec => []TypeOK
BY InvAlways, InvTypes, PTL

-----------------------------------------------------------------------------
(* The counter documents add up.                                           *)

LEMMA StoreCases ==
  ASSUME NotificationsNext
  PROVE  \/ \E j \in Jobs : Create(j) \/ Mark(j) \/ InsertCount(j)
         \/ UNCHANGED store
BY DEF NotificationsNext, HandleStep, MarkStep, CountStep, Receive, Incr, OpenNote,
       BeginMark, CheckKey, Decr, Miss, LoadCount, Fill, WriteConflict, DatabaseFails,
       Abort, RedisFails, Expire, Crash

LEMMA UnreadFinite ==
  ASSUME NotesHold, NEW u
  PROVE  IsFiniteSet(Unread(u)) /\ Cardinality(Unread(u)) \in Nat
<1>1. Len(notes) \in Nat /\ DOMAIN notes = 1..Len(notes)
  BY DEF NotesHold
<1>2. IsFiniteSet(DOMAIN notes)
  BY <1>1, FS_Interval
<1>3. IsFiniteSet(Unread(u))
  BY <1>2, FS_Subset DEF Unread
<1>. QED
  BY <1>3, FS_CardinalityType

LEMMA SumInt ==
  ASSUME CountersTyped, NEW u \in Users
  PROVE  SumFunction(counters[u]) \in Int
<1>1. \A r \in DOMAIN counters[u] : counters[u][r] \in Int
  BY CounterFacts
<1>. QED
  BY <1>1, CounterFacts, SumFunctionInt

LEMMA CreateAddsUp ==
  ASSUME ConnectionsTypeOK, TypesHold, CounterAddsUp, NEW j \in Jobs, Create(j),
         UNCHANGED connections
  PROVE  CounterAddsUp'
<1>. PICK n, u, rid : n = job[j].n /\ u = job[j].user /\ rid = job[j].rid
  OBVIOUS
<1>1. /\ notes' = Append(notes, [event |-> n, recipient |-> u, isRead |-> FALSE])
      /\ Add(u, rid, 1) /\ job[j] \in Txs
  BY CreateFacts
<1>2. u \in Users /\ rid \in Nat \ {0}
  BY <1>1 DEF Txs
<1>3. /\ \A v \in Users \ {u} : counters'[v] = counters[v]
      /\ SumFunction(counters'[u]) = SumFunction(counters[u]) + 1
  BY <1>1, <1>2, AddFacts DEF TypesHold
<1>4. notes \in Seq(Notes)
  BY DEF TypesHold, NotesHold
<1>. PICK m : m = Len(notes) + 1
  OBVIOUS
<1>5. /\ DOMAIN notes' = DOMAIN notes \cup {m} /\ m \notin DOMAIN notes
      /\ notes'[m].recipient = u /\ ~notes'[m].isRead
      /\ \A i \in DOMAIN notes : notes'[i] = notes[i]
  BY <1>1, <1>4
<1>6. Unread(u)' = Unread(u) \cup {m} /\ m \notin Unread(u)
  BY <1>5 DEF Unread
<1>7. \A v \in Users \ {u} : Unread(v)' = Unread(v)
  BY <1>5 DEF Unread
<1>8. Cardinality(Unread(u)') = Cardinality(Unread(u)) + 1
  BY <1>6, UnreadFinite, FS_AddElement DEF TypesHold
<1>9. doubled' = doubled /\ doubled \in [Users -> Nat]
  BY DEF Create, TypesHold, RestTyped
<1>10. SumFunction(counters[u]) = Cardinality(Unread(u)) - doubled[u]
  BY <1>2 DEF CounterAddsUp
<1>11. Cardinality(Unread(u)) \in Nat /\ doubled[u] \in Nat
  BY <1>2, <1>9, UnreadFinite DEF TypesHold
<1>12. SumFunction(counters'[u]) = Cardinality(Unread(u)') - doubled'[u]
  BY <1>3, <1>8, <1>9, <1>10, <1>11
<1>13. ASSUME NEW v \in Users, v # u
       PROVE  SumFunction(counters'[v]) = Cardinality(Unread(v)') - doubled'[v]
  <2>1. SumFunction(counters[v]) = Cardinality(Unread(v)) - doubled[v]
    BY DEF CounterAddsUp
  <2>. QED
    BY <1>3, <1>7, <1>9, <1>13, <2>1
<1>. QED
  BY <1>12, <1>13 DEF CounterAddsUp

LEMMA MarkAddsUp ==
  ASSUME TypesHold, CounterAddsUp, NEW j \in Jobs, Mark(j), UNCHANGED connections
  PROVE  CounterAddsUp'
<1>. PICK n, u, rid : n = job[j].n /\ u = job[j].user /\ rid = job[j].rid
  OBVIOUS
<1>1. /\ notes' = [notes EXCEPT ![n].isRead = TRUE]
      /\ n \in DOMAIN notes /\ notes[n].recipient = u
      /\ Add(u, rid, -1) /\ job[j] \in Txs
  BY MarkFacts
<1>2. u \in Users /\ rid \in Nat \ {0} /\ -1 \in Int
  BY <1>1 DEF Txs
<1>3. /\ \A v \in Users \ {u} : counters'[v] = counters[v]
      /\ SumFunction(counters'[u]) = SumFunction(counters[u]) + (-1)
  BY <1>1, <1>2, AddFacts DEF TypesHold
<1>4. notes[n] \in Notes
  BY <1>1, NoteFacts DEF TypesHold
<1>5. /\ DOMAIN notes' = DOMAIN notes
      /\ notes'[n].recipient = u /\ notes'[n].isRead
      /\ \A i \in DOMAIN notes \ {n} : notes'[i] = notes[i]
  BY <1>1, <1>4 DEF Notes
<1>6. Unread(u)' = Unread(u) \ {n}
  BY <1>1, <1>5 DEF Unread
<1>7. \A v \in Users \ {u} : Unread(v)' = Unread(v)
  BY <1>1, <1>5 DEF Unread
<1>8. n \in Unread(u) <=> ~notes[n].isRead
  BY <1>1 DEF Unread
<1>9. Cardinality(Unread(u)') = IF notes[n].isRead THEN Cardinality(Unread(u))
                                ELSE Cardinality(Unread(u)) - 1
  <2>1. IsFiniteSet(Unread(u))
    BY UnreadFinite DEF TypesHold
  <2>2. Cardinality(Unread(u) \ {n}) = IF n \in Unread(u) THEN Cardinality(Unread(u)) - 1
                                       ELSE Cardinality(Unread(u))
    BY <2>1, FS_RemoveElement
  <2>. QED
    BY <1>6, <1>8, <2>2
<1>10. /\ doubled' = [doubled EXCEPT ![u] = IF notes[n].isRead THEN @ + 1 ELSE @]
       /\ doubled \in [Users -> Nat]
  BY DEF Mark, TypesHold, RestTyped
<1>11. SumFunction(counters[u]) = Cardinality(Unread(u)) - doubled[u]
  BY <1>2 DEF CounterAddsUp
<1>12. Cardinality(Unread(u)) \in Nat /\ doubled[u] \in Nat
  BY <1>2, <1>10, UnreadFinite DEF TypesHold
<1>13. doubled'[u] = IF notes[n].isRead THEN doubled[u] + 1 ELSE doubled[u]
  BY <1>2, <1>10
<1>14. SumFunction(counters'[u]) = Cardinality(Unread(u)') - doubled'[u]
  BY <1>3, <1>9, <1>11, <1>12, <1>13
<1>15. ASSUME NEW v \in Users, v # u
       PROVE  SumFunction(counters'[v]) = Cardinality(Unread(v)') - doubled'[v]
  <2>1. SumFunction(counters[v]) = Cardinality(Unread(v)) - doubled[v]
    BY DEF CounterAddsUp
  <2>2. doubled'[v] = doubled[v]
    BY <1>10, <1>15
  <2>. QED
    BY <1>3, <1>7, <1>15, <2>1, <2>2
<1>. QED
  BY <1>14, <1>15 DEF CounterAddsUp

LEMMA InsertAddsUp ==
  ASSUME TypesHold, CounterAddsUp, NEW j \in Jobs, InsertCount(j), UNCHANGED connections
  PROVE  CounterAddsUp'
<1>. PICK u : u = job[j].user
  OBVIOUS
<1>1. /\ SumFunction(counters'[u]) = SumFunction(counters[u])
      /\ \A v \in Users \ {u} : counters'[v] = counters[v]
  BY InsertCountFacts
<1>2. UNCHANGED <<notes, doubled>>
  BY DEF InsertCount
<1>3. ASSUME NEW v \in Users
      PROVE  SumFunction(counters'[v]) = Cardinality(Unread(v)') - doubled'[v]
  <2>1. SumFunction(counters[v]) = Cardinality(Unread(v)) - doubled[v]
    BY DEF CounterAddsUp
  <2>2. SumFunction(counters'[v]) = SumFunction(counters[v])
    BY <1>1
  <2>3. Unread(v)' = Unread(v)
    BY <1>2 DEF Unread
  <2>. QED
    BY <1>2, <2>1, <2>2, <2>3
<1>. QED
  BY <1>3 DEF CounterAddsUp

LEMMA AddsUpStep == Inv /\ CounterAddsUp /\ [Next]_vars => CounterAddsUp'
<1>. SUFFICES ASSUME Inv, CounterAddsUp, [Next]_vars PROVE CounterAddsUp'
  OBVIOUS
<1>1. ConnectionsTypeOK /\ TypesHold
  BY DEF Inv, IInv
<1>2. CASE UNCHANGED store
  BY <1>2 DEF store, CounterAddsUp, Unread
<1>3. CASE NotificationsNext /\ UNCHANGED connections
  BY <1>1, <1>2, <1>3, StoreCases, CreateAddsUp, MarkAddsUp, InsertAddsUp
<1>. QED
  BY <1>2, <1>3, StepIsOfOne DEF notifications, store, vars

(* The counter documents of a user add up to the unread notifications,     *)
(* less one for every notification that was marked again: creations and    *)
(* reads commit with their count, whatever they race with                  *)
(* (NotificationService.createNotification, markRead).                     *)
THEOREM CountersAddUp == Spec => []CounterAddsUp
<1>1. Init => CounterAddsUp
  <2>. SUFFICES ASSUME Init, NEW u \in Users
                PROVE  SumFunction(counters[u]) = Cardinality(Unread(u)) - doubled[u]
    BY DEF CounterAddsUp
  <2>1. counters[u] = Empty /\ doubled[u] = 0 /\ Unread(u) = {}
    BY DEF Init, Unread
  <2>2. DOMAIN Empty = {}
    BY DEF Empty
  <2>3. SumFunction(counters[u]) = 0
    BY <2>1, <2>2, SumFunctionEmpty
  <2>. QED
    BY <2>1, <2>3, FS_EmptySet
<1>. QED
  BY <1>1, InvAlways, AddsUpStep, PTL DEF Spec

-----------------------------------------------------------------------------
(* Every event that was delivered is told, at work, waiting or dropped.    *)

Finished(n) == sent[n] > 0 /\ queue[n] = 0 /\ Handling(n) = {}

(* An event the outbox does not have yet has not been delivered, so this   *)
(* may speak of all.                                                       *)
EventsTold == \A n \in 1..MaxEvents : Finished(n) => Told(n) \/ n \in dropped

LEMMA ToldStays ==
  ASSUME NotesGrow, NEW n, Told(n)
  PROVE  Told(n)'
BY DEF NotesGrow, Told

(* Only j may finish, and if it finishes an event then with a reason.      *)
LEMMA FinishTold ==
  ASSUME TypesHold, TypesHold', EventsTold, NotesGrow, dropped \subseteq dropped',
         UNCHANGED <<sent, queue>>, NEW j \in Jobs, StepOf(j),
         \A n \in 1..MaxEvents :
           j \in Handling(n) => j \in Handling(n)' \/ Told(n)' \/ n \in dropped'
  PROVE  EventsTold'
<1>. SUFFICES ASSUME NEW n \in 1..MaxEvents, Finished(n)' PROVE Told(n)' \/ n \in dropped'
  BY DEF EventsTold
<1>1. CASE Finished(n)
  <2>1. Told(n) \/ n \in dropped
    BY <1>1 DEF EventsTold
  <2>. QED
    BY <2>1, ToldStays
<1>2. CASE ~Finished(n)
  <2>1. sent[n] > 0 /\ queue[n] = 0 /\ Handling(n)' = {}
    BY DEF Finished
  <2>2. PICK k : k \in Handling(n)
    BY <1>2, <2>1 DEF Finished
  <2>3. /\ k \in Jobs /\ job[k] \in Txs /\ job[k].op = "create" /\ job[k].n = n
    BY <2>2, HandlingTxs DEF TypesHold
  <2>4. ASSUME k # j PROVE FALSE
    <3>1. Soft(k)
      BY <2>3, <2>4 DEF StepOf
    <3>2. job'[k] \in Txs /\ job'[k].op = "create" /\ job'[k].n = n
      BY <2>3, <3>1, SoftFacts DEF TypesHold
    <3>3. k \in Handling(n)'
      BY <2>3, <3>2, NoJobIsNone DEF Handling
    <3>. QED
      BY <2>1, <3>3
  <2>. QED
    BY <2>1, <2>2, <2>4
<1>. QED
  BY <1>1, <1>2

LEMMA ReceiveTold ==
  ASSUME ConnectionsTypeOK, TypesHold, EventsTold, NEW j \in Jobs,
         NEW n \in DOMAIN outbox, Receive(j, n), UNCHANGED connections
  PROVE  EventsTold'
<1>. SUFFICES ASSUME NEW m \in 1..MaxEvents, Finished(m)' PROVE Told(m)' \/ m \in dropped'
  BY DEF EventsTold
<1>. PICK u : u = Recipient(outbox[n])
  OBVIOUS
<1>1. n \in 1..MaxEvents /\ n \in Nat /\ u \in Users
  BY OutboxFacts
<1>2. /\ job'[j] = Tx("create", n, u) /\ job[j] = NoJob
      /\ \A k \in Jobs \ {j} : job'[k] = job[k]
  BY DEF Receive, Begin, Set, TypesHold, JobsHold
<1>3. job'[j] \in Txs /\ job'[j].op = "create" /\ job'[j].n = n
  BY <1>1, <1>2, TxType DEF TypesHold
<1>4. j \in Handling(n)'
  BY <1>3, NoJobIsNone DEF Handling
<1>5. m # n
  BY <1>4 DEF Finished
<1>6. Handling(m)' = Handling(m)
  BY <1>2, <1>3, <1>5, NoJobIsNone DEF Handling
<1>7. sent'[m] = sent[m] /\ queue'[m] = queue[m]
  BY <1>1, <1>5 DEF Receive, TypesHold, DeliveriesHold
<1>8. Finished(m)
  BY <1>6, <1>7 DEF Finished
<1>9. Told(m) \/ m \in dropped
  BY <1>8 DEF EventsTold
<1>. QED
  BY <1>9 DEF Receive, store, Told

LEMMA HandledTold ==
  ASSUME TypesHold, NEW j \in Jobs, NEW n \in 1..MaxEvents, j \in Handling(n)
  PROVE  /\ job[j] \in Txs /\ job[j].op = "create" /\ job[j].n = n
         /\ job[j].stage \in {"tx", "cache"} /\ (job[j].stage = "cache" => Told(n))
<1>1. job[j] \in Txs /\ job[j].op = "create" /\ job[j].n = n
  BY HandlingTxs DEF TypesHold
<1>2. JobHolds(j)
  BY DEF TypesHold, JobsHold
<1>. QED
  BY <1>1, <1>2 DEF JobHolds, Txs

LEMMA CreateTold ==
  ASSUME ConnectionsTypeOK, TypesHold, TypesHold', EventsTold, NEW j \in Jobs, Create(j),
         UNCHANGED connections
  PROVE  EventsTold'
<1>1. /\ NotesGrow /\ StepOf(j) /\ job[j] \in Txs
      /\ job'[j] = [job[j] EXCEPT !.stage = "cache"]
  BY CreateFacts
<1>2. UNCHANGED <<sent, queue, dropped>>
  BY DEF Create, delivery
<1>3. ASSUME NEW n \in 1..MaxEvents, j \in Handling(n)
      PROVE  j \in Handling(n)'
  <2>1. job[j].op = "create" /\ job[j].n = n
    BY <1>3, HandledTold
  <2>2. job'[j].op = "create" /\ job'[j].n = n /\ job'[j] \in Txs
    BY <1>1, <2>1 DEF Txs
  <2>. QED
    BY <2>2, NoJobIsNone DEF Handling
<1>. QED
  BY <1>1, <1>2, <1>3, FinishTold

(* A handler that ends after its commit has told its event.                *)
LEMMA EndTold ==
  ASSUME TypesHold, TypesHold', EventsTold, NEW j \in Jobs, StepOf(j),
         UNCHANGED <<sent, queue, notes, dropped>>, job[j].stage # "tx"
  PROVE  EventsTold'
<1>1. NotesGrow
  BY DEF NotesGrow
<1>2. ASSUME NEW n \in 1..MaxEvents, j \in Handling(n)
      PROVE  Told(n)'
  BY <1>1, <1>2, HandledTold, ToldStays
<1>. QED
  BY <1>1, <1>2, FinishTold

LEMMA AbortTold ==
  ASSUME TypesHold, TypesHold', EventsTold, NEW j \in Jobs, Abort(j)
  PROVE  EventsTold'
<1>1. StepOf(j)
  BY SetStep DEF Abort, End, TypesHold
<1>2. /\ UNCHANGED <<sent, queue, notes>> /\ dropped \subseteq dropped'
      /\ job[j].op = "create" => job[j].n \in dropped'
  BY DEF Abort, store
<1>3. NotesGrow
  BY <1>2 DEF NotesGrow
<1>4. ASSUME NEW n \in 1..MaxEvents, j \in Handling(n)
      PROVE  n \in dropped'
  BY <1>2, <1>4, HandledTold
<1>. QED
  BY <1>1, <1>2, <1>3, <1>4, FinishTold

LEMMA CrashTold ==
  ASSUME TypesHold, EventsTold, Crash
  PROVE  EventsTold'
<1>. SUFFICES ASSUME NEW n \in 1..MaxEvents, Finished(n)' PROVE Told(n)' \/ n \in dropped'
  BY DEF EventsTold
<1>1. queue' = [m \in 1..MaxEvents |-> queue[m] + Cardinality(Handling(m))] /\ sent' = sent
  BY DEF Crash, Returned, TypesHold, DeliveriesHold
<1>2. queue[n] \in Nat /\ queue'[n] = 0 /\ queue'[n] = queue[n] + Cardinality(Handling(n))
  BY <1>1 DEF Finished, TypesHold, DeliveriesHold
<1>3. queue[n] = 0 /\ Cardinality(Handling(n)) = 0
  BY <1>2, HandlingFinite
<1>4. Handling(n) = {}
  BY <1>3, HandlingFinite, FS_EmptySet
<1>5. Finished(n)
  BY <1>1, <1>3, <1>4 DEF Finished
<1>6. Told(n) \/ n \in dropped
  BY <1>5 DEF EventsTold
<1>. QED
  BY <1>6 DEF Crash, store, Told

(* A job that handles no event finishes none.                              *)
LEMMA OtherTold ==
  ASSUME TypesHold, TypesHold', EventsTold, NotesGrow,
         UNCHANGED <<sent, queue, dropped>>, NEW j \in Jobs, StepOf(j),
         job[j] = NoJob \/ job[j].op # "create"
  PROVE  EventsTold'
<1>1. \A n : j \notin Handling(n)
  BY DEF Handling
<1>. QED
  BY <1>1, FinishTold

LEMMA HandleStepTold ==
  ASSUME ConnectionsTypeOK, TypesHold, TypesHold', EventsTold, NEW j \in Jobs,
         HandleStep(j), UNCHANGED connections
  PROVE  EventsTold'
<1>1. ASSUME NEW n \in DOMAIN outbox, Receive(j, n) PROVE EventsTold'
  BY <1>1, ReceiveTold
<1>2. CASE Create(j)
  BY <1>2, CreateTold
<1>3. CASE Incr(j)
  <2>1. StepOf(j)
    BY <1>3, SpoilStep DEF Incr, TypesHold
  <2>2. UNCHANGED <<sent, queue, notes, dropped>> /\ job[j].stage # "tx"
    BY <1>3 DEF Incr, Is, delivery, store
  <2>. QED
    BY <2>1, <2>2, EndTold
<1>. QED
  BY <1>1, <1>2, <1>3 DEF HandleStep

LEMMA MarkStepTold ==
  ASSUME TypesHold, TypesHold', EventsTold, NEW j \in Jobs, MarkStep(j),
         UNCHANGED connections
  PROVE  EventsTold'
<1>1. UNCHANGED <<sent, queue, dropped>>
  BY DEF MarkStep, OpenNote, BeginMark, Mark, CheckKey, Decr, delivery
<1>2. job[j] = NoJob \/ job[j].op # "create"
  BY DEF MarkStep, OpenNote, BeginMark, Mark, CheckKey, Decr, Is
<1>3. CASE Mark(j)
  BY <1>1, <1>2, <1>3, MarkFacts, OtherTold
<1>4. CASE ~Mark(j)
  <2>1. NotesGrow
    BY <1>4 DEF MarkStep, OpenNote, BeginMark, CheckKey, Decr, store, NotesGrow
  <2>2. StepOf(j)
    <3>1. ASSUME NEW n \in DOMAIN notes, OpenNote(j, n) PROVE StepOf(j)
      BY <3>1, SetStep DEF OpenNote, TypesHold
    <3>2. CASE BeginMark(j)
      BY <3>2, SetStep DEF BeginMark, Begin, TypesHold
    <3>3. CASE CheckKey(j)
      <4>1. Spoil(j) \/ Goto(j, "decr")
        BY <3>3 DEF CheckKey
      <4>2. CASE Spoil(j)
        BY <4>2, SpoilStep DEF TypesHold
      <4>3. CASE Goto(j, "decr")
        BY <4>3 DEF Goto, TypesHold, JobsHold, StepOf, Soft
      <4>. QED
        BY <4>1, <4>2, <4>3
    <3>4. CASE Decr(j)
      BY <3>4, SpoilStep DEF Decr, TypesHold
    <3>. QED
      BY <1>4, <3>1, <3>2, <3>3, <3>4 DEF MarkStep
  <2>. QED
    BY <1>1, <1>2, <2>1, <2>2, OtherTold
<1>. QED
  BY <1>3, <1>4

LEMMA CountStepTold ==
  ASSUME TypesHold, TypesHold', EventsTold, NEW j \in Jobs, CountStep(j),
         UNCHANGED connections
  PROVE  EventsTold'
<1>1. UNCHANGED <<sent, queue, dropped, notes>>
  BY DEF CountStep, Miss, LoadCount, InsertCount, Fill, delivery, store
<1>2. job[j] = NoJob \/ job[j].op # "create"
  BY DEF CountStep, Miss, LoadCount, InsertCount, Fill, Is
<1>3. NotesGrow
  BY <1>1 DEF NotesGrow
<1>4. StepOf(j)
  <2>1. ASSUME NEW u \in Users, Miss(j, u) PROVE StepOf(j)
    BY <2>1, SetStep DEF Miss, TypesHold
  <2>2. CASE LoadCount(j)
    BY <2>2, SetStep DEF LoadCount, TypesHold
  <2>3. CASE InsertCount(j)
    BY <2>3, InsertCountFacts
  <2>4. CASE Fill(j)
    BY <2>4, SetStep DEF Fill, End, TypesHold
  <2>. QED
    BY <2>1, <2>2, <2>3, <2>4 DEF CountStep
<1>. QED
  BY <1>1, <1>2, <1>3, <1>4, OtherTold

LEMMA ToldStep ==
  ASSUME ConnectionsTypeOK, TypesHold, TypesHold', EventsTold, NotificationsNext,
         UNCHANGED connections
  PROVE  EventsTold'
<1>1. ASSUME NEW j \in Jobs, HandleStep(j) PROVE EventsTold'
  BY <1>1, HandleStepTold
<1>2. ASSUME NEW j \in Jobs, MarkStep(j) PROVE EventsTold'
  BY <1>2, MarkStepTold
<1>3. ASSUME NEW j \in Jobs, CountStep(j) PROVE EventsTold'
  BY <1>3, CountStepTold
<1>4. ASSUME NEW j \in Jobs, WriteConflict(j) \/ DatabaseFails(j) PROVE EventsTold'
  BY <1>4, AbortTold DEF WriteConflict, DatabaseFails
<1>5. ASSUME NEW j \in Jobs, RedisFails(j) PROVE EventsTold'
  <2>1. StepOf(j)
    BY <1>5, SetStep DEF RedisFails, End, TypesHold
  <2>2. UNCHANGED <<sent, queue, notes, dropped>> /\ job[j].stage # "tx"
    BY <1>5 DEF RedisFails, delivery, store
  <2>. QED
    BY <2>1, <2>2, EndTold
<1>6. ASSUME NEW u \in Users, Expire(u) PROVE EventsTold'
  BY <1>6 DEF Expire, delivery, store, EventsTold, Finished, Told, Handling
<1>7. CASE Crash
  BY <1>7, CrashTold
<1>. QED
  BY <1>1, <1>2, <1>3, <1>4, <1>5, <1>6, <1>7 DEF NotificationsNext

LEMMA EventsTellEveryEvent == Inv /\ EventsTold => EveryEventTold
<1>. SUFFICES ASSUME Inv, EventsTold PROVE EveryEventTold
  OBVIOUS
<1>1. ConnectionsTypeOK /\ NotesHold
  BY DEF Inv, IInv, TypesHold
<1>2. \A n \in DOMAIN outbox : Finished(n) => Told(n) \/ n \in dropped
  BY <1>1, OutboxFacts DEF EventsTold
<1>3. \A i \in DOMAIN notes : notes[i].recipient = Recipient(outbox[notes[i].event])
  BY <1>1 DEF NotesHold
<1>. QED
  BY <1>2, <1>3 DEF EveryEventTold, Finished, Recipient

(* An event of a connection that was delivered has told the user that did  *)
(* not act, unless it is being handled or waits to be handled again, or    *)
(* the database failed and the event was nacked: no interleaving, copy or  *)
(* crash loses it (RabbitMQEventConsumer, the handlers of the connection   *)
(* events).                                                                *)
THEOREM EventsAlwaysTold == Spec => []EveryEventTold
<1>1. Init => EventsTold
  BY DEF Init, EventsTold, Finished
<1>2. Inv /\ Inv' /\ EventsTold /\ [Next]_vars => EventsTold'
  <2>. SUFFICES ASSUME Inv, Inv', EventsTold, [Next]_vars PROVE EventsTold'
    OBVIOUS
  <2>1. ConnectionsTypeOK /\ TypesHold /\ TypesHold'
    BY DEF Inv, IInv
  <2>2. CASE UNCHANGED notifications
    BY <2>2 DEF notifications, delivery, store, EventsTold, Finished, Told, Handling
  <2>3. CASE NotificationsNext /\ UNCHANGED connections
    BY <2>1, <2>3, ToldStep
  <2>4. CASE UNCHANGED vars
    BY <2>4 DEF vars, EventsTold, Finished, Told, Handling
  <2>. QED
    BY <2>2, <2>3, <2>4, StepIsOfOne
<1>. QED
  BY <1>1, <1>2, InvAlways, EventsTellEveryEvent, PTL DEF Spec

-----------------------------------------------------------------------------
(* The cached counter.                                                     *)

Adding(u) == {k \in Trailing(u) : job[k].op = "create"}
Taking(u) == {k \in Trailing(u) : job[k].op = "mark"}

(* A key that can be relied on shows the count of the database once the    *)
(* commits that trail behind have moved it; without a key it is at zero.   *)
KeyHolds(u) ==
  /\ ~cache[u].set => cache[u].count = 0
  /\ u \notin disturbed /\ cache[u].set =>
       cache[u].count + Cardinality(Adding(u)) = Count(u) + Cardinality(Taking(u))

(* A count that is still clean is the database's, and nothing trails it.   *)
FillsFresh ==
  \A k \in Jobs, u \in Users :
    job[k] \in Fills /\ job[k].user = u /\ job[k].clean
      => job[k].count = Count(u) /\ Trailing(u) = {}

CacheHolds == (\A u \in Users : KeyHolds(u)) /\ FillsFresh

LEMMA TrailingFinite ==
  ASSUME NEW u
  PROVE  /\ IsFiniteSet(Trailing(u)) /\ IsFiniteSet(Adding(u)) /\ IsFiniteSet(Taking(u))
         /\ Cardinality(Adding(u)) \in Nat /\ Cardinality(Taking(u)) \in Nat
<1>1. Trailing(u) \subseteq Jobs /\ Adding(u) \subseteq Jobs /\ Taking(u) \subseteq Jobs
  BY DEF Trailing, Busy, Adding, Taking
<1>2. IsFiniteSet(Trailing(u)) /\ IsFiniteSet(Adding(u)) /\ IsFiniteSet(Taking(u))
  BY <1>1, NotificationsAssumption, FS_Subset
<1>. QED
  BY <1>2, FS_CardinalityType

(* At a step of j the other jobs trail as before.                          *)
LEMMA OthersTrail ==
  ASSUME JobsHold, JobsHold', NEW j \in Jobs, StepOf(j), NEW u
  PROVE  /\ Trailing(u)' \ {j} = Trailing(u) \ {j}
         /\ Adding(u)' \ {j} = Adding(u) \ {j}
         /\ Taking(u)' \ {j} = Taking(u) \ {j}
<1>1. Trailing(u) = {k \in Jobs : job[k] \in Txs /\ job[k].stage \in {"cache", "decr"}
                                    /\ job[k].user = u}
  BY TrailingTxs
<1>2. Trailing(u)' = {k \in Jobs : job'[k] \in Txs /\ job'[k].stage \in {"cache", "decr"}
                                     /\ job'[k].user = u}
  <2>1. \A k \in Jobs : job'[k] # NoJob /\ job'[k].stage \in {"cache", "decr"}
                          <=> job'[k] \in Txs /\ job'[k].stage \in {"cache", "decr"}
    BY DEF JobsHold, AnyJob, NoJob, Looks, Txs, Loads, Fills
  <2>. QED
    BY <2>1 DEF Trailing, Busy
<1>3. ASSUME NEW k \in Jobs, k # j
      PROVE  /\ k \in Trailing(u)' <=> k \in Trailing(u)
             /\ k \in Trailing(u) => job'[k].op = job[k].op
  <2>1. Soft(k)
    BY <1>3 DEF StepOf
  <2>. QED
    BY <1>1, <1>2, <2>1, SoftFacts
<1>. QED
  BY <1>1, <1>2, <1>3 DEF Adding, Taking

(* A user whose key, count and trail a step leaves alone.                  *)
LEMMA KeySame ==
  ASSUME JobsHold, JobsHold', NEW j \in Jobs, StepOf(j), NEW u \in Users, KeyHolds(u),
         j \notin Trailing(u), j \notin Trailing(u)',
         cache'[u] = cache[u], Count(u)' = Count(u), u \in disturbed => u \in disturbed'
  PROVE  KeyHolds(u)'
<1>1. /\ j \notin Adding(u) /\ j \notin Taking(u)
      /\ j \notin Adding(u)' /\ j \notin Taking(u)'
  BY DEF Adding, Taking
<1>2. Adding(u)' = Adding(u) /\ Taking(u)' = Taking(u)
  BY <1>1, OthersTrail
<1>. QED
  BY <1>2 DEF KeyHolds

LEMMA FillsSame ==
  ASSUME JobsHold, JobsHold', FillsFresh, NEW j \in Jobs, StepOf(j),
         \A u \in Users : job'[j] \in Fills /\ job'[j].user = u /\ job'[j].clean
                            => job'[j].count = Count(u)' /\ Trailing(u)' = {},
         \A k \in Jobs \ {j}, u \in Users :
           job[k] \in Fills /\ job[k].user = u /\ job'[k].clean
             => Count(u)' = Count(u) /\ j \notin Trailing(u)'
  PROVE  FillsFresh'
<1>1. ASSUME NEW k \in Jobs, NEW u \in Users, k # j,
             job'[k] \in Fills, job'[k].user = u, job'[k].clean
      PROVE  job'[k].count = Count(u)' /\ Trailing(u)' = {}
  <2>1. Soft(k)
    BY <1>1 DEF StepOf
  <2>2. job[k] \in Fills /\ job[k].user = u /\ job[k].clean /\ job'[k].count = job[k].count
    BY <1>1, <2>1, SoftFacts
  <2>3. job[k].count = Count(u) /\ Trailing(u) = {}
    BY <2>2 DEF FillsFresh
  <2>4. Count(u)' = Count(u) /\ j \notin Trailing(u)'
    BY <1>1, <2>2
  <2>5. Trailing(u)' = {}
    BY <2>3, <2>4, OthersTrail
  <2>. QED
    BY <2>2, <2>3, <2>4, <2>5
<1>. QED
  BY <1>1 DEF FillsFresh

(* Steps that no key, no count and no trail depends on.                    *)
LEMMA QuietCache ==
  ASSUME TypesHold, TypesHold', CacheHolds, NEW j \in Jobs, StepOf(j),
         UNCHANGED <<cache, disturbed>>, \A u \in Users : Count(u)' = Count(u),
         \A u \in Users : j \notin Trailing(u) /\ j \notin Trailing(u)',
         \A u \in Users : job'[j] \in Fills /\ job'[j].user = u /\ job'[j].clean
                            => job'[j].count = Count(u)' /\ Trailing(u)' = {}
  PROVE  CacheHolds'
<1>1. \A u \in Users : KeyHolds(u)'
  BY KeySame DEF TypesHold, CacheHolds
<1>2. FillsFresh'
  BY FillsSame DEF TypesHold, CacheHolds
<1>. QED
  BY <1>1, <1>2 DEF CacheHolds

LEMMA SameCount ==
  ASSUME NEW u \in Users, counters'[u] = counters[u]
  PROVE  Count(u)' = Count(u)
BY DEF Count, First

LEMMA NotTrailing ==
  ASSUME NEW j \in Jobs, job[j] = NoJob \/ job[j].stage \notin {"cache", "decr"}
  PROVE  \A u : j \notin Trailing(u)
BY DEF Trailing, Busy

LEMMA ReceiveCache ==
  ASSUME ConnectionsTypeOK, TypesHold, TypesHold', CacheHolds, NEW j \in Jobs,
         NEW n \in DOMAIN outbox, Receive(j, n)
  PROVE  CacheHolds'
<1>. PICK u : u = Recipient(outbox[n])
  OBVIOUS
<1>1. n \in Nat /\ u \in Users
  BY OutboxFacts
<1>2. StepOf(j) /\ job'[j] = Tx("create", n, u) /\ job[j] = NoJob
  BY SetStep DEF Receive, Begin, TypesHold
<1>3. job'[j] \in Txs /\ job'[j].stage = "tx"
  BY <1>1, <1>2, TxType DEF TypesHold
<1>4. job'[j] \notin Fills /\ \A v : j \notin Trailing(v) /\ j \notin Trailing(v)'
  BY <1>2, <1>3 DEF Txs, Fills, Trailing, Busy
<1>5. UNCHANGED <<cache, disturbed, counters>>
  BY DEF Receive, store, caching
<1>. QED
  BY <1>2, <1>4, <1>5, QuietCache, SameCount

LEMMA OpenNoteCache ==
  ASSUME TypesHold, TypesHold', CacheHolds, NEW j \in Jobs, NEW n \in DOMAIN notes,
         OpenNote(j, n)
  PROVE  CacheHolds'
<1>1. StepOf(j) /\ job[j] = NoJob
      /\ job'[j] = [stage |-> "look", op |-> "mark", n |-> n, user |-> notes[n].recipient]
  BY SetStep DEF OpenNote, TypesHold
<1>2. job'[j] \notin Fills /\ \A v : j \notin Trailing(v) /\ j \notin Trailing(v)'
  BY <1>1 DEF Fills, Trailing, Busy
<1>3. UNCHANGED <<cache, disturbed, counters>>
  BY DEF OpenNote, store, caching
<1>. QED
  BY <1>1, <1>2, <1>3, QuietCache, SameCount

LEMMA BeginMarkCache ==
  ASSUME TypesHold, TypesHold', CacheHolds, NEW j \in Jobs, BeginMark(j)
  PROVE  CacheHolds'
<1>1. job[j] \in Looks
  BY JobKinds DEF BeginMark, Is, TypesHold, JobsHold
<1>. PICK n, u : n = job[j].n /\ u = job[j].user
  OBVIOUS
<1>2. n \in Nat /\ u \in Users /\ job[j].stage = "look"
  BY <1>1 DEF Looks
<1>3. StepOf(j) /\ job'[j] = Tx("mark", n, u)
  BY SetStep DEF BeginMark, Begin, TypesHold
<1>4. job'[j] \in Txs /\ job'[j].stage = "tx"
  BY <1>2, <1>3, TxType DEF TypesHold
<1>5. job'[j] \notin Fills /\ \A v : j \notin Trailing(v) /\ j \notin Trailing(v)'
  BY <1>2, <1>4 DEF Txs, Fills, Trailing, Busy
<1>6. UNCHANGED <<cache, disturbed, counters>>
  BY DEF BeginMark, store, caching
<1>. QED
  BY <1>3, <1>5, <1>6, QuietCache, SameCount

LEMMA AbortCache ==
  ASSUME TypesHold, TypesHold', CacheHolds, NEW j \in Jobs, job[j].stage = "tx", Abort(j)
  PROVE  CacheHolds'
<1>1. StepOf(j) /\ job'[j] = NoJob
  BY SetStep DEF Abort, End, TypesHold
<1>2. job'[j] \notin Fills /\ \A v : j \notin Trailing(v) /\ j \notin Trailing(v)'
  BY <1>1, NoJobIsNone DEF Trailing, Busy
<1>3. UNCHANGED <<cache, disturbed, counters>>
  BY DEF Abort, store, caching
<1>. QED
  BY <1>1, <1>2, <1>3, QuietCache, SameCount

LEMMA MissCache ==
  ASSUME TypesHold, TypesHold', CacheHolds, NEW j \in Jobs, NEW u \in Users, Miss(j, u)
  PROVE  CacheHolds'
<1>1. StepOf(j) /\ job[j] = NoJob /\ job'[j] = [stage |-> "load", op |-> "count", user |-> u]
  BY SetStep DEF Miss, TypesHold
<1>2. job'[j] \notin Fills /\ \A v : j \notin Trailing(v) /\ j \notin Trailing(v)'
  BY <1>1 DEF Fills, Trailing, Busy
<1>3. UNCHANGED <<cache, disturbed, counters>>
  BY DEF Miss, store, caching
<1>. QED
  BY <1>1, <1>2, <1>3, QuietCache, SameCount

LEMMA LoadCountCache ==
  ASSUME TypesHold, TypesHold', CacheHolds, NEW j \in Jobs, LoadCount(j)
  PROVE  CacheHolds'
<1>. PICK u : u = job[j].user
  OBVIOUS
<1>. PICK n : n = Count(u)
  OBVIOUS
<1>. PICK b : b = (Trailing(u) = {})
  OBVIOUS
<1>1. job[j].stage = "load"
  BY DEF LoadCount, Is
<1>2. PICK s \in {"insert", "fill"} : s = IF counters[u] = Empty THEN "insert" ELSE "fill"
  OBVIOUS
<1>3. Set(j, [stage |-> s, op |-> "count", user |-> u, count |-> n, clean |-> b])
  BY <1>2 DEF LoadCount
<1>4. /\ StepOf(j)
      /\ job'[j] = [stage |-> s, op |-> "count", user |-> u, count |-> n, clean |-> b]
  BY <1>3, SetStep DEF TypesHold
<1>5. job'[j].user = u /\ job'[j].count = n /\ job'[j].clean = b
        /\ job'[j].stage \notin {"cache", "decr"}
  BY <1>4
<1>6. \A v : j \notin Trailing(v) /\ j \notin Trailing(v)'
  BY <1>1, <1>5 DEF Trailing, Busy
<1>7. UNCHANGED <<cache, disturbed, counters>>
  BY DEF LoadCount, store, caching
<1>8. \A v \in Users : Count(v)' = Count(v)
  BY <1>7, SameCount
<1>9. Trailing(u)' = Trailing(u)
  BY <1>4, <1>6, OthersTrail DEF TypesHold
<1>10. job[j] \in Loads
  BY JobKinds DEF LoadCount, Is, TypesHold
<1>11. u \in Users
  BY <1>10 DEF Loads
<1>12. ASSUME NEW v \in Users, job'[j].user = v, job'[j].clean
       PROVE  job'[j].count = Count(v)' /\ Trailing(v)' = {}
  <2>1. v = u /\ Count(u)' = n /\ Trailing(u)' = {}
    BY <1>5, <1>8, <1>9, <1>11, <1>12
  <2>. QED
    BY <1>5, <2>1
<1>. QED
  BY <1>4, <1>6, <1>7, <1>8, <1>12, QuietCache

(* A new counter document is the last by its id, so it is not the one      *)
(* that is shown; or it is the only one and shows what none shows.         *)
LEMMA InsertCounts ==
  ASSUME TypesHold, TypesHold', NEW j \in Jobs, InsertCount(j), UNCHANGED connections,
         NEW u \in Users
  PROVE  Count(u)' = Count(u)
<1>. PICK rid : rid = NewRecord(u)
  OBVIOUS
<1>1. CASE u = job[j].user
  <2>1. /\ DOMAIN counters'[u] = DOMAIN counters[u] \cup {rid} /\ counters'[u][rid] = 0
        /\ \A r \in DOMAIN counters[u] : counters'[u][r] = counters[u][r] /\ r < rid
    BY <1>1, InsertCountFacts
  <2>2. counters'[u] # Empty
    BY <2>1 DEF Empty
  <2>3. First(u)' \in DOMAIN counters'[u] /\ \A r \in DOMAIN counters'[u] : First(u)' <= r
    <3>1. DOMAIN counters'[u] \in SUBSET Nat /\ DOMAIN counters'[u] # {}
      <4>1. rid \in Nat /\ DOMAIN counters[u] \subseteq Nat
        BY CounterFacts, NewRecordFacts DEF TypesHold
      <4>. QED
        BY <2>1, <4>1
    <3>. QED
      BY <3>1, MinIsLeast DEF First
  <2>4. DOMAIN counters[u] \subseteq Nat /\ rid \in Nat
    BY CounterFacts, NewRecordFacts DEF TypesHold
  <2>5. CASE counters[u] = Empty
    <3>1. DOMAIN counters[u] = {}
      BY <2>5, CounterFacts DEF TypesHold
    <3>2. First(u)' = rid
      BY <2>1, <2>3, <3>1
    <3>. QED
      BY <2>1, <2>2, <2>5, <3>2 DEF Count
  <2>6. CASE counters[u] # Empty
    <3>1. /\ First(u) \in DOMAIN counters[u]
          /\ \A r \in DOMAIN counters[u] : First(u) <= r
      BY <2>6, FirstFacts DEF TypesHold
    <3>2. First(u)' = First(u)
      BY <2>1, <2>3, <2>4, <3>1
    <3>. QED
      BY <2>1, <2>2, <2>6, <3>1, <3>2 DEF Count
  <2>. QED
    BY <2>5, <2>6
<1>2. CASE u # job[j].user
  BY <1>2, InsertCountFacts, SameCount
<1>. QED
  BY <1>1, <1>2

LEMMA InsertCountCache ==
  ASSUME TypesHold, TypesHold', CacheHolds, NEW j \in Jobs, InsertCount(j),
         UNCHANGED connections
  PROVE  CacheHolds'
<1>1. job[j] \in Fills /\ StepOf(j) /\ job'[j] = [job[j] EXCEPT !.stage = "fill"]
  BY InsertCountFacts
<1>2. /\ job'[j].user = job[j].user /\ job'[j].count = job[j].count
      /\ job'[j].clean = job[j].clean /\ job'[j].stage = "fill"
      /\ job[j].stage \in {"insert", "fill"}
  BY <1>1 DEF Fills
<1>3. \A v : j \notin Trailing(v) /\ j \notin Trailing(v)'
  BY <1>2 DEF Trailing, Busy
<1>4. UNCHANGED <<cache, disturbed>>
  BY DEF InsertCount, caching
<1>5. \A u \in Users : Count(u)' = Count(u)
  BY InsertCounts
<1>6. \A v : Trailing(v)' = Trailing(v)
  BY <1>1, <1>3, OthersTrail DEF TypesHold
<1>7. ASSUME NEW u \in Users, job'[j].user = u, job'[j].clean
      PROVE  job'[j].count = Count(u)' /\ Trailing(u)' = {}
  <2>1. job[j].count = Count(u) /\ Trailing(u) = {}
    BY <1>1, <1>2, <1>7 DEF CacheHolds, FillsFresh
  <2>. QED
    BY <1>2, <1>5, <1>6, <2>1
<1>. QED
  BY <1>1, <1>3, <1>4, <1>5, <1>7, QuietCache

(* A commit into the document that is shown moves the count.               *)
LEMMA AddCounted ==
  ASSUME CountersTyped, NEW u \in Users, NEW rid \in Nat \ {0}, NEW d \in Int,
         Add(u, rid, d), Counted(u, rid)
  PROVE  Count(u)' = Count(u) + d
<1>1. /\ DOMAIN counters'[u] = DOMAIN counters[u] \cup {rid}
      /\ counters'[u][rid] = (IF rid \in DOMAIN counters[u] THEN counters[u][rid] ELSE 0) + d
  BY AddFacts
<1>2. counters'[u] # Empty
  BY <1>1 DEF Empty
<1>3. DOMAIN counters[u] \subseteq Nat \ {0}
  BY CounterFacts
<1>4. First(u)' \in DOMAIN counters'[u] /\ \A r \in DOMAIN counters'[u] : First(u)' <= r
  <2>1. DOMAIN counters'[u] \in SUBSET Nat /\ DOMAIN counters'[u] # {}
    BY <1>1, <1>3
  <2>. QED
    BY <2>1, MinIsLeast DEF First
<1>5. CASE counters[u] = Empty
  <2>1. DOMAIN counters[u] = {}
    BY <1>5, CounterFacts
  <2>2. First(u)' = rid
    BY <1>1, <1>4, <2>1
  <2>. QED
    BY <1>1, <1>2, <1>5, <2>1, <2>2 DEF Count
<1>6. CASE counters[u] # Empty
  <2>1. /\ First(u) \in DOMAIN counters[u] /\ rid = First(u)
        /\ \A r \in DOMAIN counters[u] : First(u) <= r
    BY <1>6, FirstFacts DEF Counted
  <2>2. First(u)' = First(u)
    BY <1>1, <1>3, <1>4, <2>1
  <2>. QED
    BY <1>1, <1>2, <1>6, <2>1, <2>2 DEF Count
<1>. QED
  BY <1>5, <1>6

LEMMA CommitTrail ==
  ASSUME JobsHold, JobsHold', NEW j \in Jobs, StepOf(j), job[j] \in Txs, job[j].stage = "tx",
         job'[j] = [job[j] EXCEPT !.stage = "cache"], NEW u
  PROVE  IF u = job[j].user /\ job[j].op = "create"
         THEN Cardinality(Adding(u)') = Cardinality(Adding(u)) + 1 /\ Taking(u)' = Taking(u)
         ELSE IF u = job[j].user
         THEN Cardinality(Taking(u)') = Cardinality(Taking(u)) + 1 /\ Adding(u)' = Adding(u)
         ELSE j \notin Trailing(u) /\ j \notin Trailing(u)'
<1>1. /\ job'[j] \in Txs /\ job'[j].stage = "cache" /\ job'[j].op = job[j].op
      /\ job'[j].user = job[j].user /\ job[j].op \in {"create", "mark"}
  BY DEF Txs
<1>2. j \notin Trailing(u) /\ j \notin Adding(u) /\ j \notin Taking(u)
  BY DEF Trailing, Busy, Adding, Taking
<1>3. u = job[j].user => j \in Trailing(u)'
  BY <1>1, NoJobIsNone DEF Trailing, Busy
<1>4. CASE u = job[j].user /\ job[j].op = "create"
  <2>1. j \in Adding(u)' /\ j \notin Taking(u)'
    BY <1>1, <1>3, <1>4 DEF Adding, Taking
  <2>2. Adding(u)' = Adding(u) \cup {j} /\ Taking(u)' = Taking(u)
    BY <1>2, <2>1, OthersTrail
  <2>3. Cardinality(Adding(u)') = Cardinality(Adding(u)) + 1
    BY <1>2, <2>2, TrailingFinite, FS_AddElement
  <2>. QED
    BY <1>4, <2>2, <2>3
<1>5. CASE u = job[j].user /\ job[j].op = "mark"
  <2>1. j \in Taking(u)' /\ j \notin Adding(u)'
    BY <1>1, <1>3, <1>5 DEF Adding, Taking
  <2>2. Taking(u)' = Taking(u) \cup {j} /\ Adding(u)' = Adding(u)
    BY <1>2, <2>1, OthersTrail
  <2>3. Cardinality(Taking(u)') = Cardinality(Taking(u)) + 1
    BY <1>2, <2>2, TrailingFinite, FS_AddElement
  <2>. QED
    BY <1>5, <2>2, <2>3
<1>6. CASE u # job[j].user
  BY <1>1, <1>2, <1>6 DEF Trailing, Busy
<1>. QED
  BY <1>1, <1>4, <1>5, <1>6

(* Committing spoils the clean counts of the user.                         *)
LEMMA CommitFills ==
  ASSUME TypesHold, TypesHold', CacheHolds, NEW j \in Jobs, AfterCommit(j),
         job[j] \in Txs, \A u \in Users \ {job[j].user} : counters'[u] = counters[u]
  PROVE  FillsFresh'
<1>1. StepOf(j) /\ job'[j] = [job[j] EXCEPT !.stage = "cache"]
  BY CommitStep DEF TypesHold
<1>2. job'[j] \in Txs /\ job'[j].user = job[j].user
  BY <1>1 DEF Txs
<1>3. job'[j] \notin Fills
  BY <1>2 DEF Txs, Fills
<1>4. ASSUME NEW k \in Jobs \ {j}, NEW u \in Users,
             job[k] \in Fills, job[k].user = u, job'[k].clean
      PROVE  Count(u)' = Count(u) /\ j \notin Trailing(u)'
  <2>1. u # job[j].user
    <3>1. SUFFICES ASSUME u = job[j].user PROVE FALSE
      OBVIOUS
    <3>2. job[k].stage \in {"insert", "fill"} /\ job[k] # NoJob
      BY <1>4, NoJobIsNone DEF Fills
    <3>3. Spoilt(j, k)
      BY <1>4, <3>1, <3>2 DEF Spoilt
    <3>4. job'[k] = [job[k] EXCEPT !.clean = FALSE]
      BY <3>3 DEF AfterCommit
    <3>. QED
      BY <1>4, <3>4 DEF Fills
  <2>2. Count(u)' = Count(u)
    BY <2>1, SameCount
  <2>. QED
    BY <1>2, <2>1, <2>2 DEF Trailing, Busy
<1>. QED
  BY <1>1, <1>3, <1>4, FillsSame DEF TypesHold, CacheHolds

LEMMA CreateCache ==
  ASSUME ConnectionsTypeOK, TypesHold, CacheHolds, NEW j \in Jobs, Create(j),
         UNCHANGED connections
  PROVE  CacheHolds'
<1>. PICK u, rid : u = job[j].user /\ rid = job[j].rid
  OBVIOUS
<1>1. /\ TypesHold' /\ job[j] \in Txs /\ job[j].stage = "tx" /\ job[j].op = "create"
      /\ job'[j] = [job[j] EXCEPT !.stage = "cache"] /\ StepOf(j)
      /\ Add(u, rid, 1)
  BY CreateFacts
<1>2. u \in Users /\ rid \in Nat \ {0}
  BY <1>1 DEF Txs
<1>3. cache' = cache /\ Disturb(u, ~Counted(u, rid)) /\ AfterCommit(j)
  BY DEF Create
<1>4. \A v \in Users \ {u} : counters'[v] = counters[v]
  BY <1>1, <1>2, AddFacts DEF TypesHold
<1>5. FillsFresh'
  BY <1>1, <1>3, <1>4, CommitFills
<1>6. ASSUME NEW v \in Users, v # u
      PROVE  KeyHolds(v)'
  <2>1. j \notin Trailing(v) /\ j \notin Trailing(v)'
    BY <1>1, <1>6, CommitTrail DEF TypesHold
  <2>2. v \in disturbed => v \in disturbed'
    BY <1>3 DEF Disturb
  <2>3. Count(v)' = Count(v)
    BY <1>4, <1>6, SameCount
  <2>. QED
    BY <1>1, <1>3, <2>1, <2>2, <2>3, KeySame DEF CacheHolds, TypesHold
<1>7. KeyHolds(u)'
  <2>1. KeyHolds(u)
    BY <1>2 DEF CacheHolds
  <2>2. Cardinality(Adding(u)') = Cardinality(Adding(u)) + 1 /\ Taking(u)' = Taking(u)
    BY <1>1, CommitTrail DEF TypesHold
  <2>3. u \notin disturbed' => u \notin disturbed /\ Count(u)' = Count(u) + 1
    BY <1>1, <1>2, <1>3, AddCounted DEF Disturb, TypesHold
  <2>4. Count(u) \in Int /\ cache[u].count \in Int
    BY <1>2, CountInt DEF TypesHold, RestTyped, Caches
  <2>. QED
    BY <1>3, <2>1, <2>2, <2>3, <2>4, TrailingFinite DEF KeyHolds
<1>. QED
  BY <1>5, <1>6, <1>7 DEF CacheHolds

LEMMA MarkCache ==
  ASSUME TypesHold, CacheHolds, NEW j \in Jobs, Mark(j), UNCHANGED connections
  PROVE  CacheHolds'
<1>. PICK u, rid : u = job[j].user /\ rid = job[j].rid
  OBVIOUS
<1>1. /\ TypesHold' /\ job[j] \in Txs /\ job[j].stage = "tx" /\ job[j].op = "mark"
      /\ job'[j] = [job[j] EXCEPT !.stage = "cache"] /\ StepOf(j)
      /\ Add(u, rid, -1)
  BY MarkFacts
<1>2. u \in Users /\ rid \in Nat \ {0} /\ -1 \in Int
  BY <1>1 DEF Txs
<1>3. cache' = cache /\ Disturb(u, ~Counted(u, rid)) /\ AfterCommit(j)
  BY DEF Mark
<1>4. \A v \in Users \ {u} : counters'[v] = counters[v]
  BY <1>1, <1>2, AddFacts DEF TypesHold
<1>5. FillsFresh'
  BY <1>1, <1>3, <1>4, CommitFills
<1>6. ASSUME NEW v \in Users, v # u
      PROVE  KeyHolds(v)'
  <2>1. j \notin Trailing(v) /\ j \notin Trailing(v)'
    BY <1>1, <1>6, CommitTrail DEF TypesHold
  <2>2. v \in disturbed => v \in disturbed'
    BY <1>3 DEF Disturb
  <2>3. Count(v)' = Count(v)
    BY <1>4, <1>6, SameCount
  <2>. QED
    BY <1>1, <1>3, <2>1, <2>2, <2>3, KeySame DEF CacheHolds, TypesHold
<1>7. KeyHolds(u)'
  <2>1. KeyHolds(u)
    BY <1>2 DEF CacheHolds
  <2>2. Cardinality(Taking(u)') = Cardinality(Taking(u)) + 1 /\ Adding(u)' = Adding(u)
    BY <1>1, CommitTrail DEF TypesHold
  <2>3. u \notin disturbed' => u \notin disturbed /\ Count(u)' = Count(u) + (-1)
    BY <1>1, <1>2, <1>3, AddCounted DEF Disturb, TypesHold
  <2>4. Count(u) \in Int /\ cache[u].count \in Int
    BY <1>2, CountInt DEF TypesHold, RestTyped, Caches
  <2>. QED
    BY <1>3, <2>1, <2>2, <2>3, <2>4, TrailingFinite DEF KeyHolds
<1>. QED
  BY <1>5, <1>6, <1>7 DEF CacheHolds

(* A job that trails ends: it is no longer among those that add or take.   *)
LEMMA EndTrail ==
  ASSUME JobsHold, JobsHold', NEW j \in Jobs, StepOf(j), job[j] \in Txs,
         job[j].stage \in {"cache", "decr"}, job'[j] = NoJob, NEW u
  PROVE  /\ Trailing(u)' = Trailing(u) \ {j} /\ j \notin Trailing(u)'
         /\ u # job[j].user => j \notin Trailing(u)
         /\ u = job[j].user =>
              /\ j \in Trailing(u)
              /\ job[j].op = "create" => Cardinality(Adding(u)') = Cardinality(Adding(u)) - 1
                                           /\ Taking(u)' = Taking(u)
              /\ job[j].op = "mark" => Cardinality(Taking(u)') = Cardinality(Taking(u)) - 1
                                         /\ Adding(u)' = Adding(u)
<1>1. j \notin Trailing(u)' /\ j \notin Adding(u)' /\ j \notin Taking(u)'
  BY DEF Trailing, Busy, Adding, Taking
<1>2. /\ Trailing(u)' = Trailing(u) \ {j} /\ Adding(u)' = Adding(u) \ {j}
      /\ Taking(u)' = Taking(u) \ {j}
  BY <1>1, OthersTrail
<1>3. u # job[j].user => j \notin Trailing(u)
  BY DEF Trailing, Busy
<1>4. u = job[j].user => j \in Trailing(u)
  BY NoJobIsNone DEF Trailing, Busy
<1>5. ASSUME u = job[j].user, job[j].op = "create"
      PROVE  Cardinality(Adding(u)') = Cardinality(Adding(u)) - 1 /\ Taking(u)' = Taking(u)
  <2>1. j \in Adding(u) /\ j \notin Taking(u)
    BY <1>4, <1>5 DEF Adding, Taking
  <2>2. Cardinality(Adding(u) \ {j}) = Cardinality(Adding(u)) - 1
    BY <2>1, TrailingFinite, FS_RemoveElement
  <2>. QED
    BY <1>2, <2>1, <2>2
<1>6. ASSUME u = job[j].user, job[j].op = "mark"
      PROVE  Cardinality(Taking(u)') = Cardinality(Taking(u)) - 1 /\ Adding(u)' = Adding(u)
  <2>1. j \in Taking(u) /\ j \notin Adding(u)
    BY <1>4, <1>6 DEF Adding, Taking
  <2>2. Cardinality(Taking(u) \ {j}) = Cardinality(Taking(u)) - 1
    BY <2>1, TrailingFinite, FS_RemoveElement
  <2>. QED
    BY <1>2, <2>1, <2>2
<1>. QED
  BY <1>1, <1>2, <1>3, <1>4, <1>5, <1>6

(* While a job trails, no count of its user is clean.                      *)
LEMMA TrailSpoils ==
  ASSUME FillsFresh, NEW u \in Users, Trailing(u) # {}, NEW k \in Jobs,
         job[k] \in Fills, job[k].user = u
  PROVE  ~job[k].clean
BY DEF FillsFresh

LEMMA EndFills ==
  ASSUME TypesHold, TypesHold', CacheHolds, NEW j \in Jobs, StepOf(j), job'[j] = NoJob,
         UNCHANGED counters
  PROVE  FillsFresh'
<1>1. job'[j] \notin Fills /\ \A u : j \notin Trailing(u)'
  BY NoJobIsNone DEF Trailing, Busy
<1>2. \A u \in Users : Count(u)' = Count(u)
  BY SameCount
<1>. QED
  BY <1>1, <1>2, FillsSame DEF TypesHold, CacheHolds

LEMMA EndOthers ==
  ASSUME TypesHold, TypesHold', CacheHolds, NEW j \in Jobs, StepOf(j), job'[j] = NoJob,
         job[j] \in Txs, job[j].stage \in {"cache", "decr"}, UNCHANGED counters,
         NEW u \in Users, u # job[j].user, cache'[u] = cache[u],
         u \in disturbed => u \in disturbed'
  PROVE  KeyHolds(u)'
<1>1. j \notin Trailing(u) /\ j \notin Trailing(u)'
  BY EndTrail DEF TypesHold
<1>2. Count(u)' = Count(u)
  BY SameCount
<1>. QED
  BY <1>1, <1>2, KeySame DEF TypesHold, CacheHolds

LEMMA IncrCache ==
  ASSUME TypesHold, TypesHold', CacheHolds, NEW j \in Jobs, Incr(j)
  PROVE  CacheHolds'
<1>. PICK u : u = job[j].user
  OBVIOUS
<1>1. StepOf(j) /\ job'[j] = NoJob
  BY SpoilStep DEF Incr, TypesHold
<1>2. job[j] \in Txs /\ job[j].stage = "cache" /\ job[j].op = "create"
  BY JobKinds DEF Incr, Is, TypesHold
<1>3. u \in Users /\ cache \in [Users -> Caches]
  BY <1>2 DEF Txs, TypesHold, RestTyped
<1>4. counters' = counters /\ Disturb(u, ~cache[u].set /\ (Count(u) # 1 \/ Trailing(u) # {j}))
  BY DEF Incr, store
<1>5. /\ cache'[u].set /\ cache'[u].count = cache[u].count + 1
      /\ \A v \in Users \ {u} : cache'[v] = cache[v]
  BY <1>3 DEF Incr, Move
<1>6. FillsFresh'
  BY <1>1, <1>4, EndFills
<1>7. \A v \in Users \ {u} : KeyHolds(v)'
  BY <1>1, <1>2, <1>4, <1>5, EndOthers DEF Disturb
<1>8. KeyHolds(u)'
  <2>1. KeyHolds(u) /\ Count(u)' = Count(u) /\ Count(u) \in Int /\ cache[u].count \in Int
    BY <1>3, <1>4, SameCount, CountInt DEF CacheHolds, TypesHold, Caches
  <2>2. /\ Trailing(u)' = Trailing(u) \ {j}
        /\ Cardinality(Adding(u)') = Cardinality(Adding(u)) - 1 /\ Taking(u)' = Taking(u)
    BY <1>1, <1>2, EndTrail DEF TypesHold
  <2>3. SUFFICES ASSUME u \notin disturbed'
                 PROVE  cache'[u].count + Cardinality(Adding(u)')
                          = Count(u)' + Cardinality(Taking(u)')
    BY <1>5 DEF KeyHolds
  <2>4. u \notin disturbed /\ (~cache[u].set => Count(u) = 1 /\ Trailing(u) = {j})
    BY <1>4, <2>3 DEF Disturb
  <2>5. CASE cache[u].set
    BY <1>5, <2>1, <2>2, <2>4, <2>5, TrailingFinite DEF KeyHolds
  <2>6. CASE ~cache[u].set
    <3>1. Trailing(u)' = {}
      BY <2>2, <2>4, <2>6
    <3>2. Adding(u)' = {} /\ Taking(u)' = {}
      BY <3>1 DEF Adding, Taking
    <3>3. cache'[u].count = 1 /\ Count(u)' = 1
      BY <1>5, <2>1, <2>4, <2>6 DEF KeyHolds
    <3>. QED
      BY <3>2, <3>3, FS_EmptySet
  <2>. QED
    BY <2>5, <2>6
<1>. QED
  BY <1>6, <1>7, <1>8 DEF CacheHolds

LEMMA DecrCache ==
  ASSUME TypesHold, TypesHold', CacheHolds, NEW j \in Jobs, Decr(j)
  PROVE  CacheHolds'
<1>. PICK u : u = job[j].user
  OBVIOUS
<1>1. StepOf(j) /\ job'[j] = NoJob
  BY SpoilStep DEF Decr, TypesHold
<1>2. job[j] \in Txs /\ job[j].stage = "decr" /\ job[j].op = "mark"
  BY JobKinds DEF Decr, Is, TypesHold
<1>3. u \in Users /\ cache \in [Users -> Caches]
  BY <1>2 DEF Txs, TypesHold, RestTyped
<1>4. counters' = counters /\ Disturb(u, ~cache[u].set)
  BY DEF Decr, store
<1>5. /\ cache'[u].set /\ cache'[u].count = cache[u].count + (-1)
      /\ \A v \in Users \ {u} : cache'[v] = cache[v]
  BY <1>3 DEF Decr, Move
<1>6. FillsFresh'
  BY <1>1, <1>4, EndFills
<1>7. \A v \in Users \ {u} : KeyHolds(v)'
  BY <1>1, <1>2, <1>4, <1>5, EndOthers DEF Disturb
<1>8. KeyHolds(u)'
  <2>1. KeyHolds(u) /\ Count(u)' = Count(u) /\ Count(u) \in Int /\ cache[u].count \in Int
    BY <1>3, <1>4, SameCount, CountInt DEF CacheHolds, TypesHold, Caches
  <2>2. Cardinality(Taking(u)') = Cardinality(Taking(u)) - 1 /\ Adding(u)' = Adding(u)
    BY <1>1, <1>2, EndTrail DEF TypesHold
  <2>3. u \notin disturbed' => u \notin disturbed /\ cache[u].set
    BY <1>4 DEF Disturb
  <2>. QED
    BY <1>5, <2>1, <2>2, <2>3, TrailingFinite DEF KeyHolds
<1>. QED
  BY <1>6, <1>7, <1>8 DEF CacheHolds

LEMMA RedisFailsCache ==
  ASSUME TypesHold, TypesHold', CacheHolds, NEW j \in Jobs, RedisFails(j)
  PROVE  CacheHolds'
<1>1. StepOf(j) /\ job'[j] = NoJob
  BY SetStep DEF RedisFails, End, TypesHold
<1>2. job[j] \in Txs
  BY JobKinds DEF RedisFails, TypesHold
<1>3. UNCHANGED <<counters, cache>> /\ Disturb(job[j].user, TRUE)
  BY DEF RedisFails, store
<1>4. FillsFresh'
  BY <1>1, <1>3, EndFills
<1>5. job[j].stage \in {"cache", "decr"}
  BY DEF RedisFails
<1>6. ASSUME NEW u \in Users
      PROVE  KeyHolds(u)'
  <2>1. CASE u # job[j].user
    BY <1>1, <1>2, <1>3, <1>5, <2>1, EndOthers DEF Disturb
  <2>2. CASE u = job[j].user
    <3>1. u \in disturbed'
      BY <1>3, <2>2 DEF Disturb
    <3>. QED
      BY <1>3, <3>1 DEF KeyHolds, CacheHolds
  <2>. QED
    BY <2>1, <2>2
<1>. QED
  BY <1>4, <1>6 DEF CacheHolds

LEMMA CheckKeyCache ==
  ASSUME TypesHold, TypesHold', CacheHolds, NEW j \in Jobs, CheckKey(j)
  PROVE  CacheHolds'
<1>. PICK u : u = job[j].user
  OBVIOUS
<1>1. job[j] \in Txs /\ job[j].stage = "cache" /\ job[j].op = "mark"
  BY JobKinds DEF CheckKey, Is, TypesHold
<1>2. UNCHANGED <<counters, cache>> /\ u \in Users
  BY <1>1 DEF CheckKey, store, Txs
<1>3. \A v \in Users : Count(v)' = Count(v)
  BY <1>2, SameCount
<1>4. CASE Goto(j, "decr") /\ UNCHANGED disturbed
  <2>1. StepOf(j) /\ job'[j] = [job[j] EXCEPT !.stage = "decr"]
    BY <1>4 DEF Goto, TypesHold, JobsHold, StepOf, Soft
  <2>2. /\ job'[j] \in Txs /\ job'[j].op = "mark" /\ job'[j].stage = "decr"
        /\ job'[j].user = u
    BY <1>1, <2>1 DEF Txs
  <2>3. job'[j] \notin Fills
    BY <2>2 DEF Txs, Fills
  <2>4. \A v : /\ j \in Trailing(v) <=> j \in Trailing(v)'
               /\ j \in Taking(v) <=> j \in Taking(v)'
               /\ j \notin Adding(v) /\ j \notin Adding(v)'
    BY <1>1, <2>2, NoJobIsNone DEF Trailing, Busy, Adding, Taking
  <2>5. \A v : /\ Adding(v)' = Adding(v) /\ Taking(v)' = Taking(v)
               /\ Trailing(v)' = Trailing(v)
    BY <2>1, <2>4, OthersTrail DEF TypesHold
  <2>6. \A v \in Users : KeyHolds(v)'
    BY <1>2, <1>3, <1>4, <2>5 DEF KeyHolds, CacheHolds
  <2>7. ASSUME NEW k \in Jobs \ {j}, NEW v \in Users,
               job[k] \in Fills, job[k].user = v, job'[k].clean
        PROVE  Count(v)' = Count(v) /\ j \notin Trailing(v)'
    <3>1. job'[k] = job[k] \/ job'[k] = [job[k] EXCEPT !.clean = FALSE]
      BY <2>1 DEF StepOf, Soft
    <3>2. job[k].clean
      BY <2>7, <3>1 DEF Fills
    <3>3. Trailing(v) = {}
      BY <2>7, <3>2 DEF CacheHolds, FillsFresh
    <3>. QED
      BY <1>3, <2>5, <3>3
  <2>8. FillsFresh'
    BY <2>1, <2>3, <2>7, FillsSame DEF TypesHold, CacheHolds
  <2>. QED
    BY <2>6, <2>8 DEF CacheHolds
<1>5. CASE ~CanTakeOne(u) /\ Spoil(j) /\ Disturb(u, cache[u].set /\ cache[u].count < 1)
  <2>1. StepOf(j) /\ job'[j] = NoJob
    BY <1>5, SpoilStep DEF TypesHold
  <2>2. FillsFresh'
    BY <1>2, <2>1, EndFills
  <2>3. \A v \in Users \ {u} : KeyHolds(v)'
    BY <1>1, <1>2, <1>5, <2>1, EndOthers DEF Disturb
  <2>4. KeyHolds(u)'
    <3>1. cache[u].count \in Int
      BY <1>2 DEF TypesHold, RestTyped, Caches
    <3>2. u \notin disturbed' => ~cache[u].set
      BY <1>5, <3>1 DEF Disturb, CanTakeOne
    <3>. QED
      BY <1>2, <3>2 DEF KeyHolds, CacheHolds
  <2>. QED
    BY <2>2, <2>3, <2>4 DEF CacheHolds
<1>. QED
  BY <1>4, <1>5 DEF CheckKey

LEMMA FillCache ==
  ASSUME TypesHold, TypesHold', CacheHolds, NEW j \in Jobs, Fill(j)
  PROVE  CacheHolds'
<1>. PICK u : u = job[j].user
  OBVIOUS
<1>1. job[j] \in Fills /\ job[j].stage = "fill"
  BY JobKinds DEF Fill, Is, TypesHold
<1>2. StepOf(j) /\ job'[j] = NoJob
  BY SetStep DEF Fill, End, TypesHold
<1>3. u \in Users /\ cache \in [Users -> Caches]
  BY <1>1 DEF Fills, TypesHold, RestTyped
<1>4. /\ counters' = counters
      /\ disturbed' = IF job[j].clean THEN disturbed \ {u} ELSE disturbed \cup {u}
  BY DEF Fill, store
<1>5. /\ cache'[u].set /\ cache'[u].count = job[j].count
      /\ \A v \in Users \ {u} : cache'[v] = cache[v]
  BY <1>3 DEF Fill
<1>6. FillsFresh'
  BY <1>2, <1>4, EndFills
<1>7. \A v : j \notin Trailing(v) /\ j \notin Trailing(v)'
  BY <1>1, <1>2 DEF Trailing, Busy
<1>8. \A v \in Users : Count(v)' = Count(v)
  BY <1>4, SameCount
<1>9. \A v \in Users \ {u} : KeyHolds(v)'
  BY <1>2, <1>4, <1>5, <1>7, <1>8, KeySame DEF TypesHold, CacheHolds
<1>10. KeyHolds(u)'
  <2>1. CASE ~job[j].clean
    BY <1>4, <1>5, <2>1 DEF KeyHolds
  <2>2. CASE job[j].clean
    <3>1. job[j].count = Count(u) /\ Trailing(u) = {}
      BY <1>1, <1>3, <2>2 DEF CacheHolds, FillsFresh
    <3>2. Trailing(u)' = {}
      BY <1>2, <1>7, <3>1, OthersTrail DEF TypesHold
    <3>3. Adding(u)' = {} /\ Taking(u)' = {}
      BY <3>2 DEF Adding, Taking
    <3>4. Count(u)' = Count(u) /\ Count(u) \in Int
      BY <1>3, <1>8, CountInt DEF TypesHold
    <3>5. cache'[u].count = Count(u)'
      BY <1>5, <3>1, <3>4
    <3>. QED
      BY <1>5, <3>3, <3>5 DEF KeyHolds
  <2>. QED
    BY <2>1, <2>2
<1>. QED
  BY <1>6, <1>9, <1>10 DEF CacheHolds

LEMMA ExpireCache ==
  ASSUME TypesHold, CacheHolds, NEW u \in Users, Expire(u)
  PROVE  CacheHolds'
<1>1. UNCHANGED <<counters, disturbed, job>> /\ cache' = [cache EXCEPT ![u] = NoKey]
  BY DEF Expire, store
<1>2. cache \in [Users -> Caches]
  BY DEF TypesHold, RestTyped
<1>3. /\ ~cache'[u].set /\ cache'[u].count = 0
      /\ \A v \in Users \ {u} : cache'[v] = cache[v]
  BY <1>1, <1>2 DEF NoKey
<1>4. \A v \in Users : Count(v)' = Count(v)
  BY <1>1, SameCount
<1>5. \A v : /\ Trailing(v)' = Trailing(v) /\ Adding(v)' = Adding(v)
             /\ Taking(v)' = Taking(v)
  BY <1>1 DEF Trailing, Busy, Adding, Taking
<1>6. ASSUME NEW v \in Users
      PROVE  KeyHolds(v)'
  <2>1. KeyHolds(v)
    BY DEF CacheHolds
  <2>. QED
    BY <1>1, <1>3, <1>4, <1>5, <2>1 DEF KeyHolds
<1>7. FillsFresh'
  BY <1>1, <1>4, <1>5 DEF CacheHolds, FillsFresh
<1>. QED
  BY <1>6, <1>7 DEF CacheHolds

LEMMA CrashCache ==
  ASSUME TypesHold, CacheHolds, Crash
  PROVE  CacheHolds'
<1>1. /\ UNCHANGED <<counters, cache>> /\ job' = [j \in Jobs |-> NoJob]
      /\ disturbed' = disturbed \cup {u \in Users : Trailing(u) # {}}
  BY DEF Crash, store
<1>2. \A u \in Users : Count(u)' = Count(u)
  BY <1>1, SameCount
<1>3. FillsFresh'
  BY <1>1, NoJobIsNone DEF FillsFresh
<1>4. ASSUME NEW u \in Users
      PROVE  KeyHolds(u)'
  <2>1. KeyHolds(u)
    BY DEF CacheHolds
  <2>2. Trailing(u)' = {}
    BY <1>1 DEF Trailing, Busy
  <2>3. Adding(u)' = {} /\ Taking(u)' = {}
    BY <2>2 DEF Adding, Taking
  <2>4. ASSUME u \notin disturbed'
        PROVE  u \notin disturbed /\ Adding(u) = {} /\ Taking(u) = {}
    BY <1>1, <2>4 DEF Adding, Taking
  <2>. QED
    BY <1>1, <1>2, <2>1, <2>3, <2>4 DEF KeyHolds
<1>. QED
  BY <1>3, <1>4 DEF CacheHolds

LEMMA CacheStep ==
  ASSUME ConnectionsTypeOK, TypesHold, TypesHold', CacheHolds, NotificationsNext,
         UNCHANGED connections
  PROVE  CacheHolds'
<1>1. ASSUME NEW j \in Jobs, HandleStep(j) PROVE CacheHolds'
  BY <1>1, ReceiveCache, CreateCache, IncrCache DEF HandleStep
<1>2. ASSUME NEW j \in Jobs, MarkStep(j) PROVE CacheHolds'
  BY <1>2, OpenNoteCache, BeginMarkCache, MarkCache, CheckKeyCache, DecrCache
     DEF MarkStep
<1>3. ASSUME NEW j \in Jobs, CountStep(j) PROVE CacheHolds'
  BY <1>3, MissCache, LoadCountCache, InsertCountCache, FillCache DEF CountStep
<1>4. ASSUME NEW j \in Jobs, WriteConflict(j) \/ DatabaseFails(j) PROVE CacheHolds'
  BY <1>4, AbortCache DEF WriteConflict, DatabaseFails
<1>5. ASSUME NEW j \in Jobs, RedisFails(j) PROVE CacheHolds'
  BY <1>5, RedisFailsCache
<1>6. ASSUME NEW u \in Users, Expire(u) PROVE CacheHolds'
  BY <1>6, ExpireCache
<1>7. CASE Crash
  BY <1>7, CrashCache
<1>. QED
  BY <1>1, <1>2, <1>3, <1>4, <1>5, <1>6, <1>7 DEF NotificationsNext

LEMMA RestCache ==
  ASSUME CacheHolds, UNCHANGED notifications
  PROVE  CacheHolds'
<1>1. UNCHANGED <<counters, cache, disturbed, job>>
  BY DEF notifications, store, caching
<1>2. \A u \in Users : Count(u)' = Count(u)
  BY <1>1, SameCount
<1>3. \A u : /\ Trailing(u)' = Trailing(u) /\ Adding(u)' = Adding(u)
             /\ Taking(u)' = Taking(u)
  BY <1>1 DEF Trailing, Busy, Adding, Taking
<1>4. \A u \in Users : KeyHolds(u)'
  BY <1>1, <1>2, <1>3 DEF CacheHolds, KeyHolds
<1>5. FillsFresh'
  BY <1>1, <1>2, <1>3 DEF CacheHolds, FillsFresh
<1>. QED
  BY <1>4, <1>5 DEF CacheHolds

(* With nothing at work for a user nothing trails.                         *)
LEMMA CacheHoldsFollows == Inv /\ CacheHolds => CacheFollows
<1>. SUFFICES ASSUME Inv, CacheHolds, NEW u \in Users, u \notin disturbed,
                     Busy(u) = {}, cache[u].set
              PROVE  cache[u].count = Count(u)
  BY DEF CacheFollows
<1>1. Adding(u) = {} /\ Taking(u) = {}
  BY DEF Adding, Taking, Trailing
<1>2. cache[u].count + 0 = Count(u) + 0
  BY <1>1, FS_EmptySet DEF CacheHolds, KeyHolds
<1>3. Count(u) \in Int /\ cache[u].count \in Int
  BY CountInt DEF Inv, TypesHold, RestTyped, Caches
<1>. QED
  BY <1>2, <1>3

(* A cached counter that nothing disturbed shows the database's count      *)
(* whenever nothing is at work for the user, whatever creations, reads and *)
(* fills led there (NotificationService, with the Redis counter).          *)
THEOREM CacheAlwaysFollows == Spec => []CacheFollows
<1>1. Init => CacheHolds
  <2>. SUFFICES ASSUME Init PROVE CacheHolds
    OBVIOUS
  <2>1. \A u \in Users : ~cache[u].set /\ cache[u].count = 0
    BY DEF Init, NoKey
  <2>. QED
    BY <2>1, NoJobIsNone DEF Init, CacheHolds, KeyHolds, FillsFresh
<1>2. Inv /\ Inv' /\ CacheHolds /\ [Next]_vars => CacheHolds'
  <2>. SUFFICES ASSUME Inv, Inv', CacheHolds, [Next]_vars PROVE CacheHolds'
    OBVIOUS
  <2>1. ConnectionsTypeOK /\ TypesHold /\ TypesHold'
    BY DEF Inv, IInv
  <2>2. CASE UNCHANGED notifications
    BY <2>2, RestCache
  <2>3. CASE NotificationsNext /\ UNCHANGED connections
    BY <2>1, <2>3, CacheStep
  <2>4. CASE UNCHANGED vars
    BY <2>4, RestCache DEF vars, notifications, delivery, store, caching
  <2>. QED
    BY <2>2, <2>3, <2>4, StepIsOfOne
<1>. QED
  BY <1>1, <1>2, InvAlways, CacheHoldsFollows, PTL DEF Spec

-----------------------------------------------------------------------------
(* The composition with Connections.                                       *)

(* Notifications never touch the connections: what the notification service*)
(* does between two steps of the user service is a stutter there, so       *)
(* whatever is proved of ConnectionsSpec alone holds of the two together   *)
(* (the services share no database).                                       *)
THEOREM NotificationsLeaveConnections == Spec => ConnectionsSpec
<1>1. Init => ConnectionsInit
  BY DEF Init
<1>2. [Next]_vars => [ConnectionsNext]_connections
  <2>. SUFFICES ASSUME [Next]_vars PROVE ConnectionsNext \/ UNCHANGED connections
    OBVIOUS
  <2>1. CASE Next
    BY <2>1 DEF Next
  <2>2. CASE UNCHANGED vars
    BY <2>2 DEF vars
  <2>. QED
    BY <2>1, <2>2
<1>. QED
  BY <1>1, <1>2, PTL DEF Spec, ConnectionsSpec

(* Beside the notification service too, a connection is accepted only when *)
(* both users asked for it, and the outbox tells what became of every row  *)
(* (SendConnectionRequest, AcceptConnection, RejectConnection).            *)
THEOREM ConnectionsHoldTogether == Spec => [](AcceptedByBoth /\ OutboxTellsFate)
BY NotificationsLeaveConnections, AcceptedByBothAlways, FateToldAlways, PTL

-----------------------------------------------------------------------------
(* Ranks: how many members of a finite set of integers are as great.       *)

From(M, n) == {m \in M : m >= n}
Over(M, n) == {m \in M : m > n}
RankIn(M, n) == Cardinality(From(M, n))

LEMMA RankOver ==
  ASSUME NEW M, IsFiniteSet(M), \A x \in M : x \in Int, NEW n \in M
  PROVE  /\ RankIn(M, n) = Cardinality(Over(M, n)) + 1
         /\ Cardinality(Over(M, n)) \in Nat
         /\ RankIn(M, n) \in 1..Cardinality(M)
<1>1. IsFiniteSet(Over(M, n))
  BY FS_Subset DEF Over
<1>2. From(M, n) = Over(M, n) \cup {n} /\ n \notin Over(M, n)
  BY DEF From, Over
<1>3. Cardinality(From(M, n)) = Cardinality(Over(M, n)) + 1
  BY <1>1, <1>2, FS_AddElement
<1>4. Cardinality(Over(M, n)) \in Nat /\ Cardinality(M) \in Nat
  BY <1>1, FS_CardinalityType
<1>5. From(M, n) \in SUBSET M
  BY DEF From
<1>6. Cardinality(From(M, n)) <= Cardinality(M)
  BY <1>5, FS_Subset
<1>. QED
  BY <1>3, <1>4, <1>6 DEF RankIn

(* The greater, the lower the rank.                                        *)
LEMMA RankFalls ==
  ASSUME NEW M, IsFiniteSet(M), \A x \in M : x \in Int, NEW n \in M, NEW m \in M, n < m
  PROVE  RankIn(M, m) < RankIn(M, n)
<1>1. IsFiniteSet(Over(M, n))
  BY FS_Subset DEF Over
<1>2. From(M, m) \in SUBSET Over(M, n)
  BY DEF From, Over
<1>3. Cardinality(From(M, m)) <= Cardinality(Over(M, n))
  BY <1>1, <1>2, FS_Subset
<1>4. Cardinality(From(M, m)) \in Nat
  BY RankOver DEF RankIn
<1>. QED
  BY <1>3, <1>4, RankOver DEF RankIn

(* Every rank from 1 to the size is taken, by one member.                  *)
LEMMA RanksTaken ==
  ASSUME NEW M, IsFiniteSet(M), \A x \in M : x \in Int
  PROVE  /\ \A n, m \in M : RankIn(M, n) = RankIn(M, m) => n = m
         /\ \A r \in 1..Cardinality(M) : \E n \in M : RankIn(M, n) = r
<1>. DEFINE f == [n \in M |-> RankIn(M, n)]
            size == Cardinality(M)
<1>1. \A n \in M : RankIn(M, n) \in 1..size
  BY RankOver
<1>2. \A n, m \in M : RankIn(M, n) = RankIn(M, m) => n = m
  <2>. SUFFICES ASSUME NEW n \in M, NEW m \in M, RankIn(M, n) = RankIn(M, m), n # m
                PROVE  FALSE
    OBVIOUS
  <2>1. RankIn(M, n) \in Int
    BY <1>1
  <2>2. n < m \/ m < n
    OBVIOUS
  <2>3. RankIn(M, n) < RankIn(M, n)
    BY <2>2, RankFalls
  <2>. QED
    BY <2>1, <2>3
<1>3. f \in Injection(M, 1..size)
  BY <1>1, <1>2 DEF Injection, IsInjective
<1>4. size \in Nat /\ IsFiniteSet(1..size) /\ Cardinality(1..size) = size
  BY FS_CardinalityType, FS_Interval
<1>5. f \in Surjection(M, 1..size)
  <2>. HIDE DEF f
  <2>1. size = Cardinality(1..size)
    BY <1>4
  <2>. QED
    BY <1>3, <1>4, <2>1, FS_Injection
<1>. QED
  BY <1>2, <1>5 DEF Surjection

LEMMA RankAt ==
  ASSUME NEW M, IsFiniteSet(M), \A x \in M : x \in Int, NEW k \in Nat
  PROVE  LET top == {n \in M : Cardinality({m \in M : m > n}) < k} IN
         /\ top = {n \in M : RankIn(M, n) <= k}
         /\ Cardinality(top) = IF k <= Cardinality(M) THEN k ELSE Cardinality(M)
<1>. DEFINE top == {n \in M : Cardinality({m \in M : m > n}) < k}
            size == Cardinality(M)
            least == IF k <= size THEN k ELSE size
            f == [n \in top |-> RankIn(M, n)]
<1>1. \A n \in M : Cardinality({m \in M : m > n}) < k <=> RankIn(M, n) <= k
  <2>. SUFFICES ASSUME NEW n \in M
                PROVE  Cardinality(Over(M, n)) < k <=> RankIn(M, n) <= k
    BY DEF Over
  <2>. QED
    BY RankOver
<1>2. top = {n \in M : RankIn(M, n) <= k}
  BY <1>1
<1>3. size \in Nat /\ least \in Nat
  BY FS_CardinalityType
<1>4. \A n \in top : RankIn(M, n) \in 1..least
  BY <1>2, <1>3, RankOver
<1>5. \A r \in 1..least : \E n \in top : RankIn(M, n) = r
  BY <1>2, <1>3, RanksTaken
<1>6. f \in Bijection(top, 1..least)
  <2>1. \A n, m \in top : f[n] = f[m] => n = m
    BY RanksTaken
  <2>. QED
    BY <1>4, <1>5, <2>1 DEF Bijection, Injection, Surjection, IsInjective
<1>7. IsFiniteSet(top)
  BY FS_Subset
<1>8. ExistsBijection(top, 1..least)
  BY <1>6 DEF ExistsBijection
<1>9. Cardinality(1..least) = least
  <2>. HIDE DEF least
  <2>1. 1 \in Int /\ least \in Int
    BY <1>3
  <2>. QED
    BY <1>3, <2>1, FS_Interval
<1>10. Cardinality(1..least) = Cardinality(top)
  <2>. HIDE DEF top, least
  <2>. QED
    BY <1>7, <1>8, FS_Bijection
<1>. QED
  BY <1>2, <1>9, <1>10

(* Whoever comes after the member with rank r starts counting again there. *)
LEMMA RankBelow ==
  ASSUME NEW M, IsFiniteSet(M), \A x \in M : x \in Int, NEW c \in M,
         NEW n \in {m \in M : m < c}
  PROVE  RankIn(M, n) = RankIn(M, c) + RankIn({m \in M : m < c}, n)
<1>. DEFINE L == {m \in M : m < c}
<1>1. From(M, n) = From(M, c) \cup From(L, n)
  BY DEF From
<1>2. From(M, c) \cap From(L, n) = {}
  BY DEF From
<1>3. IsFiniteSet(From(M, c)) /\ IsFiniteSet(From(L, n))
  <2>1. From(M, c) \in SUBSET M /\ From(L, n) \in SUBSET M
    BY DEF From
  <2>. QED
    BY <2>1, FS_Subset
<1>4. Cardinality({}) = 0
  BY FS_EmptySet
<1>5. Cardinality(From(M, n)) =
        Cardinality(From(M, c)) + Cardinality(From(L, n)) - 0
  BY <1>1, <1>2, <1>3, <1>4, FS_Union
<1>6. Cardinality(From(M, c)) \in Nat /\ Cardinality(From(L, n)) \in Nat
  BY <1>3, FS_CardinalityType
<1>. QED
  BY <1>5, <1>6 DEF RankIn

-----------------------------------------------------------------------------
(* One page and the next.                                                  *)

MineBelow(u, below) == {n \in DOMAIN notes : notes[n].recipient = u /\ n < below}

NotesTyped == DOMAIN notes = 1..Len(notes) /\ Len(notes) \in Nat

LEMMA MineFinite ==
  ASSUME NotesTyped, NEW u, NEW below \in Int
  PROVE  IsFiniteSet(MineBelow(u, below)) /\ \A n \in MineBelow(u, below) : n \in 1..Len(notes)
<1>1. IsFiniteSet(1..Len(notes))
  BY FS_Interval DEF NotesTyped
<1>2. MineBelow(u, below) \in SUBSET (1..Len(notes))
  BY DEF MineBelow, NotesTyped
<1>. QED
  BY <1>1, <1>2, FS_Subset

LEMMA RowsByRank ==
  ASSUME NotesTyped, NEW u, NEW below \in Int, NEW k \in Nat
  PROVE  LET M == MineBelow(u, below) IN
         /\ Rows(u, below, k) = {n \in M : RankIn(M, n) <= k}
         /\ Cardinality(Rows(u, below, k)) = IF k <= Cardinality(M) THEN k ELSE Cardinality(M)
<1>. DEFINE M == MineBelow(u, below)
<1>1. IsFiniteSet(M) /\ \A n \in M : n \in Int
  BY MineFinite
<1>2. Rows(u, below, k) = {n \in M : Cardinality({m \in M : m > n}) < k}
  BY DEF Rows, MineBelow
<1>. HIDE DEF M
<1>3. /\ {n \in M : Cardinality({m \in M : m > n}) < k} = {n \in M : RankIn(M, n) <= k}
      /\ Cardinality({n \in M : Cardinality({m \in M : m > n}) < k})
           = IF k <= Cardinality(M) THEN k ELSE Cardinality(M)
  BY <1>1, RankAt
<1>4. Rows(u, below, k) = {n \in M : RankIn(M, n) <= k}
  BY <1>2, <1>3
<1>5. Cardinality(Rows(u, below, k)) = IF k <= Cardinality(M) THEN k ELSE Cardinality(M)
  BY <1>2, <1>3
<1>. QED
  BY <1>4, <1>5 DEF M

(* Without a next page everything is shown.                                *)
LEMMA LastPage ==
  ASSUME NotesTyped, NEW u, NEW below \in Int, NEW limit \in Nat,
         ~HasNextPage(u, below, limit)
  PROVE  /\ Rows(u, below, limit) = MineBelow(u, below)
         /\ \A n \in MineBelow(u, below) : RankIn(MineBelow(u, below), n) \in 1..limit
<1>. DEFINE M == MineBelow(u, below)
            size == Cardinality(M)
<1>1. IsFiniteSet(M) /\ \A n \in M : n \in Int
  BY MineFinite
<1>2. size \in Nat
  BY <1>1, FS_CardinalityType
<1>3. Cardinality(Rows(u, below, limit + 1)) = IF limit + 1 <= size THEN limit + 1 ELSE size
  BY RowsByRank
<1>4. size <= limit
  BY <1>2, <1>3 DEF HasNextPage
<1>. HIDE DEF M
<1>5. \A n \in M : RankIn(M, n) \in 1..size
  BY <1>1, RankOver
<1>6. \A n \in M : RankIn(M, n) \in 1..limit /\ RankIn(M, n) <= limit
  BY <1>2, <1>4, <1>5
<1>7. Rows(u, below, limit) = {n \in M : RankIn(M, n) <= limit}
  BY RowsByRank DEF M
<1>8. Rows(u, below, limit) = M
  BY <1>6, <1>7
<1>. QED
  BY <1>6, <1>8 DEF M

(* With a next page, its cursor is the notification after the page.        *)
LEMMA PageBefore ==
  ASSUME NotesTyped, NEW u, NEW below \in Int, NEW limit \in Nat,
         HasNextPage(u, below, limit)
  PROVE  LET M == MineBelow(u, below)
             c == NextCursor(u, below, limit) IN
         /\ c \in M /\ RankIn(M, c) = limit + 1
         /\ Rows(u, below, limit) = {n \in M : n > c}
<1>. DEFINE M == MineBelow(u, below)
            size == Cardinality(M)
            c == NextCursor(u, below, limit)
            more == Rows(u, below, limit + 1)
<1>1. IsFiniteSet(M) /\ \A n \in M : n \in Int
  BY MineFinite
<1>2. size \in Nat
  BY <1>1, FS_CardinalityType
<1>3. /\ more = {n \in M : RankIn(M, n) <= limit + 1}
      /\ Cardinality(more) = IF limit + 1 <= size THEN limit + 1 ELSE size
  BY RowsByRank
<1>4. limit + 1 \in 1..size
  BY <1>2, <1>3 DEF HasNextPage
<1>5. c = Min(more)
  BY DEF NextCursor
<1>6. Rows(u, below, limit) = {n \in M : RankIn(M, n) <= limit}
  BY RowsByRank
<1>. HIDE DEF M, c, more
<1>7. PICK b \in M : RankIn(M, b) = limit + 1
  BY <1>1, <1>4, RanksTaken
<1>8. \A n \in M : RankIn(M, n) \in Int
  BY <1>1, RankOver
<1>9. \A n \in M : n < b => RankIn(M, n) > limit + 1
  BY <1>1, <1>7, <1>8, RankFalls
<1>10. \A n \in M : n > b => RankIn(M, n) < limit + 1
  BY <1>1, <1>7, <1>8, RankFalls
<1>11. b \in more /\ \A n \in more : b <= n
  BY <1>1, <1>3, <1>7, <1>8, <1>9
<1>12. c = b
  <2>1. \A n \in more : n \in Int
    BY <1>1, <1>3
  <2>2. \A x \in more : (\A y \in more : x <= y) => x = b
    BY <1>11, <2>1
  <2>. QED
    BY <1>5, <1>11, <2>2 DEF Min
<1>13. Rows(u, below, limit) = {n \in M : n > c}
  BY <1>1, <1>6, <1>7, <1>8, <1>9, <1>10, <1>12
<1>. QED
  BY <1>7, <1>12, <1>13 DEF M, c

-----------------------------------------------------------------------------
(* The walk from page to page.                                             *)

Turn(u, limit, g, below) ==
  IF HasNextPage(u, below, limit)
  THEN <<Rows(u, below, limit)>> \o g[NextCursor(u, below, limit)]
  ELSE <<Rows(u, below, limit)>>

Walks(u, limit, g, S) == g = [below \in S |-> Turn(u, limit, g, below)]

Walk(u, limit) ==
  CHOOSE g : g = [below \in 1..(Len(notes) + 1) |->
                   IF HasNextPage(u, below, limit)
                   THEN <<Rows(u, below, limit)>> \o g[NextCursor(u, below, limit)]
                   ELSE <<Rows(u, below, limit)>>]

LEMMA PagesWalk == \A u, limit : Pages(u, limit) = Walk(u, limit)[Len(notes) + 1]
  BY DEF Pages, Walk

LEMMA CursorBelow ==
  ASSUME NotesTyped, NEW u, NEW below \in Int, NEW limit \in Nat,
         HasNextPage(u, below, limit)
  PROVE  NextCursor(u, below, limit) \in 1..(below - 1)
<1>. DEFINE c == NextCursor(u, below, limit)
<1>1. c \in MineBelow(u, below)
  BY PageBefore
<1>. HIDE DEF c
<1>2. c \in 1..Len(notes)
  BY <1>1, MineFinite
<1>3. c < below
  BY <1>1 DEF MineBelow
<1>. QED
  BY <1>2, <1>3 DEF c, NotesTyped

(* The cursors fall, so the walk is well defined.                          *)
LEMMA WalkExists ==
  ASSUME NotesTyped, NEW u, NEW limit \in Nat, NEW N \in Nat
  PROVE  \E g : Walks(u, limit, g, 1..N)
<1>. DEFINE B == {n \in Nat : ~ \E g : Walks(u, limit, g, 1..n)}
<1>. SUFFICES ASSUME B # {} PROVE FALSE
  OBVIOUS
<1>1. PICK n \in B : \A m \in B : n <= m
  <2>1. B \in SUBSET Nat
    OBVIOUS
  <2>. HIDE DEF B
  <2>. QED
    BY <2>1, MinIsLeast
<1>2. n \in Nat /\ ~ \E g : Walks(u, limit, g, 1..n)
  OBVIOUS
<1>3. CASE n = 0
  <2>. DEFINE g == [below \in {} |-> 0]
  <2>1. 1..n = {}
    BY <1>3
  <2>2. g = [below \in {} |-> Turn(u, limit, g, below)]
    OBVIOUS
  <2>. HIDE DEF g
  <2>3. Walks(u, limit, g, 1..n)
    BY <2>1, <2>2 DEF Walks
  <2>. QED
    BY <1>2, <2>3
<1>4. CASE n # 0
  <2>1. n - 1 \in Nat /\ ~(n <= n - 1)
    BY <1>2, <1>4
  <2>2. n - 1 \notin B
    <3>. HIDE DEF B
    <3>. QED
      BY <1>1, <2>1
  <2>3. PICK g : Walks(u, limit, g, 1..(n - 1))
    BY <2>1, <2>2
  <2>. DEFINE h == [below \in 1..n |-> Turn(u, limit, g, below)]
  <2>4. \A below \in 1..(n - 1) : h[below] = g[below]
    <3>. SUFFICES ASSUME NEW below \in 1..(n - 1) PROVE h[below] = g[below]
      OBVIOUS
    <3>1. below \in 1..n
      BY <1>2
    <3>2. g = [b \in 1..(n - 1) |-> Turn(u, limit, g, b)]
      BY <2>3 DEF Walks
    <3>3. g[below] = Turn(u, limit, g, below)
      BY <3>2
    <3>. QED
      BY <3>1, <3>3
  <2>. HIDE DEF h
  <2>5. \A below \in 1..n : Turn(u, limit, h, below) = Turn(u, limit, g, below)
    <3>. SUFFICES ASSUME NEW below \in 1..n
                  PROVE  Turn(u, limit, h, below) = Turn(u, limit, g, below)
      OBVIOUS
    <3>1. CASE HasNextPage(u, below, limit)
      <4>1. NextCursor(u, below, limit) \in 1..(below - 1)
        BY <3>1, CursorBelow
      <4>2. NextCursor(u, below, limit) \in 1..(n - 1)
        BY <1>2, <4>1
      <4>. QED
        BY <2>4, <4>2 DEF Turn
    <3>2. CASE ~HasNextPage(u, below, limit)
      BY <3>2 DEF Turn
    <3>. QED
      BY <3>1, <3>2
  <2>6. h = [below \in 1..n |-> Turn(u, limit, g, below)]
    BY DEF h
  <2>7. h = [below \in 1..n |-> Turn(u, limit, h, below)]
    BY <2>5, <2>6
  <2>8. Walks(u, limit, h, 1..n)
    BY <2>7 DEF Walks
  <2>. QED
    BY <1>2, <2>8
<1>. QED
  BY <1>3, <1>4

LEMMA WalkTurns ==
  ASSUME NotesTyped, NEW u, NEW limit \in Nat, NEW below \in 1..(Len(notes) + 1)
  PROVE  Walk(u, limit)[below] = Turn(u, limit, Walk(u, limit), below)
<1>. DEFINE S == 1..(Len(notes) + 1)
<1>0. Len(notes) + 1 \in Nat
  BY DEF NotesTyped
<1>1. \E g : Walks(u, limit, g, S)
  <2>. DEFINE N == Len(notes) + 1
  <2>1. N \in Nat
    BY <1>0
  <2>. HIDE DEF N
  <2>2. \E g : Walks(u, limit, g, 1..N)
    BY <2>1, WalkExists
  <2>. QED
    BY <2>2 DEF N
<1>2. Walk(u, limit) = CHOOSE g : Walks(u, limit, g, S)
  BY DEF Walk, Walks, Turn
<1>3. Walks(u, limit, Walk(u, limit), S)
  BY <1>1, <1>2
<1>4. Walk(u, limit) = [b \in S |-> Turn(u, limit, Walk(u, limit), b)]
  BY <1>3 DEF Walks
<1>. QED
  BY <1>4

-----------------------------------------------------------------------------
(* What the pages show.                                                    *)

(* No notification twice, and all but every (limit + 1)-th.                *)
PagesHold(M, limit, pages) ==
  /\ pages \in Seq(SUBSET M)
  /\ \A i, k \in DOMAIN pages : i # k => pages[i] \cap pages[k] = {}
  /\ \A n \in M :
       (\E i \in DOMAIN pages : n \in pages[i]) <=> RankIn(M, n) % (limit + 1) # 0

LEMMA Remainders ==
  ASSUME NEW r \in Nat, NEW d \in Nat, d > 0
  PROVE  (d + r) % d = r % d
<1>. DEFINE q == r \div d
            m == r % d
<1>1. q \in Int /\ m \in Int /\ 0 <= m /\ m < d /\ r = d * q + m
  OBVIOUS
<1>. HIDE DEF q, m
<1>2. d + r = d * (q + 1) + m
  BY <1>1
<1>3. \A k \in Int : (d * k + m) % d = m
  BY <1>1
<1>. QED
  BY <1>1, <1>2, <1>3 DEF m

LEMMA RemainderSmall ==
  ASSUME NEW d \in Nat, d > 0
  PROVE  d % d = 0 /\ \A r \in Nat : r < d => r % d = r
  OBVIOUS

LEMMA LastPageHolds ==
  ASSUME NotesTyped, NEW u, NEW below \in Int, NEW limit \in Nat,
         ~HasNextPage(u, below, limit)
  PROVE  PagesHold(MineBelow(u, below), limit, <<Rows(u, below, limit)>>)
<1>. DEFINE M == MineBelow(u, below)
            pages == <<M>>
<1>1. Rows(u, below, limit) = M /\ \A n \in M : RankIn(M, n) \in 1..limit
  BY LastPage
<1>2. \A n \in M : RankIn(M, n) % (limit + 1) # 0
  <2>. SUFFICES ASSUME NEW n \in M PROVE RankIn(M, n) % (limit + 1) # 0
    OBVIOUS
  <2>. DEFINE r == RankIn(M, n)
  <2>1. r \in 1..limit
    BY <1>1
  <2>. HIDE DEF r
  <2>2. r \in Nat /\ r < limit + 1 /\ r # 0 /\ limit + 1 \in Nat /\ limit + 1 > 0
    BY <2>1
  <2>3. r % (limit + 1) = r
    BY <2>2, RemainderSmall
  <2>. QED
    BY <2>2, <2>3 DEF r
<1>. HIDE DEF M
<1>3. pages \in Seq(SUBSET M) /\ DOMAIN pages = {1} /\ pages[1] = M
  OBVIOUS
<1>4. PagesHold(M, limit, pages)
  BY <1>2, <1>3 DEF PagesHold
<1>. QED
  BY <1>1, <1>4 DEF M

LEMMA MorePagesHold ==
  ASSUME NotesTyped, NEW u, NEW below \in Int, NEW limit \in Nat,
         HasNextPage(u, below, limit), NEW rest,
         PagesHold(MineBelow(u, NextCursor(u, below, limit)), limit, rest)
  PROVE  PagesHold(MineBelow(u, below), limit, <<Rows(u, below, limit)>> \o rest)
<1>. DEFINE M == MineBelow(u, below)
            c == NextCursor(u, below, limit)
            L == MineBelow(u, c)
            page == Rows(u, below, limit)
            pages == <<page>> \o rest
            d == limit + 1
<1>1. c \in M /\ RankIn(M, c) = d /\ page = {n \in M : n > c}
  BY PageBefore
<1>2. IsFiniteSet(M) /\ \A n \in M : n \in Int
  BY MineFinite
<1>3. c \in Int /\ c < below
  BY <1>1, <1>2 DEF MineBelow
<1>4. L = {n \in M : n < c}
  BY <1>2, <1>3 DEF MineBelow, NotesTyped
<1>5. PagesHold(L, limit, rest)
  OBVIOUS
<1>. HIDE DEF M, c, L, page
<1>6. /\ rest \in Seq(SUBSET L)
      /\ \A i, k \in DOMAIN rest : i # k => rest[i] \cap rest[k] = {}
      /\ \A n \in L : (\E i \in DOMAIN rest : n \in rest[i]) <=> RankIn(L, n) % d # 0
  BY <1>5 DEF PagesHold
<1>7. DOMAIN rest = 1..Len(rest) /\ Len(rest) \in Nat
      /\ \A i \in DOMAIN rest : rest[i] \subseteq L
  BY <1>6
<1>8. L \subseteq M /\ page \subseteq M /\ page \cap L = {} /\ c \notin page /\ c \notin L
  <2>1. L \subseteq M /\ page \subseteq M
    BY <1>1, <1>4
  <2>2. \A n \in page : n \notin L
    <3>. SUFFICES ASSUME NEW n \in page, n \in L PROVE FALSE
      OBVIOUS
    <3>1. n \in Int /\ n > c /\ n < c
      BY <1>1, <1>2, <1>4
    <3>. QED
      BY <1>3, <3>1
  <2>3. ~(c > c) /\ ~(c < c)
    BY <1>3
  <2>. QED
    BY <1>1, <1>4, <2>1, <2>2, <2>3
<1>9. pages \in Seq(SUBSET M)
  <2>1. rest \in Seq(SUBSET M)
    BY <1>6, <1>8
  <2>2. <<page>> \in Seq(SUBSET M)
    BY <1>8
  <2>. QED
    BY <2>1, <2>2
<1>10. /\ DOMAIN pages = 1..(Len(rest) + 1)
       /\ pages[1] = page
       /\ \A i \in 2..(Len(rest) + 1) : pages[i] = rest[i - 1]
  BY <1>6, <1>7
<1>. HIDE DEF pages
<1>11. \A i \in 2..(Len(rest) + 1) : i - 1 \in DOMAIN rest /\ pages[i] \subseteq L
  BY <1>7, <1>10
<1>12. \A i, k \in DOMAIN pages : i # k => pages[i] \cap pages[k] = {}
  <2>. SUFFICES ASSUME NEW i \in DOMAIN pages, NEW k \in DOMAIN pages, i # k
                PROVE  pages[i] \cap pages[k] = {}
    OBVIOUS
  <2>1. CASE i = 1
    <3>1. k \in 2..(Len(rest) + 1)
      BY <1>7, <1>10, <2>1
    <3>. QED
      BY <1>8, <1>10, <1>11, <2>1, <3>1
  <2>2. CASE k = 1
    <3>1. i \in 2..(Len(rest) + 1)
      BY <1>7, <1>10, <2>2
    <3>. QED
      BY <1>8, <1>10, <1>11, <2>2, <3>1
  <2>3. CASE i # 1 /\ k # 1
    <3>1. i \in 2..(Len(rest) + 1) /\ k \in 2..(Len(rest) + 1)
      BY <1>7, <1>10, <2>3
    <3>2. i - 1 # k - 1
      BY <3>1
    <3>3. rest[i - 1] \cap rest[k - 1] = {}
      BY <1>6, <1>11, <3>1, <3>2
    <3>. QED
      BY <1>10, <3>1, <3>3
  <2>. QED
    BY <2>1, <2>2, <2>3
<1>13. \A n : (\E i \in DOMAIN pages : n \in pages[i]) <=>
                n \in page \/ \E i \in DOMAIN rest : n \in rest[i]
  <2>1. ASSUME NEW n, NEW i \in DOMAIN pages, n \in pages[i]
        PROVE  n \in page \/ \E k \in DOMAIN rest : n \in rest[k]
    <3>1. CASE i = 1
      BY <1>10, <2>1, <3>1
    <3>2. CASE i # 1
      <4>1. i \in 2..(Len(rest) + 1)
        BY <1>7, <1>10, <3>2
      <4>. QED
        BY <1>10, <1>11, <2>1, <4>1
    <3>. QED
      BY <3>1, <3>2
  <2>2. ASSUME NEW n, n \in page
        PROVE  \E i \in DOMAIN pages : n \in pages[i]
    <3>1. 1 \in DOMAIN pages
      BY <1>7, <1>10
    <3>. QED
      BY <1>10, <2>2, <3>1
  <2>3. ASSUME NEW n, NEW k \in DOMAIN rest, n \in rest[k]
        PROVE  \E i \in DOMAIN pages : n \in pages[i]
    <3>1. k + 1 \in 2..(Len(rest) + 1) /\ (k + 1) - 1 = k /\ k + 1 \in DOMAIN pages
      BY <1>7, <1>10
    <3>2. pages[k + 1] = rest[k]
      BY <1>10, <3>1
    <3>. QED
      BY <2>3, <3>1, <3>2
  <2>. QED
    BY <2>1, <2>2, <2>3
<1>14. d \in Nat /\ d > 0
  OBVIOUS
<1>15. \A n \in M : RankIn(M, n) \in Nat
  BY <1>2, RankOver
<1>16. ASSUME NEW n \in M
       PROVE  (n \in page \/ \E i \in DOMAIN rest : n \in rest[i]) <=> RankIn(M, n) % d # 0
  <2>1. CASE n > c
    <3>1. n \in page
      BY <1>1, <2>1
    <3>2. RankIn(M, n) < d
      BY <1>1, <1>2, <2>1, RankFalls
    <3>3. RankIn(M, n) # 0
      BY <1>2, RankOver
    <3>4. RankIn(M, n) % d = RankIn(M, n)
      BY <1>14, <1>15, <3>2, RemainderSmall
    <3>. QED
      BY <3>1, <3>3, <3>4
  <2>2. CASE n = c
    <3>1. RankIn(M, n) % d = 0
      BY <1>1, <1>14, <2>2, RemainderSmall
    <3>2. n \notin page /\ \A i \in DOMAIN rest : n \notin rest[i]
      BY <1>7, <1>8, <2>2
    <3>. QED
      BY <3>1, <3>2
  <2>3. CASE n < c
    <3>1. n \in L /\ n \notin page
      BY <1>1, <1>2, <1>3, <1>4, <2>3
    <3>2. RankIn(M, n) = d + RankIn(L, n)
      BY <1>1, <1>2, <1>4, <3>1, RankBelow
    <3>3. IsFiniteSet(L) /\ \A m \in L : m \in Int
      BY <1>2, <1>8, FS_Subset
    <3>4. RankIn(L, n) \in Nat
      BY <3>1, <3>3, RankOver
    <3>5. RankIn(M, n) % d = RankIn(L, n) % d
      BY <1>14, <3>2, <3>4, Remainders
    <3>. QED
      BY <1>6, <3>1, <3>5
  <2>. QED
    BY <1>2, <1>3, <2>1, <2>2, <2>3
<1>17. PagesHold(M, limit, pages)
  BY <1>9, <1>12, <1>13, <1>16 DEF PagesHold
<1>. QED
  BY <1>17 DEF M, pages, page

(* From any cursor on: by the least one that would break it.               *)
LEMMA WalksHold ==
  ASSUME NotesTyped, NEW u, NEW limit \in Nat
  PROVE  \A below \in 1..(Len(notes) + 1) :
           PagesHold(MineBelow(u, below), limit, Walk(u, limit)[below])
<1>. DEFINE N == Len(notes) + 1
            Holds(below) == PagesHold(MineBelow(u, below), limit, Walk(u, limit)[below])
            B == {below \in 1..N : ~Holds(below)}
<1>0. N \in Nat
  BY DEF NotesTyped
<1>. SUFFICES ASSUME B # {} PROVE FALSE
  OBVIOUS
<1>1. PICK b \in B : \A m \in B : b <= m
  <2>. HIDE DEF N, Holds
  <2>1. B \in SUBSET Nat
    BY <1>0
  <2>. HIDE DEF B
  <2>. QED
    BY <2>1, MinIsLeast
<1>. HIDE DEF N, Holds
<1>2. b \in 1..N /\ b \in Int /\ ~Holds(b)
  BY <1>0
<1>3. Walk(u, limit)[b] = Turn(u, limit, Walk(u, limit), b)
  BY <1>2, WalkTurns DEF N
<1>4. CASE HasNextPage(u, b, limit)
  <2>. DEFINE c == NextCursor(u, b, limit)
  <2>1. c \in 1..(b - 1)
    BY <1>2, <1>4, CursorBelow
  <2>2. c \in 1..N /\ ~(b <= c)
    BY <1>0, <1>2, <2>1
  <2>3. Holds(c)
    <3>1. c \notin B
      <4>. HIDE DEF B, c
      <4>. QED
        BY <1>1, <2>2
    <3>. HIDE DEF c
    <3>. QED
      BY <2>2, <3>1
  <2>4. PagesHold(MineBelow(u, c), limit, Walk(u, limit)[c])
    BY <2>3 DEF Holds
  <2>5. PagesHold(MineBelow(u, b), limit, <<Rows(u, b, limit)>> \o Walk(u, limit)[c])
    BY <1>2, <1>4, <2>4, MorePagesHold
  <2>6. Holds(b)
    BY <1>3, <1>4, <2>5 DEF Holds, Turn
  <2>. QED
    BY <1>2, <2>6
<1>5. CASE ~HasNextPage(u, b, limit)
  <2>1. PagesHold(MineBelow(u, b), limit, <<Rows(u, b, limit)>>)
    BY <1>2, <1>5, LastPageHolds
  <2>2. Holds(b)
    BY <1>3, <1>5, <2>1 DEF Holds, Turn
  <2>. QED
    BY <1>2, <2>2
<1>. QED
  BY <1>4, <1>5

LEMMA PagesMiss ==
  ASSUME TypeOK
  PROVE  PagesMissBoundaries
<1>1. NotesTyped
  BY DEF TypeOK, NotesTyped
<1>2. PageLimits \subseteq Nat
  BY NotificationsAssumption DEF NotificationsAssumption
<1>. SUFFICES ASSUME NEW u \in Users, NEW limit \in PageLimits
              PROVE  LET pages == Pages(u, limit) IN
                     /\ \A i, k \in DOMAIN pages : i # k => pages[i] \cap pages[k] = {}
                     /\ \A n \in DOMAIN notes : notes[n].recipient = u =>
                          (n \in UNION Range(pages) <=> Rank(n) % (limit + 1) # 0)
  BY DEF PagesMissBoundaries
<1>. DEFINE pages == Pages(u, limit)
            N == Len(notes) + 1
            M == {n \in DOMAIN notes : notes[n].recipient = u}
<1>3. limit \in Nat
  BY <1>2
<1>4. N \in 1..N
  BY <1>1 DEF NotesTyped
<1>5. MineBelow(u, N) = M
  BY <1>1 DEF MineBelow, NotesTyped
<1>6. PagesHold(MineBelow(u, N), limit, Walk(u, limit)[N])
  BY <1>1, <1>3, <1>4, WalksHold
<1>7. PagesHold(M, limit, pages)
  BY <1>5, <1>6, PagesWalk
<1>8. \A n \in M : Rank(n) = RankIn(M, n)
  BY DEF Rank, RankIn, From
<1>. HIDE DEF pages
<1>9. \A n : n \in UNION Range(pages) <=> \E i \in DOMAIN pages : n \in pages[i]
  BY DEF Range
<1>10. \A i, k \in DOMAIN pages : i # k => pages[i] \cap pages[k] = {}
  BY <1>7 DEF PagesHold
<1>11. ASSUME NEW n \in DOMAIN notes, notes[n].recipient = u
       PROVE  n \in UNION Range(pages) <=> Rank(n) % (limit + 1) # 0
  <2>1. n \in M
    BY <1>11
  <2>. HIDE DEF M
  <2>2. (\E i \in DOMAIN pages : n \in pages[i]) <=> RankIn(M, n) % (limit + 1) # 0
    BY <1>7, <2>1 DEF PagesHold
  <2>. QED
    BY <1>8, <1>9, <2>1, <2>2
<1>. QED
  BY <1>10, <1>11 DEF pages

(* getNotificationsForUser walked page by page to its end shows no         *)
(* notification twice, and of every limit + 1, counted from the newest,    *)
(* leaves out the one at the boundary.                                     *)
THEOREM PagesAlwaysMissBoundaries == Spec => []PagesMissBoundaries
BY NotificationsTyped, PagesMiss, PTL
=============================================================================
