----------------------------- MODULE Connections -----------------------------
(***************************************************************************)
(* Connections between users (user service): one Postgres row for a pair,  *)
(* whose unique key is the two ids in lexicographic order, so a pair is a  *)
(* set of two users here.  A request inserts the row, or accepts the row   *)
(* of the other user's request.  Accepting and rejecting read the row      *)
(* before the transaction that writes, and write whatever has become of    *)
(* it.  Every write commits with a row of the outbox.                      *)
(*                                                                         *)
(* Sending to oneself, sending twice and answering a row that is gone      *)
(* change nothing (the second send fails in the mapper, which is given     *)
(* undefined, and its transaction is rolled back).                         *)
(***************************************************************************)
EXTENDS Integers, Sequences, FiniteSets

CONSTANTS
  Users,
  Answers,    \* accept and reject calls that may run at once
  MaxEvents   \* bound on the outbox

ASSUME ConnectionsAssumption == MaxEvents \in Nat

VARIABLES
  rows,    \* user_connections
  outbox,  \* connection.* events in the order they were committed
  answer,  \* the copy of the row each accept or reject call works with
  asked,   \* history: who asked for the connection of each row id
  nextId   \* the next row id

connections == <<rows, outbox, answer, asked, nextId>>

Pairs == {{p[1], p[2]} : p \in {q \in Users \X Users : q[1] # q[2]}}
Ids == 1..MaxEvents
NoRow == [id |-> 0]
Idle == [op |-> "none"]

Row == [id : Ids, requester : Users, status : {"PENDING", "ACCEPTED"}]
Event == [kind : {"requested", "accepted", "rejected"},
          id : Ids, requester : Users, other : Users]
AnswerCall == [op : {"accept", "reject"}, pair : Pairs, id : Ids,
               requester : Users, other : Users]

ConnectionsInit ==
  /\ rows = [p \in Pairs |-> NoRow]
  /\ outbox = <<>>
  /\ answer = [c \in Answers |-> Idle]
  /\ asked = [i \in Ids |-> {}]
  /\ nextId = 1

Publish(kind, id, requester, other) ==
  /\ Len(outbox) < MaxEvents
  /\ outbox' = Append(outbox, [kind |-> kind, id |-> id,
                               requester |-> requester, other |-> other])

-----------------------------------------------------------------------------
(* SendConnectionRequest: the upsert inserts a pending row,                *)

(* Mutant: two arguments of the constructor are exchanged.                 *)
PendingRowExchanged(u, id) == [id |-> u, requester |-> id, status |-> "PENDING"]
PendingRow(u, id) == [id |-> id, requester |-> u, status |-> "PENDING"]

Request(u, v) ==
  LET p == {u, v} IN
  /\ u # v
  /\ rows[p] = NoRow
  /\ rows' = [rows EXCEPT ![p] = PendingRow(u, nextId)]
  /\ asked' = [asked EXCEPT ![nextId] = {u}]
  /\ nextId' = nextId + 1
  /\ Publish("requested", nextId, u, v)
  /\ UNCHANGED answer

(* Mutant: the upsert accepts a row without looking at who requested it.   *)
MayJoin(u, p) == rows[p] # NoRow

(* or, when the other user requested it, accepts the row that is there.    *)
IsRequestOfOther(u, p) == rows[p] # NoRow /\ rows[p].requester # u

RequestBack(u, v) ==
  LET p == {u, v} IN
  /\ u # v
  /\ IsRequestOfOther(u, p)
  /\ rows' = [rows EXCEPT ![p].status = "ACCEPTED"]
  /\ asked' = [asked EXCEPT ![rows[p].id] = @ \cup {u}]
  /\ Publish("accepted", rows[p].id, rows[p].requester, u)
  /\ UNCHANGED <<answer, nextId>>

(* Accepting and rejecting: the row is read, the caller has to be the user *)
(* who was asked, and the row has to be pending.                           *)

ReadRow(c, u, op) ==
  \E p \in Pairs :
    /\ answer[c] = Idle
    /\ rows[p] # NoRow /\ u \in p
    /\ rows[p].requester # u
    /\ rows[p].status = "PENDING"
    /\ answer' = [answer EXCEPT ![c] =
                    [op |-> op, pair |-> p, id |-> rows[p].id,
                     requester |-> rows[p].requester, other |-> u]]
    /\ UNCHANGED <<rows, outbox, asked, nextId>>

(* The row a call read, if it is still there.                              *)
Found(c) == rows[answer[c].pair] # NoRow
              /\ rows[answer[c].pair].id = answer[c].id

Accept(c) ==
  LET a == answer[c] IN
  /\ a.op = "accept"
  /\ answer' = [answer EXCEPT ![c] = Idle]
  /\ \/ /\ Found(c)
        /\ rows' = [rows EXCEPT ![a.pair].status = "ACCEPTED"]
        /\ asked' = [asked EXCEPT ![a.id] = @ \cup {a.other}]
        /\ Publish("accepted", a.id, a.requester, a.other)
     \/ /\ ~Found(c)
        /\ UNCHANGED <<rows, outbox, asked>>
  /\ UNCHANGED nextId

(* Mutant: only a pending row is deleted, but the rejection is announced.  *)
RemainingAccepted(c) ==
  IF Found(c) /\ rows[answer[c].pair].status = "PENDING"
  THEN [rows EXCEPT ![answer[c].pair] = NoRow] ELSE rows

(* Deleting a row that is gone is no error.                                *)
Remaining(c) == IF Found(c) THEN [rows EXCEPT ![answer[c].pair] = NoRow]
                ELSE rows

Reject(c) ==
  LET a == answer[c] IN
  /\ a.op = "reject"
  /\ answer' = [answer EXCEPT ![c] = Idle]
  /\ rows' = Remaining(c)
  /\ Publish("rejected", a.id, a.requester, a.other)
  /\ UNCHANGED <<asked, nextId>>

(* The database fails, or the process stops, before the transaction.       *)
Fail(c) ==
  /\ answer[c] # Idle
  /\ answer' = [answer EXCEPT ![c] = Idle]
  /\ UNCHANGED <<rows, outbox, asked, nextId>>

ConnectionsNext ==
  \/ \E u, v \in Users : Request(u, v) \/ RequestBack(u, v)
  \/ \E c \in Answers, u \in Users, op \in {"accept", "reject"} :
       ReadRow(c, u, op)
  \/ \E c \in Answers : Accept(c) \/ Reject(c) \/ Fail(c)

ConnectionsSpec == ConnectionsInit /\ [][ConnectionsNext]_connections

-----------------------------------------------------------------------------
ConnectionsTypeOK ==
  /\ rows \in [Pairs -> Row \cup {NoRow}]
  /\ outbox \in Seq(Event) /\ Len(outbox) <= MaxEvents
  /\ answer \in [Answers -> AnswerCall \cup {Idle}]
  /\ asked \in [Ids -> SUBSET Users]
  /\ nextId \in 1..(MaxEvents + 1)

Said(kind, id) == \E n \in DOMAIN outbox :
                    outbox[n].kind = kind /\ outbox[n].id = id

(* "only the other party can trigger acceptance"                           *)
(* (UserConnectionRepository.upsert): when a row is accepted both users    *)
(* have asked for it, whatever calls on the pair overlap.                  *)
AcceptedByBoth ==
  \A p \in Pairs : rows[p] # NoRow /\ rows[p].status = "ACCEPTED"
                     => asked[rows[p].id] = p

(* The outbox tells the fate of every row: a pending row has been neither  *)
(* accepted nor rejected, an accepted one has been accepted and not        *)
(* rejected, and a row that is gone has been rejected.  Holds although     *)
(* answers write a row they read before their transaction.                 *)
Live(id) == \E p \in Pairs : rows[p].id = id

OutboxTellsFate ==
  /\ \A p \in Pairs : rows[p] # NoRow =>
       /\ ~Said("rejected", rows[p].id)
       /\ rows[p].status = "ACCEPTED" <=> Said("accepted", rows[p].id)
  /\ \A id \in 1..(nextId - 1) : ~Live(id) => Said("rejected", id)
=============================================================================
