------------------------------ MODULE Enrollment ------------------------------
(***************************************************************************)
(* Cohorts and cohort memberships of the skill service: CohortService and  *)
(* the MongoDB collections behind it.                                      *)
(*                                                                         *)
(* enrollInCohort and the three payment event handlers run as MongoDB      *)
(* transactions (UnitOfWork.transact): every read is taken from a snapshot,*)
(* the clock is read with it, and a transaction whose write set meets a    *)
(* document committed by another one since the snapshot aborts.  The       *)
(* expert's operations (createCohort, updateCohort, deleteCohort) are not  *)
(* transactional: they read, and write in a later step.                    *)
(*                                                                         *)
(* The payments service, Stripe and the broker appear here only through    *)
(* what they may answer, emit and redeliver.  A payment is named by the    *)
(* membership it is for: payments has a unique index on membership_id.     *)
(***************************************************************************)
EXTENDS Integers, FiniteSets

CONSTANTS
  Users,           \* learners; the expert of a cohort is never one of them
  Cohorts,         \* cohort ids
  Workshop,        \* the workshop of each cohort
  Offers,          \* what an expert may ask createCohort for
  Edits,           \* what an expert may ask updateCohort for
  Requests,        \* enrollInCohort calls that may be open at once
  Asks,            \* <<r, u>>: request r may be made by user u
  Handlers,        \* payment events that may be handled at once
  Admins,          \* expert calls that may be open at once
  Deletable,       \* cohorts the expert may try to delete
  Outcomes,        \* the payment events that occur
  MaxMemberships,  \* bound on the membership ids drawn
  ReservationTtl,  \* RESERVATION_TTL_MS, in ticks
  MaxTime,         \* bound on the clock
  SlowHandlers,    \* whether a payment handler may still be open when the
                   \* reservation it grants runs out
  Faulty           \* whether the database may fail and the service may crash

Members == 1..MaxMemberships
NoPayment == 0
NoExpiry == 0

Statuses == {"pending_payment", "active", "payment_failed", "expired",
             "refunded", "awaiting_reconciliation"}
LiveStatuses == {"active", "pending_payment", "awaiting_reconciliation"}

Membership == [user : Users, cohort : Cohorts, status : Statuses,
               payment : Members \cup {NoPayment}, expiresAt : Nat]
Absent == [status |-> "absent"]

EventTypes == {"succeeded", "failed", "refunded"}
Event == [type : EventTypes, member : Members, payment : Members]
PaymentEvent(type, m) == [type |-> type, member |-> m, payment |-> m]
NoEvent == [type |-> "none"]

CohortStates == {"planned", "listed", "deleted"}
Cohort == [state : CohortStates, price : {0, 1}, maxStudents : Nat,
           first : Nat, last : Nat]
EditFields == {"price", "maxStudents", "startDate"}
AdminCall == {[op |-> "idle"]} \cup
             [op : {"create", "update", "delete"}, cohort : Cohorts,
              doc : Cohort]

ASSUME EnrollmentAssumption ==
  /\ Users # {} /\ Cohorts # {}
  /\ Offers \subseteq {o \in Cohort : o.state = "listed" /\ o.first <= o.last}
  /\ \A e \in Edits : e.fields \subseteq EditFields /\ e.doc \in Cohort
  /\ Asks \subseteq Requests \X Users
  /\ Requests \cap Handlers = {}
  /\ IsFiniteSet(Requests) /\ Requests # {} /\ IsFiniteSet(Admins)
  /\ MaxMemberships \in Nat /\ MaxTime \in Nat
  /\ ReservationTtl \in Nat \ {0}
  /\ Outcomes \subseteq EventTypes
  /\ {SlowHandlers, Faulty} \subseteq BOOLEAN

VARIABLES
  membership,  \* the collection of cohort memberships
  cohort,      \* the collection of cohorts
  nextMember,  \* the next membership id to draw
  now,         \* the clock
  tx,          \* open transactions, by request or handler
  handling,    \* the unacknowledged event of each handler
  admin,       \* expert calls between their reads and their write
  queue,       \* events ready in skill_payments_queue
  session,     \* memberships that have a Stripe checkout session
  emitted,     \* events the payments service has published
  settled,     \* history: events whose transaction committed
  peak         \* history: largest maxStudents each cohort has had

skill == <<membership, cohort, nextMember, tx, handling, admin>>
world == <<queue, session, emitted>>
history == <<settled, peak>>
vars == <<membership, cohort, nextMember, now, tx, handling, admin, queue,
          session, emitted, settled, peak>>

Slots == Requests \cup Handlers
Stages == {"idle", "checkout", "commit", "ack"}
NoWrites == [m \in Members |-> Absent]
Written(w) == {m \in Members : w[m].status # "absent"}
Tx == [stage : Stages, writes : [Members -> Membership \cup {Absent}],
       doomed : BOOLEAN, member : Members \cup {0}]
Idle == [stage |-> "idle", writes |-> NoWrites, doomed |-> FALSE, member |-> 0]

-----------------------------------------------------------------------------
(* Queries of the repositories, evaluated on the snapshot.                 *)

Exists(m) == membership[m].status # "absent"
In(c) == {m \in Members : Exists(m) /\ membership[m].cohort = c}
Of(u) == {m \in Members : Exists(m) /\ membership[m].user = u}

IsStale(m) == /\ membership[m].status = "pending_payment"
              /\ membership[m].expiresAt # NoExpiry
              /\ membership[m].expiresAt <= now

(* Seats getSeatCounts reports as held: active, or pending and unexpired.  *)
Held(c) == {m \in In(c) : \/ membership[m].status = "active"
                          \/ /\ membership[m].status = "pending_payment"
                             /\ membership[m].expiresAt > now}

(* What enrollInCohort marks expired: the user's and the cohort's stale    *)
(* reservations.                                                           *)
Stale(u, c) == {m \in Of(u) \cup In(c) : IsStale(m)}

Upcoming(c) == now < cohort[c].first

(* Mutant: only the cohort asked for is compared, not its workshop.        *)
BlockingSameCohort(u, c) ==
  {m \in Of(u) \ Stale(u, c) : /\ membership[m].status \in LiveStatuses
                               /\ membership[m].cohort = c}

(* The user's live memberships in cohorts of the same workshop, after the  *)
(* expirations.  A deleted cohort is not found by getByIds.                *)
Blocking(u, c) ==
  {m \in Of(u) \ Stale(u, c) :
     /\ membership[m].status \in LiveStatuses
     /\ cohort[membership[m].cohort].state = "listed"
     /\ Workshop[membership[m].cohort] = Workshop[c]}

(* Mutant: windows that share their boundary day count as apart.           *)
OverlappingStrictly(c, doc) ==
  {d \in Cohorts \ {c} : /\ cohort[d].state = "listed"
                         /\ Workshop[d] = Workshop[c]
                         /\ cohort[d].first < doc.last
                         /\ cohort[d].last > doc.first}

Overlapping(c, doc) ==
  {d \in Cohorts \ {c} : /\ cohort[d].state = "listed"
                         /\ Workshop[d] = Workshop[c]
                         /\ cohort[d].first <= doc.last
                         /\ cohort[d].last >= doc.first}

-----------------------------------------------------------------------------
Init ==
  /\ membership = [m \in Members |-> Absent]
  /\ cohort = [c \in Cohorts |-> [state |-> "planned", price |-> 0,
                                  maxStudents |-> 0, first |-> 0, last |-> 0]]
  /\ nextMember = 1
  /\ now = 0
  /\ tx = [t \in Slots |-> Idle]
  /\ handling = [h \in Handlers |-> NoEvent]
  /\ admin = [a \in Admins |-> [op |-> "idle"]]
  /\ queue = {} /\ session = {} /\ emitted = {}
  /\ settled = {}
  /\ peak = [c \in Cohorts |-> 0]

-----------------------------------------------------------------------------
(* enrollInCohort: one transaction, with the call to the payments service  *)
(* inside it.  A refused request rolls back, expirations included.         *)

MayEnroll(r, u, c) ==
  /\ tx[r].stage = "idle" /\ <<r, u>> \in Asks
  /\ cohort[c].state = "listed"
  /\ Upcoming(c)

Begin(t, stage, writes, m) ==
  tx' = [tx EXCEPT ![t] = [stage |-> stage, writes |-> writes,
                           doomed |-> FALSE, member |-> m]]

(* Mutant: a status outside the schema's enum.                             *)
ExpirationsMisspelt(u, c) ==
  [m \in Members |->
     IF m \in Stale(u, c) THEN [membership[m] EXCEPT !.status = "stale"]
     ELSE Absent]

Expirations(u, c) ==
  [m \in Members |->
     IF m \in Stale(u, c) THEN [membership[m] EXCEPT !.status = "expired"]
     ELSE Absent]

ExpireAndCreate(u, c, doc) ==
  [Expirations(u, c) EXCEPT ![nextMember] = doc]

(* The user already holds a pending reservation here: ask for its checkout *)
(* session again.                                                          *)
ResumeCheckout(r, u, c) ==
  /\ MayEnroll(r, u, c)
  /\ \E m \in Blocking(u, c) :
       /\ membership[m].cohort = c
       /\ membership[m].status = "pending_payment"
       /\ Begin(r, "checkout", Expirations(u, c), m)
  /\ UNCHANGED <<membership, cohort, nextMember, now, handling, admin>>
  /\ UNCHANGED <<world, history>>

(* Mutant: the last seat is counted once too often.                        *)
HasSeatOffByOne(u, c) ==
  /\ Blocking(u, c) = {}
  /\ Cardinality(Held(c)) <= cohort[c].maxStudents

HasSeat(u, c) ==
  /\ Blocking(u, c) = {}
  /\ Cardinality(Held(c)) < cohort[c].maxStudents

JoinFree(r, u, c) ==
  /\ MayEnroll(r, u, c)
  /\ HasSeat(u, c)
  /\ cohort[c].price = 0
  /\ nextMember \in Members
  /\ Begin(r, "commit",
           ExpireAndCreate(u, c, [user |-> u, cohort |-> c,
             status |-> "active", payment |-> NoPayment,
             expiresAt |-> NoExpiry]), 0)
  /\ nextMember' = nextMember + 1
  /\ UNCHANGED <<membership, cohort, now, handling, admin, world, history>>

Reserve(r, u, c) ==
  /\ MayEnroll(r, u, c)
  /\ HasSeat(u, c)
  /\ cohort[c].price > 0
  /\ nextMember \in Members
  /\ Begin(r, "checkout",
           ExpireAndCreate(u, c, [user |-> u, cohort |-> c,
             status |-> "pending_payment", payment |-> NoPayment,
             expiresAt |-> now + ReservationTtl]), nextMember)
  /\ nextMember' = nextMember + 1
  /\ UNCHANGED <<membership, cohort, now, handling, admin, world, history>>

WithPayment(w, m) ==
  IF m \in Written(w)
    THEN [w EXCEPT ![m] = [w[m] EXCEPT !.payment = m]]
    ELSE w

(* The payments service answers with a session; a new reservation then     *)
(* records the payment.  It refuses a payment that is no longer PENDING.   *)
CheckoutAnswered(r) ==
  LET m == tx[r].member IN
  /\ tx[r].stage = "checkout"
  /\ \A e \in emitted : e.member # m
  /\ session' = session \cup {m}
  /\ tx' = [tx EXCEPT ![r] =
               [stage |-> "commit", writes |-> WithPayment(tx[r].writes, m),
                doomed |-> tx[r].doomed, member |-> 0]]
  /\ UNCHANGED <<membership, cohort, nextMember, now, handling, admin>>
  /\ UNCHANGED <<queue, emitted, history>>

(* The call fails, before or after Stripe created the session.             *)
CheckoutFailed(r) ==
  /\ tx[r].stage = "checkout"
  /\ session' \in {session, session \cup {tx[r].member}}
  /\ tx' = [tx EXCEPT ![r] = Idle]
  /\ UNCHANGED <<membership, cohort, nextMember, now, handling, admin>>
  /\ UNCHANGED <<queue, emitted, history>>

-----------------------------------------------------------------------------
(* handlePaymentSucceeded, handlePaymentFailed, handlePaymentRefunded.     *)

Change(m, doc) == [NoWrites EXCEPT ![m] = doc]

Reconcile(m, p) ==
  [membership[m] EXCEPT !.status = "awaiting_reconciliation", !.payment = p]

(* Mutant: a late payment revives whatever became of the reservation.      *)
GrantableAnyStatus(m) ==
  LET c == membership[m].cohort IN
  /\ ~IsStale(m)
  /\ Upcoming(c)
  /\ Cardinality(Held(c)) <= cohort[c].maxStudents

(* Mutant: seats are not counted again when the payment arrives.           *)
GrantableUncounted(m) ==
  /\ membership[m].status = "pending_payment" /\ ~IsStale(m)
  /\ Upcoming(membership[m].cohort)

(* The reservation is still good and the cohort not over capacity: held    *)
(* seats include this one.                                                 *)
Grantable(m) ==
  LET c == membership[m].cohort IN
  /\ membership[m].status = "pending_payment" /\ ~IsStale(m)
  /\ Upcoming(c)
  /\ Cardinality(Held(c)) <= cohort[c].maxStudents

SucceededWrites(m, p) ==
  LET doc == membership[m] IN
  IF doc.status = "active"
    THEN IF doc.payment = p THEN NoWrites
         ELSE Change(m, Reconcile(m, doc.payment))
    ELSE IF Grantable(m)
      THEN Change(m, [doc EXCEPT !.status = "active", !.payment = p,
                                 !.expiresAt = NoExpiry])
      ELSE Change(m, Reconcile(m, p))

Contradicts(target, status) ==
  \/ target = "payment_failed" /\ status = "active"
  \/ target = "refunded" /\ status \notin {"active", "refunded"}

(* applyPaymentOutcome                                                     *)
OutcomeWrites(target, m, p) ==
  LET doc == membership[m] IN
  IF doc.status = target /\ doc.payment = p THEN NoWrites
  ELSE IF Contradicts(target, doc.status) THEN Change(m, Reconcile(m, p))
  ELSE Change(m, [doc EXCEPT !.status = target, !.payment = p,
                             !.expiresAt = NoExpiry])

WritesFor(e) ==
  CASE e.type = "succeeded" -> SucceededWrites(e.member, e.payment)
    [] e.type = "failed" -> OutcomeWrites("payment_failed", e.member, e.payment)
    [] e.type = "refunded" -> OutcomeWrites("refunded", e.member, e.payment)

(* The membership, or the cohort of a good reservation, is not there.      *)
NotFound(e) ==
  \/ ~Exists(e.member)
  \/ /\ e.type = "succeeded"
     /\ membership[e.member].status = "pending_payment" /\ ~IsStale(e.member)
     /\ cohort[membership[e.member].cohort].state # "listed"

Take(h, e) ==
  /\ handling[h] = NoEvent
  /\ e \in queue
  /\ queue' = queue \ {e}

HandleEvent(h, e) ==
  /\ Take(h, e)
  /\ ~NotFound(e)
  /\ handling' = [handling EXCEPT ![h] = e]
  /\ Begin(h, "commit", WritesFor(e), 0)
  /\ UNCHANGED <<membership, cohort, nextMember, now, admin, session, emitted>>
  /\ UNCHANGED history

(* A NotFoundError is no AppError: the message is rejected for good.       *)
HandleUnknown(h, e) ==
  /\ Take(h, e)
  /\ NotFound(e)
  /\ UNCHANGED <<skill, now, session, emitted, history>>

-----------------------------------------------------------------------------
(* The end of a transaction.                                               *)

(* Mutant: the updates run outside the session, so nothing ever conflicts. *)
HitUnnoticed(t, w) == tx[t]

(* Another transaction committed a document this one writes: it will meet  *)
(* a write conflict.                                                       *)
Hit(t, w) == [tx[t] EXCEPT !.doomed =
                @ \/ Written(tx[t].writes) \cap Written(w) # {}]

Commit(t) ==
  LET w == tx[t].writes IN
  /\ tx[t].stage = "commit"
  /\ ~tx[t].doomed
  /\ membership' = [m \in Members |->
                      IF m \in Written(w) THEN w[m] ELSE membership[m]]
  /\ tx' = [s \in Slots |->
              IF s = t THEN IF t \in Handlers THEN [Idle EXCEPT !.stage = "ack"]
                            ELSE Idle
              ELSE Hit(s, w)]
  /\ settled' = IF t \in Handlers THEN settled \cup {handling[t]} ELSE settled
  /\ UNCHANGED <<cohort, nextMember, now, handling, admin, world>>
  /\ UNCHANGED peak

Ack(h) ==
  /\ tx[h].stage = "ack"
  /\ tx' = [tx EXCEPT ![h] = Idle]
  /\ handling' = [handling EXCEPT ![h] = NoEvent]
  /\ UNCHANGED <<membership, cohort, nextMember, now, admin, world, history>>

(* The retryable flag a TransientInfraError of the skill service carries   *)
(* when its constructor has run.                                           *)
TransientRetryable == FALSE

(* A transaction ends with a database error.  A handler's event is nacked, *)
(* and goes back to the queue only if the error is retryable.              *)
Abort(t) ==
  /\ tx' = [tx EXCEPT ![t] = Idle]
  /\ IF t \in Handlers
       THEN /\ handling' = [handling EXCEPT ![t] = NoEvent]
            /\ queue' = IF TransientRetryable THEN queue \cup {handling[t]}
                        ELSE queue
       ELSE UNCHANGED <<handling, queue>>
  /\ UNCHANGED <<membership, cohort, nextMember, now, admin, session, emitted>>
  /\ UNCHANGED history

(* MongoDB refuses a write: another transaction changed the document, or   *)
(* holds it because it wrote first.                                        *)
WriteConflict(t) ==
  /\ tx[t].stage = "commit"
  /\ \/ tx[t].doomed
     \/ \E s \in Slots \ {t} :
          Written(tx[s].writes) \cap Written(tx[t].writes) # {}
  /\ Abort(t)

DatabaseError(t) == Faulty /\ tx[t].stage = "commit" /\ Abort(t)

(* The service stops: its transactions are lost, unacknowledged events are *)
(* delivered again.                                                        *)
Crash ==
  /\ Faulty
  /\ tx' = [t \in Slots |-> Idle]
  /\ handling' = [h \in Handlers |-> NoEvent]
  /\ admin' = [a \in Admins |-> [op |-> "idle"]]
  /\ queue' = queue \cup {handling[h] : h \in {g \in Handlers :
                                               handling[g] # NoEvent}}
  /\ UNCHANGED <<membership, cohort, nextMember, now, session, emitted>>
  /\ UNCHANGED history

-----------------------------------------------------------------------------
(* The expert's operations: what was read is written in a later step.      *)

AdminIdle(a) == admin[a].op = "idle"

Plan(a, op, c, doc) ==
  /\ admin' = [admin EXCEPT ![a] = [op |-> op, cohort |-> c, doc |-> doc]]
  /\ UNCHANGED <<membership, cohort, nextMember, now, tx, handling>>
  /\ UNCHANGED <<world, history>>

CreateCohort(a, c, offer) ==
  /\ AdminIdle(a)
  /\ cohort[c].state = "planned"
  /\ \A b \in Admins : admin[b].op = "create" => admin[b].cohort # c
  /\ Overlapping(c, offer) = {}
  /\ Plan(a, "create", c, offer)

Edited(c, edit) ==
  [cohort[c] EXCEPT
     !.price = IF "price" \in edit.fields THEN edit.doc.price ELSE @,
     !.maxStudents = IF "maxStudents" \in edit.fields THEN edit.doc.maxStudents
                     ELSE @,
     !.first = IF "startDate" \in edit.fields THEN edit.doc.first ELSE @,
     !.last = IF "startDate" \in edit.fields THEN edit.doc.last ELSE @]

UpdateCohort(a, c, edit) ==
  /\ AdminIdle(a)
  /\ cohort[c].state = "listed"
  /\ In(c) # {} =>
       /\ edit.fields \subseteq {"maxStudents"}
       /\ "maxStudents" \in edit.fields =>
            edit.doc.maxStudents >= Cardinality(Held(c))
  /\ "startDate" \in edit.fields => Overlapping(c, edit.doc) = {}
  /\ Plan(a, "update", c, Edited(c, edit))

DeleteCohort(a, c) ==
  /\ AdminIdle(a) /\ c \in Deletable
  /\ cohort[c].state = "listed"
  /\ In(c) = {}
  /\ Plan(a, "delete", c, [cohort[c] EXCEPT !.state = "deleted"])

(* The write of a planned operation; updating a document that is gone      *)
(* fails with NotFoundError.                                               *)
WriteCohort(a) ==
  LET c == admin[a].cohort doc == admin[a].doc IN
  /\ ~AdminIdle(a)
  /\ IF admin[a].op = "create" \/ cohort[c].state = "listed"
       THEN /\ cohort' = [cohort EXCEPT ![c] = doc]
            /\ peak' = [peak EXCEPT ![c] =
                          IF doc.maxStudents > @ THEN doc.maxStudents ELSE @]
       ELSE UNCHANGED <<cohort, peak>>
  /\ admin' = [admin EXCEPT ![a] = [op |-> "idle"]]
  /\ UNCHANGED <<membership, nextMember, now, tx, handling, world>>
  /\ UNCHANGED settled

-----------------------------------------------------------------------------
(* The environment.                                                        *)

(* A learner can pay only with the link a committed enrolment returned;    *)
(* Stripe either completes a session or lets it fail; a refund follows a   *)
(* payment.                                                                *)
MayEmit(e) ==
  LET m == e.member IN
  /\ e = PaymentEvent(e.type, m)
  /\ m \in session
  /\ CASE e.type = "succeeded" ->
            /\ Exists(m)
            /\ PaymentEvent("failed", m) \notin emitted
       [] e.type = "failed" -> PaymentEvent("succeeded", m) \notin emitted
       [] e.type = "refunded" -> PaymentEvent("succeeded", m) \in emitted

PaymentsEmits(e) ==
  /\ e \notin emitted
  /\ MayEmit(e)
  /\ emitted' = emitted \cup {e}
  /\ queue' = queue \cup {e}
  /\ UNCHANGED <<skill, now, session, history>>

(* The outbox worker publishes at least once.                              *)
PublishedAgain(e) ==
  /\ e \in emitted
  /\ queue' = queue \cup {e}
  /\ UNCHANGED <<skill, now, session, emitted, history>>

(* The pending reservations a transaction is about to make active.         *)
Granting(t) ==
  {m \in Written(tx[t].writes) : /\ tx[t].writes[m].status = "active"
                                 /\ membership[m].status = "pending_payment"}

(* With SlowHandlers = FALSE a reservation does not run out under the      *)
(* handler that is granting it.                                            *)
Tick ==
  /\ now < MaxTime
  /\ SlowHandlers \/ \A h \in Handlers : \A m \in Granting(h) :
                        membership[m].expiresAt > now + 1
  /\ now' = now + 1
  /\ UNCHANGED <<skill, world, history>>

Enroll(r, u, c) ==
  ResumeCheckout(r, u, c) \/ JoinFree(r, u, c) \/ Reserve(r, u, c)

Next ==
  \/ \E r \in Requests, u \in Users, c \in Cohorts : Enroll(r, u, c)
  \/ \E r \in Requests : CheckoutAnswered(r) \/ CheckoutFailed(r)
  \/ \E h \in Handlers : Ack(h) \/ \E e \in emitted :
       HandleEvent(h, e) \/ HandleUnknown(h, e)
  \/ \E t \in Slots : Commit(t) \/ WriteConflict(t) \/ DatabaseError(t)
  \/ \E a \in Admins : WriteCohort(a)
  \/ \E a \in Admins, c \in Cohorts : DeleteCohort(a, c)
  \/ \E a \in Admins, c \in Cohorts, o \in Offers : CreateCohort(a, c, o)
  \/ \E a \in Admins, c \in Cohorts, e \in Edits : UpdateCohort(a, c, e)
  \/ \E type \in Outcomes, m \in Members :
       PaymentsEmits(PaymentEvent(type, m))
  \/ \E e \in emitted : PublishedAgain(e)
  \/ Crash
  \/ Tick

Spec == Init /\ [][Next]_vars

-----------------------------------------------------------------------------
(* Properties.                                                             *)

(* Every variable has its type: a membership document is absent or complete*)
(* and what an open transaction is about to write is a membership.         *)
TypeOK ==
  /\ membership \in [Members -> Membership \cup {Absent}]
  /\ cohort \in [Cohorts -> Cohort]
  /\ nextMember \in 1..(MaxMemberships + 1)
  /\ now \in 0..MaxTime
  /\ tx \in [Slots -> Tx]
  /\ \A t \in Slots : tx[t].stage = "checkout" => tx[t].member # 0
  /\ admin \in [Admins -> AdminCall]
  /\ handling \in [Handlers -> Event \cup {NoEvent}]
  /\ queue \subseteq Event /\ emitted \subseteq Event
  /\ settled \subseteq Event
  /\ session \subseteq Members
  /\ peak \in [Cohorts -> Nat]

Paid(m) == membership[m].status = "active" /\ membership[m].payment # NoPayment

(* However enrolments, expirations, late payments and capacity edits       *)
(* interleave, a cohort never has more paid active students than the       *)
(* largest capacity its expert ever set: reservations may be oversold by   *)
(* concurrent enrolments, and handlePaymentSucceeded sends the excess to   *)
(* reconciliation.  It holds if no handler outlives the reservation it     *)
(* grants (~SlowHandlers): a handler that counts the seats when that       *)
(* reservation has run out, and is not yet active, counts one too few.     *)
PaidWithinPeak ==
  \A c \in Cohorts : Cardinality({m \in In(c) : Paid(m)}) <= peak[c]

Noted(status) == status \notin {"absent", "pending_payment", "expired"}

(* Once payment.succeeded has been applied, no expiry that was decided on  *)
(* an older snapshot makes the membership pending or expired again: the    *)
(* money always leaves a trace.                                            *)
SettledSuccessRemains ==
  \A e \in settled : e.type = "succeeded" =>
    Noted(membership[e.member].status)

(* Ids not drawn yet name no membership.                                   *)
FreshIds == \A m \in Members : m >= nextMember => ~Exists(m)

(* A transaction that met no conflict expires only what is still pending,  *)
(* and reserves or activates only what is still new or pending.            *)
WritesHold ==
  \A t \in Slots : ~tx[t].doomed => \A m \in Written(tx[t].writes) :
    LET status == tx[t].writes[m].status IN
    /\ m < nextMember
    /\ status = "expired" => membership[m].status = "pending_payment"
    /\ status = "pending_payment" => membership[m].status = "absent"
    /\ status = "active" =>
         membership[m].status \in {"absent", "pending_payment"}

(* A success about to be committed is recorded by the transaction, or by   *)
(* the collection already.                                                 *)
SuccessInFlight ==
  \A h \in Handlers : tx[h].stage = "commit" =>
    /\ handling[h] \in Event
    /\ handling[h].type = "succeeded" /\ ~tx[h].doomed =>
         \/ Noted(tx[h].writes[handling[h].member].status)
         \/ Noted(membership[handling[h].member].status)

(* What was decided on a snapshot still holds when it is committed, because*)
(* a transaction that shares a document with an earlier commit is doomed.  *)
SnapshotsHold == FreshIds /\ WritesHold /\ SuccessInFlight

(* A paid seat is active only while payment.succeeded has been applied and *)
(* payment.refunded has not, whatever is delivered twice or late.          *)
ActiveIsPaid ==
  \A m \in Members : Exists(m) /\ Paid(m) =>
    /\ PaymentEvent("succeeded", m) \in settled
    /\ PaymentEvent("refunded", m) \notin settled

(* A seat that was expired, failed, refunded or left to reconciliation is  *)
(* never handed out again: a membership becomes active only when it is     *)
(* created, or from a reservation that is still pending at the commit.     *)
GrantedFromReservation ==
  [][\A m \in Members :
       membership'[m].status = "active" =>
         membership[m].status \in {"absent", "pending_payment", "active"}]_vars

(* Enrolments that overlap count the seats before any of them commits, so  *)
(* a cohort may be oversold, free seats included; but only by as many seats*)
(* as other enrolments can be open beside one.  One at a time never exceed *)
(* the largest capacity: "This cohort is sold out."                        *)
HeldBounded ==
  \A c \in Cohorts : Cardinality(Held(c)) <= peak[c] + Cardinality(Requests) - 1

Seat(m) == /\ membership[m].status \in {"active", "pending_payment"}
           /\ cohort[membership[m].cohort].state = "listed"
SeatsOf(u, w) ==
  {m \in Of(u) : Seat(m) /\ Workshop[membership[m].cohort] = w}

(* A learner has no more active or reserved seats in the cohorts of a      *)
(* workshop than enrolments can be open at once: every one starts only when*)
(* the others' seats are not there yet.  With one at a time: "You already  *)
(* have a live enrollment for another cohort of this workshop."            *)
SeatsBounded ==
  \A u \in Users, c \in Cohorts :
    Cardinality(SeatsOf(u, Workshop[c])) <= Cardinality(Requests)

Apart(a, b) == a.last < b.first \/ b.last < a.first

(* At any time no more listed cohorts of a workshop are under way, two by  *)
(* two, than expert calls can be open at once, through creations, moves and*)
(* writes of outdated copies.  With one call at a time: "This workshop     *)
(* already has an overlapping cohort".                                     *)
ClashesBounded ==
  \A K \in SUBSET Cohorts :
    (\A c, d \in K :
       /\ cohort[c].state = "listed" /\ Workshop[c] = Workshop[d]
       /\ ~Apart(cohort[c], cohort[d]))
    => Cardinality(K) <= Cardinality(Admins)

(* A success that found its membership is settled or handed back to the    *)
(* queue: the errors that stop it are temporary, and TransientInfraError   *)
(* says that those are retryable.                                          *)
SuccessNotDropped ==
  [][\A h \in Handlers :
       /\ handling[h] # NoEvent /\ handling[h].type = "succeeded"
       /\ handling'[h] = NoEvent
       => handling[h] \in settled' \cup queue']_vars

=============================================================================
