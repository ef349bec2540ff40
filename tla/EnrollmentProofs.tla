--------------------------- MODULE EnrollmentProofs ---------------------------
(***************************************************************************)
(* Proofs about Enrollment, for any number of learners, cohorts, requests, *)
(* handlers and memberships: the types, that a decision taken on a         *)
(* snapshot still holds when it is committed, that an applied payment is   *)
(* never forgotten, that only a pending reservation is ever granted and    *)
(* that an active paid seat was paid; that paid seats fit in their cohort  *)
(* when no handler outlives the reservation it grants; and by how much     *)
(* enrolments and expert calls that overlap can break what the error       *)
(* messages of enrollInCohort and createCohort promise.                    *)
(***************************************************************************)
EXTENDS Enrollment, FiniteSetTheorems, TLAPS

Doc == Membership \cup {Absent}

(* A membership document that exists is complete.                          *)
LEMMA ExistingIsMembership ==
  ASSUME TypeOK, NEW m \in Members, Exists(m)
  PROVE  membership[m] \in Membership
BY DEF TypeOK, Exists, Absent

(* What enrollInCohort expires, and writes beside it, are documents.       *)
LEMMA ExpirationsType ==
  ASSUME TypeOK, NEW u \in Users, NEW c \in Cohorts
  PROVE  /\ Expirations(u, c) \in [Members -> Doc]
         /\ \A doc \in Membership :
              ExpireAndCreate(u, c, doc) \in [Members -> Doc]
<1>1. \A m \in Stale(u, c) : [membership[m] EXCEPT !.status = "expired"]
                               \in Membership
  BY ExistingIsMembership DEF Stale, Of, In, Membership, Statuses
<1>2. Expirations(u, c) \in [Members -> Doc]
  BY <1>1 DEF Expirations, Doc
<1>. QED BY <1>2 DEF ExpireAndCreate, Doc

(* What an event handler writes are documents.                             *)
LEMMA WritesForType ==
  ASSUME TypeOK, NEW e \in Event, Exists(e.member)
  PROVE  WritesFor(e) \in [Members -> Doc]
<1>. DEFINE m == e.member
            p == e.payment
<1>1. m \in Members /\ p \in Members /\ e.type \in EventTypes
  BY DEF Event
<1>2. membership[m] \in Membership
  BY <1>1, ExistingIsMembership
<1>3. NoWrites \in [Members -> Doc]
  BY DEF NoWrites, Doc
<1>4. \A doc \in Membership : Change(m, doc) \in [Members -> Doc]
  BY <1>1, <1>3 DEF Change, Doc
<1>5. /\ \A q \in Members \cup {NoPayment} : Reconcile(m, q) \in Membership
      /\ membership[m].payment \in Members \cup {NoPayment}
  BY <1>2 DEF Reconcile, Membership, Statuses
<1>6. SucceededWrites(m, p) \in [Members -> Doc]
  <2>1. [membership[m] EXCEPT !.status = "active", !.payment = p,
                              !.expiresAt = NoExpiry] \in Membership
    BY <1>1, <1>2 DEF Membership, Statuses, NoExpiry
  <2>. QED BY <1>1, <1>3, <1>4, <1>5, <2>1 DEF SucceededWrites
<1>7. \A target \in {"payment_failed", "refunded"} :
        OutcomeWrites(target, m, p) \in [Members -> Doc]
  <2>1. \A target \in {"payment_failed", "refunded"} :
          [membership[m] EXCEPT !.status = target, !.payment = p,
                                !.expiresAt = NoExpiry] \in Membership
    BY <1>1, <1>2 DEF Membership, Statuses, NoExpiry
  <2>. QED BY <1>1, <1>3, <1>4, <1>5, <2>1 DEF OutcomeWrites
<1>. QED BY <1>1, <1>6, <1>7 DEF WritesFor, EventTypes

-----------------------------------------------------------------------------
(* Types.                                                                  *)

TxOK == /\ tx \in [Slots -> Tx]
        /\ \A t \in Slots : tx[t].stage = "checkout" => tx[t].member # 0

LEMMA IdleType ==
  /\ Idle \in Tx /\ Idle.stage = "idle"
  /\ [Idle EXCEPT !.stage = "ack"] \in Tx
<1>1. NoWrites \in [Members -> Membership \cup {Absent}]
  BY DEF NoWrites
<1>. QED BY <1>1 DEF Idle, Tx, Stages

LEMMA TypeInit == ASSUME Init PROVE TypeOK
<1>1. TxOK
  BY IdleType DEF Init, TxOK
<1>2. cohort \in [Cohorts -> Cohort]
  BY DEF Init, Cohort, CohortStates
<1>. QED BY <1>1, <1>2, EnrollmentAssumption
         DEF Init, TypeOK, TxOK, AdminCall, Members

(* The transaction a request or a handler begins.                          *)
LEMMA BeginType ==
  ASSUME TypeOK, NEW t \in Slots, NEW stage \in Stages,
         NEW writes \in [Members -> Doc], NEW m \in Members \cup {0},
         stage = "checkout" => m # 0,
         Begin(t, stage, writes, m)
  PROVE  TxOK'
BY DEF TypeOK, TxOK, Begin, Tx, Doc

(* Transactions that become idle keep the types.                           *)
LEMMA EndType ==
  ASSUME TypeOK, NEW t \in Slots, tx' = [tx EXCEPT ![t] = Idle]
  PROVE  TxOK'
BY IdleType DEF TypeOK, TxOK

(* enrollInCohort.                                                         *)
LEMMA EnrollType ==
  ASSUME TypeOK, NEW r \in Requests, NEW u \in Users, NEW c \in Cohorts,
         Enroll(r, u, c)
  PROVE  TypeOK'
<1>. DEFINE pending == [user |-> u, cohort |-> c, status |-> "pending_payment",
                        payment |-> NoPayment,
                        expiresAt |-> now + ReservationTtl]
            joined == [user |-> u, cohort |-> c, status |-> "active",
                       payment |-> NoPayment, expiresAt |-> NoExpiry]
<1>1. pending \in Membership /\ joined \in Membership
  BY EnrollmentAssumption
     DEF TypeOK, Membership, Statuses, NoPayment, NoExpiry
<1>2. CASE ResumeCheckout(r, u, c)
  <2>1. TxOK'
    BY <1>2, BeginType, ExpirationsType
       DEF ResumeCheckout, Blocking, Of, Slots, Stages, Members
  <2>. QED BY <1>2, <2>1 DEF ResumeCheckout, TypeOK, TxOK, world, history
<1>3. CASE JoinFree(r, u, c)
  <2>1. TxOK'
    BY <1>1, <1>3, BeginType, ExpirationsType DEF JoinFree, Slots, Stages
  <2>. QED BY <1>3, <2>1, EnrollmentAssumption
           DEF JoinFree, TypeOK, TxOK, world, history, Members
<1>4. CASE Reserve(r, u, c)
  <2>1. TxOK'
    BY <1>1, <1>4, BeginType, ExpirationsType
       DEF Reserve, Slots, Stages, Members
  <2>. QED BY <1>4, <2>1, EnrollmentAssumption
           DEF Reserve, TypeOK, TxOK, world, history, Members
<1>. QED BY <1>2, <1>3, <1>4 DEF Enroll

(* Recording the payment of a reservation changes neither the documents    *)
(* written nor their statuses.                                             *)
LEMMA WithPaymentType ==
  ASSUME NEW w \in [Members -> Doc], NEW m
  PROVE  /\ WithPayment(w, m) \in [Members -> Doc]
         /\ \A x \in Members : WithPayment(w, m)[x].status = w[x].status
<1>1. CASE m \in Written(w)
  <2>1. w[m] \in Membership /\ m \in Members
    BY <1>1 DEF Written, Doc, Absent
  <2>2. /\ [w[m] EXCEPT !.payment = m] \in Membership
        /\ [w[m] EXCEPT !.payment = m].status = w[m].status
    BY <2>1 DEF Membership
  <2>. QED BY <1>1, <2>1, <2>2 DEF WithPayment, Doc
<1>2. CASE m \notin Written(w)
  BY <1>2 DEF WithPayment
<1>. QED BY <1>1, <1>2

LEMMA CheckoutType ==
  ASSUME TypeOK, NEW r \in Requests, CheckoutAnswered(r) \/ CheckoutFailed(r)
  PROVE  TypeOK'
<1>0. r \in Slots /\ tx[r].member \in Members \cup {0}
  BY DEF TypeOK, Slots, Tx
<1>1. CASE CheckoutAnswered(r)
  <2>1. TxOK'
    BY <1>0, <1>1, WithPaymentType
       DEF CheckoutAnswered, TypeOK, TxOK, Tx, Stages, Doc
  <2>2. session' \subseteq Members
    BY <1>0, <1>1 DEF CheckoutAnswered, TypeOK
  <2>. QED BY <1>1, <2>1, <2>2 DEF CheckoutAnswered, TypeOK, TxOK, history
<1>2. CASE CheckoutFailed(r)
  <2>1. TxOK'
    BY <1>0, <1>2, EndType DEF CheckoutFailed
  <2>2. session' \subseteq Members
    BY <1>0, <1>2 DEF CheckoutFailed, TypeOK
  <2>. QED BY <1>2, <2>1, <2>2 DEF CheckoutFailed, TypeOK, TxOK, history
<1>. QED BY <1>1, <1>2

(* The payment event handlers.                                             *)
LEMMA HandlerType ==
  ASSUME TypeOK, NEW h \in Handlers, NEW e \in emitted,
         HandleEvent(h, e) \/ HandleUnknown(h, e)
  PROVE  TypeOK'
<1>0. h \in Slots /\ e \in Event
  BY DEF TypeOK, Slots
<1>1. CASE HandleEvent(h, e)
  <2>1. WritesFor(e) \in [Members -> Doc]
    BY <1>0, <1>1, WritesForType DEF HandleEvent, NotFound
  <2>2. TxOK'
    BY <1>0, <1>1, <2>1, BeginType DEF HandleEvent, Stages
  <2>. QED BY <1>0, <1>1, <2>2 DEF HandleEvent, Take, TypeOK, TxOK, history
<1>2. CASE HandleUnknown(h, e)
  BY <1>2 DEF HandleUnknown, Take, TypeOK, skill, history
<1>. QED BY <1>1, <1>2

(* The ends of a transaction.                                              *)
LEMMA AckType ==
  ASSUME TypeOK, NEW h \in Handlers, Ack(h)
  PROVE  TypeOK'
<1>1. TxOK'
  BY EndType DEF Ack, Slots
<1>. QED BY <1>1 DEF Ack, TypeOK, TxOK, world, history

LEMMA CommitType ==
  ASSUME TypeOK, SuccessInFlight, NEW t \in Slots, Commit(t)
  PROVE  TypeOK'
<1>1. tx[t].writes \in [Members -> Doc]
  BY DEF TypeOK, Tx, Doc
<1>2. membership' \in [Members -> Membership \cup {Absent}]
  BY <1>1 DEF Commit, TypeOK, Doc
<1>3. \A s \in Slots : /\ Hit(s, tx[t].writes) \in Tx
                      /\ Hit(s, tx[t].writes).stage = tx[s].stage
                      /\ Hit(s, tx[t].writes).member = tx[s].member
  BY DEF TypeOK, Tx, Hit
<1>4. TxOK'
  BY <1>3, IdleType DEF Commit, TypeOK, TxOK
<1>5. settled' \subseteq Event
  BY DEF Commit, TypeOK, SuccessInFlight
<1>. QED BY <1>2, <1>4, <1>5 DEF Commit, TypeOK, TxOK, world

LEMMA AbortType ==
  ASSUME TypeOK, NEW t \in Slots, WriteConflict(t) \/ DatabaseError(t)
  PROVE  TypeOK'
<1>1. Abort(t)
  BY DEF WriteConflict, DatabaseError
<1>2. TxOK'
  BY <1>1, EndType DEF Abort
<1>3. queue' \subseteq Event /\ handling' \in [Handlers -> Event \cup {NoEvent}]
  BY <1>1 DEF Abort, TransientRetryable, TypeOK
<1>. QED BY <1>1, <1>2, <1>3 DEF Abort, TypeOK, TxOK, history

LEMMA CrashType == ASSUME TypeOK, Crash PROVE TypeOK'
<1>1. TxOK'
  BY IdleType DEF Crash, TxOK
<1>2. admin' \in [Admins -> AdminCall]
  BY DEF Crash, AdminCall
<1>. QED BY <1>1, <1>2 DEF Crash, TypeOK, TxOK, history

(* The expert's operations.                                                *)
LEMMA PlanType ==
  ASSUME TypeOK, NEW a \in Admins, NEW c \in Cohorts,
         NEW op \in {"create", "update", "delete"}, NEW doc \in Cohort,
         Plan(a, op, c, doc)
  PROVE  TypeOK'
<1>1. admin' \in [Admins -> AdminCall]
  BY DEF Plan, TypeOK, AdminCall
<1>. QED BY <1>1 DEF Plan, TypeOK, world, history

LEMMA AdminType ==
  ASSUME TypeOK, NEW a \in Admins, NEW c \in Cohorts,
         \/ \E o \in Offers : CreateCohort(a, c, o)
         \/ \E e \in Edits : UpdateCohort(a, c, e)
         \/ DeleteCohort(a, c)
  PROVE  TypeOK'
<1>1. cohort[c] \in Cohort
  BY DEF TypeOK
<1>2. CASE \E o \in Offers : CreateCohort(a, c, o)
  BY <1>2, PlanType, EnrollmentAssumption DEF CreateCohort
<1>3. CASE \E e \in Edits : UpdateCohort(a, c, e)
  <2>1. \A e \in Edits : Edited(c, e) \in Cohort
    BY <1>1, EnrollmentAssumption DEF Edited, Cohort
  <2>. QED BY <1>3, <2>1, PlanType DEF UpdateCohort
<1>4. CASE DeleteCohort(a, c)
  <2>1. [cohort[c] EXCEPT !.state = "deleted"] \in Cohort
    BY <1>1 DEF Cohort, CohortStates
  <2>. QED BY <1>4, <2>1, PlanType DEF DeleteCohort
<1>. QED BY <1>2, <1>3, <1>4

LEMMA WriteCohortType ==
  ASSUME TypeOK, NEW a \in Admins, WriteCohort(a)
  PROVE  TypeOK'
<1>1. admin[a].cohort \in Cohorts /\ admin[a].doc \in Cohort
  BY DEF WriteCohort, AdminIdle, TypeOK, AdminCall
<1>2. cohort' \in [Cohorts -> Cohort] /\ peak' \in [Cohorts -> Nat]
  BY <1>1 DEF WriteCohort, TypeOK, Cohort
<1>3. admin' \in [Admins -> AdminCall]
  BY DEF WriteCohort, TypeOK, AdminCall
<1>. QED BY <1>2, <1>3 DEF WriteCohort, TypeOK, world

(* Payments, the broker and the clock.                                     *)
LEMMA WorldType ==
  ASSUME TypeOK,
         \/ \E type \in Outcomes, m \in Members :
              PaymentsEmits(PaymentEvent(type, m))
         \/ \E e \in emitted : PublishedAgain(e)
         \/ Tick
  PROVE  TypeOK'
<1>1. CASE \E type \in Outcomes, m \in Members :
             PaymentsEmits(PaymentEvent(type, m))
  <2>1. \A type \in Outcomes, m \in Members : PaymentEvent(type, m) \in Event
    BY EnrollmentAssumption DEF PaymentEvent, Event
  <2>. QED BY <1>1, <2>1 DEF PaymentsEmits, TypeOK, skill, history
<1>2. CASE \E e \in emitted : PublishedAgain(e)
  BY <1>2 DEF PublishedAgain, TypeOK, skill, history
<1>3. CASE Tick
  BY <1>3, EnrollmentAssumption DEF Tick, TypeOK, skill, world, history
<1>. QED BY <1>1, <1>2, <1>3

(* Every step keeps the types.  SuccessInFlight is needed for Commit: the  *)
(* event that is settled is one the handler holds.                         *)
LEMMA TypeStep ==
  ASSUME TypeOK, SuccessInFlight, [Next]_vars
  PROVE  TypeOK'
<1>1. CASE \E r \in Requests, u \in Users, c \in Cohorts : Enroll(r, u, c)
  BY <1>1, EnrollType
<1>2. CASE \E r \in Requests : CheckoutAnswered(r) \/ CheckoutFailed(r)
  BY <1>2, CheckoutType
<1>3. CASE \E h \in Handlers : Ack(h) \/ \E e \in emitted :
             HandleEvent(h, e) \/ HandleUnknown(h, e)
  BY <1>3, AckType, HandlerType
<1>4. CASE \E t \in Slots : Commit(t) \/ WriteConflict(t) \/ DatabaseError(t)
  BY <1>4, CommitType, AbortType
<1>5. CASE \E a \in Admins : WriteCohort(a)
  BY <1>5, WriteCohortType
<1>6. CASE \E a \in Admins, c \in Cohorts :
             \/ \E o \in Offers : CreateCohort(a, c, o)
             \/ \E e \in Edits : UpdateCohort(a, c, e)
             \/ DeleteCohort(a, c)
  BY <1>6, AdminType
<1>7. CASE \/ \E type \in Outcomes, m \in Members :
                PaymentsEmits(PaymentEvent(type, m))
           \/ \E e \in emitted : PublishedAgain(e)
           \/ Tick
  BY <1>7, WorldType
<1>8. CASE Crash
  BY <1>8, CrashType
<1>9. CASE UNCHANGED vars
  BY <1>9 DEF vars, TypeOK
<1>. QED
  BY <1>1, <1>2, <1>3, <1>4, <1>5, <1>6, <1>7, <1>8, <1>9 DEF Next

-----------------------------------------------------------------------------
(* What was decided on a snapshot still holds at the commit.               *)

(* Steps that end transactions, or touch neither them nor the memberships. *)
LEMMA QuietStep ==
  ASSUME TypeOK, SnapshotsHold, UNCHANGED <<membership, nextMember>>,
         \A t \in Slots : tx'[t] \in {tx[t], Idle, [Idle EXCEPT !.stage = "ack"]},
         \A h \in Handlers : tx'[h].stage = "commit" => handling'[h] = handling[h]
  PROVE  SnapshotsHold'
<1>1. FreshIds'
  BY DEF SnapshotsHold, FreshIds, Exists
<1>2. WritesHold'
  BY DEF SnapshotsHold, WritesHold, Written, Idle, NoWrites, Absent
<1>3. SuccessInFlight'
  BY DEF SnapshotsHold, SuccessInFlight, Idle, Slots
<1>. QED BY <1>1, <1>2, <1>3 DEF SnapshotsHold

(* The writes an enrolment begins with are sound in the collection it read.*)
LEMMA ExpirationWrites ==
  ASSUME TypeOK, FreshIds, NEW u \in Users, NEW c \in Cohorts,
         NEW m \in Written(Expirations(u, c))
  PROVE  /\ Expirations(u, c)[m].status = "expired" /\ m < nextMember
         /\ membership[m].status = "pending_payment"
<1>1. m \in Members /\ m \in Stale(u, c)
  BY DEF Written, Expirations, Absent
<1>2. Exists(m) /\ membership[m].status = "pending_payment"
  BY <1>1 DEF Stale, Of, In, IsStale
<1>3. membership[m] \in Membership
  BY <1>1, <1>2, ExistingIsMembership
<1>. QED BY <1>1, <1>2, <1>3
         DEF FreshIds, TypeOK, Members, Expirations, Membership

LEMMA CreationWrites ==
  ASSUME TypeOK, FreshIds, NEW u \in Users, NEW c \in Cohorts,
         nextMember \in Members, NEW doc \in Membership,
         NEW m \in Written(ExpireAndCreate(u, c, doc))
  PROVE  LET status == ExpireAndCreate(u, c, doc)[m].status IN
         \/ /\ status = "expired" /\ m < nextMember
            /\ membership[m].status = "pending_payment"
         \/ /\ status = doc.status /\ m = nextMember
            /\ membership[m].status = "absent"
<1>1. m \in Members
  BY DEF Written
<1>2. Expirations(u, c) \in [Members -> Doc]
  BY ExpirationsType
<1>3. CASE m = nextMember
  BY <1>1, <1>2, <1>3 DEF ExpireAndCreate, FreshIds, Exists, TypeOK, Members
<1>4. CASE m # nextMember
  <2>1. ExpireAndCreate(u, c, doc)[m] = Expirations(u, c)[m]
    BY <1>1, <1>2, <1>4 DEF ExpireAndCreate
  <2>. QED BY <1>1, <2>1, ExpirationWrites DEF Written
<1>. QED BY <1>3, <1>4

LEMMA EnrollHolds ==
  ASSUME TypeOK, SnapshotsHold,
         NEW r \in Requests, NEW u \in Users, NEW c \in Cohorts,
         Enroll(r, u, c)
  PROVE  SnapshotsHold'
<1>. DEFINE pending == [user |-> u, cohort |-> c, status |-> "pending_payment",
                        payment |-> NoPayment,
                        expiresAt |-> now + ReservationTtl]
            joined == [user |-> u, cohort |-> c, status |-> "active",
                       payment |-> NoPayment, expiresAt |-> NoExpiry]
            w == tx'[r].writes
            Sound(m) ==
              /\ m < nextMember'
              /\ w[m].status = "expired" =>
                   membership[m].status = "pending_payment"
              /\ w[m].status = "pending_payment" =>
                   membership[m].status = "absent"
              /\ w[m].status = "active" => membership[m].status = "absent"
<1>1. pending \in Membership /\ joined \in Membership
  BY EnrollmentAssumption
     DEF TypeOK, Membership, Statuses, NoPayment, NoExpiry
<1>2. /\ r \in Slots /\ r \notin Handlers
      /\ UNCHANGED <<membership, handling>>
      /\ nextMember' \in {nextMember, nextMember + 1}
      /\ \A t \in Slots \ {r} : tx'[t] = tx[t]
  BY EnrollmentAssumption
     DEF Enroll, ResumeCheckout, JoinFree, Reserve, Begin, TypeOK, Slots
<1>3. \E doc \in {pending, joined} :
        \/ w = Expirations(u, c) /\ nextMember' = nextMember
        \/ /\ w = ExpireAndCreate(u, c, doc)
           /\ nextMember \in Members /\ nextMember' = nextMember + 1
  BY <1>2 DEF Enroll, ResumeCheckout, JoinFree, Reserve, Begin, TypeOK
<1>4. FreshIds'
  BY <1>2 DEF SnapshotsHold, FreshIds, Exists, TypeOK, Members
<1>5. w \in [Members -> Doc]
  BY <1>1, <1>3, ExpirationsType
<1>6. \A m \in Written(w) : Sound(m)
  <2>1. nextMember \in Nat /\ FreshIds
    BY DEF TypeOK, SnapshotsHold
  <2>2. CASE w = Expirations(u, c)
    BY <1>2, <2>1, <2>2, ExpirationWrites DEF Written, Members
  <2>3. ASSUME NEW doc \in {pending, joined},
               w = ExpireAndCreate(u, c, doc),
               nextMember \in Members, nextMember' = nextMember + 1
        PROVE  \A m \in Written(w) : Sound(m)
    <3>1. doc \in Membership /\ doc.status \in {"active", "pending_payment"}
      BY <1>1
    <3>2. ASSUME NEW m \in Written(ExpireAndCreate(u, c, doc))
          PROVE  LET status == ExpireAndCreate(u, c, doc)[m].status IN
                 \/ /\ status = "expired" /\ m < nextMember
                    /\ membership[m].status = "pending_payment"
                 \/ /\ status = doc.status /\ m = nextMember
                    /\ membership[m].status = "absent"
      BY <2>1, <2>3, <3>1, CreationWrites
    <3>. QED BY <2>1, <2>3, <3>1, <3>2 DEF Written, Members
  <2>. QED BY <1>3, <2>2, <2>3
<1>7. WritesHold'
  <2>1. ASSUME NEW t \in Slots \ {r}, ~tx'[t].doomed,
               NEW m \in Written(tx'[t].writes)
        PROVE  m < nextMember'
    BY <1>2, <2>1 DEF SnapshotsHold, WritesHold, TypeOK, Written, Members
  <2>. QED BY <1>2, <1>6, <2>1 DEF SnapshotsHold, WritesHold
<1>8. SuccessInFlight'
  BY <1>2 DEF SnapshotsHold, SuccessInFlight, Slots
<1>. QED BY <1>4, <1>7, <1>8 DEF SnapshotsHold

LEMMA AnsweredHolds ==
  ASSUME TypeOK, SnapshotsHold, NEW r \in Requests, CheckoutAnswered(r)
  PROVE  SnapshotsHold'
<1>. DEFINE w == WithPayment(tx[r].writes, tx[r].member)
<1>1. /\ r \in Slots /\ r \notin Handlers
      /\ tx[r] \in Tx /\ tx[r].writes \in [Members -> Doc]
  BY EnrollmentAssumption DEF TypeOK, Slots, Tx, Doc
<1>2. \A x \in Members : w[x].status = tx[r].writes[x].status
  BY <1>1, WithPaymentType
<1>3. /\ UNCHANGED <<membership, nextMember, handling>>
      /\ tx'[r].writes = w /\ tx'[r].doomed = tx[r].doomed
      /\ \A t \in Slots \ {r} : tx'[t] = tx[t]
  BY <1>1 DEF CheckoutAnswered, TypeOK
<1>4. FreshIds'
  BY <1>3 DEF SnapshotsHold, FreshIds, Exists
<1>5. WritesHold'
  <2>. HIDE DEF w
  <2>1. Written(w) = Written(tx[r].writes)
    BY <1>2 DEF Written
  <2>. QED BY <1>2, <1>3, <2>1 DEF SnapshotsHold, WritesHold, Written
<1>6. SuccessInFlight'
  BY <1>1, <1>3 DEF SnapshotsHold, SuccessInFlight, Slots
<1>. QED BY <1>4, <1>5, <1>6 DEF SnapshotsHold

(* What a handler is about to write is sound in the collection it read: it *)
(* never expires or reserves, it activates only a pending reservation, and *)
(* a success leaves its trace.                                             *)
LEMMA WritesForSound ==
  ASSUME TypeOK, NEW e \in Event, Exists(e.member)
  PROVE  /\ \A m \in Written(WritesFor(e)) :
              /\ m = e.member
              /\ WritesFor(e)[m].status \notin {"expired", "pending_payment"}
              /\ WritesFor(e)[m].status = "active" =>
                   membership[m].status = "pending_payment"
         /\ e.type = "succeeded" =>
              \/ Noted(WritesFor(e)[e.member].status)
              \/ Noted(membership[e.member].status)
<1>. DEFINE m == e.member
            p == e.payment
            Sound(w) == \A x \in Written(w) :
              /\ x = m
              /\ w[x].status \notin {"expired", "pending_payment"}
              /\ w[x].status = "active" =>
                   membership[x].status = "pending_payment"
<1>1. m \in Members /\ p \in Members /\ e.type \in EventTypes
  BY DEF Event
<1>2. membership[m] \in Membership
  BY <1>1, ExistingIsMembership
<1>3. Sound(NoWrites)
  BY DEF NoWrites, Written, Absent
<1>4. ASSUME NEW doc \in Membership,
             doc.status \notin {"expired", "pending_payment"},
             doc.status = "active" => membership[m].status = "pending_payment"
      PROVE  Sound(Change(m, doc)) /\ Change(m, doc)[m] = doc
  <2>1. /\ Change(m, doc)[m] = doc
        /\ \A x \in Members \ {m} : Change(m, doc)[x] = Absent
    BY <1>1 DEF Change, NoWrites
  <2>. QED BY <1>4, <2>1 DEF Written, Absent
<1>5. ASSUME NEW q \in Members \cup {NoPayment}
      PROVE  /\ Reconcile(m, q) \in Membership
             /\ Reconcile(m, q).status = "awaiting_reconciliation"
  BY <1>2 DEF Reconcile, Membership, Statuses
<1>6. /\ Sound(SucceededWrites(m, p))
      /\ \/ Noted(SucceededWrites(m, p)[m].status)
         \/ Noted(membership[m].status)
  <2>. DEFINE doc == [membership[m] EXCEPT !.status = "active", !.payment = p,
                                           !.expiresAt = NoExpiry]
  <2>1. doc \in Membership /\ doc.status = "active"
    BY <1>1, <1>2 DEF Membership, Statuses, NoExpiry
  <2>2. membership[m].payment \in Members \cup {NoPayment}
    BY <1>2 DEF Membership
  <2>. HIDE DEF doc
  <2>3. CASE membership[m].status = "active"
    BY <1>1, <1>3, <1>4, <1>5, <2>2, <2>3 DEF SucceededWrites, Noted
  <2>4. CASE membership[m].status # "active" /\ Grantable(m)
    <3>1. SucceededWrites(m, p) = Change(m, doc)
      BY <2>4 DEF SucceededWrites, doc
    <3>. QED BY <1>4, <2>1, <2>4, <3>1 DEF Grantable, Noted
  <2>5. CASE membership[m].status # "active" /\ ~Grantable(m)
    <3>1. SucceededWrites(m, p) = Change(m, Reconcile(m, p))
      BY <2>5 DEF SucceededWrites
    <3>. QED BY <1>1, <1>4, <1>5, <3>1 DEF Noted
  <2>. QED BY <2>3, <2>4, <2>5
<1>7. ASSUME NEW target \in {"payment_failed", "refunded"}
      PROVE  Sound(OutcomeWrites(target, m, p))
  <2>. DEFINE doc == [membership[m] EXCEPT !.status = target, !.payment = p,
                                           !.expiresAt = NoExpiry]
  <2>1. doc \in Membership /\ doc.status = target
    BY <1>1, <1>2 DEF Membership, Statuses, NoExpiry
  <2>. HIDE DEF doc
  <2>2. OutcomeWrites(target, m, p)
          \in {NoWrites, Change(m, Reconcile(m, p)), Change(m, doc)}
    BY DEF OutcomeWrites, doc
  <2>. QED BY <1>1, <1>3, <1>4, <1>5, <2>1, <2>2
<1>. QED BY <1>1, <1>6, <1>7 DEF WritesFor, EventTypes

LEMMA HandleHolds ==
  ASSUME TypeOK, SnapshotsHold, NEW h \in Handlers, NEW e \in emitted,
         HandleEvent(h, e)
  PROVE  SnapshotsHold'
<1>1. /\ h \in Slots /\ e \in Event /\ Exists(e.member) /\ e.member \in Members
      /\ UNCHANGED <<membership, nextMember>>
      /\ tx'[h].writes = WritesFor(e)
      /\ handling'[h] = e
      /\ \A t \in Slots \ {h} : tx'[t] = tx[t]
      /\ \A g \in Handlers \ {h} : handling'[g] = handling[g]
  BY DEF HandleEvent, NotFound, Begin, TypeOK, Slots, Event
<1>2. FreshIds'
  BY <1>1 DEF SnapshotsHold, FreshIds, Exists
<1>3. WritesHold'
  <2>1. e.member < nextMember
    BY <1>1 DEF SnapshotsHold, FreshIds, TypeOK, Members
  <2>2. \A m \in Written(WritesFor(e)) :
          /\ m = e.member
          /\ WritesFor(e)[m].status \notin {"expired", "pending_payment"}
          /\ WritesFor(e)[m].status = "active" =>
               membership[m].status = "pending_payment"
    BY <1>1, WritesForSound
  <2>. QED BY <1>1, <2>1, <2>2 DEF SnapshotsHold, WritesHold
<1>4. SuccessInFlight'
  <2>1. e.type = "succeeded" =>
          \/ Noted(WritesFor(e)[e.member].status)
          \/ Noted(membership[e.member].status)
    BY <1>1, WritesForSound
  <2>. QED BY <1>1, <2>1 DEF SnapshotsHold, SuccessInFlight, Slots
<1>. QED BY <1>2, <1>3, <1>4 DEF SnapshotsHold

(* A transaction that has ended writes nothing.                            *)
LEMMA EndedWritesNothing ==
  ASSUME NEW x \in {Idle, [Idle EXCEPT !.stage = "ack"]}
  PROVE  Written(x.writes) = {} /\ x.stage \notin {"commit", "checkout"}
BY DEF Idle, NoWrites, Written, Absent

(* The other transactions at a commit: the same writes, and doomed if they *)
(* share a document with it.                                               *)
LEMMA OthersAtCommit ==
  ASSUME TypeOK, NEW t \in Slots, Commit(t)
  PROVE  /\ \A s \in Slots \ {t} :
              /\ tx'[s].stage = tx[s].stage /\ tx'[s].writes = tx[s].writes
              /\ tx'[s].member = tx[s].member
              /\ ~tx'[s].doomed =>
                   /\ ~tx[s].doomed
                   /\ Written(tx[s].writes) \cap Written(tx[t].writes) = {}
         /\ Written(tx'[t].writes) = {}
         /\ tx'[t].stage \notin {"commit", "checkout"}
         /\ \A m \in Members :
              membership'[m] = IF m \in Written(tx[t].writes)
                               THEN tx[t].writes[m] ELSE membership[m]
<1>. DEFINE w == tx[t].writes
<1>1. /\ \A m \in Members : membership'[m] = IF m \in Written(w) THEN w[m]
                                             ELSE membership[m]
      /\ \A s \in Slots \ {t} : tx'[s] = Hit(s, w)
      /\ tx'[t] \in {Idle, [Idle EXCEPT !.stage = "ack"]}
  BY DEF Commit
<1>2. Written(tx'[t].writes) = {} /\ tx'[t].stage \notin {"commit", "checkout"}
  BY <1>1, EndedWritesNothing
<1>3. ASSUME NEW s \in Slots \ {t}
      PROVE  /\ tx'[s].stage = tx[s].stage /\ tx'[s].writes = tx[s].writes
             /\ tx'[s].member = tx[s].member
             /\ ~tx'[s].doomed =>
                  ~tx[s].doomed /\ Written(tx[s].writes) \cap Written(w) = {}
  <2>. DEFINE both == Written(tx[s].writes) \cap Written(w)
  <2>1. tx[s] \in Tx
    BY DEF TypeOK
  <2>2. tx'[s] = [tx[s] EXCEPT !.doomed = tx[s].doomed \/ both # {}]
    BY <1>1 DEF Hit
  <2>. HIDE DEF both
  <2>3. /\ tx'[s].stage = tx[s].stage /\ tx'[s].writes = tx[s].writes
        /\ tx'[s].member = tx[s].member
        /\ tx'[s].doomed = (tx[s].doomed \/ both # {})
    BY <2>1, <2>2 DEF Tx
  <2>. QED BY <2>3 DEF both
<1>. QED BY <1>1, <1>2, <1>3

(* A commit never takes a payment's trace away.                            *)
LEMMA NotedStays ==
  ASSUME TypeOK, SnapshotsHold, NEW t \in Slots, Commit(t),
         NEW m \in Members, Noted(membership[m].status)
  PROVE  Noted(membership'[m].status)
<1>. DEFINE w == tx[t].writes
<1>1. CASE m \in Written(w)
  BY <1>1 DEF Commit, SnapshotsHold, WritesHold, Noted, Written
<1>2. CASE m \notin Written(w)
  BY <1>2 DEF Commit
<1>. QED BY <1>1, <1>2

LEMMA CommitHolds ==
  ASSUME TypeOK, SnapshotsHold, NEW t \in Slots, Commit(t)
  PROVE  SnapshotsHold'
<1>. DEFINE w == tx[t].writes
<1>1. /\ UNCHANGED <<nextMember, handling>>
      /\ \A m \in Members : membership'[m] = IF m \in Written(w) THEN w[m]
                                            ELSE membership[m]
  BY OthersAtCommit DEF Commit
<1>2. FreshIds'
  BY <1>1 DEF Commit, SnapshotsHold, FreshIds, WritesHold, Exists, TypeOK,
              Members, Written
<1>3. \A s \in Slots \ {t} :
        /\ tx'[s].stage = tx[s].stage /\ tx'[s].writes = tx[s].writes
        /\ ~tx'[s].doomed => /\ ~tx[s].doomed
                             /\ Written(tx[s].writes) \cap Written(w) = {}
  BY OthersAtCommit
<1>4. Written(tx'[t].writes) = {} /\ tx'[t].stage # "commit"
  BY OthersAtCommit
<1>5. WritesHold'
  <2>1. ASSUME NEW s \in Slots \ {t}, ~tx'[s].doomed,
               NEW m \in Written(tx'[s].writes)
        PROVE  membership'[m] = membership[m] /\ m \in Written(tx[s].writes)
    BY <1>1, <1>3, <2>1 DEF Written
  <2>. QED BY <1>1, <1>3, <1>4, <2>1 DEF SnapshotsHold, WritesHold
<1>6. SuccessInFlight'
  <2>. SUFFICES ASSUME NEW h \in Handlers, tx'[h].stage = "commit"
                PROVE  /\ handling'[h] \in Event
                       /\ handling'[h].type = "succeeded" /\ ~tx'[h].doomed =>
                            \/ Noted(tx'[h].writes[handling'[h].member].status)
                            \/ Noted(membership'[handling'[h].member].status)
    BY DEF SuccessInFlight
  <2>1. h \in Slots \ {t}
    BY <1>4 DEF Slots
  <2>2. /\ handling[h] \in Event
        /\ handling[h].type = "succeeded" /\ ~tx'[h].doomed =>
             \/ Noted(tx[h].writes[handling[h].member].status)
             \/ Noted(membership[handling[h].member].status)
    BY <1>3, <2>1 DEF SnapshotsHold, SuccessInFlight
  <2>3. handling[h].member \in Members
    BY <2>2 DEF Event
  <2>. QED BY <1>1, <1>3, <2>1, <2>2, <2>3, NotedStays
<1>. QED BY <1>2, <1>5, <1>6 DEF SnapshotsHold

-----------------------------------------------------------------------------
(* The inductive invariant and the theorems.                               *)

IInv == TypeOK /\ SnapshotsHold /\ SettledSuccessRemains

LEMMA IInvInit == ASSUME Init PROVE IInv
<1>1. TypeOK
  BY TypeInit
<1>2. SnapshotsHold
  BY DEF Init, SnapshotsHold, FreshIds, WritesHold, SuccessInFlight, Exists,
         Absent, Idle, NoWrites, Written, Slots
<1>3. SettledSuccessRemains
  BY DEF Init, SettledSuccessRemains
<1>. QED BY <1>1, <1>2, <1>3 DEF IInv

(* Only Commit changes a membership.                                       *)
LEMMA OnlyCommitWrites ==
  ASSUME [Next]_vars, \A t \in Slots : ~Commit(t)
  PROVE  UNCHANGED <<membership, settled>>
BY DEF Next, Enroll, ResumeCheckout, JoinFree, Reserve, CheckoutAnswered,
       CheckoutFailed, HandleEvent, HandleUnknown, Ack, WriteConflict,
       DatabaseError, Abort, WriteCohort, CreateCohort, UpdateCohort,
       DeleteCohort, Plan, PaymentsEmits, PublishedAgain, Tick, Crash,
       skill, world, history, vars

LEMMA SnapshotsStep ==
  ASSUME IInv, [Next]_vars
  PROVE  SnapshotsHold'
<1>. USE DEF IInv
<1>1. CASE \E r \in Requests, u \in Users, c \in Cohorts : Enroll(r, u, c)
  BY <1>1, EnrollHolds
<1>2. CASE \E r \in Requests : CheckoutAnswered(r)
  BY <1>2, AnsweredHolds
<1>3. CASE \E h \in Handlers, e \in emitted : HandleEvent(h, e)
  BY <1>3, HandleHolds
<1>4. CASE \E t \in Slots : Commit(t)
  BY <1>4, CommitHolds
<1>5. CASE \E r \in Requests : CheckoutFailed(r)
  BY <1>5, QuietStep, EnrollmentAssumption DEF CheckoutFailed, TypeOK, Slots
<1>6. CASE \E h \in Handlers : Ack(h)
  BY <1>6, QuietStep DEF Ack, TypeOK, Idle, Slots
<1>7. CASE \E t \in Slots : WriteConflict(t) \/ DatabaseError(t)
  BY <1>7, QuietStep DEF WriteConflict, DatabaseError, Abort, TypeOK, Idle, Slots
<1>8. CASE Crash
  BY <1>8, QuietStep DEF Crash, Idle, Slots
<1>9. ASSUME UNCHANGED <<membership, nextMember, tx, handling>>
      PROVE  SnapshotsHold'
  BY <1>9, QuietStep
<1>10. CASE \E h \in Handlers, e \in emitted : HandleUnknown(h, e)
  BY <1>9, <1>10 DEF HandleUnknown, skill
<1>11. CASE \/ \E a \in Admins : WriteCohort(a)
            \/ \E a \in Admins, c \in Cohorts : DeleteCohort(a, c)
            \/ \E a \in Admins, c \in Cohorts, o \in Offers : CreateCohort(a, c, o)
            \/ \E a \in Admins, c \in Cohorts, e \in Edits : UpdateCohort(a, c, e)
  BY <1>9, <1>11 DEF WriteCohort, DeleteCohort, CreateCohort, UpdateCohort, Plan
<1>12. CASE \/ \E type \in Outcomes, m \in Members :
                 PaymentsEmits(PaymentEvent(type, m))
            \/ \E e \in emitted : PublishedAgain(e)
            \/ Tick
            \/ UNCHANGED vars
  BY <1>9, <1>12 DEF PaymentsEmits, PublishedAgain, Tick, skill, vars
<1>. QED BY <1>1, <1>2, <1>3, <1>4, <1>5, <1>6, <1>7, <1>8, <1>10, <1>11,
            <1>12 DEF Next

LEMMA SettledStep ==
  ASSUME IInv, [Next]_vars
  PROVE  SettledSuccessRemains'
<1>. USE DEF IInv
<1>1. CASE \A t \in Slots : ~Commit(t)
  BY <1>1, OnlyCommitWrites DEF SettledSuccessRemains
<1>2. ASSUME NEW t \in Slots, Commit(t)
      PROVE  SettledSuccessRemains'
  <2>. SUFFICES ASSUME NEW e \in settled', e.type = "succeeded"
                PROVE  Noted(membership'[e.member].status)
    BY DEF SettledSuccessRemains
  <2>1. CASE e \in settled
    <3>1. e.member \in Members /\ Noted(membership[e.member].status)
      BY <2>1 DEF TypeOK, Event, SettledSuccessRemains
    <3>. QED BY <1>2, <3>1, NotedStays
  <2>2. CASE e \notin settled
    <3>1. t \in Handlers /\ e = handling[t] /\ tx[t].stage = "commit"
      BY <1>2, <2>2 DEF Commit
    <3>2. /\ e.member \in Members
          /\ \/ Noted(tx[t].writes[e.member].status)
             \/ Noted(membership[e.member].status)
      BY <1>2, <3>1 DEF SnapshotsHold, SuccessInFlight, Commit, Event
    <3>3. CASE Noted(tx[t].writes[e.member].status)
      BY <1>2, <3>2, <3>3 DEF Commit, Written, Noted
    <3>4. CASE Noted(membership[e.member].status)
      BY <1>2, <3>2, <3>4, NotedStays
    <3>. QED BY <3>2, <3>3, <3>4
  <2>. QED BY <2>1, <2>2
<1>. QED BY <1>1, <1>2

LEMMA IInvStep == ASSUME IInv, [Next]_vars PROVE IInv'
BY TypeStep, SnapshotsStep, SettledStep DEF IInv, SnapshotsHold

LEMMA Invariance == Spec => []IInv
BY IInvInit, IInvStep, PTL DEF Spec

(* The variables of the skill service and of the broker have their types.  *)
THEOREM TypeCorrect == Spec => []TypeOK
<1>1. IInv => TypeOK
  BY DEF IInv
<1>. QED BY <1>1, Invariance, PTL

(* MongoDB's first-committer-wins rule is enough: whatever a transaction   *)
(* of CohortService read, its writes are sound when they are committed.    *)
THEOREM SnapshotsCorrect == Spec => []SnapshotsHold
<1>1. IInv => SnapshotsHold
  BY DEF IInv
<1>. QED BY <1>1, Invariance, PTL

(* No stale expiry takes an applied payment back, for any number of        *)
(* requests, handlers, redeliveries and crashes.                           *)
THEOREM SettledCorrect == Spec => []SettledSuccessRemains
<1>1. IInv => SettledSuccessRemains
  BY DEF IInv
<1>. QED BY <1>1, Invariance, PTL

LEMMA GrantStep ==
  ASSUME IInv, [Next]_vars, NEW m \in Members,
         membership'[m].status = "active"
  PROVE  membership[m].status \in {"absent", "pending_payment", "active"}
<1>. USE DEF IInv
<1>1. CASE \A t \in Slots : ~Commit(t)
  BY <1>1, OnlyCommitWrites
<1>2. ASSUME NEW t \in Slots, Commit(t)
      PROVE  membership[m].status \in {"absent", "pending_payment", "active"}
  BY <1>2 DEF Commit, SnapshotsHold, WritesHold
<1>. QED BY <1>1, <1>2

(* A seat is granted only when it is created or from a reservation that is *)
(* still pending.                                                          *)
THEOREM GrantCorrect == Spec => GrantedFromReservation
<1>1. IInv /\ [Next]_vars =>
        [\A m \in Members :
           membership'[m].status = "active" =>
             membership[m].status \in {"absent", "pending_payment", "active"}]_vars
  BY GrantStep
<1>. QED BY <1>1, Invariance, PTL DEF Spec, GrantedFromReservation

-----------------------------------------------------------------------------
(* A paid seat was paid for: what relates documents to events.             *)

(* The events the payments service emits name the payment of their member. *)
Named(e) == e.payment = e.member

EventsNamed ==
  /\ \A e \in emitted : Named(e)
  /\ \A h \in Handlers : handling[h] # NoEvent => Named(handling[h])

(* Only the handler of payment.succeeded writes an active paid seat; what  *)
(* an enrolment adds a payment to is a reservation.                        *)
PaidWrites ==
  \A t \in Slots :
    /\ \A m \in Written(tx[t].writes) :
         LET doc == tx[t].writes[m] IN
         doc.status = "active" /\ doc.payment # NoPayment =>
           t \in Handlers /\ handling[t] = PaymentEvent("succeeded", m)
    /\ tx[t].stage = "checkout" =>
         tx[t].writes[tx[t].member].status # "active"

(* A status no seat comes back from.                                       *)
Final(status) == Noted(status) /\ status # "active"

RefundInFlight ==
  \A h \in Handlers :
    /\ tx[h].stage = "commit" /\ ~tx[h].doomed
    /\ handling[h].type = "refunded"
    => \/ Final(tx[h].writes[handling[h].member].status)
       \/ Final(membership[handling[h].member].status)

RefundSettled ==
  \A e \in settled : e.type = "refunded" => Final(membership[e.member].status)

PaidSettled ==
  \A m \in Members : Paid(m) => PaymentEvent("succeeded", m) \in settled

PaidHolds == /\ EventsNamed /\ PaidWrites
             /\ RefundInFlight /\ RefundSettled /\ PaidSettled

LEMMA PaidInit == ASSUME Init PROVE PaidHolds
<1>1. \A t \in Slots : Written(tx[t].writes) = {} /\ tx[t].stage = "idle"
  BY DEF Init, Idle, NoWrites, Written, Absent
<1>2. PaidSettled
  BY DEF Init, PaidSettled, Paid, Absent
<1>. QED BY <1>1, <1>2 DEF Init, PaidHolds, EventsNamed, PaidWrites,
         RefundInFlight, RefundSettled, Slots

(* Steps that end transactions, or touch neither them nor the memberships. *)
LEMMA QuietPaid ==
  ASSUME PaidHolds, UNCHANGED <<membership, settled>>,
         \A t \in Slots : tx'[t] \in {tx[t], Idle, [Idle EXCEPT !.stage = "ack"]},
         \A h \in Handlers : \/ handling'[h] = handling[h]
                             \/ /\ handling'[h] = NoEvent
                                /\ tx'[h] \in {Idle, [Idle EXCEPT !.stage = "ack"]},
         \A e \in emitted' : e \in emitted \/ Named(e)
  PROVE  PaidHolds'
<1>1. EventsNamed'
  BY DEF PaidHolds, EventsNamed, Named
<1>2. \A t \in Slots : \/ tx'[t] = tx[t]
                       \/ /\ Written(tx'[t].writes) = {}
                          /\ tx'[t].stage \notin {"commit", "checkout"}
  BY EndedWritesNothing
<1>3. \A h \in Handlers : \/ handling'[h] = handling[h]
                          \/ /\ Written(tx'[h].writes) = {}
                             /\ tx'[h].stage \notin {"commit", "checkout"}
  BY EndedWritesNothing
<1>4. PaidWrites'
  <2>. SUFFICES ASSUME NEW t \in Slots
                PROVE  /\ \A m \in Written(tx'[t].writes) :
                            LET doc == tx'[t].writes[m] IN
                            doc.status = "active" /\ doc.payment # NoPayment =>
                              /\ t \in Handlers
                              /\ handling'[t] = PaymentEvent("succeeded", m)
                       /\ tx'[t].stage = "checkout" =>
                            tx'[t].writes[tx'[t].member].status # "active"
    BY DEF PaidWrites, Written, PaymentEvent
  <2>1. CASE Written(tx'[t].writes) = {} /\ tx'[t].stage # "checkout"
    BY <2>1
  <2>2. CASE tx'[t] = tx[t] /\ (t \in Handlers => handling'[t] = handling[t])
    BY <2>2 DEF PaidHolds, PaidWrites
  <2>. QED BY <1>2, <1>3, <2>1, <2>2
<1>5. RefundInFlight'
  BY <1>2, <1>3 DEF PaidHolds, RefundInFlight, Slots
<1>6. RefundSettled' /\ PaidSettled'
  BY DEF PaidHolds, RefundSettled, PaidSettled, Paid
<1>. QED BY <1>1, <1>4, <1>5, <1>6 DEF PaidHolds

(* A request's step changes only its own transaction: it is enough to look *)
(* at what it writes.                                                      *)
LEMMA RequestPaid ==
  ASSUME TypeOK, PaidHolds, NEW r \in Requests,
         UNCHANGED <<membership, settled, handling, emitted>>,
         \A t \in Slots \ {r} : tx'[t] = tx[t],
         \A m \in Written(tx'[r].writes) :
           LET doc == tx'[r].writes[m] IN
           ~(doc.status = "active" /\ doc.payment # NoPayment),
         tx'[r].stage = "checkout" =>
           tx'[r].writes[tx'[r].member].status # "active"
  PROVE  PaidHolds'
<1>1. r \notin Handlers
  BY EnrollmentAssumption
<1>2. EventsNamed' /\ RefundSettled' /\ PaidSettled'
  BY DEF PaidHolds, EventsNamed, Named, RefundSettled, PaidSettled, Paid
<1>3. PaidWrites'
  <2>. SUFFICES ASSUME NEW t \in Slots
                PROVE  /\ \A m \in Written(tx'[t].writes) :
                            LET doc == tx'[t].writes[m] IN
                            doc.status = "active" /\ doc.payment # NoPayment =>
                              /\ t \in Handlers
                              /\ handling'[t] = PaymentEvent("succeeded", m)
                       /\ tx'[t].stage = "checkout" =>
                            tx'[t].writes[tx'[t].member].status # "active"
    BY DEF PaidWrites, Written, PaymentEvent
  <2>1. CASE t = r
    BY <2>1
  <2>2. CASE t # r
    BY <2>2 DEF PaidHolds, PaidWrites
  <2>. QED BY <2>1, <2>2
<1>4. RefundInFlight'
  BY <1>1 DEF PaidHolds, RefundInFlight, Slots
<1>. QED BY <1>2, <1>3, <1>4 DEF PaidHolds

LEMMA ExpirationsAt ==
  ASSUME TypeOK, NEW u \in Users, NEW c \in Cohorts, NEW m \in Members
  PROVE  Expirations(u, c)[m].status \in {"expired", "absent"}
<1>1. m \in Stale(u, c) => membership[m] \in Membership
  BY ExistingIsMembership DEF Stale, Of, In
<1>. QED BY <1>1 DEF Expirations, Absent, Membership

LEMMA EnrollPaid ==
  ASSUME TypeOK, PaidHolds,
         NEW r \in Requests, NEW u \in Users, NEW c \in Cohorts,
         Enroll(r, u, c)
  PROVE  PaidHolds'
<1>. DEFINE pending == [user |-> u, cohort |-> c, status |-> "pending_payment",
                        payment |-> NoPayment,
                        expiresAt |-> now + ReservationTtl]
            joined == [user |-> u, cohort |-> c, status |-> "active",
                       payment |-> NoPayment, expiresAt |-> NoExpiry]
            w == Expirations(u, c)
<1>1. /\ r \in Slots
      /\ UNCHANGED <<membership, settled, handling, emitted>>
      /\ \A t \in Slots \ {r} : tx'[t] = tx[t]
  BY DEF Enroll, ResumeCheckout, JoinFree, Reserve, Begin, TypeOK, Slots,
         world, history
<1>2. /\ w \in [Members -> Doc]
      /\ \A m \in Members : w[m].status \in {"expired", "absent"}
  BY ExpirationsType, ExpirationsAt
<1>. HIDE DEF w
<1>3. CASE ResumeCheckout(r, u, c)
  <2>1. tx'[r].writes = w /\ tx'[r].member \in Members
    BY <1>1, <1>3 DEF ResumeCheckout, Begin, TypeOK, Blocking, Of, w
  <2>. QED BY <1>1, <1>2, <2>1, RequestPaid DEF Written
<1>4. CASE JoinFree(r, u, c)
  <2>1. /\ tx'[r].writes = [w EXCEPT ![nextMember] = joined]
        /\ tx'[r].stage = "commit" /\ nextMember \in Members
    BY <1>1, <1>4 DEF JoinFree, Begin, TypeOK, ExpireAndCreate, w
  <2>2. \A m \in Members : \/ tx'[r].writes[m].status # "active"
                           \/ tx'[r].writes[m].payment = NoPayment
    BY <1>2, <2>1
  <2>. QED BY <1>1, <2>1, <2>2, RequestPaid DEF Written
<1>5. CASE Reserve(r, u, c)
  <2>1. /\ tx'[r].writes = [w EXCEPT ![nextMember] = pending]
        /\ tx'[r].member = nextMember /\ nextMember \in Members
    BY <1>1, <1>5 DEF Reserve, Begin, TypeOK, ExpireAndCreate, w
  <2>2. \A m \in Members : tx'[r].writes[m].status # "active"
    BY <1>2, <2>1
  <2>. QED BY <1>1, <2>1, <2>2, RequestPaid DEF Written
<1>. QED BY <1>3, <1>4, <1>5 DEF Enroll

LEMMA AnsweredPaid ==
  ASSUME TypeOK, PaidHolds, NEW r \in Requests, CheckoutAnswered(r)
  PROVE  PaidHolds'
<1>. DEFINE w == tx[r].writes
            n == tx[r].member
<1>1. /\ r \in Slots /\ w \in [Members -> Doc]
      /\ UNCHANGED <<membership, settled, handling, emitted>>
      /\ \A t \in Slots \ {r} : tx'[t] = tx[t]
      /\ tx'[r].writes = WithPayment(w, n) /\ tx'[r].stage = "commit"
  BY DEF CheckoutAnswered, TypeOK, Slots, Tx, Doc, history
<1>2. r \notin Handlers
  BY EnrollmentAssumption
<1>3. w[n].status # "active"
  BY <1>1 DEF PaidHolds, PaidWrites, CheckoutAnswered
<1>4. ASSUME NEW m \in Members
      PROVE  WithPayment(w, n)[m] = w[m] \/ m = n
  BY <1>1 DEF WithPayment, Written
<1>5. \A m \in Members : WithPayment(w, n)[m].status = w[m].status
  BY <1>1, WithPaymentType
<1>6. ASSUME NEW m \in Members
      PROVE  ~(/\ WithPayment(w, n)[m].status = "active"
               /\ WithPayment(w, n)[m].payment # NoPayment)
  <2>1. CASE m = n
    BY <1>3, <1>5, <2>1
  <2>2. CASE m # n
    <3>1. WithPayment(w, n)[m] = w[m]
      BY <1>4, <2>2
    <3>2. m \in Written(w) => ~(w[m].status = "active" /\ w[m].payment # NoPayment)
      BY <1>1, <1>2 DEF PaidHolds, PaidWrites
    <3>. QED BY <3>1, <3>2 DEF Written
  <2>. QED BY <2>1, <2>2
<1>. QED BY <1>1, <1>6, RequestPaid DEF Written

(* What a handler writes for an event that names its payment: an active    *)
(* seat only for a success, a final status for a refund.                   *)
LEMMA WritesForPaid ==
  ASSUME TypeOK, NEW e \in Event, Exists(e.member), Named(e)
  PROVE  /\ \A m \in Written(WritesFor(e)) :
              WritesFor(e)[m].status = "active" =>
                e = PaymentEvent("succeeded", m)
         /\ e.type = "refunded" =>
              \/ Final(WritesFor(e)[e.member].status)
              \/ Final(membership[e.member].status)
<1>. DEFINE m == e.member
<1>1. /\ m \in Members /\ e.payment = m /\ e.type \in EventTypes
      /\ e = PaymentEvent(e.type, m)
  BY DEF Event, Named, PaymentEvent
<1>2. membership[m] \in Membership
  BY <1>1, ExistingIsMembership
<1>3. \A x \in Written(WritesFor(e)) : x = m
  BY WritesForSound
<1>4. ASSUME NEW target \in {"payment_failed", "refunded"}
      PROVE  LET w == OutcomeWrites(target, m, m) IN
             /\ w[m].status # "active"
             /\ target = "refunded" =>
                  Final(w[m].status) \/ Final(membership[m].status)
  <2>. DEFINE doc == [membership[m] EXCEPT !.status = target, !.payment = m,
                                           !.expiresAt = NoExpiry]
              rec == Reconcile(m, m)
  <2>1. doc.status = target /\ rec.status = "awaiting_reconciliation"
    BY <1>2 DEF Membership, Reconcile
  <2>2. /\ Change(m, doc)[m] = doc /\ Change(m, rec)[m] = rec
        /\ NoWrites[m].status = "absent"
    BY <1>1 DEF Change, NoWrites, Absent
  <2>. HIDE DEF doc, rec
  <2>3. CASE membership[m].status = target /\ membership[m].payment = m
    BY <1>1, <2>2, <2>3 DEF OutcomeWrites, Final, Noted
  <2>4. CASE ~(membership[m].status = target /\ membership[m].payment = m)
    <3>1. OutcomeWrites(target, m, m) \in {Change(m, rec), Change(m, doc)}
      BY <2>4 DEF OutcomeWrites, doc, rec
    <3>. QED BY <2>1, <2>2, <3>1 DEF Final, Noted
  <2>. QED BY <2>3, <2>4
<1>5. CASE e.type = "succeeded"
  BY <1>1, <1>3, <1>5
<1>6. CASE e.type = "failed"
  BY <1>1, <1>3, <1>4, <1>6 DEF WritesFor
<1>7. CASE e.type = "refunded"
  BY <1>1, <1>3, <1>4, <1>7 DEF WritesFor
<1>. QED BY <1>1, <1>5, <1>6, <1>7 DEF EventTypes

LEMMA HandlePaid ==
  ASSUME TypeOK, PaidHolds, NEW h \in Handlers, NEW e \in emitted,
         HandleEvent(h, e)
  PROVE  PaidHolds'
<1>1. /\ h \in Slots /\ e \in Event /\ Exists(e.member) /\ Named(e)
      /\ UNCHANGED <<membership, settled, emitted>>
      /\ tx'[h].writes = WritesFor(e) /\ tx'[h].stage = "commit"
      /\ handling'[h] = e
      /\ \A t \in Slots \ {h} : tx'[t] = tx[t]
      /\ \A g \in Handlers \ {h} : handling'[g] = handling[g]
  BY DEF HandleEvent, NotFound, Begin, TypeOK, Slots, PaidHolds, EventsNamed,
         history
<1>2. /\ \A m \in Written(WritesFor(e)) :
           WritesFor(e)[m].status = "active" => e = PaymentEvent("succeeded", m)
      /\ e.type = "refunded" => \/ Final(WritesFor(e)[e.member].status)
                                \/ Final(membership[e.member].status)
  BY <1>1, WritesForPaid
<1>3. EventsNamed' /\ RefundSettled' /\ PaidSettled'
  BY <1>1 DEF PaidHolds, EventsNamed, Named, RefundSettled, PaidSettled, Paid
<1>4. PaidWrites'
  <2>. SUFFICES ASSUME NEW t \in Slots
                PROVE  /\ \A m \in Written(tx'[t].writes) :
                            LET doc == tx'[t].writes[m] IN
                            doc.status = "active" /\ doc.payment # NoPayment =>
                              /\ t \in Handlers
                              /\ handling'[t] = PaymentEvent("succeeded", m)
                       /\ tx'[t].stage = "checkout" =>
                            tx'[t].writes[tx'[t].member].status # "active"
    BY DEF PaidWrites, Written, PaymentEvent
  <2>1. CASE t = h
    BY <1>1, <1>2, <2>1
  <2>2. CASE t # h
    BY <1>1, <2>2 DEF PaidHolds, PaidWrites
  <2>. QED BY <2>1, <2>2
<1>5. RefundInFlight'
  BY <1>1, <1>2 DEF PaidHolds, RefundInFlight, Slots
<1>. QED BY <1>3, <1>4, <1>5 DEF PaidHolds

(* A commit leaves a final status final.                                   *)
LEMMA FinalStays ==
  ASSUME TypeOK, SnapshotsHold, NEW t \in Slots, Commit(t),
         NEW m \in Members, Final(membership[m].status)
  PROVE  Final(membership'[m].status)
<1>. DEFINE w == tx[t].writes
<1>1. CASE m \in Written(w)
  BY <1>1 DEF Commit, SnapshotsHold, WritesHold, Final, Noted, Written
<1>2. CASE m \notin Written(w)
  BY <1>2 DEF Commit
<1>. QED BY <1>1, <1>2

LEMMA CommitPaid ==
  ASSUME TypeOK, SnapshotsHold, PaidHolds, NEW t \in Slots, Commit(t)
  PROVE  PaidHolds'
<1>. DEFINE w == tx[t].writes
<1>1. /\ UNCHANGED <<handling, emitted>>
      /\ tx[t].stage = "commit" /\ ~tx[t].doomed
      /\ settled' = IF t \in Handlers THEN settled \cup {handling[t]} ELSE settled
  BY DEF Commit, world
<1>2. /\ \A s \in Slots \ {t} :
           /\ tx'[s].stage = tx[s].stage /\ tx'[s].writes = tx[s].writes
           /\ tx'[s].member = tx[s].member
           /\ ~tx'[s].doomed => ~tx[s].doomed
      /\ Written(tx'[t].writes) = {}
      /\ tx'[t].stage \notin {"commit", "checkout"}
      /\ \A m \in Members : membership'[m] = IF m \in Written(w) THEN w[m]
                                             ELSE membership[m]
  BY OthersAtCommit
<1>3. EventsNamed'
  BY <1>1 DEF PaidHolds, EventsNamed, Named
<1>4. PaidWrites'
  <2>. SUFFICES ASSUME NEW s \in Slots
                PROVE  /\ \A m \in Written(tx'[s].writes) :
                            LET doc == tx'[s].writes[m] IN
                            doc.status = "active" /\ doc.payment # NoPayment =>
                              /\ s \in Handlers
                              /\ handling'[s] = PaymentEvent("succeeded", m)
                       /\ tx'[s].stage = "checkout" =>
                            tx'[s].writes[tx'[s].member].status # "active"
    BY DEF PaidWrites, Written, PaymentEvent
  <2>1. CASE s = t
    BY <1>2, <2>1
  <2>2. CASE s # t
    BY <1>1, <1>2, <2>2 DEF PaidHolds, PaidWrites
  <2>. QED BY <2>1, <2>2
<1>5. RefundInFlight'
  <2>. SUFFICES ASSUME NEW h \in Handlers, tx'[h].stage = "commit",
                       ~tx'[h].doomed, handling'[h].type = "refunded"
                PROVE  \/ Final(tx'[h].writes[handling'[h].member].status)
                       \/ Final(membership'[handling'[h].member].status)
    BY DEF RefundInFlight
  <2>1. h \in Slots \ {t}
    BY <1>2 DEF Slots
  <2>2. /\ handling[h].member \in Members
        /\ \/ Final(tx[h].writes[handling[h].member].status)
           \/ Final(membership[handling[h].member].status)
    BY <1>1, <1>2, <2>1
       DEF PaidHolds, RefundInFlight, SnapshotsHold, SuccessInFlight, Event
  <2>. QED BY <1>1, <1>2, <2>1, <2>2, FinalStays
<1>6. RefundSettled'
  <2>. SUFFICES ASSUME NEW e \in settled', e.type = "refunded"
                PROVE  Final(membership'[e.member].status)
    BY DEF RefundSettled
  <2>1. CASE e \in settled
    <3>1. e.member \in Members /\ Final(membership[e.member].status)
      BY <2>1 DEF TypeOK, Event, PaidHolds, RefundSettled
    <3>. QED BY <3>1, FinalStays
  <2>2. CASE e \notin settled
    <3>1. t \in Handlers /\ e = handling[t]
      BY <1>1, <2>2
    <3>2. /\ e.member \in Members
          /\ Final(w[e.member].status) \/ Final(membership[e.member].status)
      BY <1>1, <3>1
         DEF SnapshotsHold, SuccessInFlight, PaidHolds, RefundInFlight, Event
    <3>3. CASE Final(w[e.member].status)
      BY <1>2, <3>2, <3>3 DEF Written, Final, Noted
    <3>4. CASE Final(membership[e.member].status)
      BY <3>2, <3>4, FinalStays
    <3>. QED BY <3>2, <3>3, <3>4
  <2>. QED BY <2>1, <2>2
<1>7. PaidSettled'
  <2>. SUFFICES ASSUME NEW m \in Members, Paid(m)'
                PROVE  PaymentEvent("succeeded", m) \in settled'
    BY DEF PaidSettled, PaymentEvent
  <2>1. CASE m \in Written(w)
    <3>1. w[m].status = "active" /\ w[m].payment # NoPayment
      BY <1>2, <2>1 DEF Paid
    <3>. QED BY <1>1, <2>1, <3>1 DEF PaidHolds, PaidWrites
  <2>2. CASE m \notin Written(w)
    BY <1>1, <1>2, <2>2 DEF PaidHolds, PaidSettled, Paid
  <2>. QED BY <2>1, <2>2
<1>. QED BY <1>3, <1>4, <1>5, <1>6, <1>7 DEF PaidHolds

LEMMA PaidStep ==
  ASSUME IInv, PaidHolds, [Next]_vars
  PROVE  PaidHolds'
<1>. USE DEF IInv
<1>1. CASE \E r \in Requests, u \in Users, c \in Cohorts : Enroll(r, u, c)
  BY <1>1, EnrollPaid
<1>2. CASE \E r \in Requests : CheckoutAnswered(r)
  BY <1>2, AnsweredPaid
<1>3. CASE \E h \in Handlers, e \in emitted : HandleEvent(h, e)
  BY <1>3, HandlePaid
<1>4. CASE \E t \in Slots : Commit(t)
  BY <1>4, CommitPaid
<1>5. CASE \E r \in Requests : CheckoutFailed(r)
  BY <1>5, QuietPaid DEF CheckoutFailed, TypeOK, Slots, history
<1>6. CASE \E h \in Handlers : Ack(h)
  BY <1>6, QuietPaid DEF Ack, TypeOK, Slots, world, history
<1>7. CASE \E t \in Slots : WriteConflict(t) \/ DatabaseError(t)
  BY <1>7, QuietPaid
     DEF WriteConflict, DatabaseError, Abort, TypeOK, Slots, history
<1>8. CASE Crash
  BY <1>8, QuietPaid DEF Crash, Slots, history
<1>9. ASSUME UNCHANGED <<membership, settled, tx, handling>>,
             \A e \in emitted' : e \in emitted \/ Named(e)
      PROVE  PaidHolds'
  BY <1>9, QuietPaid
<1>10. CASE \E h \in Handlers, e \in emitted : HandleUnknown(h, e)
  BY <1>9, <1>10 DEF HandleUnknown, skill, history
<1>11. CASE \/ \E a \in Admins : WriteCohort(a)
            \/ \E a \in Admins, c \in Cohorts : DeleteCohort(a, c)
            \/ \E a \in Admins, c \in Cohorts, o \in Offers : CreateCohort(a, c, o)
            \/ \E a \in Admins, c \in Cohorts, e \in Edits : UpdateCohort(a, c, e)
  BY <1>9, <1>11
     DEF WriteCohort, DeleteCohort, CreateCohort, UpdateCohort, Plan, world, history
<1>12. CASE \E type \in Outcomes, m \in Members :
              PaymentsEmits(PaymentEvent(type, m))
  <2>1. \A type, m : Named(PaymentEvent(type, m))
    BY DEF Named, PaymentEvent
  <2>. QED BY <1>9, <1>12, <2>1 DEF PaymentsEmits, skill, history
<1>13. CASE \/ \E e \in emitted : PublishedAgain(e)
            \/ Tick
            \/ UNCHANGED vars
  BY <1>9, <1>13 DEF PublishedAgain, Tick, skill, world, history, vars
<1>. QED BY <1>1, <1>2, <1>3, <1>4, <1>5, <1>6, <1>7, <1>8, <1>10, <1>11,
            <1>12, <1>13 DEF Next

LEMMA PaidInvariance == Spec => [](IInv /\ PaidHolds)
BY IInvInit, PaidInit, IInvStep, PaidStep, PTL DEF Spec

(* A paid seat is active only if its payment succeeded and was not         *)
(* refunded, for any number of redeliveries, handlers and crashes.         *)
THEOREM ActiveSeatsPaid == Spec => []ActiveIsPaid
<1>1. IInv /\ PaidHolds => ActiveIsPaid
  <2>. SUFFICES ASSUME PaidHolds, NEW m \in Members, Paid(m)
                PROVE  /\ PaymentEvent("succeeded", m) \in settled
                       /\ PaymentEvent("refunded", m) \notin settled
    BY DEF ActiveIsPaid
  <2>1. PaymentEvent("refunded", m).type = "refunded"
    BY DEF PaymentEvent
  <2>2. PaymentEvent("refunded", m).member = m
    BY DEF PaymentEvent
  <2>. QED BY <2>1, <2>2 DEF PaidHolds, PaidSettled, RefundSettled, Paid, Final
<1>. QED BY <1>1, PaidInvariance, PTL

-----------------------------------------------------------------------------
(* What every argument about seats needs.                                  *)

(* A write that will not be refused leaves a membership with its user and  *)
(* in its cohort, and a handler writes only a membership that exists.      *)
HomesKept ==
  \A t \in Slots : ~tx[t].doomed => \A m \in Written(tx[t].writes) :
    /\ Exists(m) => /\ tx[t].writes[m].user = membership[m].user
                    /\ tx[t].writes[m].cohort = membership[m].cohort
    /\ t \in Handlers => Exists(m)

(* Reservations, and those about to be written, run out.                   *)
ReservationsExpire ==
  /\ \A m \in Members : membership[m].status = "pending_payment" =>
       membership[m].expiresAt # NoExpiry
  /\ \A t \in Slots : \A m \in Written(tx[t].writes) :
       tx[t].writes[m].status = "pending_payment" =>
         tx[t].writes[m].expiresAt # NoExpiry

CapacityWithinPeak == \A c \in Cohorts : cohort[c].maxStudents <= peak[c]

SeatFacts == HomesKept /\ ReservationsExpire /\ CapacityWithinPeak

LEMMA SeatFactsInit == ASSUME Init PROVE SeatFacts
<1>1. \A t \in Slots : Written(tx[t].writes) = {}
  BY DEF Init, Idle, NoWrites, Written, Absent
<1>. QED BY <1>1 DEF Init, SeatFacts, HomesKept, ReservationsExpire,
         CapacityWithinPeak, Absent

(* Steps that end transactions, or touch neither them nor the memberships. *)
LEMMA QuietSeatFacts ==
  ASSUME SeatFacts, UNCHANGED membership, CapacityWithinPeak',
         \A t \in Slots : tx'[t] \in {tx[t], Idle, [Idle EXCEPT !.stage = "ack"]}
  PROVE  SeatFacts'
<1>1. \A t \in Slots : tx'[t] = tx[t] \/ Written(tx'[t].writes) = {}
  BY EndedWritesNothing
<1>2. HomesKept'
  <2>. SUFFICES ASSUME NEW t \in Slots, ~tx'[t].doomed,
                       NEW m \in Written(tx'[t].writes)
                PROVE  /\ Exists(m) => /\ tx'[t].writes[m].user = membership[m].user
                                       /\ tx'[t].writes[m].cohort = membership[m].cohort
                       /\ t \in Handlers => Exists(m)
    BY DEF HomesKept, Written, Exists
  <2>. QED BY <1>1 DEF SeatFacts, HomesKept
<1>3. ReservationsExpire'
  <2>1. ASSUME NEW t \in Slots, NEW m \in Written(tx'[t].writes),
               tx'[t].writes[m].status = "pending_payment"
        PROVE  tx'[t].writes[m].expiresAt # NoExpiry
    BY <1>1, <2>1 DEF SeatFacts, ReservationsExpire
  <2>. QED BY <2>1 DEF SeatFacts, ReservationsExpire, Written
<1>. QED BY <1>2, <1>3 DEF SeatFacts

(* A step that opens or continues one transaction is sound if what it      *)
(* writes is.                                                              *)
LEMMA OneSeatFacts ==
  ASSUME SeatFacts, NEW t \in Slots, UNCHANGED <<membership, cohort, peak>>,
         \A s \in Slots \ {t} : tx'[s] = tx[s],
         ~tx'[t].doomed => \A m \in Written(tx'[t].writes) :
           /\ Exists(m) => /\ tx'[t].writes[m].user = membership[m].user
                           /\ tx'[t].writes[m].cohort = membership[m].cohort
           /\ t \in Handlers => Exists(m),
         \A m \in Written(tx'[t].writes) :
           tx'[t].writes[m].status = "pending_payment" =>
             tx'[t].writes[m].expiresAt # NoExpiry
  PROVE  SeatFacts'
<1>1. HomesKept'
  <2>. SUFFICES ASSUME NEW s \in Slots, ~tx'[s].doomed,
                       NEW m \in Written(tx'[s].writes)
                PROVE  /\ Exists(m) => /\ tx'[s].writes[m].user = membership[m].user
                                       /\ tx'[s].writes[m].cohort = membership[m].cohort
                       /\ s \in Handlers => Exists(m)
    BY DEF HomesKept, Written, Exists
  <2>1. CASE s = t
    BY <2>1
  <2>2. CASE s # t
    BY <2>2 DEF SeatFacts, HomesKept
  <2>. QED BY <2>1, <2>2
<1>2. ReservationsExpire'
  <2>1. ASSUME NEW s \in Slots, NEW m \in Written(tx'[s].writes),
               tx'[s].writes[m].status = "pending_payment"
        PROVE  tx'[s].writes[m].expiresAt # NoExpiry
    <3>1. CASE s = t
      BY <2>1, <3>1
    <3>2. CASE s # t
      BY <2>1, <3>2 DEF SeatFacts, ReservationsExpire
    <3>. QED BY <3>1, <3>2
  <2>. QED BY <2>1 DEF SeatFacts, ReservationsExpire, Written
<1>3. CapacityWithinPeak'
  BY DEF SeatFacts, CapacityWithinPeak
<1>. QED BY <1>1, <1>2, <1>3 DEF SeatFacts

(* An expiry changes the status only.                                      *)
LEMMA ExpirationsKeep ==
  ASSUME TypeOK, NEW u \in Users, NEW c \in Cohorts,
         NEW m \in Written(Expirations(u, c))
  PROVE  /\ m \in Members /\ m \in Stale(u, c)
         /\ Expirations(u, c)[m].status = "expired"
         /\ Expirations(u, c)[m].user = membership[m].user
         /\ Expirations(u, c)[m].cohort = membership[m].cohort
<1>1. m \in Members /\ m \in Stale(u, c)
  BY DEF Written, Expirations, Absent
<1>2. membership[m] \in Membership
  BY <1>1, ExistingIsMembership DEF Stale, Of, In
<1>. QED BY <1>1, <1>2 DEF Expirations, Membership

LEMMA EnrollSeatFacts ==
  ASSUME TypeOK, FreshIds, SeatFacts,
         NEW r \in Requests, NEW u \in Users, NEW c \in Cohorts,
         Enroll(r, u, c)
  PROVE  SeatFacts'
<1>. DEFINE pending == [user |-> u, cohort |-> c, status |-> "pending_payment",
                        payment |-> NoPayment,
                        expiresAt |-> now + ReservationTtl]
            joined == [user |-> u, cohort |-> c, status |-> "active",
                       payment |-> NoPayment, expiresAt |-> NoExpiry]
            w == Expirations(u, c)
<1>1. /\ r \in Slots /\ r \notin Handlers
      /\ UNCHANGED <<membership, cohort, peak>>
      /\ \A t \in Slots \ {r} : tx'[t] = tx[t]
  BY EnrollmentAssumption
     DEF Enroll, ResumeCheckout, JoinFree, Reserve, Begin, TypeOK, Slots, history
<1>2. /\ w \in [Members -> Doc]
      /\ \A m \in Written(w) : /\ w[m].status = "expired"
                               /\ w[m].user = membership[m].user
                               /\ w[m].cohort = membership[m].cohort
  BY ExpirationsType, ExpirationsKeep
<1>3. nextMember \in Members => ~Exists(nextMember)
  BY DEF FreshIds, TypeOK
<1>. HIDE DEF w
<1>4. CASE ResumeCheckout(r, u, c)
  <2>1. tx'[r].writes = w
    BY <1>1, <1>4 DEF ResumeCheckout, Begin, TypeOK, w
  <2>. QED BY <1>1, <1>2, <2>1, OneSeatFacts
<1>5. ASSUME NEW doc \in {pending, joined}, nextMember \in Members,
             tx'[r].writes = [w EXCEPT ![nextMember] = doc]
      PROVE  SeatFacts'
  <2>1. doc.status = "pending_payment" => doc.expiresAt # NoExpiry
    BY EnrollmentAssumption DEF TypeOK, NoExpiry
  <2>2. ASSUME NEW m \in Written(tx'[r].writes)
        PROVE  \/ m = nextMember /\ tx'[r].writes[m] = doc
               \/ m \in Written(w) /\ tx'[r].writes[m] = w[m]
    BY <1>2, <1>5 DEF Written
  <2>3. ASSUME NEW m \in Written(tx'[r].writes)
        PROVE  /\ Exists(m) => /\ tx'[r].writes[m].user = membership[m].user
                               /\ tx'[r].writes[m].cohort = membership[m].cohort
               /\ tx'[r].writes[m].status = "pending_payment" =>
                    tx'[r].writes[m].expiresAt # NoExpiry
    BY <1>2, <1>3, <1>5, <2>1, <2>2
  <2>. QED BY <1>1, <2>3, OneSeatFacts
<1>6. CASE JoinFree(r, u, c)
  BY <1>1, <1>5, <1>6 DEF JoinFree, Begin, TypeOK, ExpireAndCreate, w
<1>7. CASE Reserve(r, u, c)
  BY <1>1, <1>5, <1>7 DEF Reserve, Begin, TypeOK, ExpireAndCreate, w
<1>. QED BY <1>4, <1>6, <1>7 DEF Enroll

(* Recording a payment changes nothing else in the documents written.      *)
LEMMA WithPaymentKeeps ==
  ASSUME NEW w \in [Members -> Doc], NEW n, NEW m \in Members
  PROVE  /\ m \in Written(WithPayment(w, n)) <=> m \in Written(w)
         /\ m \in Written(w) =>
              /\ WithPayment(w, n)[m].status = w[m].status
              /\ WithPayment(w, n)[m].user = w[m].user
              /\ WithPayment(w, n)[m].cohort = w[m].cohort
              /\ WithPayment(w, n)[m].expiresAt = w[m].expiresAt
<1>1. m \in Written(w) => w[m] \in Membership
  BY DEF Written, Doc, Absent
<1>2. CASE m = n /\ m \in Written(w)
  <2>1. WithPayment(w, n)[m] = [w[m] EXCEPT !.payment = m]
    BY <1>2 DEF WithPayment
  <2>. QED BY <1>1, <1>2, <2>1 DEF Membership, Written
<1>3. CASE ~(m = n /\ m \in Written(w))
  <2>1. WithPayment(w, n)[m] = w[m]
    BY <1>3 DEF WithPayment, Written
  <2>. QED BY <2>1 DEF Written
<1>. QED BY <1>2, <1>3

LEMMA AnsweredSeatFacts ==
  ASSUME TypeOK, SeatFacts, NEW r \in Requests, CheckoutAnswered(r)
  PROVE  SeatFacts'
<1>. DEFINE w == tx[r].writes
            n == tx[r].member
<1>1. /\ r \in Slots /\ w \in [Members -> Doc]
      /\ UNCHANGED <<membership, cohort, peak>>
      /\ \A t \in Slots \ {r} : tx'[t] = tx[t]
      /\ tx'[r].writes = WithPayment(w, n) /\ tx'[r].doomed = tx[r].doomed
  BY DEF CheckoutAnswered, TypeOK, Slots, Tx, Doc, history
<1>2. r \notin Handlers
  BY EnrollmentAssumption
<1>3. ASSUME NEW m \in Written(tx'[r].writes)
      PROVE  /\ m \in Written(w)
             /\ tx'[r].writes[m].status = w[m].status
             /\ tx'[r].writes[m].user = w[m].user
             /\ tx'[r].writes[m].cohort = w[m].cohort
             /\ tx'[r].writes[m].expiresAt = w[m].expiresAt
  <2>1. m \in Members
    BY DEF Written
  <2>. QED BY <1>1, <2>1, WithPaymentKeeps
<1>4. ~tx'[r].doomed => \A m \in Written(tx'[r].writes) :
        /\ Exists(m) => /\ tx'[r].writes[m].user = membership[m].user
                        /\ tx'[r].writes[m].cohort = membership[m].cohort
        /\ r \in Handlers => Exists(m)
  BY <1>1, <1>2, <1>3 DEF SeatFacts, HomesKept
<1>5. \A m \in Written(tx'[r].writes) :
        tx'[r].writes[m].status = "pending_payment" =>
          tx'[r].writes[m].expiresAt # NoExpiry
  BY <1>1, <1>3 DEF SeatFacts, ReservationsExpire
<1>. QED BY <1>1, <1>4, <1>5, OneSeatFacts

(* A handler's write keeps the user and the cohort.                        *)
LEMMA WritesForKeep ==
  ASSUME TypeOK, NEW e \in Event, Exists(e.member),
         NEW m \in Written(WritesFor(e))
  PROVE  /\ m = e.member
         /\ WritesFor(e)[m].user = membership[m].user
         /\ WritesFor(e)[m].cohort = membership[m].cohort
         /\ WritesFor(e)[m].status # "pending_payment"
         /\ WritesFor(e)[m].status = "active" =>
              e.type = "succeeded" /\ Grantable(m)
<1>. DEFINE p == e.payment
            Kept(doc) == doc.user = membership[m].user
                         /\ doc.cohort = membership[m].cohort
            granted == [membership[m] EXCEPT !.status = "active", !.payment = p,
                                             !.expiresAt = NoExpiry]
            settledAs(target) == [membership[m] EXCEPT !.status = target,
                                   !.payment = p, !.expiresAt = NoExpiry]
<1>1. /\ m = e.member /\ m \in Members /\ e.type \in EventTypes
      /\ WritesFor(e)[m].status # "pending_payment"
  BY WritesForSound DEF Event
<1>2. membership[m] \in Membership
  BY <1>1, ExistingIsMembership
<1>3. /\ \A q : /\ Kept(Reconcile(m, q))
                /\ Reconcile(m, q).status = "awaiting_reconciliation"
      /\ Kept(granted)
      /\ \A target : Kept(settledAs(target)) /\ settledAs(target).status = target
  BY <1>2 DEF Membership, Reconcile
<1>4. NoWrites[m].status = "absent" /\ WritesFor(e)[m].status # "absent"
  BY <1>1 DEF NoWrites, Absent, Written
<1>5. \A doc : Change(m, doc)[m] = doc
  BY <1>1 DEF Change, NoWrites
<1>. HIDE DEF granted, settledAs, Kept
<1>6. CASE e.type = "succeeded"
  <2>1. WritesFor(e) = SucceededWrites(m, p)
    BY <1>1, <1>6 DEF WritesFor
  <2>2. \/ WritesFor(e) = NoWrites
        \/ \E q : WritesFor(e) = Change(m, Reconcile(m, q))
        \/ WritesFor(e) = Change(m, granted) /\ Grantable(m)
    BY <2>1 DEF SucceededWrites, granted
  <2>3. \/ \E q : WritesFor(e)[m] = Reconcile(m, q)
        \/ WritesFor(e)[m] = granted /\ Grantable(m)
    BY <1>4, <1>5, <2>2
  <2>4. Kept(WritesFor(e)[m])
        /\ (WritesFor(e)[m].status = "active" => Grantable(m))
    BY <1>3, <2>3
  <2>. QED BY <1>1, <1>6, <2>4 DEF Kept
<1>7. ASSUME NEW target \in {"payment_failed", "refunded"},
             WritesFor(e) = OutcomeWrites(target, m, p)
      PROVE  Kept(WritesFor(e)[m]) /\ WritesFor(e)[m].status # "active"
  <2>1. WritesFor(e) \in {NoWrites, Change(m, Reconcile(m, p)),
                          Change(m, settledAs(target))}
    BY <1>7 DEF OutcomeWrites, settledAs
  <2>2. WritesFor(e)[m] \in {Reconcile(m, p), settledAs(target)}
    BY <1>4, <1>5, <2>1
  <2>. QED BY <1>3, <2>2
<1>8. CASE e.type = "failed"
  BY <1>1, <1>7, <1>8 DEF WritesFor, Kept
<1>9. CASE e.type = "refunded"
  BY <1>1, <1>7, <1>9 DEF WritesFor, Kept
<1>. QED BY <1>1, <1>6, <1>8, <1>9 DEF EventTypes

LEMMA HandleSeatFacts ==
  ASSUME TypeOK, SeatFacts, NEW h \in Handlers, NEW e \in emitted,
         HandleEvent(h, e)
  PROVE  SeatFacts'
<1>1. /\ h \in Slots /\ e \in Event /\ Exists(e.member)
      /\ UNCHANGED <<membership, cohort, peak>>
      /\ tx'[h].writes = WritesFor(e)
      /\ \A t \in Slots \ {h} : tx'[t] = tx[t]
  BY DEF HandleEvent, NotFound, Begin, TypeOK, Slots, history
<1>2. \A m \in Written(WritesFor(e)) :
        /\ m = e.member
        /\ WritesFor(e)[m].user = membership[m].user
        /\ WritesFor(e)[m].cohort = membership[m].cohort
        /\ WritesFor(e)[m].status # "pending_payment"
  BY <1>1, WritesForKeep
<1>. QED BY <1>1, <1>2, OneSeatFacts

LEMMA CommitSeatFacts ==
  ASSUME TypeOK, SnapshotsHold, SeatFacts, NEW t \in Slots, Commit(t)
  PROVE  SeatFacts'
<1>. DEFINE w == tx[t].writes
<1>1. UNCHANGED <<cohort, peak>> /\ ~tx[t].doomed
  BY DEF Commit
<1>2. /\ \A s \in Slots \ {t} :
           /\ tx'[s].writes = tx[s].writes
           /\ ~tx'[s].doomed => ~tx[s].doomed
                                /\ Written(tx[s].writes) \cap Written(w) = {}
      /\ Written(tx'[t].writes) = {}
      /\ \A m \in Members : membership'[m] = IF m \in Written(w) THEN w[m]
                                             ELSE membership[m]
  BY OthersAtCommit
<1>3. HomesKept'
  <2>. SUFFICES ASSUME NEW s \in Slots, ~tx'[s].doomed,
                       NEW m \in Written(tx'[s].writes)
                PROVE  /\ Exists(m)' =>
                            /\ tx'[s].writes[m].user = membership'[m].user
                            /\ tx'[s].writes[m].cohort = membership'[m].cohort
                       /\ s \in Handlers => Exists(m)'
    BY DEF HomesKept, Written, Exists
  <2>1. s # t /\ m \in Members
    BY <1>2 DEF Written
  <2>2. membership'[m] = membership[m] /\ m \in Written(tx[s].writes)
    BY <1>2, <2>1
  <2>. QED BY <1>2, <2>1, <2>2 DEF SeatFacts, HomesKept, Exists
<1>4. ReservationsExpire'
  <2>1. ASSUME NEW m \in Members, membership'[m].status = "pending_payment"
        PROVE  membership'[m].expiresAt # NoExpiry
    BY <1>2, <2>1 DEF SeatFacts, ReservationsExpire
  <2>2. ASSUME NEW s \in Slots, NEW m \in Written(tx'[s].writes),
               tx'[s].writes[m].status = "pending_payment"
        PROVE  tx'[s].writes[m].expiresAt # NoExpiry
    BY <1>2, <2>2 DEF SeatFacts, ReservationsExpire
  <2>. QED BY <2>1, <2>2 DEF ReservationsExpire, Written
<1>5. CapacityWithinPeak'
  BY <1>1 DEF SeatFacts, CapacityWithinPeak
<1>. QED BY <1>3, <1>4, <1>5 DEF SeatFacts

LEMMA WriteCohortCapacity ==
  ASSUME TypeOK, CapacityWithinPeak, NEW a \in Admins, WriteCohort(a)
  PROVE  /\ CapacityWithinPeak'
         /\ \A c \in Cohorts : peak[c] <= peak'[c]
<1>1. /\ cohort \in [Cohorts -> Cohort] /\ peak \in [Cohorts -> Nat]
      /\ \A c \in Cohorts : cohort[c].maxStudents \in Nat
      /\ admin[a].cohort \in Cohorts /\ admin[a].doc.maxStudents \in Nat
  BY DEF WriteCohort, AdminIdle, TypeOK, AdminCall, Cohort
<1>2. CASE UNCHANGED <<cohort, peak>>
  BY <1>1, <1>2 DEF CapacityWithinPeak
<1>3. CASE ~UNCHANGED <<cohort, peak>>
  <2>1. /\ cohort' = [cohort EXCEPT ![admin[a].cohort] = admin[a].doc]
        /\ peak' = [peak EXCEPT ![admin[a].cohort] =
             IF admin[a].doc.maxStudents > peak[admin[a].cohort]
             THEN admin[a].doc.maxStudents ELSE peak[admin[a].cohort]]
    BY <1>3 DEF WriteCohort
  <2>2. ASSUME NEW c \in Cohorts
        PROVE  peak[c] <= peak'[c] /\ cohort'[c].maxStudents <= peak'[c]
    BY <1>1, <2>1 DEF CapacityWithinPeak
  <2>. QED BY <2>2 DEF CapacityWithinPeak
<1>. QED BY <1>2, <1>3

LEMMA SeatFactsStep ==
  ASSUME IInv, SeatFacts, [Next]_vars
  PROVE  SeatFacts'
<1>. USE DEF IInv
<1>1. CASE \E r \in Requests, u \in Users, c \in Cohorts : Enroll(r, u, c)
  BY <1>1, EnrollSeatFacts DEF SnapshotsHold
<1>2. CASE \E r \in Requests : CheckoutAnswered(r)
  BY <1>2, AnsweredSeatFacts
<1>3. CASE \E h \in Handlers, e \in emitted : HandleEvent(h, e)
  BY <1>3, HandleSeatFacts
<1>4. CASE \E t \in Slots : Commit(t)
  BY <1>4, CommitSeatFacts
<1>5. ASSUME UNCHANGED <<membership, cohort, peak>>,
             \A t \in Slots : tx'[t] \in {tx[t], Idle, [Idle EXCEPT !.stage = "ack"]}
      PROVE  SeatFacts'
  <2>1. CapacityWithinPeak'
    BY <1>5 DEF SeatFacts, CapacityWithinPeak
  <2>. QED BY <1>5, <2>1, QuietSeatFacts
<1>6. CASE \/ \E r \in Requests : CheckoutFailed(r)
           \/ \E h \in Handlers : Ack(h)
  BY <1>5, <1>6 DEF CheckoutFailed, Ack, TypeOK, Slots, history
<1>7. CASE \/ \E t \in Slots : WriteConflict(t) \/ DatabaseError(t)
           \/ Crash
  BY <1>5, <1>7
     DEF WriteConflict, DatabaseError, Abort, Crash, TypeOK, Slots, history
<1>8. CASE \E h \in Handlers, e \in emitted : HandleUnknown(h, e)
  BY <1>5, <1>8 DEF HandleUnknown, skill, history
<1>9. CASE \E a \in Admins : WriteCohort(a)
  <2>1. CapacityWithinPeak' /\ UNCHANGED <<membership, tx>>
    BY <1>9, WriteCohortCapacity DEF SeatFacts, WriteCohort
  <2>. QED BY <2>1, QuietSeatFacts
<1>10. CASE \/ \E a \in Admins, c \in Cohorts : DeleteCohort(a, c)
            \/ \E a \in Admins, c \in Cohorts, o \in Offers : CreateCohort(a, c, o)
            \/ \E a \in Admins, c \in Cohorts, e \in Edits : UpdateCohort(a, c, e)
  BY <1>5, <1>10 DEF DeleteCohort, CreateCohort, UpdateCohort, Plan, history
<1>11. CASE \/ \E type \in Outcomes, m \in Members :
                 PaymentsEmits(PaymentEvent(type, m))
            \/ \E e \in emitted : PublishedAgain(e)
            \/ Tick
            \/ UNCHANGED vars
  BY <1>5, <1>11 DEF PaymentsEmits, PublishedAgain, Tick, skill, history, vars
<1>. QED BY <1>1, <1>2, <1>3, <1>4, <1>6, <1>7, <1>8, <1>9, <1>10, <1>11 DEF Next

-----------------------------------------------------------------------------
(* Seats that are about to be granted.                                     *)

(* The reservations of a cohort that a handler is about to make active.    *)
Granted(c) ==
  {m \in In(c) : \E h \in Handlers : ~tx[h].doomed /\ m \in Granting(h)}

(* Sets of memberships are finite, and smaller sets have fewer elements.   *)
LEMMA FewerMembers ==
  ASSUME NEW S \in SUBSET Members, NEW T \in SUBSET S
  PROVE  Cardinality(T) \in Nat /\ Cardinality(T) <= Cardinality(S)
<1>1. IsFiniteSet(Members)
  BY FS_Interval, EnrollmentAssumption DEF Members
<1>2. IsFiniteSet(S)
  BY <1>1, FS_Subset
<1>3. Cardinality(S) \in Nat /\ IsFiniteSet(T) /\ Cardinality(T) <= Cardinality(S)
  BY <1>2, FS_Subset, FS_CardinalityType
<1>. QED BY <1>3, FS_CardinalityType

(* At a commit, a membership that was not written keeps its place, and a   *)
(* reservation that is still being granted is one no commit touched.       *)
LEMMA GrantedAtCommit ==
  ASSUME TypeOK, NEW t \in Slots, Commit(t), NEW c \in Cohorts
  PROVE  Granted(c)' \subseteq Granted(c) \ Written(tx[t].writes)
<1>. SUFFICES ASSUME NEW m \in Granted(c)'
              PROVE  m \in Granted(c) /\ m \notin Written(tx[t].writes)
  OBVIOUS
<1>1. PICK h \in Handlers : ~tx'[h].doomed /\ m \in Granting(h)'
  BY DEF Granted
<1>2. /\ m \in Members /\ m \in Written(tx'[h].writes) /\ h \in Slots
      /\ tx'[h].writes[m].status = "active"
      /\ membership'[m].status = "pending_payment"
      /\ membership'[m].cohort = c
  BY <1>1 DEF Granting, Granted, In, Written, Slots
<1>3. h # t
  BY <1>2, OthersAtCommit
<1>4. /\ tx'[h].writes = tx[h].writes /\ ~tx[h].doomed
      /\ Written(tx[h].writes) \cap Written(tx[t].writes) = {}
  BY <1>1, <1>2, <1>3, OthersAtCommit
<1>5. m \notin Written(tx[t].writes) /\ membership'[m] = membership[m]
  BY <1>2, <1>4, OthersAtCommit
<1>. QED BY <1>2, <1>4, <1>5 DEF Granted, Granting, In, Exists

(* Elsewhere: no step but HandleEvent adds to what is about to be granted. *)
LEMMA GrantedOtherwise ==
  ASSUME UNCHANGED membership, NEW c,
         \A h \in Handlers : tx'[h] \in {tx[h], Idle, [Idle EXCEPT !.stage = "ack"]}
  PROVE  Granted(c)' \subseteq Granted(c)
<1>1. \A h \in Handlers : tx'[h] = tx[h] \/ Written(tx'[h].writes) = {}
  BY EndedWritesNothing
<1>. QED BY <1>1 DEF Granted, Granting, In, Exists, Written

(* What a handler is about to grant is held when it begins, and the cohort *)
(* was not over capacity.                                                  *)
LEMMA GrantedByHandler ==
  ASSUME TypeOK, SeatFacts, NEW h \in Handlers, NEW e \in emitted,
         HandleEvent(h, e), NEW c \in Cohorts
  PROVE  /\ UNCHANGED <<membership, cohort, peak, now>>
         /\ \A m \in Granting(h)' :
              /\ m = e.member /\ Grantable(m) /\ membership[m].expiresAt > now
              /\ m \in In(c) => m \in Held(c)
         /\ \/ Granted(c)' \subseteq Granted(c)
            \/ \E m \in Held(c) :
                 /\ Granted(c)' \subseteq Granted(c) \cup {m}
                 /\ m \in Granting(h)'
                 /\ Cardinality(Held(c)) <= peak[c]
<1>1. /\ h \in Slots /\ e \in Event /\ Exists(e.member)
      /\ UNCHANGED <<membership, cohort, peak, now>>
      /\ tx'[h].writes = WritesFor(e)
      /\ \A t \in Slots \ {h} : tx'[t] = tx[t]
  BY DEF HandleEvent, NotFound, Begin, TypeOK, Slots, history
<1>2. ASSUME NEW m \in Granting(h)'
      PROVE  /\ m = e.member /\ Grantable(m) /\ membership[m].expiresAt > now
             /\ m \in In(c) => m \in Held(c)
  <2>1. m \in Written(WritesFor(e)) /\ WritesFor(e)[m].status = "active"
    BY <1>1 DEF Granting, Written
  <2>2. m = e.member /\ Grantable(m) /\ m \in Members
    BY <1>1, <2>1, WritesForKeep DEF Event
  <2>3. membership[m] \in Membership
    BY <1>1, <2>2, ExistingIsMembership
  <2>4. membership[m].expiresAt > now
    BY <2>2, <2>3 DEF Grantable, IsStale, SeatFacts, ReservationsExpire, TypeOK,
                      Membership
  <2>. QED BY <2>2, <2>4 DEF Held, Grantable
<1>3. Granted(c)' \subseteq Granted(c) \cup Granting(h)'
  BY <1>1 DEF Granted, Granting, In, Exists, Written, Slots
<1>4. CASE Granted(c)' \subseteq Granted(c)
  BY <1>1, <1>2, <1>4
<1>5. CASE ~(Granted(c)' \subseteq Granted(c))
  <2>1. PICK m \in Granted(c)' : m \notin Granted(c)
    BY <1>5
  <2>2. m \in Granting(h)' /\ m \in In(c)
    BY <1>1, <1>3, <2>1 DEF Granted, In, Exists
  <2>3. m \in Held(c) /\ Grantable(m) /\ \A x \in Granting(h)' : x = m
    BY <1>2, <2>2
  <2>4. Cardinality(Held(c)) <= cohort[c].maxStudents
    BY <2>2, <2>3 DEF Grantable, In
  <2>5. Held(c) \in SUBSET Members
    BY DEF Held, In
  <2>6. Cardinality(Held(c)) \in Nat
    BY <2>5, FewerMembers
  <2>7. Cardinality(Held(c)) <= peak[c]
    BY <2>4, <2>6 DEF SeatFacts, CapacityWithinPeak, TypeOK, Cohort
  <2>. QED BY <1>1, <1>2, <1>3, <2>2, <2>3, <2>7
<1>. QED BY <1>4, <1>5

-----------------------------------------------------------------------------
(* Paid seats stay within the capacity if no handler outlives the          *)
(* reservation it grants.                                                  *)

GrantsAreFresh ==
  \A h \in Handlers : ~tx[h].doomed =>
    \A m \in Granting(h) : membership[m].expiresAt > now

PaidIn(c) == {m \in In(c) : Paid(m)}

(* The paid seats of a cohort, and those about to be paid, fit in it.      *)
SeatsPaid == \A c \in Cohorts : Cardinality(PaidIn(c) \cup Granted(c)) <= peak[c]

(* A request's step changes its own transaction only.                      *)
LEMMA RequestStep ==
  ASSUME TypeOK, NEW r \in Requests,
         \/ \E u \in Users, c \in Cohorts : Enroll(r, u, c)
         \/ CheckoutAnswered(r)
         \/ CheckoutFailed(r)
  PROVE  /\ UNCHANGED <<membership, cohort, peak, now, admin>>
         /\ \A t \in Slots \ {r} : tx'[t] = tx[t]
         /\ \A h \in Handlers : tx'[h] = tx[h]
<1>1. r \in Slots /\ r \notin Handlers /\ tx \in [Slots -> Tx]
  BY EnrollmentAssumption DEF TypeOK, Slots
<1>2. CASE \E u \in Users, c \in Cohorts : Enroll(r, u, c)
  BY <1>1, <1>2
     DEF Enroll, ResumeCheckout, JoinFree, Reserve, Begin, history, Slots
<1>3. CASE CheckoutAnswered(r)
  BY <1>1, <1>3 DEF CheckoutAnswered, history, Slots
<1>4. CASE CheckoutFailed(r)
  BY <1>1, <1>4 DEF CheckoutFailed, history, Slots
<1>. QED BY <1>2, <1>3, <1>4

LEMMA FreshStep ==
  ASSUME ~SlowHandlers, IInv, SeatFacts, GrantsAreFresh, [Next]_vars
  PROVE  GrantsAreFresh'
<1>. USE DEF IInv
<1>1. ASSUME UNCHANGED <<membership, now>>,
             \A h \in Handlers : tx'[h] \in {tx[h], Idle, [Idle EXCEPT !.stage = "ack"]}
      PROVE  GrantsAreFresh'
  <2>1. \A h \in Handlers : tx'[h] = tx[h] \/ Written(tx'[h].writes) = {}
    BY <1>1, EndedWritesNothing
  <2>. QED BY <1>1, <2>1 DEF GrantsAreFresh, Granting, Written
<1>2. CASE \E h \in Handlers, e \in emitted : HandleEvent(h, e)
  <2>1. PICK h \in Handlers, e \in emitted : HandleEvent(h, e)
    BY <1>2
  <2>2. PICK c \in Cohorts : TRUE
    BY EnrollmentAssumption
  <2>3. /\ UNCHANGED <<membership, now>>
        /\ \A m \in Granting(h)' : membership[m].expiresAt > now
    BY <2>1, <2>2, GrantedByHandler
  <2>4. \A g \in Handlers \ {h} : tx'[g] = tx[g]
    BY <2>1 DEF HandleEvent, Begin, TypeOK, Slots
  <2>. QED BY <2>3, <2>4 DEF GrantsAreFresh, Granting, Written
<1>3. ASSUME NEW t \in Slots, Commit(t)
      PROVE  GrantsAreFresh'
  <2>. SUFFICES ASSUME NEW h \in Handlers, ~tx'[h].doomed, NEW m \in Granting(h)'
                PROVE  membership'[m].expiresAt > now'
    BY DEF GrantsAreFresh, Granting, Written
  <2>1. h \in Slots /\ m \in Members /\ m \in Written(tx'[h].writes)
    BY DEF Granting, Written, Slots
  <2>2. h # t
    BY <1>3, <2>1, OthersAtCommit
  <2>3. /\ tx'[h].writes = tx[h].writes /\ ~tx[h].doomed
        /\ m \notin Written(tx[t].writes)
    BY <1>3, <2>1, <2>2, OthersAtCommit
  <2>4. membership'[m] = membership[m]
    BY <1>3, <2>1, <2>3, OthersAtCommit
  <2>5. now' = now
    BY <1>3 DEF Commit
  <2>. QED BY <2>3, <2>4, <2>5 DEF GrantsAreFresh, Granting
<1>4. CASE Tick
  <2>1. now \in Nat /\ now' = now + 1 /\ UNCHANGED <<membership, tx>>
    BY <1>4 DEF Tick, TypeOK, skill
  <2>2. \A h \in Handlers : \A m \in Granting(h) : membership[m].expiresAt > now + 1
    BY <1>4 DEF Tick
  <2>. QED BY <2>1, <2>2 DEF GrantsAreFresh, Granting, Written
<1>5. CASE \/ \E r \in Requests, u \in Users, c \in Cohorts : Enroll(r, u, c)
           \/ \E r \in Requests : CheckoutAnswered(r) \/ CheckoutFailed(r)
  <2>1. UNCHANGED <<membership, now>> /\ \A h \in Handlers : tx'[h] = tx[h]
    BY <1>5, RequestStep
  <2>. QED BY <1>1, <2>1
<1>6. CASE \/ \E h \in Handlers : Ack(h)
           \/ \E t \in Slots : WriteConflict(t) \/ DatabaseError(t)
           \/ Crash
  BY <1>1, <1>6
     DEF Ack, WriteConflict, DatabaseError, Abort, Crash, TypeOK, Slots
<1>7. CASE \/ \E h \in Handlers, e \in emitted : HandleUnknown(h, e)
           \/ \E type \in Outcomes, m \in Members :
                PaymentsEmits(PaymentEvent(type, m))
           \/ \E e \in emitted : PublishedAgain(e)
           \/ UNCHANGED vars
  BY <1>1, <1>7 DEF HandleUnknown, PaymentsEmits, PublishedAgain, skill, vars
<1>8. CASE \/ \E a \in Admins : WriteCohort(a)
           \/ \E a \in Admins, c \in Cohorts : DeleteCohort(a, c)
           \/ \E a \in Admins, c \in Cohorts, o \in Offers : CreateCohort(a, c, o)
           \/ \E a \in Admins, c \in Cohorts, e \in Edits : UpdateCohort(a, c, e)
  BY <1>1, <1>8 DEF WriteCohort, DeleteCohort, CreateCohort, UpdateCohort, Plan
<1>. QED BY <1>2, <1>3, <1>4, <1>5, <1>6, <1>7, <1>8 DEF Next

(* With the memberships and the transactions of the handlers as they are,  *)
(* seats are counted as before.                                            *)
LEMMA SeatsPaidOtherwise ==
  ASSUME TypeOK, SeatsPaid, UNCHANGED membership, peak' \in [Cohorts -> Nat],
         \A c \in Cohorts : peak[c] <= peak'[c],
         \A h \in Handlers : tx'[h] \in {tx[h], Idle, [Idle EXCEPT !.stage = "ack"]}
  PROVE  SeatsPaid'
<1>. SUFFICES ASSUME NEW c \in Cohorts
              PROVE  Cardinality((PaidIn(c) \cup Granted(c))') <= peak'[c]
  BY DEF SeatsPaid
<1>1. PaidIn(c)' = PaidIn(c) /\ Granted(c)' \subseteq Granted(c)
  BY GrantedOtherwise DEF PaidIn, In, Exists, Paid
<1>2. PaidIn(c) \cup Granted(c) \in SUBSET Members
  BY DEF PaidIn, Granted, In
<1>3. (PaidIn(c) \cup Granted(c))' \in SUBSET (PaidIn(c) \cup Granted(c))
  BY <1>1
<1>4. /\ Cardinality((PaidIn(c) \cup Granted(c))') \in Nat
      /\ Cardinality((PaidIn(c) \cup Granted(c))')
           <= Cardinality(PaidIn(c) \cup Granted(c))
      /\ Cardinality(PaidIn(c) \cup Granted(c)) \in Nat
  BY <1>2, <1>3, FewerMembers
<1>5. peak[c] \in Nat /\ peak'[c] \in Nat /\ peak[c] <= peak'[c]
  BY DEF TypeOK
<1>6. Cardinality(PaidIn(c) \cup Granted(c)) <= peak[c]
  BY DEF SeatsPaid
<1>. HIDE DEF Granted, PaidIn
<1>. QED BY <1>4, <1>5, <1>6

(* A seat is paid at a commit because it was about to be.                  *)
LEMMA PaidAtCommit ==
  ASSUME TypeOK, SnapshotsHold, PaidHolds, SeatFacts, NEW t \in Slots, Commit(t),
         NEW c \in Cohorts
  PROVE  PaidIn(c)' \subseteq PaidIn(c) \cup Granted(c)
<1>. SUFFICES ASSUME NEW m \in PaidIn(c)'
              PROVE  m \in PaidIn(c) \cup Granted(c)
  OBVIOUS
<1>1. /\ m \in Members /\ membership'[m].cohort = c
      /\ membership'[m].status = "active" /\ membership'[m].payment # NoPayment
  BY DEF PaidIn, In, Paid
<1>2. CASE m \notin Written(tx[t].writes)
  <2>1. membership'[m] = membership[m]
    BY <1>1, <1>2, OthersAtCommit
  <2>. QED BY <1>1, <2>1 DEF PaidIn, In, Exists, Paid
<1>3. CASE m \in Written(tx[t].writes)
  <2>1. membership'[m] = tx[t].writes[m] /\ ~tx[t].doomed
    BY <1>1, <1>3, OthersAtCommit DEF Commit
  <2>2. t \in Handlers
    BY <1>1, <1>3, <2>1 DEF PaidHolds, PaidWrites
  <2>3. /\ Exists(m) /\ membership[m].cohort = c
        /\ membership[m].status \in {"absent", "pending_payment"}
    BY <1>1, <1>3, <2>1, <2>2
       DEF SeatFacts, HomesKept, SnapshotsHold, WritesHold
  <2>. QED BY <1>1, <1>3, <2>1, <2>2, <2>3 DEF Granted, Granting, In, Exists
<1>. QED BY <1>2, <1>3

LEMMA SeatsPaidStep ==
  ASSUME IInv, PaidHolds, SeatFacts, GrantsAreFresh, GrantsAreFresh', SeatsPaid,
         [Next]_vars
  PROVE  SeatsPaid'
<1>. USE DEF IInv
<1>0. /\ peak \in [Cohorts -> Nat] /\ \A c \in Cohorts : peak[c] <= peak[c]
      /\ \A c \in Cohorts : PaidIn(c) \cup Granted(c) \in SUBSET Members
  BY DEF TypeOK, PaidIn, Granted, In
<1>1. CASE \E h \in Handlers, e \in emitted : HandleEvent(h, e)
  <2>1. PICK h \in Handlers, e \in emitted : HandleEvent(h, e)
    BY <1>1
  <2>. SUFFICES ASSUME NEW c \in Cohorts
                PROVE  Cardinality((PaidIn(c) \cup Granted(c))') <= peak'[c]
    BY DEF SeatsPaid
  <2>2. UNCHANGED <<membership, peak, now>>
    BY <2>1, GrantedByHandler
  <2>3. PaidIn(c)' = PaidIn(c)
    BY <2>2 DEF PaidIn, In, Exists, Paid
  <2>4. CASE Granted(c)' \subseteq Granted(c)
    <3>1. (PaidIn(c) \cup Granted(c))' \in SUBSET (PaidIn(c) \cup Granted(c))
      BY <2>3, <2>4
    <3>2. /\ Cardinality((PaidIn(c) \cup Granted(c))') \in Nat
          /\ Cardinality((PaidIn(c) \cup Granted(c))')
               <= Cardinality(PaidIn(c) \cup Granted(c))
          /\ Cardinality(PaidIn(c) \cup Granted(c)) \in Nat
      BY <1>0, <3>1, FewerMembers
    <3>3. Cardinality(PaidIn(c) \cup Granted(c)) <= peak[c] /\ peak[c] \in Nat
      BY <1>0 DEF SeatsPaid
    <3>. QED BY <2>2, <3>2, <3>3
  <2>5. CASE Cardinality(Held(c)) <= peak[c]
    <3>1. PaidIn(c) \in SUBSET Held(c)
      BY DEF PaidIn, Held, Paid
    <3>2. Granted(c)' \in SUBSET Held(c)
      BY <2>2 DEF GrantsAreFresh, Granted, Granting, Held, In, Exists
    <3>3. (PaidIn(c) \cup Granted(c))' \in SUBSET Held(c)
      BY <2>3, <3>1, <3>2
    <3>4. Held(c) \in SUBSET Members
      BY DEF Held, In
    <3>5. /\ Cardinality((PaidIn(c) \cup Granted(c))') \in Nat
          /\ Cardinality((PaidIn(c) \cup Granted(c))') <= Cardinality(Held(c))
          /\ Cardinality(Held(c)) \in Nat
      BY <3>3, <3>4, FewerMembers
    <3>. QED BY <1>0, <2>2, <2>5, <3>5
  <2>. QED BY <2>1, <2>4, <2>5, GrantedByHandler
<1>2. CASE \E t \in Slots : Commit(t)
  <2>1. PICK t \in Slots : Commit(t)
    BY <1>2
  <2>. SUFFICES ASSUME NEW c \in Cohorts
                PROVE  Cardinality((PaidIn(c) \cup Granted(c))') <= peak'[c]
    BY DEF SeatsPaid
  <2>2. (PaidIn(c) \cup Granted(c))' \in SUBSET (PaidIn(c) \cup Granted(c))
    BY <2>1, PaidAtCommit, GrantedAtCommit
  <2>3. /\ Cardinality((PaidIn(c) \cup Granted(c))') \in Nat
        /\ Cardinality((PaidIn(c) \cup Granted(c))')
             <= Cardinality(PaidIn(c) \cup Granted(c))
        /\ Cardinality(PaidIn(c) \cup Granted(c)) \in Nat
    BY <1>0, <2>2, FewerMembers
  <2>4. Cardinality(PaidIn(c) \cup Granted(c)) <= peak[c] /\ peak[c] \in Nat
    BY <1>0 DEF SeatsPaid
  <2>5. peak' = peak
    BY <2>1 DEF Commit
  <2>. QED BY <2>3, <2>4, <2>5
<1>3. ASSUME UNCHANGED <<membership, peak>>,
             \A h \in Handlers : tx'[h] \in {tx[h], Idle, [Idle EXCEPT !.stage = "ack"]}
      PROVE  SeatsPaid'
  BY <1>0, <1>3, SeatsPaidOtherwise
<1>4. CASE \/ \E r \in Requests, u \in Users, c \in Cohorts : Enroll(r, u, c)
           \/ \E r \in Requests : CheckoutAnswered(r) \/ CheckoutFailed(r)
  <2>1. UNCHANGED <<membership, peak>> /\ \A h \in Handlers : tx'[h] = tx[h]
    BY <1>4, RequestStep
  <2>. QED BY <1>3, <2>1
<1>5. CASE \/ \E h \in Handlers : Ack(h)
           \/ \E t \in Slots : WriteConflict(t) \/ DatabaseError(t)
           \/ Crash
  BY <1>3, <1>5
     DEF Ack, WriteConflict, DatabaseError, Abort, Crash, TypeOK, Slots, history
<1>6. CASE \/ \E h \in Handlers, e \in emitted : HandleUnknown(h, e)
           \/ \E type \in Outcomes, m \in Members :
                PaymentsEmits(PaymentEvent(type, m))
           \/ \E e \in emitted : PublishedAgain(e)
           \/ Tick
           \/ UNCHANGED vars
  BY <1>3, <1>6
     DEF HandleUnknown, PaymentsEmits, PublishedAgain, Tick, skill, history, vars
<1>7. CASE \E a \in Admins : WriteCohort(a)
  <2>1. PICK a \in Admins : WriteCohort(a)
    BY <1>7
  <2>2. peak' \in [Cohorts -> Nat]
    BY <2>1, WriteCohortType DEF TypeOK
  <2>3. \A c \in Cohorts : peak[c] <= peak'[c]
    BY <2>1, WriteCohortCapacity DEF SeatFacts
  <2>4. UNCHANGED <<membership, tx>>
    BY <2>1 DEF WriteCohort
  <2>. QED BY <2>2, <2>3, <2>4, SeatsPaidOtherwise
<1>8. CASE \/ \E a \in Admins, c \in Cohorts : DeleteCohort(a, c)
           \/ \E a \in Admins, c \in Cohorts, o \in Offers : CreateCohort(a, c, o)
           \/ \E a \in Admins, c \in Cohorts, e \in Edits : UpdateCohort(a, c, e)
  BY <1>3, <1>8 DEF DeleteCohort, CreateCohort, UpdateCohort, Plan, history
<1>. QED BY <1>1, <1>2, <1>4, <1>5, <1>6, <1>7, <1>8 DEF Next

SeatsInv == IInv /\ PaidHolds /\ SeatFacts /\ GrantsAreFresh /\ SeatsPaid

LEMMA SeatsInit == ASSUME Init PROVE SeatsInv
<1>1. \A m \in Members : ~Exists(m)
  BY DEF Init, Exists, Absent
<1>2. \A t \in Slots : Written(tx[t].writes) = {}
  BY DEF Init, Idle, NoWrites, Written, Absent
<1>3. GrantsAreFresh
  BY <1>2 DEF GrantsAreFresh, Granting, Slots
<1>4. \A c \in Cohorts : PaidIn(c) \cup Granted(c) = {}
  BY <1>1 DEF PaidIn, Granted, In
<1>5. SeatsPaid
  <2>1. Cardinality({}) = 0
    BY FS_EmptySet
  <2>2. ASSUME NEW c \in Cohorts
        PROVE  Cardinality(PaidIn(c) \cup Granted(c)) <= peak[c]
    <3>1. peak[c] = 0
      BY DEF Init
    <3>2. Cardinality(PaidIn(c) \cup Granted(c)) = 0
      BY <1>4, <2>1, Zenon
    <3>. QED BY <3>1, <3>2
  <2>. QED BY <2>2 DEF SeatsPaid
<1>. QED BY <1>3, <1>5, IInvInit, PaidInit, SeatFactsInit DEF SeatsInv

(* If no handler is still open when the reservation it grants runs out,    *)
(* however oversold its reservations are, a cohort never has more paid     *)
(* students than the largest capacity its expert set.                      *)
THEOREM PaidSeatsFit ==
  ASSUME ~SlowHandlers
  PROVE  Spec => []PaidWithinPeak
<1>1. SeatsInv /\ [Next]_vars => SeatsInv'
  <2>. SUFFICES ASSUME SeatsInv, [Next]_vars PROVE SeatsInv'
    OBVIOUS
  <2>1. IInv' /\ PaidHolds' /\ SeatFacts'
    BY IInvStep, PaidStep, SeatFactsStep DEF SeatsInv
  <2>2. GrantsAreFresh'
    BY FreshStep DEF SeatsInv
  <2>3. SeatsPaid'
    BY <2>2, SeatsPaidStep DEF SeatsInv
  <2>. QED BY <2>1, <2>2, <2>3 DEF SeatsInv
<1>2. SeatsInv => PaidWithinPeak
  <2>. SUFFICES ASSUME SeatsInv, NEW c \in Cohorts
                PROVE  Cardinality({m \in In(c) : Paid(m)}) <= peak[c]
    BY DEF PaidWithinPeak
  <2>1. PaidIn(c) \cup Granted(c) \in SUBSET Members
    BY DEF PaidIn, Granted, In
  <2>2. PaidIn(c) \in SUBSET (PaidIn(c) \cup Granted(c))
    OBVIOUS
  <2>3. /\ Cardinality(PaidIn(c)) \in Nat
        /\ Cardinality(PaidIn(c)) <= Cardinality(PaidIn(c) \cup Granted(c))
        /\ Cardinality(PaidIn(c) \cup Granted(c)) \in Nat
    BY <2>1, <2>2, FewerMembers
  <2>4. Cardinality(PaidIn(c) \cup Granted(c)) <= peak[c] /\ peak[c] \in Nat
    BY DEF SeatsInv, SeatsPaid, IInv, TypeOK
  <2>. QED BY <2>3, <2>4 DEF PaidIn
<1>. QED BY <1>1, <1>2, SeatsInit, PTL DEF Spec

-----------------------------------------------------------------------------
(* Enrolments that overlap: how far a cohort can be oversold.              *)

Seated(status) == status \in {"active", "pending_payment"}

(* The seat a request is about to add.                                     *)
AddedBy(r) == {m \in Written(tx[r].writes) : Seated(tx[r].writes[m].status)}
Added(r, c) == {m \in AddedBy(r) : tx[r].writes[m].cohort = c}
AddsOne == \A r \in Requests : \A m, n \in AddedBy(r) : m = n

(* Requests that met no conflict, and what requests are about to write.    *)
Open == {r \in Requests : ~tx[r].doomed}
WrittenBy(S) == UNION {Written(tx[r].writes) : r \in S}

(* Seats held or about to be granted once the requests of S have committed,*)
(* which dooms whoever is granting a reservation that they expire.         *)
TakenAfter(S, c) ==
  Held(c) \cup (Granted(c) \ WrittenBy(S)) \cup UNION {Added(r, c) : r \in S}

Limit(c) == peak[c] + Cardinality(Requests) - 1

(* Whichever of the open requests commit first, the bound is kept.         *)
SeatsHeld ==
  \A c \in Cohorts : \A S \in SUBSET Open : Cardinality(TakenAfter(S, c)) <= Limit(c)

LEMMA SomeRequest ==
  Cardinality(Requests) \in Nat /\ Cardinality(Requests) >= 1
<1>1. Cardinality(Requests) \in Nat
  BY EnrollmentAssumption, FS_CardinalityType
<1>2. Cardinality(Requests) # 0
  BY EnrollmentAssumption, FS_EmptySet
<1>. QED BY <1>1, <1>2

(* If each request adds one seat at most, requests add no more seats than  *)
(* there are requests.                                                     *)
LEMMA FewAdded ==
  ASSUME NEW added \in [Requests -> SUBSET Members],
         \A r \in Requests : \A m, n \in added[r] : m = n,
         NEW M, \A m \in M : \E r \in Requests : m \in added[r]
  PROVE  IsFiniteSet(M) /\ Cardinality(M) <= Cardinality(Requests)
<1>. DEFINE f == [m \in M |-> CHOOSE r \in Requests : m \in added[r]]
<1>1. \A m \in M : f[m] \in Requests /\ m \in added[f[m]]
  OBVIOUS
<1>2. f \in [M -> Requests]
  BY <1>1
<1>3. \A m, n \in M : f[m] = f[n] => m = n
  BY <1>1
<1>. HIDE DEF f
<1>4. f \in Injection(M, Requests)
  BY <1>2, <1>3 DEF Injection, IsInjective
<1>5. IsFiniteSet(Requests)
  BY EnrollmentAssumption
<1>. QED BY <1>4, <1>5, FS_Injection

(* A bound on a set is a bound on its subsets, and may grow.               *)
LEMMA SmallerFits ==
  ASSUME NEW S \in SUBSET Members, NEW T \in SUBSET S,
         NEW n \in Int, NEW p \in Int, Cardinality(S) <= n, n <= p
  PROVE  Cardinality(T) <= p
<1>1. /\ Cardinality(T) \in Nat /\ Cardinality(S) \in Nat
      /\ Cardinality(T) <= Cardinality(S)
  BY FewerMembers
<1>. QED BY <1>1

(* Held seats and those that requests add.                                 *)
LEMMA HeldAndAdded ==
  ASSUME NEW S \in SUBSET Members, NEW M \in SUBSET Members, NEW p \in Nat,
         Cardinality(S) < p, Cardinality(M) <= Cardinality(Requests)
  PROVE  Cardinality(S \cup M) <= p + Cardinality(Requests) - 1
<1>1. IsFiniteSet(Members)
  BY FS_Interval, EnrollmentAssumption DEF Members
<1>2. IsFiniteSet(S) /\ IsFiniteSet(M) /\ IsFiniteSet(S \cap M)
  BY <1>1, FS_Subset
<1>3. /\ Cardinality(S) \in Nat /\ Cardinality(M) \in Nat
      /\ Cardinality(S \cap M) \in Nat
  BY <1>2, FS_CardinalityType
<1>4. Cardinality(S \cup M)
        = Cardinality(S) + Cardinality(M) - Cardinality(S \cap M)
  BY <1>2, FS_Union
<1>. QED BY <1>3, <1>4, SomeRequest

LEMMA TakenAreMembers ==
  ASSUME NEW c, NEW S \in SUBSET Requests
  PROVE  TakenAfter(S, c) \in SUBSET Members
BY DEF TakenAfter, Held, Granted, Added, AddedBy, In, Written

(* What an enrolment is about to write: the stale reservations it found,   *)
(* and at most one new seat, where there was room for it.                  *)
LEMMA EnrollAdds ==
  ASSUME TypeOK, NEW r \in Requests, NEW u \in Users,
         NEW c \in Cohorts, Enroll(r, u, c)
  PROVE  /\ AddedBy(r)' \subseteq {nextMember}
         /\ AddedBy(r)' # {} => HasSeat(u, c)
         /\ \A m \in AddedBy(r)' : /\ tx'[r].writes[m].user = u
                                   /\ tx'[r].writes[m].cohort = c
         /\ \A m \in Stale(u, c) : m \in Written(tx'[r].writes)
<1>. DEFINE w == Expirations(u, c)
<1>1. r \in Slots /\ tx \in [Slots -> Tx]
  BY DEF Slots, TypeOK
<1>2. /\ w \in [Members -> Doc]
      /\ \A m \in Written(w) : w[m].status = "expired"
  BY ExpirationsType, ExpirationsKeep
<1>3. \A m \in Stale(u, c) : m \in Written(w)
  <2>. SUFFICES ASSUME NEW m \in Stale(u, c) PROVE m \in Written(w)
    OBVIOUS
  <2>1. m \in Members /\ Exists(m)
    BY DEF Stale, Of, In
  <2>2. membership[m] \in Membership
    BY <2>1, ExistingIsMembership
  <2>. QED BY <2>1, <2>2 DEF Expirations, Written, Membership
<1>4. CASE ResumeCheckout(r, u, c)
  <2>1. tx'[r].writes = w
    BY <1>1, <1>4 DEF ResumeCheckout, Begin
  <2>. HIDE DEF w
  <2>. QED BY <1>2, <1>3, <2>1 DEF AddedBy, Seated
<1>5. ASSUME NEW doc, doc.user = u, doc.cohort = c, doc.status # "absent",
             nextMember \in Members, HasSeat(u, c),
             tx'[r].writes = [w EXCEPT ![nextMember] = doc]
      PROVE  /\ AddedBy(r)' \subseteq {nextMember}
             /\ AddedBy(r)' # {} => HasSeat(u, c)
             /\ \A m \in AddedBy(r)' : /\ tx'[r].writes[m].user = u
                                       /\ tx'[r].writes[m].cohort = c
             /\ \A m \in Stale(u, c) : m \in Written(tx'[r].writes)
  <2>. HIDE DEF w
  <2>1. ASSUME NEW m \in Written(tx'[r].writes)
        PROVE  \/ m = nextMember /\ tx'[r].writes[m] = doc
               \/ m \in Written(w) /\ tx'[r].writes[m] = w[m]
    BY <1>2, <1>5 DEF Written
  <2>2. \A m \in AddedBy(r)' : m = nextMember /\ tx'[r].writes[m] = doc
    BY <1>2, <2>1 DEF AddedBy, Seated
  <2>3. Written(w) \subseteq Written(tx'[r].writes)
    BY <1>2, <1>5 DEF Written
  <2>. QED BY <1>3, <1>5, <2>2, <2>3
<1>6. CASE JoinFree(r, u, c)
  <2>. DEFINE doc == [user |-> u, cohort |-> c, status |-> "active",
                      payment |-> NoPayment, expiresAt |-> NoExpiry]
  <2>1. /\ tx'[r].writes = [w EXCEPT ![nextMember] = doc]
        /\ nextMember \in Members /\ HasSeat(u, c)
    BY <1>1, <1>6 DEF JoinFree, Begin, ExpireAndCreate
  <2>2. doc.user = u /\ doc.cohort = c /\ doc.status # "absent"
    OBVIOUS
  <2>. HIDE DEF doc, w
  <2>. QED BY <1>5, <2>1, <2>2
<1>7. CASE Reserve(r, u, c)
  <2>. DEFINE doc == [user |-> u, cohort |-> c, status |-> "pending_payment",
                      payment |-> NoPayment, expiresAt |-> now + ReservationTtl]
  <2>1. /\ tx'[r].writes = [w EXCEPT ![nextMember] = doc]
        /\ nextMember \in Members /\ HasSeat(u, c)
    BY <1>1, <1>7 DEF Reserve, Begin, ExpireAndCreate
  <2>2. doc.user = u /\ doc.cohort = c /\ doc.status # "absent"
    OBVIOUS
  <2>. HIDE DEF doc, w
  <2>. QED BY <1>5, <2>1, <2>2
<1>. QED BY <1>4, <1>6, <1>7 DEF Enroll

(* The answer of the payments service leaves a request the same seat.      *)
LEMMA AnswerAdds ==
  ASSUME TypeOK, NEW r \in Requests, CheckoutAnswered(r)
  PROVE  /\ tx'[r].doomed = tx[r].doomed
         /\ Written(tx'[r].writes) = Written(tx[r].writes)
         /\ AddedBy(r)' = AddedBy(r)
         /\ \A m \in AddedBy(r) : /\ tx'[r].writes[m].user = tx[r].writes[m].user
                                  /\ tx'[r].writes[m].cohort = tx[r].writes[m].cohort
<1>1. r \in Slots
  BY DEF Slots
<1>2. /\ tx[r].writes \in [Members -> Doc]
      /\ tx'[r].writes = WithPayment(tx[r].writes, tx[r].member)
      /\ tx'[r].doomed = tx[r].doomed
  BY <1>1 DEF CheckoutAnswered, TypeOK, Tx, Doc
<1>3. Written(tx'[r].writes) = Written(tx[r].writes)
  BY <1>2, WithPaymentKeeps DEF Written
<1>4. \A m \in Written(tx[r].writes) :
        /\ tx'[r].writes[m].status = tx[r].writes[m].status
        /\ tx'[r].writes[m].user = tx[r].writes[m].user
        /\ tx'[r].writes[m].cohort = tx[r].writes[m].cohort
  BY <1>2, WithPaymentKeeps DEF Written
<1>. QED BY <1>2, <1>3, <1>4 DEF AddedBy

(* A handler's commit makes seats only of reservations of the same user in *)
(* the same cohort.                                                        *)
LEMMA SeatedByHandler ==
  ASSUME TypeOK, SnapshotsHold, SeatFacts, NEW t \in Handlers, Commit(t),
         NEW m \in Members, Seated(membership'[m].status)
  PROVE  /\ Seated(membership[m].status)
         /\ membership'[m].user = membership[m].user
         /\ membership'[m].cohort = membership[m].cohort
         /\ m \in Written(tx[t].writes) => m \in Granting(t)
<1>1. t \in Slots /\ ~tx[t].doomed
  BY DEF Commit, Slots
<1>2. CASE m \in Written(tx[t].writes)
  <2>1. /\ membership'[m] = tx[t].writes[m] /\ Exists(m)
        /\ membership'[m].user = membership[m].user
        /\ membership'[m].cohort = membership[m].cohort
    BY <1>1, <1>2, OthersAtCommit DEF SeatFacts, HomesKept
  <2>2. /\ tx[t].writes[m].status = "active"
        /\ membership[m].status = "pending_payment"
    BY <1>1, <1>2, <2>1 DEF SnapshotsHold, WritesHold, Seated, Exists
  <2>. QED BY <1>2, <2>1, <2>2 DEF Granting, Seated
<1>3. CASE m \notin Written(tx[t].writes)
  BY <1>1, <1>3, OthersAtCommit
<1>. QED BY <1>2, <1>3

(* What the steps that are neither an enrolment's nor a handler's leave.   *)
LEMMA OtherSteps ==
  ASSUME IInv, SeatFacts, [Next]_vars,
         ~ \E r \in Requests, u \in Users, c \in Cohorts : Enroll(r, u, c),
         ~ \E r \in Requests : CheckoutAnswered(r),
         ~ \E h \in Handlers, e \in emitted : HandleEvent(h, e),
         ~ \E t \in Slots : Commit(t)
  PROVE  /\ UNCHANGED membership
         /\ now' \in Nat /\ now <= now'
         /\ peak' \in [Cohorts -> Nat] /\ \A c \in Cohorts : peak[c] <= peak'[c]
         /\ \A t \in Slots : tx'[t] \in {tx[t], Idle, [Idle EXCEPT !.stage = "ack"]}
<1>. USE DEF IInv
<1>1. /\ now \in Nat /\ now <= now /\ now <= now + 1 /\ now + 1 \in Nat
      /\ peak \in [Cohorts -> Nat]
      /\ \A c \in Cohorts : peak[c] <= peak[c]
      /\ tx \in [Slots -> Tx]
  BY DEF TypeOK
<1>2. CASE \E r \in Requests : CheckoutFailed(r)
  BY <1>1, <1>2 DEF CheckoutFailed, Slots, history
<1>3. CASE \/ \E h \in Handlers : Ack(h)
           \/ \E t \in Slots : WriteConflict(t) \/ DatabaseError(t)
           \/ Crash
  BY <1>1, <1>3
     DEF Ack, WriteConflict, DatabaseError, Abort, Crash, Slots, history
<1>4. CASE \/ \E h \in Handlers, e \in emitted : HandleUnknown(h, e)
           \/ \E type \in Outcomes, m \in Members :
                PaymentsEmits(PaymentEvent(type, m))
           \/ \E e \in emitted : PublishedAgain(e)
           \/ Tick
           \/ UNCHANGED vars
  BY <1>1, <1>4
     DEF HandleUnknown, PaymentsEmits, PublishedAgain, Tick, skill, history, vars
<1>5. ASSUME NEW a \in Admins, WriteCohort(a)
      PROVE  /\ UNCHANGED <<membership, now, tx>>
             /\ peak' \in [Cohorts -> Nat]
             /\ \A c \in Cohorts : peak[c] <= peak'[c]
  <2>1. peak' \in [Cohorts -> Nat]
    BY <1>5, WriteCohortType DEF TypeOK
  <2>2. \A c \in Cohorts : peak[c] <= peak'[c]
    BY <1>5, WriteCohortCapacity DEF SeatFacts
  <2>. QED BY <1>5, <2>1, <2>2 DEF WriteCohort
<1>6. CASE \/ \E a \in Admins, c \in Cohorts : DeleteCohort(a, c)
           \/ \E a \in Admins, c \in Cohorts, o \in Offers : CreateCohort(a, c, o)
           \/ \E a \in Admins, c \in Cohorts, e \in Edits : UpdateCohort(a, c, e)
  BY <1>1, <1>6 DEF DeleteCohort, CreateCohort, UpdateCohort, Plan, history
<1>. QED BY <1>1, <1>2, <1>3, <1>4, <1>5, <1>6 DEF Next

LEMMA AddsOneStep ==
  ASSUME IInv, SeatFacts, AddsOne, [Next]_vars
  PROVE  AddsOne'
<1>. SUFFICES ASSUME NEW r \in Requests
              PROVE  \/ AddedBy(r)' \subseteq AddedBy(r)
                     \/ AddedBy(r)' \subseteq {nextMember}
  BY DEF AddsOne
<1>1. TypeOK /\ r \in Slots
  BY DEF IInv, Slots
<1>2. tx'[r].writes = tx[r].writes => AddedBy(r)' = AddedBy(r)
  BY DEF AddedBy, Written
<1>3. Written(tx'[r].writes) = {} => AddedBy(r)' = {}
  BY DEF AddedBy
<1>4. ASSUME NEW q \in Requests, NEW u \in Users, NEW c \in Cohorts,
             Enroll(q, u, c)
      PROVE  \/ AddedBy(r)' \subseteq AddedBy(r)
             \/ AddedBy(r)' \subseteq {nextMember}
  BY <1>1, <1>2, <1>4, EnrollAdds, RequestStep
<1>5. ASSUME NEW q \in Requests, CheckoutAnswered(q)
      PROVE  AddedBy(r)' \subseteq AddedBy(r)
  BY <1>1, <1>2, <1>5, AnswerAdds, RequestStep
<1>6. CASE \E h \in Handlers, e \in emitted : HandleEvent(h, e)
  <2>1. tx'[r] = tx[r]
    BY <1>1, <1>6, EnrollmentAssumption DEF HandleEvent, Begin, TypeOK, Slots
  <2>. QED BY <1>2, <2>1
<1>7. ASSUME NEW t \in Slots, Commit(t)
      PROVE  AddedBy(r)' \subseteq AddedBy(r)
  BY <1>1, <1>2, <1>3, <1>7, OthersAtCommit
<1>8. CASE ~ \/ \E q \in Requests, u \in Users, c \in Cohorts : Enroll(q, u, c)
             \/ \E q \in Requests : CheckoutAnswered(q)
             \/ \E h \in Handlers, e \in emitted : HandleEvent(h, e)
             \/ \E t \in Slots : Commit(t)
  <2>1. tx'[r] \in {tx[r], Idle, [Idle EXCEPT !.stage = "ack"]}
    BY <1>1, <1>8, OtherSteps
  <2>. QED BY <1>2, <1>3, <2>1, EndedWritesNothing
<1>. QED BY <1>4, <1>5, <1>6, <1>7, <1>8

(* A step keeps the bound if what is taken after it was counted before it. *)
LEMMA CountedBefore ==
  ASSUME TypeOK, SeatsHeld, NEW c \in Cohorts, NEW S \in SUBSET Open,
         NEW T \in SUBSET TakenAfter(S, c),
         NEW p \in Nat, peak[c] <= p
  PROVE  Cardinality(T) <= p + Cardinality(Requests) - 1
<1>1. Cardinality(TakenAfter(S, c)) <= Limit(c) /\ peak[c] \in Nat
  BY DEF SeatsHeld, TypeOK
<1>2. /\ Limit(c) \in Int /\ p + Cardinality(Requests) - 1 \in Int
      /\ Limit(c) <= p + Cardinality(Requests) - 1
  BY <1>1, SomeRequest DEF Limit
<1>3. TakenAfter(S, c) \in SUBSET Members
  BY TakenAreMembers DEF Open
<1>. QED BY <1>1, <1>2, <1>3, SmallerFits

(* Steps that write no membership, open no transaction and lower no peak.  *)
LEMMA QuietHeld ==
  ASSUME TypeOK, SeatsHeld, UNCHANGED membership, now' \in Nat, now <= now',
         peak' \in [Cohorts -> Nat], \A c \in Cohorts : peak[c] <= peak'[c],
         \A t \in Slots : tx'[t] \in {tx[t], Idle, [Idle EXCEPT !.stage = "ack"]}
  PROVE  SeatsHeld'
<1>. SUFFICES ASSUME NEW c \in Cohorts, NEW S \in SUBSET Open'
              PROVE  Cardinality(TakenAfter(S, c)') <= peak'[c] + Cardinality(Requests) - 1
  BY DEF SeatsHeld, Limit
<1>. DEFINE R == {r \in S : tx'[r] = tx[r]}
<1>1. Held(c)' \subseteq Held(c)
  <2>. SUFFICES ASSUME NEW m \in Held(c)' PROVE m \in Held(c)
    OBVIOUS
  <2>1. m \in In(c)
    BY DEF Held, In, Exists
  <2>2. membership[m] \in Membership
    BY <2>1, ExistingIsMembership DEF In
  <2>. QED BY <2>1, <2>2 DEF Held, TypeOK, Membership
<1>2. Granted(c)' \subseteq Granted(c)
  BY GrantedOtherwise DEF Slots
<1>3. R \in SUBSET Open
  BY DEF Open
<1>4. \A r \in S \ R : Written(tx'[r].writes) = {}
  BY EndedWritesNothing DEF Open, Slots
<1>5. \A r \in R : tx'[r] = tx[r] /\ r \in S
  OBVIOUS
<1>. HIDE DEF R
<1>6. TakenAfter(S, c)' \in SUBSET TakenAfter(R, c)
  <2>. SUFFICES ASSUME NEW m \in TakenAfter(S, c)'
                PROVE  m \in TakenAfter(R, c)
    OBVIOUS
  <2>1. CASE m \in Held(c)'
    BY <1>1, <2>1 DEF TakenAfter
  <2>2. CASE m \in Granted(c)' /\ m \notin WrittenBy(S)'
    <3>1. m \notin WrittenBy(R)
      BY <1>5, <2>2 DEF WrittenBy
    <3>. QED BY <1>2, <2>2, <3>1 DEF TakenAfter
  <2>3. CASE \E r \in S : m \in Added(r, c)'
    <3>1. PICK r \in S : m \in Added(r, c)'
      BY <2>3
    <3>2. r \in R
      BY <1>4, <3>1 DEF Added, AddedBy
    <3>3. m \in Added(r, c)
      BY <1>5, <3>1, <3>2 DEF Added, AddedBy, Written
    <3>. QED BY <3>2, <3>3 DEF TakenAfter
  <2>. QED BY <2>1, <2>2, <2>3 DEF TakenAfter
<1>. QED BY <1>3, <1>6, CountedBefore

(* An enrolment begins: the seat it adds comes on top of those held, and   *)
(* each of the others adds one at most; what handlers are granting is held *)
(* or expired by it.                                                       *)
LEMMA EnrollHeld ==
  ASSUME TypeOK, SeatFacts, SeatsHeld, AddsOne',
         NEW r \in Requests, NEW u \in Users, NEW c \in Cohorts,
         Enroll(r, u, c)
  PROVE  SeatsHeld'
<1>1. /\ r \in Slots /\ UNCHANGED <<membership, now, peak>>
      /\ \A s \in Requests \ {r} : tx'[s] = tx[s]
      /\ \A h \in Handlers : tx'[h] = tx[h]
  BY RequestStep DEF Slots
<1>2. \A d : Held(d)' = Held(d) /\ Granted(d)' = Granted(d)
  BY <1>1 DEF Held, Granted, Granting, In, Exists, Written
<1>. SUFFICES ASSUME NEW d \in Cohorts, NEW S \in SUBSET Open'
              PROVE  Cardinality(TakenAfter(S, d)') <= peak[d] + Cardinality(Requests) - 1
  BY <1>1 DEF SeatsHeld, Limit
<1>3. S \in SUBSET Requests /\ S \ {r} \in SUBSET Open
  BY <1>1 DEF Open
<1>4. CASE r \in S => Added(r, d)' = {}
  <2>1. \A s \in S \ {r} : /\ Added(s, d)' = Added(s, d)
                           /\ Written(tx'[s].writes) = Written(tx[s].writes)
    BY <1>1, <1>3 DEF Added, AddedBy, Written
  <2>2. TakenAfter(S, d)' \in SUBSET TakenAfter(S \ {r}, d)
    <3>. SUFFICES ASSUME NEW m \in TakenAfter(S, d)'
                  PROVE  m \in TakenAfter(S \ {r}, d)
      OBVIOUS
    <3>1. CASE m \in Held(d)'
      BY <1>2, <3>1 DEF TakenAfter
    <3>2. CASE m \in Granted(d)' /\ m \notin WrittenBy(S)'
      <4>1. m \notin WrittenBy(S \ {r})
        BY <2>1, <3>2 DEF WrittenBy
      <4>. QED BY <1>2, <3>2, <4>1 DEF TakenAfter
    <3>3. CASE \E s \in S : m \in Added(s, d)'
      <4>1. PICK s \in S : m \in Added(s, d)'
        BY <3>3
      <4>2. s \in S \ {r} /\ m \in Added(s, d)
        BY <1>4, <2>1, <4>1
      <4>. QED BY <4>2 DEF TakenAfter
    <3>. QED BY <3>1, <3>2, <3>3 DEF TakenAfter
  <2>3. peak[d] \in Nat /\ peak[d] <= peak[d]
    BY DEF TypeOK
  <2>. QED BY <1>3, <2>2, <2>3, CountedBefore
<1>5. CASE r \in S /\ Added(r, d)' # {}
  <2>. DEFINE M == UNION {Added(s, d)' : s \in S}
              added == [s \in Requests |-> AddedBy(s)']
  <2>1. /\ d = c /\ HasSeat(u, c)
        /\ \A m \in Stale(u, c) : m \in Written(tx'[r].writes)
    BY <1>5, EnrollAdds DEF Added
  <2>2. Granted(c) \ WrittenBy(S)' \subseteq Held(c)
    <3>. SUFFICES ASSUME NEW m \in Granted(c), m \notin Held(c)
                  PROVE  m \in WrittenBy(S)'
      OBVIOUS
    <3>1. /\ m \in Members /\ Exists(m) /\ m \in In(c)
          /\ membership[m].status = "pending_payment"
          /\ membership[m].expiresAt # NoExpiry
      BY DEF Granted, Granting, In, SeatFacts, ReservationsExpire
    <3>2. membership[m] \in Membership
      BY <3>1, ExistingIsMembership
    <3>3. m \in Stale(u, c)
      BY <3>1, <3>2 DEF Held, Stale, IsStale, TypeOK, Membership
    <3>. QED BY <1>5, <2>1, <3>3 DEF WrittenBy
  <2>3. added \in [Requests -> SUBSET Members]
    BY DEF AddedBy, Written
  <2>4. \A s \in Requests : \A m, n \in added[s] : m = n
    BY DEF AddsOne
  <2>5. \A m \in M : \E s \in Requests : m \in added[s]
    BY <1>3 DEF Added
  <2>6. M \in SUBSET Members
    BY DEF Added, AddedBy, Written
  <2>. HIDE DEF M, added
  <2>7. Cardinality(M) <= Cardinality(Requests)
    BY <2>3, <2>4, <2>5, FewAdded
  <2>8. TakenAfter(S, d)' \subseteq Held(c) \cup M
    BY <1>2, <2>1, <2>2 DEF TakenAfter, M
  <2>9. Held(c) \in SUBSET Members
    BY DEF Held, In
  <2>10. /\ peak[c] \in Nat /\ Cardinality(Held(c)) \in Nat
         /\ Cardinality(Held(c)) < peak[c]
    <3>1. /\ Cardinality(Held(c)) < cohort[c].maxStudents
          /\ cohort[c].maxStudents <= peak[c]
          /\ cohort[c].maxStudents \in Nat /\ peak[c] \in Nat
      BY <2>1 DEF HasSeat, SeatFacts, CapacityWithinPeak, TypeOK, Cohort
    <3>2. Cardinality(Held(c)) \in Nat
      BY <2>9, FewerMembers
    <3>. QED BY <3>1, <3>2
  <2>11. Cardinality(Held(c) \cup M) <= peak[c] + Cardinality(Requests) - 1
    BY <2>6, <2>7, <2>9, <2>10, HeldAndAdded
  <2>12. Held(c) \cup M \in SUBSET Members
    BY <2>6, <2>9
  <2>13. peak[c] + Cardinality(Requests) - 1 \in Int
    BY <2>10, SomeRequest
  <2>14. TakenAfter(S, d)' \in SUBSET (Held(c) \cup M)
    BY <2>8
  <2>15. Cardinality(TakenAfter(S, d)') <= peak[c] + Cardinality(Requests) - 1
    <3>. DEFINE q == peak[c] + Cardinality(Requests) - 1
    <3>1. q \in Int /\ q <= q /\ Cardinality(Held(c) \cup M) <= q
      BY <2>11, <2>13
    <3>. HIDE DEF q
    <3>2. Cardinality(TakenAfter(S, d)') <= q
      BY <2>12, <2>14, <3>1, SmallerFits
    <3>. QED BY <3>2 DEF q
  <2>. QED BY <2>1, <2>15
<1>. QED BY <1>4, <1>5

LEMMA AnsweredHeld ==
  ASSUME TypeOK, SeatsHeld, NEW r \in Requests, CheckoutAnswered(r)
  PROVE  SeatsHeld'
<1>1. /\ UNCHANGED <<membership, now, peak>>
      /\ \A s \in Requests \ {r} : tx'[s] = tx[s]
      /\ \A h \in Handlers : tx'[h] = tx[h]
  BY RequestStep DEF Slots
<1>2. \A d : Held(d)' = Held(d) /\ Granted(d)' = Granted(d)
  BY <1>1 DEF Held, Granted, Granting, In, Exists, Written
<1>3. \A s \in Requests : Written(tx'[s].writes) = Written(tx[s].writes)
  BY <1>1, AnswerAdds
<1>4. \A s \in Requests, d \in Cohorts : Added(s, d)' = Added(s, d)
  BY <1>1, AnswerAdds DEF Added, AddedBy, Written
<1>5. Open' = Open
  BY <1>1, AnswerAdds DEF Open
<1>6. ASSUME NEW d \in Cohorts, NEW S \in SUBSET Open
      PROVE  TakenAfter(S, d)' = TakenAfter(S, d)
  <2>1. WrittenBy(S)' = WrittenBy(S)
    BY <1>3 DEF WrittenBy, Open
  <2>2. UNION {Added(s, d)' : s \in S} = UNION {Added(s, d) : s \in S}
    BY <1>4 DEF Open
  <2>. QED BY <1>2, <2>1, <2>2 DEF TakenAfter
<1>. QED BY <1>1, <1>5, <1>6 DEF SeatsHeld, Limit

LEMMA HandleHeld ==
  ASSUME TypeOK, SeatFacts, SeatsHeld, NEW h \in Handlers, NEW e \in emitted,
         HandleEvent(h, e)
  PROVE  SeatsHeld'
<1>1. UNCHANGED <<membership, peak, now>>
  BY DEF HandleEvent, history
<1>2. \A r \in Requests : tx'[r] = tx[r]
  <2>1. tx' = [tx EXCEPT ![h] = tx'[h]] /\ \A r \in Requests : r # h
    BY EnrollmentAssumption DEF HandleEvent, Begin, TypeOK, Slots
  <2>. QED BY <2>1 DEF TypeOK, Slots
<1>3. Open' = Open
  BY <1>2 DEF Open
<1>. SUFFICES ASSUME NEW c \in Cohorts, NEW S \in SUBSET Open
              PROVE  Cardinality(TakenAfter(S, c)') <= peak[c] + Cardinality(Requests) - 1
  BY <1>1, <1>3 DEF SeatsHeld, Limit
<1>4. Held(c)' = Held(c)
  BY <1>1 DEF Held, In, Exists
<1>5. Granted(c)' \subseteq Granted(c) \cup Held(c)
  BY GrantedByHandler
<1>6. WrittenBy(S)' = WrittenBy(S)
  BY <1>2 DEF WrittenBy, Written, Open
<1>7. \A s \in S : Added(s, c)' = Added(s, c)
  BY <1>2 DEF Added, AddedBy, Written, Open
<1>8. TakenAfter(S, c)' \in SUBSET TakenAfter(S, c)
  BY <1>4, <1>5, <1>6, <1>7 DEF TakenAfter
<1>9. peak[c] \in Nat /\ peak[c] <= peak[c]
  BY DEF TypeOK
<1>. QED BY <1>8, <1>9, CountedBefore

(* The commit of a request makes its seat one that is held, so it counts as*)
(* committed already; a handler's commit turns what it granted into seats. *)
LEMMA CommitHeld ==
  ASSUME TypeOK, SnapshotsHold, SeatFacts, SeatsHeld, NEW t \in Slots, Commit(t)
  PROVE  SeatsHeld'
<1>. DEFINE w == tx[t].writes
<1>. SUFFICES ASSUME NEW c \in Cohorts, NEW S \in SUBSET Open'
              PROVE  Cardinality(TakenAfter(S, c)') <= peak[c] + Cardinality(Requests) - 1
  BY DEF SeatsHeld, Limit, Commit
<1>. DEFINE R == IF t \in Requests THEN S \cup {t} ELSE S
<1>1. now' = now /\ ~tx[t].doomed /\ peak[c] \in Nat /\ peak[c] <= peak[c]
  BY DEF TypeOK, Commit
<1>2. Granted(c)' \subseteq Granted(c) \ Written(w)
  BY GrantedAtCommit
<1>3. ASSUME NEW m \in Held(c)'
      PROVE  /\ m \in Members /\ Seated(membership'[m].status)
             /\ membership'[m].cohort = c
             /\ m \notin Written(w) => m \in Held(c)
  <2>1. /\ m \in Members /\ Seated(membership'[m].status)
        /\ membership'[m].cohort = c
    BY DEF Held, In, Seated
  <2>2. CASE m \notin Written(w)
    <3>1. membership'[m] = membership[m]
      BY <2>1, <2>2, OthersAtCommit
    <3>. QED BY <1>1, <2>1, <3>1 DEF Held, In, Exists
  <2>. QED BY <2>1, <2>2
<1>4. \A s \in S \ {t} : /\ tx'[s].writes = tx[s].writes /\ ~tx[s].doomed
                         /\ Written(tx[s].writes) \cap Written(w) = {}
  BY OthersAtCommit DEF Open, Slots
<1>5. R \in SUBSET Open
  BY <1>1, <1>4, EnrollmentAssumption DEF Open
<1>6. Written(tx'[t].writes) = {}
  BY OthersAtCommit
<1>7. ASSUME NEW m \in Held(c)' PROVE m \in TakenAfter(R, c)
  <2>1. CASE m \notin Written(w)
    BY <1>3, <2>1 DEF TakenAfter
  <2>2. CASE m \in Written(w) /\ t \in Requests
    <3>1. m \in Added(t, c)
      BY <1>3, <2>2, OthersAtCommit DEF Added, AddedBy
    <3>. QED BY <2>2, <3>1 DEF TakenAfter
  <2>3. CASE m \in Written(w) /\ t \in Handlers
    <3>1. m \in Granted(c)
      BY <1>1, <1>3, <2>3, SeatedByHandler
         DEF Granted, Granting, In, Exists, Seated
    <3>2. m \notin WrittenBy(R)
      BY <1>4, <2>3, EnrollmentAssumption DEF WrittenBy, Open
    <3>. QED BY <3>1, <3>2 DEF TakenAfter
  <2>. QED BY <2>1, <2>2, <2>3 DEF Slots
<1>8. ASSUME NEW m \in Granted(c)', m \notin WrittenBy(S)'
      PROVE  m \in TakenAfter(R, c)
  <2>1. m \in Granted(c) /\ m \notin Written(w)
    BY <1>2, <1>8
  <2>2. \A s \in S \ {t} : m \notin Written(tx[s].writes)
    BY <1>4, <1>8 DEF WrittenBy
  <2>3. m \notin WrittenBy(R)
    BY <2>1, <2>2 DEF WrittenBy
  <2>. QED BY <2>1, <2>3 DEF TakenAfter
<1>9. ASSUME NEW s \in S, NEW m \in Added(s, c)'
      PROVE  m \in TakenAfter(R, c)
  <2>1. s # t
    BY <1>6, <1>9 DEF Added, AddedBy
  <2>2. m \in Added(s, c) /\ s \in R
    BY <1>4, <1>9, <2>1 DEF Added, AddedBy, Written
  <2>. QED BY <2>2 DEF TakenAfter
<1>. HIDE DEF R
<1>10. TakenAfter(S, c)' \in SUBSET TakenAfter(R, c)
  BY <1>7, <1>8, <1>9 DEF TakenAfter
<1>. QED BY <1>1, <1>5, <1>10, CountedBefore

(* However many enrolments overlap with each other and with payments,      *)
(* expiries and edits, and even if a handler outlives the reservation it   *)
(* grants, a cohort holds no more seats than its largest capacity and one  *)
(* for every enrolment that can be open beside another: the invariant      *)
(* counts the seats for every set of open requests that may commit first.  *)
THEOREM HeldSeatsBounded == Spec => []HeldBounded
<1>. DEFINE Inv == IInv /\ SeatFacts /\ AddsOne /\ SeatsHeld
<1>1. ASSUME Init PROVE Inv
  <2>1. \A m \in Members : ~Exists(m)
    BY <1>1 DEF Init, Exists, Absent
  <2>2. \A t \in Slots : Written(tx[t].writes) = {}
    BY <1>1 DEF Init, Idle, NoWrites, Written, Absent
  <2>3. \A r \in Requests : AddedBy(r) = {}
    BY <2>2 DEF AddedBy, Slots
  <2>4. ASSUME NEW c \in Cohorts, NEW S \in SUBSET Open
        PROVE  Cardinality(TakenAfter(S, c)) <= Limit(c)
    <3>1. TakenAfter(S, c) = {}
      BY <2>1, <2>3 DEF TakenAfter, Held, Granted, Added, In, Open
    <3>2. Cardinality({}) = 0
      BY FS_EmptySet
    <3>3. peak[c] = 0
      BY <1>1 DEF Init
    <3>. QED BY <3>1, <3>2, <3>3, SomeRequest DEF Limit
  <2>. QED BY <1>1, <2>3, <2>4, IInvInit, SeatFactsInit DEF SeatsHeld, AddsOne
<1>2. ASSUME Inv, [Next]_vars PROVE Inv'
  <2>1. IInv' /\ SeatFacts' /\ AddsOne'
    BY <1>2, IInvStep, SeatFactsStep, AddsOneStep
  <2>2. TypeOK /\ SnapshotsHold
    BY <1>2 DEF IInv
  <2>3. CASE \E r \in Requests, u \in Users, c \in Cohorts : Enroll(r, u, c)
    BY <1>2, <2>1, <2>2, <2>3, EnrollHeld
  <2>4. CASE \E r \in Requests : CheckoutAnswered(r)
    BY <1>2, <2>1, <2>2, <2>4, AnsweredHeld
  <2>5. CASE \E h \in Handlers, e \in emitted : HandleEvent(h, e)
    BY <1>2, <2>1, <2>2, <2>5, HandleHeld
  <2>6. CASE \E t \in Slots : Commit(t)
    BY <1>2, <2>1, <2>2, <2>6, CommitHeld
  <2>. QED BY <1>2, <2>1, <2>2, <2>3, <2>4, <2>5, <2>6, OtherSteps, QuietHeld
<1>3. ASSUME Inv PROVE HeldBounded
  <2>. SUFFICES ASSUME NEW c \in Cohorts
                PROVE  Cardinality(Held(c)) <= peak[c] + Cardinality(Requests) - 1
    BY DEF HeldBounded
  <2>1. Held(c) \in SUBSET TakenAfter({}, c) /\ {} \in SUBSET Open
    BY DEF TakenAfter
  <2>2. TypeOK /\ SeatsHeld /\ peak[c] \in Nat /\ peak[c] <= peak[c]
    BY <1>3 DEF IInv, TypeOK
  <2>. QED BY <2>1, <2>2, CountedBefore
<1>. HIDE DEF Inv
<1>. QED BY <1>1, <1>2, <1>3, PTL DEF Spec

-----------------------------------------------------------------------------
(* Cohorts: planned, then listed, then perhaps deleted.                    *)

Creating(a) == admin[a].op = "create"

(* A membership's cohort has been created; what an expert is about to      *)
(* create has not, and nobody else is creating it.                         *)
CohortsCreatedOnce ==
  /\ \A m \in Members : Exists(m) =>
       cohort[membership[m].cohort].state # "planned"
  /\ \A t \in Slots : \A m \in Written(tx[t].writes) :
       cohort[tx[t].writes[m].cohort].state # "planned"
  /\ \A a \in Admins : ~AdminIdle(a) =>
       /\ Creating(a) <=> cohort[admin[a].cohort].state = "planned"
       /\ admin[a].doc.state = IF admin[a].op = "delete" THEN "deleted"
                                                         ELSE "listed"
  /\ \A a, b \in Admins : Creating(a) /\ Creating(b)
       /\ admin[a].cohort = admin[b].cohort => a = b

(* Once a cohort is there it stays there, and it is listed only if it was. *)
LEMMA CohortAfterWrite ==
  ASSUME TypeOK, CohortsCreatedOnce, NEW a \in Admins, WriteCohort(a),
         NEW c \in Cohorts
  PROVE  /\ cohort[c].state # "planned" =>
              /\ cohort'[c].state # "planned"
              /\ cohort'[c].state = "listed" => cohort[c].state = "listed"
         /\ c # admin[a].cohort => cohort'[c] = cohort[c]
         /\ admin'[a] = [op |-> "idle"]
         /\ \A b \in Admins \ {a} : admin'[b] = admin[b]
<1>1. /\ ~AdminIdle(a) /\ admin[a].cohort \in Cohorts
      /\ cohort' \in {cohort, [cohort EXCEPT ![admin[a].cohort] = admin[a].doc]}
      /\ cohort' # cohort => Creating(a) \/ cohort[admin[a].cohort].state = "listed"
      /\ admin' = [admin EXCEPT ![a] = [op |-> "idle"]]
  BY DEF WriteCohort, AdminIdle, TypeOK, AdminCall, Creating
<1>2. /\ Creating(a) <=> cohort[admin[a].cohort].state = "planned"
      /\ admin[a].doc.state \in {"listed", "deleted"}
  BY <1>1 DEF CohortsCreatedOnce
<1>. QED BY <1>1, <1>2 DEF TypeOK

LEMMA CreatedInit == ASSUME Init PROVE CohortsCreatedOnce
<1>1. \A t \in Slots : Written(tx[t].writes) = {}
  BY DEF Init, Idle, NoWrites, Written, Absent
<1>2. \A m \in Members : ~Exists(m)
  BY DEF Init, Exists, Absent
<1>3. \A a \in Admins : AdminIdle(a) /\ ~Creating(a)
  BY DEF Init, AdminIdle, Creating
<1>. QED BY <1>1, <1>2, <1>3 DEF CohortsCreatedOnce

(* A transaction that is opened or continued names cohorts that exist.     *)
LEMMA TxCreated ==
  ASSUME CohortsCreatedOnce, UNCHANGED <<membership, cohort, admin>>,
         \A t \in Slots : \/ tx'[t] = tx[t]
                          \/ \A m \in Written(tx'[t].writes) :
                               cohort[tx'[t].writes[m].cohort].state # "planned"
  PROVE  CohortsCreatedOnce'
<1>1. ASSUME NEW t \in Slots, NEW m \in Written(tx'[t].writes)
      PROVE  cohort[tx'[t].writes[m].cohort].state # "planned"
  BY <1>1 DEF CohortsCreatedOnce
<1>. QED BY <1>1 DEF CohortsCreatedOnce, Written, Exists, AdminIdle, Creating

LEMMA EnrollCreated ==
  ASSUME TypeOK, CohortsCreatedOnce,
         NEW r \in Requests, NEW u \in Users, NEW c \in Cohorts,
         Enroll(r, u, c)
  PROVE  CohortsCreatedOnce'
<1>. DEFINE pending == [user |-> u, cohort |-> c, status |-> "pending_payment",
                        payment |-> NoPayment,
                        expiresAt |-> now + ReservationTtl]
            joined == [user |-> u, cohort |-> c, status |-> "active",
                       payment |-> NoPayment, expiresAt |-> NoExpiry]
            w == Expirations(u, c)
<1>1. /\ r \in Slots /\ UNCHANGED <<membership, cohort, admin>>
      /\ \A t \in Slots \ {r} : tx'[t] = tx[t]
  BY RequestStep DEF Slots
<1>2. w \in [Members -> Doc]
  BY ExpirationsType
<1>3. ASSUME NEW m \in Written(w)
      PROVE  cohort[w[m].cohort].state # "planned"
  <2>1. m \in Members /\ Exists(m) /\ w[m].cohort = membership[m].cohort
    BY ExpirationsKeep DEF Stale, Of, In
  <2>. QED BY <2>1 DEF CohortsCreatedOnce
<1>4. cohort[c].state # "planned"
  BY DEF Enroll, ResumeCheckout, JoinFree, Reserve, MayEnroll
<1>. HIDE DEF w
<1>5. CASE ResumeCheckout(r, u, c)
  <2>1. tx'[r].writes = w
    BY <1>1, <1>5 DEF ResumeCheckout, Begin, TypeOK, w
  <2>. QED BY <1>1, <1>3, <2>1, TxCreated
<1>6. ASSUME NEW doc \in {pending, joined}, nextMember \in Members,
             tx'[r].writes = [w EXCEPT ![nextMember] = doc]
      PROVE  CohortsCreatedOnce'
  <2>1. \A m \in Written(tx'[r].writes) :
          cohort[tx'[r].writes[m].cohort].state # "planned"
    BY <1>2, <1>3, <1>4, <1>6 DEF Written
  <2>. QED BY <1>1, <2>1, TxCreated
<1>7. CASE JoinFree(r, u, c)
  BY <1>1, <1>6, <1>7 DEF JoinFree, Begin, TypeOK, ExpireAndCreate, w
<1>8. CASE Reserve(r, u, c)
  BY <1>1, <1>6, <1>8 DEF Reserve, Begin, TypeOK, ExpireAndCreate, w
<1>. QED BY <1>5, <1>7, <1>8 DEF Enroll

LEMMA TransactionCreated ==
  ASSUME TypeOK, CohortsCreatedOnce,
         \/ \E r \in Requests : CheckoutAnswered(r)
         \/ \E h \in Handlers, e \in emitted : HandleEvent(h, e)
         \/ \E t \in Slots : Commit(t)
  PROVE  CohortsCreatedOnce'
<1>1. ASSUME NEW r \in Requests, CheckoutAnswered(r)
      PROVE  CohortsCreatedOnce'
  <2>1. /\ r \in Slots /\ UNCHANGED <<membership, cohort, admin>>
        /\ \A t \in Slots \ {r} : tx'[t] = tx[t]
    BY <1>1, RequestStep DEF Slots
  <2>2. /\ tx[r].writes \in [Members -> Doc]
        /\ tx'[r].writes = WithPayment(tx[r].writes, tx[r].member)
    BY <1>1, <2>1 DEF CheckoutAnswered, TypeOK, Tx, Doc
  <2>3. \A m \in Written(tx'[r].writes) :
          /\ m \in Written(tx[r].writes)
          /\ tx'[r].writes[m].cohort = tx[r].writes[m].cohort
    BY <2>2, WithPaymentKeeps DEF Written
  <2>4. \A m \in Written(tx'[r].writes) :
          cohort[tx'[r].writes[m].cohort].state # "planned"
    BY <2>1, <2>3 DEF CohortsCreatedOnce
  <2>. QED BY <2>1, <2>4, TxCreated
<1>2. ASSUME NEW h \in Handlers, NEW e \in emitted, HandleEvent(h, e)
      PROVE  CohortsCreatedOnce'
  <2>1. /\ h \in Slots /\ e \in Event /\ Exists(e.member) /\ e.member \in Members
        /\ UNCHANGED <<membership, cohort, admin>>
        /\ tx'[h].writes = WritesFor(e)
        /\ \A t \in Slots \ {h} : tx'[t] = tx[t]
    BY <1>2 DEF HandleEvent, NotFound, Begin, TypeOK, Slots, Event
  <2>2. \A m \in Written(WritesFor(e)) :
          m = e.member /\ WritesFor(e)[m].cohort = membership[m].cohort
    BY <2>1, WritesForKeep
  <2>3. \A m \in Written(tx'[h].writes) :
          cohort[tx'[h].writes[m].cohort].state # "planned"
    BY <2>1, <2>2 DEF CohortsCreatedOnce
  <2>. QED BY <2>1, <2>3, TxCreated
<1>3. ASSUME NEW t \in Slots, Commit(t)
      PROVE  CohortsCreatedOnce'
  <2>1. UNCHANGED <<cohort, admin>>
    BY <1>3 DEF Commit
  <2>2. ASSUME NEW m \in Members, Exists(m)'
        PROVE  cohort[membership'[m].cohort].state # "planned"
    <3>1. CASE m \in Written(tx[t].writes)
      BY <1>3, <3>1, OthersAtCommit DEF CohortsCreatedOnce
    <3>2. CASE m \notin Written(tx[t].writes)
      BY <1>3, <2>2, <3>2, OthersAtCommit DEF CohortsCreatedOnce, Exists
    <3>. QED BY <3>1, <3>2
  <2>3. ASSUME NEW s \in Slots, NEW m \in Written(tx'[s].writes)
        PROVE  cohort[tx'[s].writes[m].cohort].state # "planned"
    <3>1. s # t /\ tx'[s].writes = tx[s].writes
      BY <1>3, OthersAtCommit
    <3>. QED BY <3>1 DEF CohortsCreatedOnce
  <2>. QED BY <2>1, <2>2, <2>3
           DEF CohortsCreatedOnce, Written, AdminIdle, Creating
<1>. QED BY <1>1, <1>2, <1>3

LEMMA PlanCreated ==
  ASSUME TypeOK, CohortsCreatedOnce, NEW a \in Admins, NEW c \in Cohorts,
         NEW op \in {"create", "update", "delete"}, NEW doc,
         AdminIdle(a), Plan(a, op, c, doc),
         op = "create" <=> cohort[c].state = "planned",
         doc.state = IF op = "delete" THEN "deleted" ELSE "listed",
         op = "create" => \A b \in Admins : Creating(b) => admin[b].cohort # c
  PROVE  CohortsCreatedOnce'
<1>1. /\ UNCHANGED <<membership, cohort, tx>>
      /\ admin'[a] = [op |-> op, cohort |-> c, doc |-> doc]
      /\ \A b \in Admins \ {a} : admin'[b] = admin[b]
  BY DEF Plan, TypeOK
<1>2. ASSUME NEW b \in Admins, ~AdminIdle(b)'
      PROVE  /\ Creating(b)' <=> cohort[admin'[b].cohort].state = "planned"
             /\ admin'[b].doc.state = IF admin'[b].op = "delete" THEN "deleted"
                                                                 ELSE "listed"
  <2>1. CASE b = a
    BY <1>1, <2>1 DEF Creating
  <2>2. CASE b # a
    BY <1>1, <1>2, <2>2 DEF CohortsCreatedOnce, Creating, AdminIdle
  <2>. QED BY <2>1, <2>2
<1>3. ASSUME NEW b \in Admins, NEW d \in Admins, Creating(b)', Creating(d)',
             admin'[b].cohort = admin'[d].cohort
      PROVE  b = d
  BY <1>1, <1>3 DEF CohortsCreatedOnce, Creating
<1>. QED BY <1>1, <1>2, <1>3 DEF CohortsCreatedOnce, Exists, Written

LEMMA AdminCreated ==
  ASSUME TypeOK, CohortsCreatedOnce, NEW a \in Admins, NEW c \in Cohorts,
         \/ \E o \in Offers : CreateCohort(a, c, o)
         \/ \E e \in Edits : UpdateCohort(a, c, e)
         \/ DeleteCohort(a, c)
  PROVE  CohortsCreatedOnce'
<1>1. cohort[c] \in Cohort
  BY DEF TypeOK
<1>2. ASSUME NEW o \in Offers, CreateCohort(a, c, o)
      PROVE  CohortsCreatedOnce'
  BY <1>2, PlanCreated, EnrollmentAssumption DEF CreateCohort, Creating
<1>3. ASSUME NEW e \in Edits, UpdateCohort(a, c, e)
      PROVE  CohortsCreatedOnce'
  <2>1. Edited(c, e).state = cohort[c].state
    BY <1>1 DEF Edited, Cohort
  <2>. QED BY <1>3, <2>1, PlanCreated DEF UpdateCohort
<1>4. CASE DeleteCohort(a, c)
  <2>1. [cohort[c] EXCEPT !.state = "deleted"].state = "deleted"
    BY <1>1 DEF Cohort
  <2>. QED BY <1>4, <2>1, PlanCreated DEF DeleteCohort
<1>. QED BY <1>2, <1>3, <1>4

LEMMA WriteCohortCreated ==
  ASSUME TypeOK, CohortsCreatedOnce, NEW a \in Admins, WriteCohort(a)
  PROVE  CohortsCreatedOnce'
<1>1. /\ UNCHANGED <<membership, tx>> /\ ~AdminIdle(a)
      /\ admin[a].cohort \in Cohorts
      /\ \A t \in Slots : tx[t].writes \in [Members -> Doc]
  BY DEF WriteCohort, AdminIdle, TypeOK, AdminCall, Tx, Doc
<1>2. ASSUME NEW m \in Members, Exists(m)
      PROVE  cohort'[membership[m].cohort].state # "planned"
  <2>1. membership[m].cohort \in Cohorts
    BY <1>2, ExistingIsMembership DEF Membership
  <2>. QED BY <1>2, <2>1, CohortAfterWrite DEF CohortsCreatedOnce
<1>3. ASSUME NEW t \in Slots, NEW m \in Written(tx[t].writes)
      PROVE  cohort'[tx[t].writes[m].cohort].state # "planned"
  <2>1. tx[t].writes[m].cohort \in Cohorts
    BY <1>1 DEF Written, Doc, Absent, Membership
  <2>. QED BY <2>1, CohortAfterWrite DEF CohortsCreatedOnce
<1>4. \A b \in Admins : ~AdminIdle(b)' => b # a /\ admin'[b] = admin[b]
  BY <1>1, CohortAfterWrite DEF AdminIdle
<1>5. ASSUME NEW b \in Admins, ~AdminIdle(b)'
      PROVE  /\ Creating(b)' <=> cohort'[admin'[b].cohort].state = "planned"
             /\ admin'[b].doc.state = IF admin'[b].op = "delete" THEN "deleted"
                                                                 ELSE "listed"
  <2>1. b # a /\ admin'[b] = admin[b] /\ ~AdminIdle(b)
    BY <1>4, <1>5 DEF AdminIdle
  <2>2. admin[b].cohort \in Cohorts
    BY <2>1 DEF AdminIdle, TypeOK, AdminCall
  <2>3. /\ Creating(b) <=> cohort[admin[b].cohort].state = "planned"
        /\ admin[b].doc.state = IF admin[b].op = "delete" THEN "deleted"
                                                          ELSE "listed"
    BY <2>1 DEF CohortsCreatedOnce
  <2>4. CASE Creating(b)
    <3>1. admin[b].cohort # admin[a].cohort
      BY <1>1, <2>1, <2>3, <2>4 DEF CohortsCreatedOnce
    <3>. QED BY <2>1, <2>2, <2>3, <2>4, <3>1, CohortAfterWrite DEF Creating
  <2>5. CASE ~Creating(b)
    BY <2>1, <2>2, <2>3, <2>5, CohortAfterWrite DEF Creating
  <2>. QED BY <2>4, <2>5
<1>6. ASSUME NEW b \in Admins, NEW d \in Admins, Creating(b)', Creating(d)',
             admin'[b].cohort = admin'[d].cohort
      PROVE  b = d
  <2>1. /\ admin'[b] = admin[b] /\ admin'[d] = admin[d]
    BY <1>4, <1>6 DEF Creating, AdminIdle
  <2>. QED BY <1>6, <2>1 DEF CohortsCreatedOnce, Creating
<1>7. /\ \A m \in Members : Exists(m)' => Exists(m)
      /\ \A t \in Slots : Written(tx'[t].writes) = Written(tx[t].writes)
  BY <1>1 DEF Exists
<1>. QED BY <1>1, <1>2, <1>3, <1>5, <1>6, <1>7 DEF CohortsCreatedOnce

LEMMA CreatedStep ==
  ASSUME IInv, CohortsCreatedOnce, [Next]_vars
  PROVE  CohortsCreatedOnce'
<1>. USE DEF IInv
<1>1. CASE \E r \in Requests, u \in Users, c \in Cohorts : Enroll(r, u, c)
  BY <1>1, EnrollCreated
<1>2. CASE \/ \E r \in Requests : CheckoutAnswered(r)
           \/ \E h \in Handlers, e \in emitted : HandleEvent(h, e)
           \/ \E t \in Slots : Commit(t)
  BY <1>2, TransactionCreated
<1>3. CASE \E a \in Admins : WriteCohort(a)
  BY <1>3, WriteCohortCreated
<1>4. CASE \/ \E a \in Admins, c \in Cohorts : DeleteCohort(a, c)
           \/ \E a \in Admins, c \in Cohorts, o \in Offers : CreateCohort(a, c, o)
           \/ \E a \in Admins, c \in Cohorts, e \in Edits : UpdateCohort(a, c, e)
  BY <1>4, AdminCreated
<1>5. ASSUME UNCHANGED <<membership, cohort, admin>>,
             \A t \in Slots : tx'[t] \in {tx[t], Idle, [Idle EXCEPT !.stage = "ack"]}
      PROVE  CohortsCreatedOnce'
  <2>1. \A t \in Slots : tx'[t] = tx[t] \/ Written(tx'[t].writes) = {}
    BY <1>5, EndedWritesNothing
  <2>. QED BY <1>5, <2>1, TxCreated
<1>6. CASE \/ \E r \in Requests : CheckoutFailed(r)
           \/ \E h \in Handlers : Ack(h)
           \/ \E t \in Slots : WriteConflict(t) \/ DatabaseError(t)
  BY <1>5, <1>6
     DEF CheckoutFailed, Ack, WriteConflict, DatabaseError, Abort, TypeOK, Slots
<1>7. CASE \/ \E h \in Handlers, e \in emitted : HandleUnknown(h, e)
           \/ \E type \in Outcomes, m \in Members :
                PaymentsEmits(PaymentEvent(type, m))
           \/ \E e \in emitted : PublishedAgain(e)
           \/ Tick
           \/ UNCHANGED vars
  BY <1>5, <1>7
     DEF HandleUnknown, PaymentsEmits, PublishedAgain, Tick, skill, vars
<1>8. CASE Crash
  <2>1. /\ UNCHANGED <<membership, cohort>>
        /\ \A a \in Admins : AdminIdle(a)' /\ ~Creating(a)'
        /\ \A t \in Slots : Written(tx'[t].writes) = {}
    BY <1>8 DEF Crash, AdminIdle, Creating, Idle, NoWrites, Written, Absent
  <2>. QED BY <2>1 DEF CohortsCreatedOnce, Exists
<1>. QED BY <1>1, <1>2, <1>3, <1>4, <1>6, <1>7, <1>8 DEF Next

-----------------------------------------------------------------------------
(* Enrolments that overlap: how many seats a learner can get in a workshop.*)

AddedFor(r, u, w) ==
  {m \in AddedBy(r) : /\ tx[r].writes[m].user = u
                      /\ Workshop[tx[r].writes[m].cohort] = w}

(* A learner's seats in a workshop once the requests of S have committed.  *)
SeatsAfter(S, u, w) ==
  (SeatsOf(u, w) \ WrittenBy(S)) \cup UNION {AddedFor(r, u, w) : r \in S}

SeatsFew ==
  \A u \in Users : \A w : \A S \in SUBSET Open :
    Cardinality(SeatsAfter(S, u, w)) <= Cardinality(Requests)

LEMMA SeatsAreMembers ==
  ASSUME NEW u, NEW w, NEW S \in SUBSET Requests
  PROVE  SeatsAfter(S, u, w) \in SUBSET Members
BY DEF SeatsAfter, SeatsOf, Of, AddedFor, AddedBy, Written

LEMMA SeatsBefore ==
  ASSUME SeatsFew, NEW u \in Users, NEW w, NEW S \in SUBSET Open,
         NEW T \in SUBSET SeatsAfter(S, u, w)
  PROVE  Cardinality(T) <= Cardinality(Requests)
<1>1. Cardinality(SeatsAfter(S, u, w)) <= Cardinality(Requests)
  BY DEF SeatsFew
<1>2. Cardinality(Requests) \in Int /\ Cardinality(Requests) <= Cardinality(Requests)
  BY SomeRequest
<1>3. SeatsAfter(S, u, w) \in SUBSET Members
  BY SeatsAreMembers DEF Open
<1>. QED BY <1>1, <1>2, <1>3, SmallerFits

(* Steps after which every seat is a seat that was there, and no request   *)
(* writes anything new.                                                    *)
LEMMA SeatsRemain ==
  ASSUME SeatsFew,
         \A m \in Members : Seat(m)' =>
           /\ Seat(m) /\ membership'[m].user = membership[m].user
           /\ membership'[m].cohort = membership[m].cohort,
         \A r \in Requests :
           \/ /\ tx'[r].writes = tx[r].writes
              /\ ~tx'[r].doomed => ~tx[r].doomed
           \/ Written(tx'[r].writes) = {}
  PROVE  SeatsFew'
<1>. SUFFICES ASSUME NEW u \in Users, NEW w, NEW S \in SUBSET Open'
              PROVE  Cardinality(SeatsAfter(S, u, w)') <= Cardinality(Requests)
  BY DEF SeatsFew
<1>. DEFINE R == {r \in S : tx'[r].writes = tx[r].writes /\ ~tx[r].doomed}
<1>1. R \in SUBSET Open
  BY DEF Open
<1>2. /\ \A r \in R : r \in S /\ tx'[r].writes = tx[r].writes
      /\ \A r \in S \ R : Written(tx'[r].writes) = {}
  BY DEF Open
<1>. HIDE DEF R
<1>3. ASSUME NEW m \in SeatsOf(u, w)', m \notin WrittenBy(S)'
      PROVE  m \in SeatsAfter(R, u, w)
  <2>1. /\ m \in Members /\ Seat(m)' /\ membership'[m].user = u
        /\ Workshop[membership'[m].cohort] = w
    BY <1>3 DEF SeatsOf, Of
  <2>2. m \in SeatsOf(u, w)
    BY <2>1 DEF SeatsOf, Of, Seat, Exists
  <2>3. m \notin WrittenBy(R)
    BY <1>2, <1>3 DEF WrittenBy
  <2>. QED BY <2>2, <2>3 DEF SeatsAfter
<1>4. ASSUME NEW r \in S, NEW m \in AddedFor(r, u, w)'
      PROVE  m \in SeatsAfter(R, u, w)
  <2>1. r \in R
    BY <1>2, <1>4 DEF AddedFor, AddedBy
  <2>2. m \in AddedFor(r, u, w)
    BY <1>2, <1>4, <2>1 DEF AddedFor, AddedBy, Written
  <2>. QED BY <2>1, <2>2 DEF SeatsAfter
<1>5. SeatsAfter(S, u, w)' \in SUBSET SeatsAfter(R, u, w)
  BY <1>3, <1>4 DEF SeatsAfter
<1>. QED BY <1>1, <1>5, SeatsBefore

(* An enrolment adds a seat only when every seat of its learner in the     *)
(* workshop is stale, and it expires those: what is left are the seats     *)
(* that the open requests add, one each.                                   *)
LEMMA EnrollFew ==
  ASSUME TypeOK, SeatsFew, AddsOne',
         NEW r \in Requests, NEW u \in Users, NEW c \in Cohorts,
         Enroll(r, u, c)
  PROVE  SeatsFew'
<1>1. /\ UNCHANGED <<membership, cohort>>
      /\ \A s \in Requests \ {r} : tx'[s] = tx[s]
  BY RequestStep DEF Slots
<1>. SUFFICES ASSUME NEW v \in Users, NEW w, NEW S \in SUBSET Open'
              PROVE  Cardinality(SeatsAfter(S, v, w)') <= Cardinality(Requests)
  BY DEF SeatsFew
<1>2. SeatsOf(v, w)' = SeatsOf(v, w)
  BY <1>1 DEF SeatsOf, Of, Seat, Exists
<1>3. S \in SUBSET Requests /\ S \ {r} \in SUBSET Open
  BY <1>1 DEF Open
<1>4. CASE r \in S => AddedFor(r, v, w)' = {}
  <2>1. \A s \in S \ {r} : /\ AddedFor(s, v, w)' = AddedFor(s, v, w)
                           /\ Written(tx'[s].writes) = Written(tx[s].writes)
    BY <1>1, <1>3 DEF AddedFor, AddedBy, Written
  <2>2. ASSUME NEW m \in SeatsOf(v, w)', m \notin WrittenBy(S)'
        PROVE  m \in SeatsAfter(S \ {r}, v, w)
    <3>1. m \notin WrittenBy(S \ {r})
      BY <2>1, <2>2 DEF WrittenBy
    <3>. QED BY <1>2, <2>2, <3>1 DEF SeatsAfter
  <2>3. ASSUME NEW s \in S, NEW m \in AddedFor(s, v, w)'
        PROVE  m \in SeatsAfter(S \ {r}, v, w)
    <3>1. s \in S \ {r} /\ m \in AddedFor(s, v, w)
      BY <1>4, <2>1, <2>3
    <3>. QED BY <3>1 DEF SeatsAfter
  <2>4. SeatsAfter(S, v, w)' \in SUBSET SeatsAfter(S \ {r}, v, w)
    BY <2>2, <2>3 DEF SeatsAfter
  <2>. QED BY <1>3, <2>4, SeatsBefore
<1>5. CASE r \in S /\ AddedFor(r, v, w)' # {}
  <2>. DEFINE M == UNION {AddedFor(s, v, w)' : s \in S}
              added == [s \in Requests |-> AddedBy(s)']
  <2>1. /\ v = u /\ w = Workshop[c] /\ HasSeat(u, c)
        /\ \A m \in Stale(u, c) : m \in Written(tx'[r].writes)
    BY <1>5, EnrollAdds DEF AddedFor
  <2>2. \A m \in SeatsOf(u, Workshop[c]) : m \in Stale(u, c)
    BY <2>1 DEF HasSeat, Blocking, SeatsOf, Seat, LiveStatuses
  <2>3. SeatsOf(v, w)' \subseteq WrittenBy(S)'
    BY <1>2, <1>5, <2>1, <2>2 DEF WrittenBy
  <2>4. SeatsAfter(S, v, w)' = M
    BY <2>3 DEF SeatsAfter
  <2>5. added \in [Requests -> SUBSET Members]
    BY DEF AddedBy, Written
  <2>6. \A s \in Requests : \A m, n \in added[s] : m = n
    BY DEF AddsOne
  <2>7. \A m \in M : \E s \in Requests : m \in added[s]
    BY <1>3 DEF AddedFor
  <2>. HIDE DEF M, added
  <2>. QED BY <2>4, <2>5, <2>6, <2>7, FewAdded
<1>. QED BY <1>4, <1>5

LEMMA AnsweredFew ==
  ASSUME TypeOK, SeatsFew, NEW r \in Requests, CheckoutAnswered(r)
  PROVE  SeatsFew'
<1>1. /\ UNCHANGED <<membership, cohort>>
      /\ \A s \in Requests \ {r} : tx'[s] = tx[s]
  BY RequestStep DEF Slots
<1>2. \A u, w : SeatsOf(u, w)' = SeatsOf(u, w)
  BY <1>1 DEF SeatsOf, Of, Seat, Exists
<1>3. \A s \in Requests : Written(tx'[s].writes) = Written(tx[s].writes)
  BY <1>1, AnswerAdds
<1>4. \A s \in Requests : \A u, w : AddedFor(s, u, w)' = AddedFor(s, u, w)
  BY <1>1, AnswerAdds DEF AddedFor, AddedBy, Written
<1>5. Open' = Open
  BY <1>1, AnswerAdds DEF Open
<1>6. ASSUME NEW u, NEW w, NEW S \in SUBSET Open
      PROVE  SeatsAfter(S, u, w)' = SeatsAfter(S, u, w)
  <2>1. WrittenBy(S)' = WrittenBy(S)
    BY <1>3 DEF WrittenBy, Open
  <2>2. UNION {AddedFor(s, u, w)' : s \in S} = UNION {AddedFor(s, u, w) : s \in S}
    BY <1>4 DEF Open
  <2>. QED BY <1>2, <2>1, <2>2 DEF SeatsAfter
<1>. QED BY <1>5, <1>6 DEF SeatsFew

LEMMA CommitFew ==
  ASSUME TypeOK, SnapshotsHold, SeatFacts, SeatsFew, NEW t \in Slots, Commit(t)
  PROVE  SeatsFew'
<1>1. cohort' = cohort /\ ~tx[t].doomed
  BY DEF Commit
<1>2. CASE t \in Handlers
  <2>1. ASSUME NEW m \in Members, Seat(m)'
        PROVE  /\ Seat(m) /\ membership'[m].user = membership[m].user
               /\ membership'[m].cohort = membership[m].cohort
    BY <1>1, <1>2, <2>1, SeatedByHandler DEF Seat, Seated
  <2>2. ASSUME NEW r \in Requests
        PROVE  /\ tx'[r].writes = tx[r].writes
               /\ ~tx'[r].doomed => ~tx[r].doomed
    <3>1. r \in Slots \ {t}
      BY <1>2, EnrollmentAssumption DEF Slots
    <3>. QED BY <3>1, OthersAtCommit
  <2>. QED BY <2>1, <2>2, SeatsRemain
<1>3. CASE t \in Requests
  <2>. SUFFICES ASSUME NEW u \in Users, NEW w, NEW S \in SUBSET Open'
                PROVE  Cardinality(SeatsAfter(S, u, w)') <= Cardinality(Requests)
    BY DEF SeatsFew
  <2>. DEFINE R == S \cup {t}
  <2>1. \A s \in S \ {t} : tx'[s].writes = tx[s].writes /\ ~tx[s].doomed
    BY OthersAtCommit DEF Open, Slots
  <2>2. R \in SUBSET Open /\ t \in R /\ S \subseteq R
    BY <1>1, <1>3, <2>1 DEF Open
  <2>3. ASSUME NEW m \in SeatsOf(u, w)', m \notin WrittenBy(S)'
        PROVE  m \in SeatsAfter(R, u, w)
    <3>1. /\ m \in Members /\ Seat(m)' /\ membership'[m].user = u
          /\ Workshop[membership'[m].cohort] = w
      BY <2>3 DEF SeatsOf, Of
    <3>2. CASE m \in Written(tx[t].writes)
      <4>1. membership'[m] = tx[t].writes[m]
        BY <3>1, <3>2, OthersAtCommit
      <4>2. m \in AddedFor(t, u, w)
        BY <3>1, <3>2, <4>1 DEF AddedFor, AddedBy, Seat, Seated
      <4>. QED BY <2>2, <4>2 DEF SeatsAfter
    <3>3. CASE m \notin Written(tx[t].writes)
      <4>1. membership'[m] = membership[m]
        BY <3>1, <3>3, OthersAtCommit
      <4>2. m \in SeatsOf(u, w)
        BY <1>1, <3>1, <4>1 DEF SeatsOf, Of, Seat, Exists
      <4>3. m \notin WrittenBy(R)
        BY <2>1, <2>3, <3>3 DEF WrittenBy
      <4>. QED BY <4>2, <4>3 DEF SeatsAfter
    <3>. QED BY <3>2, <3>3
  <2>4. ASSUME NEW s \in S, NEW m \in AddedFor(s, u, w)'
        PROVE  m \in SeatsAfter(R, u, w)
    <3>1. s # t
      BY <2>4, OthersAtCommit DEF AddedFor, AddedBy
    <3>2. m \in AddedFor(s, u, w)
      BY <2>1, <2>4, <3>1 DEF AddedFor, AddedBy, Written
    <3>. QED BY <2>2, <3>2 DEF SeatsAfter
  <2>. HIDE DEF R
  <2>5. SeatsAfter(S, u, w)' \in SUBSET SeatsAfter(R, u, w)
    BY <2>3, <2>4 DEF SeatsAfter
  <2>. QED BY <2>2, <2>5, SeatsBefore
<1>. QED BY <1>2, <1>3 DEF Slots

(* What the other steps do to cohorts: only an expert's write changes one, *)
(* and none of those that have members becomes listed by it.               *)
LEMMA ListedBefore ==
  ASSUME TypeOK, CohortsCreatedOnce, [Next]_vars, NEW m \in Members, Exists(m),
         cohort'[membership[m].cohort].state = "listed"
  PROVE  cohort[membership[m].cohort].state = "listed"
<1>1. /\ membership[m].cohort \in Cohorts
      /\ cohort[membership[m].cohort].state # "planned"
  BY ExistingIsMembership DEF CohortsCreatedOnce, Membership
<1>2. CASE \E a \in Admins : WriteCohort(a)
  BY <1>1, <1>2, CohortAfterWrite
<1>3. CASE ~ \E a \in Admins : WriteCohort(a)
  <2>1. cohort' = cohort
    BY <1>3 DEF Next, Enroll, ResumeCheckout, JoinFree, Reserve,
       CheckoutAnswered, CheckoutFailed, HandleEvent, HandleUnknown, Ack,
       Commit, WriteConflict, DatabaseError, Abort, CreateCohort, UpdateCohort,
       DeleteCohort, Plan, PaymentsEmits, PublishedAgain, Tick, Crash,
       skill, vars
  <2>. QED BY <2>1
<1>. QED BY <1>2, <1>3

(* However many enrolments overlap, a learner has no more active or        *)
(* reserved seats in the cohorts of a workshop than enrolments can be open *)
(* at once, whatever payments, expiries and edits come between.            *)
THEOREM LearnerSeatsBounded == Spec => []SeatsBounded
<1>. DEFINE Inv == IInv /\ SeatFacts /\ CohortsCreatedOnce /\ AddsOne /\ SeatsFew
<1>1. ASSUME Init PROVE Inv
  <2>1. \A m \in Members : ~Exists(m)
    BY <1>1 DEF Init, Exists, Absent
  <2>2. \A t \in Slots : Written(tx[t].writes) = {}
    BY <1>1 DEF Init, Idle, NoWrites, Written, Absent
  <2>3. \A r \in Requests : AddedBy(r) = {}
    BY <2>2 DEF AddedBy, Slots
  <2>4. ASSUME NEW u \in Users, NEW w, NEW S \in SUBSET Open
        PROVE  Cardinality(SeatsAfter(S, u, w)) <= Cardinality(Requests)
    <3>1. SeatsAfter(S, u, w) = {}
      BY <2>1, <2>3 DEF SeatsAfter, SeatsOf, Of, AddedFor, Open
    <3>2. Cardinality({}) = 0
      BY FS_EmptySet
    <3>. QED BY <3>1, <3>2, SomeRequest
  <2>. QED BY <1>1, <2>3, <2>4, IInvInit, SeatFactsInit, CreatedInit
           DEF SeatsFew, AddsOne
<1>2. ASSUME Inv, [Next]_vars PROVE Inv'
  <2>1. IInv' /\ SeatFacts' /\ CohortsCreatedOnce' /\ AddsOne'
    BY <1>2, IInvStep, SeatFactsStep, CreatedStep, AddsOneStep
  <2>2. TypeOK /\ SnapshotsHold
    BY <1>2 DEF IInv
  <2>3. CASE \E r \in Requests, u \in Users, c \in Cohorts : Enroll(r, u, c)
    BY <1>2, <2>1, <2>2, <2>3, EnrollFew
  <2>4. CASE \E r \in Requests : CheckoutAnswered(r)
    BY <1>2, <2>1, <2>2, <2>4, AnsweredFew
  <2>5. CASE \E t \in Slots : Commit(t)
    BY <1>2, <2>1, <2>2, <2>5, CommitFew
  <2>6. ASSUME UNCHANGED membership,
               \A r \in Requests : tx'[r] = tx[r] \/ Written(tx'[r].writes) = {}
        PROVE  SeatsFew'
    <3>1. ASSUME NEW m \in Members, Seat(m)'
          PROVE  Seat(m)
      <4>1. Exists(m) /\ cohort'[membership[m].cohort].state = "listed"
        BY <2>6, <3>1 DEF Seat, Exists
      <4>2. cohort[membership[m].cohort].state = "listed"
        BY <1>2, <2>2, <4>1, ListedBefore
      <4>. QED BY <2>6, <3>1, <4>2 DEF Seat
    <3>. QED BY <1>2, <2>6, <3>1, SeatsRemain
  <2>7. CASE \E h \in Handlers, e \in emitted : HandleEvent(h, e)
    <3>1. UNCHANGED membership /\ \A r \in Requests : tx'[r] = tx[r]
      BY <2>2, <2>7, EnrollmentAssumption DEF HandleEvent, Begin, TypeOK, Slots
    <3>. QED BY <2>1, <2>6, <3>1
  <2>8. CASE ~ \/ \E r \in Requests, u \in Users, c \in Cohorts : Enroll(r, u, c)
               \/ \E r \in Requests : CheckoutAnswered(r)
               \/ \E h \in Handlers, e \in emitted : HandleEvent(h, e)
               \/ \E t \in Slots : Commit(t)
    <3>1. /\ UNCHANGED membership
          /\ \A t \in Slots : tx'[t] \in {tx[t], Idle, [Idle EXCEPT !.stage = "ack"]}
      BY <1>2, <2>8, OtherSteps
    <3>2. \A r \in Requests : tx'[r] = tx[r] \/ Written(tx'[r].writes) = {}
      BY <3>1, EndedWritesNothing DEF Slots
    <3>. QED BY <2>1, <2>6, <3>1, <3>2
  <2>. QED BY <2>1, <2>3, <2>4, <2>5, <2>7, <2>8
<1>3. ASSUME Inv PROVE SeatsBounded
  <2>. SUFFICES ASSUME NEW u \in Users, NEW c \in Cohorts
                PROVE  Cardinality(SeatsOf(u, Workshop[c])) <= Cardinality(Requests)
    BY DEF SeatsBounded
  <2>1. {} \in SUBSET Open /\ WrittenBy({}) = {}
    BY DEF WrittenBy
  <2>2. SeatsOf(u, Workshop[c]) \in SUBSET SeatsAfter({}, u, Workshop[c])
    BY <2>1 DEF SeatsAfter
  <2>. QED BY <1>3, <2>1, <2>2, SeatsBefore
<1>. HIDE DEF Inv
<1>. QED BY <1>1, <1>2, <1>3, PTL DEF Spec

-----------------------------------------------------------------------------
(* Expert calls that overlap: how many cohorts can be under way together.  *)

(* The windows a cohort has, and those it is about to get.                 *)
Window(doc) == [first |-> doc.first, last |-> doc.last]
PlannedFor(a, c) == ~AdminIdle(a) /\ admin[a].cohort = c
Windows(c) ==
  {Window(doc) : doc \in {x \in {cohort[c]} : x.state = "listed"}
                   \cup {admin[a].doc : a \in {b \in Admins :
                           PlannedFor(b, c) /\ admin[b].doc.state = "listed"}}}

(* Cohorts of a workshop that may come to be under way together, each with *)
(* one of its windows.                                                     *)
Clash(K, f) ==
  /\ \A c \in K : f[c] \in Windows(c)
  /\ \A c, d \in K : Workshop[c] = Workshop[d] /\ ~Apart(f[c], f[d])

(* At most one expert call for each: the windows that a call checked are   *)
(* apart, and the windows that it could not see are other calls'.          *)
ClashesFew ==
  \A K \in SUBSET Cohorts : \A f :
    Clash(K, f) => IsFiniteSet(K) /\ Cardinality(K) <= Cardinality(Admins)

(* Steps after which every window is one that was there.                   *)
LEMMA WindowsRemain ==
  ASSUME ClashesFew, \A c \in Cohorts : Windows(c)' \subseteq Windows(c)
  PROVE  ClashesFew'
<1>. SUFFICES ASSUME NEW K \in SUBSET Cohorts, NEW f, Clash(K, f)'
              PROVE  IsFiniteSet(K) /\ Cardinality(K) <= Cardinality(Admins)
  BY DEF ClashesFew
<1>1. Clash(K, f)
  BY DEF Clash, Apart
<1>. QED BY <1>1 DEF ClashesFew

(* Cohorts that other calls plan are fewer than the calls.                 *)
LEMMA FewPlanned ==
  ASSUME NEW a \in Admins, NEW K, NEW c \in K, NEW g \in [K \ {c} -> Admins],
         \A d \in K \ {c} : g[d] # a,
         \A d, e \in K \ {c} : g[d] = g[e] => d = e
  PROVE  IsFiniteSet(K) /\ Cardinality(K) <= Cardinality(Admins)
<1>1. g \in Injection(K \ {c}, Admins \ {a})
  BY DEF Injection, IsInjective
<1>2. IsFiniteSet(Admins)
  BY EnrollmentAssumption
<1>3. /\ IsFiniteSet(Admins \ {a})
      /\ Cardinality(Admins \ {a}) = Cardinality(Admins) - 1
  BY <1>2, FS_RemoveElement
<1>4. /\ IsFiniteSet(K \ {c})
      /\ Cardinality(K \ {c}) <= Cardinality(Admins \ {a})
  BY <1>1, <1>3, FS_Injection
<1>5. (K \ {c}) \cup {c} = K
  OBVIOUS
<1>6. /\ IsFiniteSet((K \ {c}) \cup {c})
      /\ Cardinality((K \ {c}) \cup {c}) = Cardinality(K \ {c}) + 1
  BY <1>4, FS_AddElement
<1>7. Cardinality(Admins) \in Nat /\ Cardinality(K \ {c}) \in Nat
  BY <1>2, <1>4, FS_CardinalityType
<1>8. IsFiniteSet(K) /\ Cardinality(K) = Cardinality(K \ {c}) + 1
  BY <1>5, <1>6
<1>9. Cardinality(K \ {c}) <= Cardinality(Admins) - 1
  BY <1>3, <1>4
<1>. QED BY <1>7, <1>8, <1>9

(* What an expert call plans is apart from every listed cohort, or has the *)
(* window its cohort has already.                                          *)
LEMMA PlanFew ==
  ASSUME TypeOK, ClashesFew, NEW a \in Admins, NEW c \in Cohorts,
         NEW op \in {"create", "update", "delete"}, NEW doc \in Cohort,
         AdminIdle(a), Plan(a, op, c, doc),
         \/ doc.state # "listed"
         \/ Overlapping(c, doc) = {}
         \/ cohort[c].state = "listed" /\ Window(doc) = Window(cohort[c])
  PROVE  ClashesFew'
<1>1. /\ cohort' = cohort
      /\ admin'[a] = [op |-> op, cohort |-> c, doc |-> doc]
      /\ \A b \in Admins \ {a} : admin'[b] = admin[b]
  BY DEF Plan, TypeOK
<1>2. \A d \in Cohorts \ {c} : Windows(d)' = Windows(d)
  BY <1>1 DEF Windows, PlannedFor, AdminIdle
<1>3. Windows(c)' \subseteq
        Windows(c) \cup (IF doc.state = "listed" THEN {Window(doc)} ELSE {})
  BY <1>1 DEF Windows, PlannedFor, AdminIdle
<1>4. CASE doc.state # "listed"
  BY <1>2, <1>3, <1>4, WindowsRemain
<1>5. CASE cohort[c].state = "listed" /\ Window(doc) = Window(cohort[c])
  <2>1. Window(doc) \in Windows(c)
    BY <1>5 DEF Windows
  <2>. QED BY <1>2, <1>3, <2>1, WindowsRemain
<1>6. CASE Overlapping(c, doc) = {}
  <2>. SUFFICES ASSUME NEW K \in SUBSET Cohorts, NEW f, Clash(K, f)'
                PROVE  IsFiniteSet(K) /\ Cardinality(K) <= Cardinality(Admins)
    BY DEF ClashesFew
  <2>1. CASE \A d \in K : f[d] \in Windows(d)
    <3>1. Clash(K, f)
      BY <2>1 DEF Clash, Apart
    <3>. QED BY <3>1 DEF ClashesFew
  <2>2. CASE ~ \A d \in K : f[d] \in Windows(d)
    <3>1. c \in K /\ f[c] = Window(doc)
      BY <1>2, <1>3, <2>2 DEF Clash
    <3>2. ASSUME NEW d \in K \ {c}
          PROVE  \E b \in Admins : b # a /\ PlannedFor(b, d)
      <4>1. /\ f[d] \in Windows(d) /\ Workshop[d] = Workshop[c]
            /\ ~Apart(f[c], f[d])
        BY <1>2, <3>1, <3>2 DEF Clash, Apart
      <4>2. ~(cohort[d].state = "listed" /\ f[d] = Window(cohort[d]))
        <5>. SUFFICES ASSUME cohort[d].state = "listed", f[d] = Window(cohort[d])
                      PROVE  FALSE
          OBVIOUS
        <5>1. cohort[d] \in Cohort
          BY DEF TypeOK
        <5>2. ~(cohort[d].first <= doc.last /\ cohort[d].last >= doc.first)
          BY <1>6, <4>1 DEF Overlapping
        <5>3. /\ cohort[d].first \in Nat /\ cohort[d].last \in Nat
              /\ doc.first \in Nat /\ doc.last \in Nat
          BY <5>1 DEF Cohort
        <5>. QED BY <3>1, <4>1, <5>2, <5>3 DEF Apart, Window
      <4>3. PICK b \in Admins : PlannedFor(b, d)
        BY <4>1, <4>2 DEF Windows
      <4>. QED BY <4>3 DEF PlannedFor
    <3>. DEFINE g == [d \in K \ {c} |-> CHOOSE b \in Admins :
                                          b # a /\ PlannedFor(b, d)]
    <3>3. \A d \in K \ {c} : g[d] \in Admins /\ g[d] # a /\ PlannedFor(g[d], d)
      BY <3>2
    <3>4. g \in [K \ {c} -> Admins]
      BY <3>3
    <3>. HIDE DEF g
    <3>5. \A d, e \in K \ {c} : g[d] = g[e] => d = e
      BY <3>3 DEF PlannedFor
    <3>6. c \in K /\ \A d \in K \ {c} : g[d] # a
      BY <3>1, <3>3
    <3>. QED BY <3>4, <3>5, <3>6, FewPlanned
  <2>. QED BY <2>1, <2>2
<1>. QED BY <1>4, <1>5, <1>6

LEMMA WindowDates ==
  ASSUME NEW doc
  PROVE  Window(doc).first = doc.first /\ Window(doc).last = doc.last
BY DEF Window

LEMMA ExpertFew ==
  ASSUME TypeOK, ClashesFew, NEW a \in Admins, NEW c \in Cohorts,
         \/ \E o \in Offers : CreateCohort(a, c, o)
         \/ \E e \in Edits : UpdateCohort(a, c, e)
         \/ DeleteCohort(a, c)
  PROVE  ClashesFew'
<1>1. cohort[c] \in Cohort
  BY DEF TypeOK
<1>2. ASSUME NEW o \in Offers, CreateCohort(a, c, o)
      PROVE  ClashesFew'
  <2>1. o \in Cohort
    BY EnrollmentAssumption
  <2>. QED BY <1>2, <2>1, PlanFew DEF CreateCohort
<1>3. ASSUME NEW e \in Edits, UpdateCohort(a, c, e)
      PROVE  ClashesFew'
  <2>1. e.doc \in Cohort
    BY EnrollmentAssumption
  <2>2. /\ Edited(c, e) \in Cohort
        /\ Edited(c, e).first = IF "startDate" \in e.fields THEN e.doc.first
                                                           ELSE cohort[c].first
        /\ Edited(c, e).last = IF "startDate" \in e.fields THEN e.doc.last
                                                          ELSE cohort[c].last
    BY <1>1, <2>1 DEF Edited, Cohort
  <2>3. /\ AdminIdle(a) /\ cohort[c].state = "listed"
        /\ Plan(a, "update", c, Edited(c, e))
        /\ "startDate" \in e.fields => Overlapping(c, e.doc) = {}
    BY <1>3 DEF UpdateCohort
  <2>4. \/ Overlapping(c, Edited(c, e)) = {}
        \/ Window(Edited(c, e)) = Window(cohort[c])
    BY <2>2, <2>3 DEF Overlapping, Window
  <2>. QED BY <2>2, <2>3, <2>4, PlanFew
<1>4. CASE DeleteCohort(a, c)
  <2>1. /\ [cohort[c] EXCEPT !.state = "deleted"] \in Cohort
        /\ [cohort[c] EXCEPT !.state = "deleted"].state = "deleted"
    BY <1>1 DEF Cohort, CohortStates
  <2>. QED BY <1>4, <2>1, PlanFew DEF DeleteCohort
<1>. QED BY <1>2, <1>3, <1>4

LEMMA WriteFew ==
  ASSUME TypeOK, ClashesFew, NEW a \in Admins, WriteCohort(a)
  PROVE  ClashesFew'
<1>1. /\ ~AdminIdle(a) /\ admin[a].cohort \in Cohorts
      /\ cohort' \in {cohort, [cohort EXCEPT ![admin[a].cohort] = admin[a].doc]}
      /\ admin' = [admin EXCEPT ![a] = [op |-> "idle"]]
  BY DEF WriteCohort, AdminIdle, TypeOK, AdminCall
<1>2. /\ admin'[a].op = "idle"
      /\ \A b \in Admins \ {a} : admin'[b] = admin[b]
  BY <1>1 DEF TypeOK
<1>3. ASSUME NEW c \in Cohorts
      PROVE  \/ cohort'[c] = cohort[c]
             \/ PlannedFor(a, c) /\ cohort'[c] = admin[a].doc
  BY <1>1 DEF TypeOK, PlannedFor
<1>4. \A b \in Admins, c \in Cohorts : PlannedFor(b, c)' =>
        PlannedFor(b, c) /\ admin'[b] = admin[b]
  BY <1>2 DEF PlannedFor, AdminIdle
<1>5. \A c \in Cohorts : Windows(c)' \subseteq Windows(c)
  BY <1>3, <1>4 DEF Windows, Window
<1>. QED BY <1>5, WindowsRemain

(* However many expert calls overlap, no more listed cohorts of a workshop *)
(* are under way at one time, two by two, than calls can be open at once.  *)
THEOREM CohortClashesBounded == Spec => []ClashesBounded
<1>. DEFINE Inv == IInv /\ ClashesFew
<1>1. ASSUME Init PROVE Inv
  <2>1. \A c \in Cohorts : Windows(c) = {}
    BY <1>1 DEF Init, Windows, PlannedFor, AdminIdle
  <2>. SUFFICES ASSUME NEW K \in SUBSET Cohorts, NEW f, Clash(K, f)
                PROVE  IsFiniteSet(K) /\ Cardinality(K) <= Cardinality(Admins)
    BY <1>1, IInvInit DEF ClashesFew
  <2>2. K = {}
    BY <2>1 DEF Clash
  <2>3. IsFiniteSet({}) /\ Cardinality({}) = 0
    BY FS_EmptySet
  <2>4. Cardinality(Admins) \in Nat
    BY EnrollmentAssumption, FS_CardinalityType
  <2>. QED BY <2>2, <2>3, <2>4
<1>2. ASSUME Inv, [Next]_vars PROVE Inv'
  <2>1. TypeOK /\ ClashesFew
    BY <1>2 DEF IInv
  <2>2. IInv'
    BY <1>2, IInvStep
  <2>. SUFFICES ClashesFew'
    BY <2>2
  <2>3. CASE \E a \in Admins : WriteCohort(a)
    BY <2>1, <2>3, WriteFew
  <2>4. CASE \/ \E a \in Admins, c \in Cohorts : DeleteCohort(a, c)
             \/ \E a \in Admins, c \in Cohorts, o \in Offers : CreateCohort(a, c, o)
             \/ \E a \in Admins, c \in Cohorts, e \in Edits : UpdateCohort(a, c, e)
    BY <2>1, <2>4, ExpertFew
  <2>5. CASE UNCHANGED <<cohort, admin>>
    <3>1. \A c \in Cohorts : Windows(c)' = Windows(c)
      BY <2>5 DEF Windows, PlannedFor, AdminIdle
    <3>. QED BY <2>1, <3>1, WindowsRemain
  <2>6. CASE Crash
    <3>1. cohort' = cohort /\ \A a \in Admins : admin'[a].op = "idle"
      BY <2>6 DEF Crash
    <3>2. \A c \in Cohorts : Windows(c)' \subseteq Windows(c)
      BY <3>1 DEF Windows, PlannedFor, AdminIdle
    <3>. QED BY <2>1, <3>2, WindowsRemain
  <2>7. CASE ~ \/ \E a \in Admins : WriteCohort(a)
               \/ \E a \in Admins, c \in Cohorts : DeleteCohort(a, c)
               \/ \E a \in Admins, c \in Cohorts, o \in Offers : CreateCohort(a, c, o)
               \/ \E a \in Admins, c \in Cohorts, e \in Edits : UpdateCohort(a, c, e)
               \/ Crash
    <3>1. UNCHANGED <<cohort, admin>>
      BY <1>2, <2>7 DEF Next, Enroll, ResumeCheckout, JoinFree, Reserve,
         CheckoutAnswered, CheckoutFailed, HandleEvent, HandleUnknown, Ack,
         Commit, WriteConflict, DatabaseError, Abort, PaymentsEmits,
         PublishedAgain, Tick, skill, vars
    <3>. QED BY <2>1, <2>5, <3>1
  <2>. QED BY <2>3, <2>4, <2>6, <2>7
<1>3. ASSUME Inv PROVE ClashesBounded
  <2>. SUFFICES ASSUME NEW K \in SUBSET Cohorts,
                       \A c, d \in K : /\ cohort[c].state = "listed"
                                       /\ Workshop[c] = Workshop[d]
                                       /\ ~Apart(cohort[c], cohort[d])
                PROVE  Cardinality(K) <= Cardinality(Admins)
    BY DEF ClashesBounded
  <2>. DEFINE f == [c \in K |-> Window(cohort[c])]
  <2>1. \A c \in K : f[c] = Window(cohort[c]) /\ f[c] \in Windows(c)
    BY DEF Windows
  <2>. HIDE DEF f
  <2>2. \A c \in K : f[c].first = cohort[c].first /\ f[c].last = cohort[c].last
    BY <2>1, WindowDates
  <2>3. \A c, d \in K : ~Apart(f[c], f[d])
    BY <2>2 DEF Apart
  <2>4. Clash(K, f)
    BY <2>1, <2>3 DEF Clash
  <2>5. \A g : Clash(K, g) => Cardinality(K) <= Cardinality(Admins)
    BY <1>3 DEF ClashesFew
  <2>. QED BY <2>4, <2>5
<1>. HIDE DEF Inv
<1>. QED BY <1>1, <1>2, <1>3, PTL DEF Spec
=============================================================================
