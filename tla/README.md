# skill-stew: a TLA+ model of the platform

skill-stew is a set of TypeScript services (user, skill, payments,
notification, es-proxy, gateway, websocket-gateway) and three outbox workers.
They share nothing but a RabbitMQ topic exchange (`stew_exchange`), a few HTTP
calls, and each service's own database. Learners enrol in cohorts of workshops,
pay through Stripe, and every service learns what the others did from domain
events.

The core of the program is the way of a paid seat: an enrolment reserves it in
a MongoDB transaction of the skill service, a checkout session is opened with
the payments service and Stripe, Stripe's webhook decides the payment, an
outbox row carries the decision to a worker, the worker to the broker, and the
broker to the payment handlers of the skill service, which grant or refuse the
seat. Every hop may repeat, be late, or stop in the middle. That path is
modelled in three modules that meet at their interfaces.

Around it are the other services: connections between users and the
notifications they cause, accounts with their sessions and expert applications,
the search index, and workshops with the schedules their cohorts are derived
from. Each has a module of its own; `Notifications` is composed with
`Connections`, `Accounts` with `Gateway`, `Workshops` with `CohortSchedule`.

## 1. Inventory

| component | state | operations | talks to |
|---|---|---|---|
| skill: cohorts and memberships (`skill/src/application/services/CohortService.ts`) | cohort and membership collections (MongoDB) | enrollInCohort; handlePaymentSucceeded, -Failed, -Refunded; createCohort, updateCohort, deleteCohort | payments over HTTP, inside the transaction; consumes `payment.*` |
| payments (`payments/src/application/services/PaymentSessionService.ts`) | `payments` and `outbox_events` (Postgres) | createCheckoutSession, handleStripeWebhook | Stripe; publishes `payment.succeeded`, `.failed`, `.refunded` through its outbox |
| outbox workers (`outbox-workers/*/src/index.ts`) | outbox rows PENDING or PROCESSED; a channel with a client-side buffer | a pass each interval: fetch, validate, publish, mark | one database, RabbitMQ |
| consumers (`*/RabbitMQEventConsumer.ts`, `MessageConsumer.ts`) | map of handlers, one durable queue | start to consume, bind and register, dispatch, ack or nack | RabbitMQ and the service's handlers |
| skill: workshops (`WorkshopService.ts`) | workshop collection, outbox | create, update, replace or update sessions, publish | publishes `workshop.published`; read by cohorts |
| skill: cohort schedule (`utils/cohortSchedule.ts`) | none: pure functions | sort sessions, derive sessions, window and status, local time to UTC | cohorts |
| skill: skills, profiles | skill, profile collections | CRUD, profile update with event | publishes `skill.created`, `.updated`, `.deleted`, `skill.profileUpdated` |
| user: connections | `user_connections`, outbox | send, accept, reject | publishes `connection.requested`, `.accepted`, `.rejected` |
| user: expert applications | applications, users, outbox | submit, approve, reject | publishes `expert.application.*` |
| user: accounts and authentication | users, profiles, tokens | register, verify, login, Google login, refresh, block, create admin | publishes `user.*`, `expert.registered`, `expert.onboarded`; consumes `skill.profileUpdated` |
| notification service | notifications (MongoDB), unread counters (Redis) | create, list, mark read, count | consumes events; pushes through Redis to the websocket-gateway |
| es-proxy | Elasticsearch documents | index, partial update, search | consumes `user.*`, `expert.onboarded`, `skill.*`, `workshop.published` |
| gateway, websocket-gateway | sockets by user; none | verify the token, route; emit to a room | every service |

What makes each of them hard, and what makes it correct:

- **Cohorts.** Snapshot transactions detect only writes to a common document,
  reservations run out while the learner pays, payments come late or twice, and
  the expert's calls are not transactional. Correct: paid seats stay within the
  capacity, money that arrived leaves a trace, a refunded seat is not revived.
- **Payments.** Three systems (row, Stripe, outbox) change in separate steps;
  webhooks overlap, repeat and arrive out of order. Correct: row, outbox and
  Stripe never contradict each other; a captured payment is published; a
  membership has at most one payable session.
- **Workers and consumers.** Unguarded interval, publish without confirms,
  mark after publish, consumers that start before they are set up. Correct:
  at-least-once handling, causal order where the worker sorts.
- **Workshops, connections, applications, accounts.** Reads outside the
  transaction that writes: lost updates and status checks that no longer hold.
  Correct: published workshops stay published, an accepted connection is not
  deleted, role and application status agree, a blocked user stays blocked.
- **Notifications, es-proxy.** Duplicates and reordering at handlers that are
  not idempotent; a counter in two stores. Correct: the counter equals the
  unread notifications once all is quiet, the index the last known profile.
- **Schedule.** Pure date arithmetic around weekday wrap-around and daylight
  saving. Correct: a clock in the zone shows the local time of the schedule.

`PROJECT.json` lists the components with what is modelled of each, and the
hazards with the line where each one bites.

## 2. Modules

| module | models | extends |
|---|---|---|
| `Enrollment` | CohortService, the payment event handlers, the payments client | |
| `EnrollmentProofs` | theorems about `Enrollment` | `Enrollment` |
| `PaymentLifecycle` | abstract: a payment is decided once, a refund is final | |
| `PaymentSession` | PaymentSessionService, its tables, Stripe around it | refines `PaymentLifecycle` |
| `PaymentSessionProofs` | theorems about `PaymentSession` | `PaymentSession` |
| `EventDelivery` | abstract: a committed event is handled, or given up by a handler that failed for good; nothing else is | |
| `OutboxRelay` | outbox table, worker, exchange and queue, consumer | refines `EventDelivery` |
| `OutboxRelayProofs` | theorems about `OutboxRelay` | `OutboxRelay` |
| `Connections` | connection use cases, the pair's row, their outbox events | |
| `Notifications` | notification service: handlers, counter, cached counter, pages | composed with `Connections` |
| `NotificationsProofs` | theorems about `Connections`, `Notifications` and the two together | `Notifications`, `Sums` |
| `Gateway` | route table and token check of the API gateway: operators | |
| `Accounts` | accounts, sessions, expert applications, usernames | `Gateway` |
| `AccountsProofs` | theorems about `Accounts` | `Accounts` |
| `SearchIndex` | es-proxy's documents and the services they follow | |
| `SearchIndexProofs` | theorems about `SearchIndex` | `SearchIndex` |
| `CohortSchedule` | date and time zone operators of `cohortSchedule.ts` | |
| `Workshops` | WorkshopService, and CohortService as far as the expert uses it | `CohortSchedule` |
| `WorkshopsProofs` | theorems about `CohortSchedule` and `Workshops` | `Workshops`, `Sums` |
| `Sums` | lemmas about the fold that adds up a function | |
| `MC...` | values for TLC | |

How they meet. What `PaymentSession` puts into `outbox` is what `OutboxRelay`
carries and what `Enrollment` takes from `queue`. `Enrollment` does not repeat
the other two: its environment actions `PaymentsEmits` and `PublishedAgain`
allow any order and any duplication of the events of a payment. That is more
than `PaymentSession` and `OutboxRelay` produce, so what holds there does not
rest on order or on single delivery. `Notifications` assumes the same of the
relay: a committed event comes at any time, in any order, possibly again.
`SearchIndex` keeps the order of the user service's worker, because what it
asks of `user.verified` depends on it, and lets the consumer mix it up.

### Enrollment

| code | model |
|---|---|
| membership documents | `membership[m]`, `Absent` when there is none; ids are drawn in order |
| cohort documents | `cohort[c]`: "planned" before it exists; the window is its first and last day |
| `UnitOfWork.transact` | `tx[t]`: the writes decided on the snapshot, whether another commit has made them conflict (`doomed`), and where the transaction stands |
| enrollInCohort | `ResumeCheckout`, `JoinFree`, `Reserve`; then `CheckoutAnswered` or `CheckoutFailed` (the HTTP call inside the transaction); then `Commit` or `WriteConflict` |
| handlePaymentSucceeded, applyPaymentOutcome | `HandleEvent` with `SucceededWrites`, `OutcomeWrites`; `HandleUnknown` for a NotFoundError |
| ack, nack | `Ack`; `Abort` (with the flag the error class really carries, `TransientRetryable`) |
| createCohort, updateCohort, deleteCohort | `CreateCohort`, `UpdateCohort`, `DeleteCohort` read and check; `WriteCohort` writes later, whatever happened in between |
| MongoDB write conflict | `Hit` dooms each open transaction that shares a document with a commit; `WriteConflict` also when another open transaction holds the document |

Abstractions. Time is a counter of ticks; only its order with reservation ends
and cohort windows matters. Prices are zero or one. A cohort's derived sessions
are its first and last day (the arithmetic of `cohortSchedule.ts` is not part
of this module). The reads of an expert call are one step and its write
another. Reads that change nothing, response shapes and validation of request
bodies are left out. A transaction's snapshot is taken with its first read, in
the step that decides its writes.

### PaymentSession

`OpenPayment` (insert the row), `StripeAnswers` or `StripeFails` (a failure may
come after Stripe created the session, and deletes a row this call inserted),
`StoreSession` (write the whole row from the copy the call holds, return the
URL) are createCheckoutSession; `ReuseSession` is its early return.
`ReadPayment` reads the row before the transaction, `CommitWebhook` writes row
and outbox row together; `IgnoreWebhook` covers every event answered at once.
Stripe's side is external: a session is open, processing, paid, failed,
expired or refunded, and every change sends one event, which stays `unacked`
until a 2xx answer. `Crash` may come between any two steps. A database error in
a later step of a call leaves the same state as a crash and has no action of
its own. Partial refunds (ignored by the code, `!charge.refunded`) do not occur.

### OutboxRelay

`CreateRow` and `EndTransaction` separate the moment an outbox row is stamped
from the moment it commits. `Fetch`, `Publish`, `Mark`, `MarkFails` are a pass,
and passes overlap because the interval is not guarded. `buffer` is what
amqplib has accepted and the broker has not: `Publish` appends, `Arrive` takes.
`StartConsumer`, `Bind`, `SetHandler`, `Deliver`, `Handle`, `HandlerFails`,
`StopConsumer` are the consumer; `Deliver` acknowledges a message that has no
handler. Switches make the same module serve the different processes: `Ordered`
(only the skill worker sorts), `Requeues` (what the handler of each event name
may answer to a failure), and one switch for each kind of fault.

Who requeues is settled in four places. A result of a handler carries
`retryable`, and an error that is thrown carries its class's flag. The handler
of `user.verified` in es-proxy answers `retryable: true` to any error
(`eventConsumer.ts:39-44`). The other handlers of es-proxy throw, and its
`mapESError` makes no transient error. In the skill and notification services
even `TransientInfraError` passes false. Only the user service's one handler
distinguishes: a timeout or a lost connection comes back. So "at-least-once
delivery" holds of `user.verified` and not of a payment event, and
`EventDelivery` says both: events in `Retried` are handled in the end, the
others are handled or given up (`dropped` is the history of those).

### Connections and Notifications

| code | model |
|---|---|
| `user_connections`, unique on the ordered pair | `rows[p]`, `p` a set of two users |
| SendConnectionRequest, `upsert` | `Request` inserts, `RequestBack` accepts the row of the other user; the second request of one user fails and changes nothing |
| AcceptConnection, RejectConnection | `ReadRow` reads and checks, `Accept` and `Reject` are the transaction that writes by id |
| outbox rows | `outbox`, written in the same step as the row |
| handlers of `connection.*`, createNotification | `Receive`, `Create` (the transaction), `Incr` (the key in Redis, then the ack) |
| markRead | `OpenNote`, `BeginMark`, `Mark`, `CheckKey`, `Decr` |
| getUnreadCountForUser | `Miss`, `LoadCount`, `InsertCount`, `Fill` |
| MongoDB write conflicts | `Spoilt` marks the transactions on the same counter document; `WriteConflict` ends them |
| getNotificationsForUser | `Rows`, `NextCursor`, `Pages` |

`asked`, `doubled`, `dropped` and `disturbed` are history: who asked for a row,
how often a notification was read twice, which events were nacked for good, and
whose cached count a fault or an overlap has spoilt. One overlap is easy to
miss: two inserts of a user's first counter make two documents, and a commit
that counts in the one that is not shown (`~Counted`) leaves a key that agrees
with neither, also after both calls are through. Properties say what holds
always, and what holds for those they leave out. The two services share only
the outbox, so their steps commute; `Next` lets one rest while the other works.
Left out: mail, the push over the socket, the other kinds of notifications
(their handlers call the same `createNotification`).

### Gateway and Accounts

`Gateway` has no variables: `Protected` is the route table with its overrides,
`Verified` the token check (the key id names the role, the role chooses the
secret, applicants and experts share one), `Admits` the middleware. `Accounts`
asks it what a session opens (`May`).

| code | model |
|---|---|
| `users`, profiles, `expert_applications` | `users[e]` by email, `profiles`, `application` |
| a use case between its reads and its write | `call[c]`, with what it keeps of what it read |
| RegisterUser, RegisterExpert, CreateAdmin | `RegisterCheck`, `RegisterCreate`; `RegisterExpert`; `CreateAdmin` |
| GoogleAuth | `GoogleFind`, `GoogleCreate`, `GoogleLink`, `OpenSession` |
| LoginUser, GenerateAccessToken | `Login`, `OpenSession`; `Refresh`, `RefreshSign` |
| VerifyUser | `VerifyRead`, `VerifyWrite` (the whole row from the copy) |
| expert applications | `Submit`; `ReviewOpen`, `ApproveCheck`, `ApproveWrite`, `RejectWrite` |
| UpdateUserBlockStatus | `Block` |
| UpdateUsername, CheckUsernameAvailability, Bloom filter | `NameCheck`, `NameWrite`, `NameAdd`; `bloom` is filled again by `Crash` |

`sessions[e]` is the set of roles the account was ever given tokens for: nothing
revokes a token, so one that has expired is one nobody uses. `mixed` holds the
accounts that were written while another call held a copy of them; `outbox`
counts events by name. The unique columns (email, username, the application's
applicant) are guards; `CreateRefused` and `NameRefused` are the failed writes.

### SearchIndex

`Commit` and its uses (`Register`, `RegisterWithGoogle`, `Verify`,
`EditProfile`, `List`) append events to an outbox that `Relay` publishes in
order and `RelayUnmarked` publishes twice. `SaveSkills` and `PublishSkills` are
SkillProfileService, which has no outbox; `SkillServiceCrash` comes in between.
The consumer has no prefetch limit, so `HandleRegistered`, `HandleUpdate` and
`HandleListing` take any message of `queue`. `DropEarly` is an update that
finds no document, `Fail` any other failure; only `user.verified` is requeued,
because its handler asks for it whatever the error.
`ReindexCopy`, `ReindexSwitch` and `ReindexDies` are the reindex at start. A
start consumes at once and sets its handlers one after the other (`Restart`,
`ReindexSwitch`, `SetHandler`; the order is `HandlerOrder`); until a handler is
set, `AckUnhandled` may take its messages away, `user.registered` and
`user.verified` among them. A process that is being replaced handles messages
meanwhile, so `Handle` stays possible.

A profile is what a search reads of it: the languages and whether there is a
location. A location that an update does not name stays (`Merged`). Names and
usernames are read by no query and left out. `Recommended` is
getRecommendedUsers: `HasClauses` and `Fits` are the should clauses, of which one
has to match (shared language, offered for wanted, wanted for offered),
`Candidates` the query with and without them and with `ignoreUserIds`, `Hits`
the `size` best of the candidates. Scores come from Elasticsearch and are left
open: any candidates may be the best. The user is taken out after the cut, so a
user with a language, who matches the own query, takes one of the places
(`Places`): 19 recommendations are left of 20.
`astray` and `early` are history: fields whose events a fault lost, repeated or
reordered, and fields whose events came before the document.

### CohortSchedule and Workshops

`CohortSchedule` keeps the names of the source. A date is a day number, an
instant an hour, a zone a set of periods with an offset each: enough for a
change of the clocks, a skipped and a repeated hour. The earliest period has no
beginning, as every instant has an offset. `localDateTimeToUtc` is the three
rounds of the code, `Convertible` its failure for the offset that Intl prints
as "GMT". `WorkshopsAssumption` says of `Schedules` what
`scheduleSessionInputDTO` and `replaceWorkshopSessionsBodyDTO` validate: week,
weekday and order within a slot are numbers from 1, and no slot is taken twice.

`Workshops` has one workshop, its cohorts and `call`, the calls of an expert
between two of their steps: `ensureWorkshopIsNotFrozen`,
`getOwnedDraftWorkshop`, `WriteEdit`; `ReadForPublication`, `publishWorkshop`;
`PlanCohort` or `PlanMove`, `ensureNoOverlap`, `WriteCohort`; `PlanDeletion`,
`DeleteCohort`. `WriteEdit` and `publishWorkshop` write the whole document from
the copy that was read; `overwritten` records that this discarded another write.
Memberships are those of `Enrollment` and not repeated.

## 3. Runs

Passing runs:

| run | shows | bounds, and why they are enough |
|---|---|---|
| `EnrollmentRaces` | Two enrolments, two payment handlers, reservations that expire and capacity edits in every order: `PaidWithinPeak`, `SettledSuccessRemains`, `SnapshotsHold`, `GrantedFromReservation`. | A cohort with one seat that may become two and back; both learners can reserve it at once, so the second payment must be sent to reconciliation. Every race is between two transactions, and two of each kind are open. `SlowHandlers` is off: a reservation, good for ten minutes (`CohortService.ts:48`), does not run out while the handler that grants it, a matter of milliseconds, is open. |
| `EnrollmentRedelivery` | One reservation whose three events are duplicated, reordered, handled twice at once, with database errors, crashes and deletion of the cohort: `ActiveIsPaid`. | One membership, because no event mentions two; two handlers for overlapping copies; the clock passes both the end of the reservation and the start of the cohort. |
| `EnrollmentOverlaps` | Two enrolments and two expert calls at once, which is what sells a seat twice, gives a learner two seats and makes cohorts overlap: each goes as far as there are rivals and no further (`HeldBounded`, `SeatsBounded`, `ClashesBounded`). The bounds are tight: with one less, TLC refutes each of the three. | Three learners, three cohorts of one workshop with windows that share a day, three memberships: one more than two rivals can get past the checks, so that a check with a hole in it shows. Free and paid offers, a move of dates and capacity, one tick, after which reservations run out and the first windows begin. No payments: they come in the two runs above. |
| `PaymentWebhooks` | Calls, overlapping webhooks, delayed methods, a crash: `OutboxMatchesRow`, `RowAgreesWithStripe`, `SharedSessionIsKnown`, and that what is read still holds when it is written (`InFlightHolds`). | Two memberships, three sessions, so that one membership can lose a session and open another. |
| `PaymentLifecycle` | Without overlapping deliveries of one event the table implements `PaymentLifecycle`, and every capture and refund is published (`CaptureIsPublished`). | As above. |
| `OutboxOrder` | The sorting worker never lets an event overtake one it depends on (`CausalOrder`), with overlapping passes, restarts, lost buffers and a consumer that starts late. | Two events (one before, one after), two passes, two faults. |
| `OutboxDelivery` | `EventDelivery` with es-proxy as the consumer and a malformed row among the others: it never stops the good rows for ever, a failing `user.verified` is handled in the end, a failing `user.profileUpdated` may be given up; a row is PROCESSED only after publish (`ProcessedIsPublished`). | One row of each kind, so that a batch of two leaves one behind; two faults (each failing step can be retried and fail again). One pass at a time: overlapping passes are in `OutboxOrder`, and only add copies of a message. |
| `ConnectionNotices` | Connections and their notifications: `AcceptedByBoth`, `OutboxTellsFate`; `CounterAddsUp`, `CacheFollows`, `EveryEventTold`, `PagesMissBoundaries`. | Two users (a row has two), two answers at once, three events so that a row can be asked for, answered and asked for again; two jobs, because every race is between two; two deliveries, which may be of one event; pages of one row, the smallest with a boundary. One fault of any kind. |
| `AccountReviews` | Accounts, sessions, reviews and names: `AccountSettled`, `EventsTellAccount`, `RoutesAreEarned`, `SignedIsCurrent`, `BloomCoversNames`. | One account and one administrator; two calls, since each race is between a call and one more; one username, which the two accounts compete for; one change of the block status. Restarts are not bounded. |
| `SearchFollows` | `IndexFollows`, `RecommendsStrangers`, and that a verification reaches the search in the end (`VerifiedReachesSearch`) unless it or the registration was lost, to a failure or to a consumer without handlers, or handled again. | Two users and a workshop; two skill profiles that fit in one direction only; one language, with and without a location; up to two hits (`PageSize`), so that the user's own hit can take the last place and the cut matters; four events, enough for a registration, a verification and two updates of one field; one fault, which is a repeated event, a failure, a start or a reindexing. |
| `WorkshopCohorts` | `OfferedAsPublished`, `SessionsOnTime`. | Two calls and two cohorts; six schedules with a skipped hour, a repeated hour, two sessions a day, two weeks, offset zero, and no session in week 1; start dates before, in and after the week of the change; three edits. |

One run has a property that TLC refutes: `EnrollmentLostPayment` shows
`SuccessNotDropped` violated. A `payment.succeeded` that meets a write conflict
is nacked without requeue although the error class is documented as retryable;
with no dead letter queue the paid reservation is never granted.

Bounds, by name: `MaxMemberships` (ids drawn), `MaxTime` (ticks), `MaxSessions`
(Stripe sessions), `MaxCrashes`, `MaxFaults`, `Limit` (PENDING_FETCH_LIMIT),
`MaxEvents` and `MaxCommits` (events committed), `MaxRelays` (deliveries),
`PageSize` (hits of a search), `MaxCalls` (client calls), `MaxBlocks` (changes of a block status) and
`MaxEdits` (edits of a workshop). Symmetry is used only in runs of safety properties, over
interchangeable learners, requests, handlers, cohorts of one workshop, expert
calls or passes. Deadlock is not
checked: once ids, ticks and faults are used up, the system may really stop.

Disagreements with what the repository says (each in `PROJECT.json`,
"findings", with its line):

- Enrolment and payments. Two enrolments both count no held seat and both
  commit, so a free cohort with one seat gets two active students; the same for
  one learner in two cohorts of a workshop. A delayed payment method ends in
  `async_payment_succeeded`, which no case handles: the capture is never
  published. deleteCohort races with an enrolment between its count and its
  delete; two expert calls at once create overlapping cohorts; a repeated
  `checkout.session.completed`, read before a refund commits and written after
  it, turns REFUNDED back into SUCCEEDED (`LifecycleSpec` is checked without
  overlapping deliveries of one event).
- Relay. A consumer that restarts acknowledges waiting messages before their
  handlers are set (`GoneWasHandled` of `OutboxRelay`); after the broker closes
  the connection the worker stays up with a closed channel and publishes
  nothing more (`PendingIsPublished`); a worker may exit with messages in its
  buffer after it marked them. A handler that fails drops its message, in the
  skill and notification services always and in es-proxy for all events but
  `user.verified`, where the docs promise at-least-once delivery.
- Connections. A rejection deletes a connection that was accepted since it was
  read; a second request of the same user ends with a TypeError.
- Notifications. The page cursor skips one row at each boundary; a duplicate
  event makes a second notification; two markRead calls count down twice; a
  missing key is incremented from zero; two events for one user conflict, and
  one of them is dropped.
- Accounts. VerifyUser writes a stale block status and role back; an approval
  and a rejection at once both commit; a refresh token of a blocked account
  keeps producing access tokens.
- Search. Recommendations by location alone name people already connected to; a
  consumer that starts acknowledges a waiting `user.registered` or
  `user.verified`, and the verified user is not found; a
  skill profile is published without the outbox; a reindex loses what the
  replaced process writes; a repeated `user.registered` wipes the document.
- Workshops. An edit that was read before the publication makes a published
  workshop a draft; a zone at offset zero cannot be scheduled; a workshop whose
  sessions start in week 2 can be published, but never gets a cohort.

The models of the first two groups allow all of this: setting the constants
back (`Deletable`, `LossyStops`, `Overlap`, `DelayedMethods`, `Restarts`,
`BrokerCloses`, `SlowHandlers`) lets TLC find each one; the races of enrolments
and of expert calls are in `EnrollmentOverlaps`. In the other
modules the races are always allowed; the history variables say to whom they
happened.

### Fairness

- `PaymentSession!Fairness`: Stripe delivers an event again until it gets a 2xx
  answer (its documented contract; the code answers with an error when it
  cannot find or save the payment), and a webhook that was read is committed
  unless the service stops. Crashes are bounded. Nobody has to pay or to call.
- `OutboxRelay!Fairness`: the interval fires for ever (`setInterval`), calls
  that were started return, the broker takes what is in the buffer and delivers
  what is in the queue, and the consumer's start-up runs to its end. Nothing
  forces a restart of a worker that is running, so once the broker has closed
  its connection nothing is owed any more: `OutboxDelivery` has `BrokerCloses`
  and `Restarts` off, and `PendingIsPublished` fails with it on. Failed updates and failing handlers are
  bounded by `MaxFaults`.
- `SearchIndex!Fairness`: the outbox worker's interval goes on for ever, the
  broker delivers what is in the queue again and again, and a process that
  started a reindex ends it one way or the other and sets its handlers, since
  `startConsumer` awaits nothing but the broker. Weak fairness is enough:
  a requeued `user.verified` waits until its document is there, and that step
  then stays possible. Nobody has to register or edit.
- `Enrollment`, `Connections`, `Notifications`, `Accounts` and `Workshops` are
  checked for safety only: their calls are made by people.

## 4. Proofs

### Enrollment

`EnrollmentProofs` proves, for any number of learners, cohorts, requests,
handlers and memberships, and from `EnrollmentAssumption`:

| theorem | states | also assumes |
|---|---|---|
| `TypeCorrect` | `Spec => []TypeOK` | |
| `SnapshotsCorrect` | `Spec => []SnapshotsHold` | |
| `SettledCorrect` | `Spec => []SettledSuccessRemains` | |
| `GrantCorrect` | `Spec => GrantedFromReservation` | |
| `ActiveSeatsPaid` | `Spec => []ActiveIsPaid` | |
| `PaidSeatsFit` | `Spec => []PaidWithinPeak` | `~SlowHandlers` |
| `HeldSeatsBounded` | `Spec => []HeldBounded` | |
| `LearnerSeatsBounded` | `Spec => []SeatsBounded` | |
| `CohortClashesBounded` | `Spec => []ClashesBounded` | |

The argument. `SettledSuccessRemains` is not inductive: nothing in it stops a
transaction that was opened before the payment was applied from committing an
expiry. What stops it is that the payment's commit dooms that transaction.
`SnapshotsHold` says so: for every transaction that is not doomed, what it will
write still fits what the collection holds (`WritesHold`); ids not yet drawn
name nothing (`FreshIds`), so a new reservation meets nobody; and a success in
flight is recorded by its writes or already (`SuccessInFlight`). The inductive
invariant is `IInv == TypeOK /\ SnapshotsHold /\ SettledSuccessRemains`. The
proof has one lemma per group of actions; `Commit` is the hard one, since it
changes documents and dooms others in the same step. `GrantCorrect` follows from
`WritesHold` at the commit. Everything below stands on `IInv`.

- `ActiveSeatsPaid`: `PaidHolds` says that whoever is about to write "active"
  to a paid membership is handling its success, and that a refund is written, or
  will be by the handler that has it, as a status no seat comes back from.
- `PaidSeatsFit`: the seats to count are the paid ones and those that an open
  handler is about to grant (`SeatsPaid`). Two handlers of one cohort write
  different documents, so neither dooms the other; what keeps them apart is that
  each counts every reservation that has not run out, the other's included. One
  that runs out while its own handler is open is missing from the next handler's
  count, and then both are granted. A first attempt at this proof failed there,
  and TLC finds the run: one paid student too many. Hence the hypothesis, the
  constant, and `GrantsAreFresh` in the invariant.
- `HeldSeatsBounded` and `LearnerSeatsBounded`: what an enrolment counted may be
  wrong when it commits, as other enrolments write other documents and doom
  nobody. The invariants therefore count ahead: for every set of open requests
  that may commit first, the seats held after that (`TakenAfter`, `SeatsAfter`)
  are within the bound. A request adds one seat at most (`AddsOne`), so a set of
  them adds no more than there are requests (`FewAdded`); the one that passed the
  check last saw at most all seats but one taken, and the others can each have
  added one since. Payments, expiries and edits turn held seats into held seats
  or free them, and a handler that grants a reservation which one of the set
  expires is doomed by it.
- `CohortClashesBounded`: a cohort has the window that is stored and those that
  open calls are about to write (`Windows`). Of windows that meet two by two, at
  most one for each expert call (`ClashesFew`): a call checked all that are
  stored, so what its own meets is what the others have planned.

With one request, or one call, at a time the bounds are what the error messages
promise: no cohort is oversold, no learner has a second seat, no cohorts overlap.

### PaymentSession

`PaymentSessionProofs` proves, for any number of memberships, calls, webhooks,
sessions and crashes, from `PaymentAssumption`:

- `TypeCorrect`, `InFlightCorrect`, `RowCorrect`, `SessionCorrect`,
  `OutboxCorrect`: `Spec` keeps `TypeOK`, `InFlightHolds`,
  `RowAgreesWithStripe`, `SharedSessionIsKnown` and `OutboxMatchesRow`;
- `LifecycleCorrect`: with `~Overlap` and `~IntentAtCreation`, `Spec`
  implements `PaymentLifecycle`.

The argument. Neither call nor webhook locks the row between its read and its
write; what keeps the copy good is `InFlightHolds`: a call at Stripe is the only
one for its payment, and that payment has no session, so no webhook can find it
and no learner can pay it (`CallsHold`); a webhook in flight is about the
session its payment still has, and moves it to what Stripe said (`HooksHold`);
what Stripe said of a session stays true of it (`SentHolds`). Types depend on
it too: that what is published is a decision. `OutboxHolds` adds that a payment
has events exactly from its first decision on, and that the last one is its
status. For the refinement, `StatusHolds` adds that the status a webhook read
has not changed when it commits, because two webhooks in flight for one payment
would be deliveries of the same event (`OneHookPerPayment`). Both hypotheses are
needed: with overlapping deliveries a stale `SUCCEEDED` overwrites `REFUNDED`,
and with an intent that is known at creation a refund that arrives before the
completed checkout moves `PENDING` straight to `REFUNDED`.

### OutboxRelay

`OutboxRelayProofs` proves, for any events, passes, batch size and number of
faults, from `RelayAssumption`:

- `RelayTyped`: `Spec => []TypeOK`;
- `ProcessedPublished`: with `~LossyStops`, `Spec => []ProcessedIsPublished`;
- `CausalOrderAlways`: with `Ordered`, `Spec => []CausalOrder`;
- `RelayDelivers`: `Spec => Delivery!Safety`, every step of the relay is a step
  of `EventDelivery` or none.

The argument. `CausalOrder` is about two events that have reached the broker;
an earlier state of the same two events is one in a pass and one in the buffer,
or both in one pass, or one in each of two overlapping passes. `Sorted` says, of
each row in a pass, in the buffer or at the broker and of each row that comes
before it, that the latter is earlier there, or further on, or lost for good.
Lost for good is a row that was marked and is nowhere (`Gone`); a worker that
stops with messages in its buffer makes such rows, and `LostForGood` says that no
later pass brings one back. `UnderWay` says that only committed rows are on the
way; `LeftBeforeMark`, that the row a pass is about to mark has left. A row is
then PROCESSED only after its message arrived or is in the buffer (`Published`),
as long as nothing leaves the buffer but to the broker, which is the hypothesis
`~LossyStops`.

### Connections and Notifications

`NotificationsProofs` proves, for any number of users, answers, handlers, calls
and events and every page size, from `ConnectionsAssumption` and
`NotificationsAssumption`:

- of `ConnectionsSpec`, the user service alone: `ConnectionsTyped`,
  `AcceptedByBothAlways`, `FateToldAlways` (the types, `AcceptedByBoth`,
  `OutboxTellsFate`);
- `NotificationsLeaveConnections`: `Spec => ConnectionsSpec`, so the composition
  implements the user service, and `ConnectionsHoldTogether` carries the two
  invariants over;
- `NotificationsTyped`, `CountersAddUp`, `EventsAlwaysTold`,
  `CacheAlwaysFollows`, `PagesAlwaysMissBoundaries`: `Spec` keeps `TypeOK`,
  `CounterAddsUp`, `EveryEventTold`, `CacheFollows` and `PagesMissBoundaries`.

The argument for the connections. Nothing locks a row between the read of an
answer and its write by id. What makes the write safe is that an id never names
two pairs (`RowsHold`: ids are drawn upward and each pair's row has its own),
that an answer in flight carries an id that was its pair's when it was read
(`AnswersHold`), and that each event in the outbox is about an id that was drawn
(`EventsHold`). A row an answer accepts was then asked for by the other user,
or has been accepted, and a row that is gone has an event that says so. The
outbox is a sequence; the proof reads it only through the set of what it says
(`Says`), which one append extends by one element.

The argument for the notifications. `JobsHold`, `NotesHold` and
`DeliveriesHold` say which notification, counter document and event a job
holds, and that deliveries in the queue and in jobs do not exceed what was sent.
`CountersAddUp` then needs no more than the types: each transaction changes the
number of unread notifications and the documents' sum by the same amount, or is
noted in `doubled`; the sum is a fold, and `Sums` says what one change or one new
document does to it. `EventsTold` keeps, for every event sent, that a delivery
waits, a job has it, a notification tells it, or it was dropped.
`CacheAlwaysFollows` is the largest: for a user that nothing disturbed, the key
differs from the count by what the jobs between their commit and their step in
Redis still owe, all in one direction (`KeyHolds`), and a fill that will write
holds a number that is still right, or has been marked as overlapped
(`FillsFresh`). It failed at first on the document that is not the one shown,
described in section 2.

`PagesMissBoundaries` has no steps to argue about, but a recursion: the walk
calls itself with the cursor of the next page. Two inductions are done as
minimal counterexamples. The cursors fall, so the recursive definition has a
function (`WalkExists`, `WalkTurns`); and the pages from a cursor on show all
notifications below it but each (limit + 1)-th (`WalksHold`), because the cursor
of the next page is the notification of rank limit + 1 (`PageBefore`), the page
itself is what ranks above it, and ranks below it start again (`RankBelow`).

### Accounts

`AccountsProofs` proves, for any emails, staff, usernames and number of calls at
once, from `AccountsAssumption`:

- `AccountsTyped`, `RoutesEarned`, `EventsTell`, `UnmixedSettled`,
  `BloomCovers`: `Spec` keeps `TypeOK`, `RoutesAreEarned`, `EventsTellAccount`,
  `AccountSettled` and `BloomCoversNames`;
- `SignedCurrent`: `Spec` implies the action property `SignedIsCurrent`.

The argument. None of the properties is inductive, because each use case writes
or signs by a copy. The invariant says of every email what its rows, events and
tokens have to do with each other (`EmailHolds`), and of every call what it
relies on (`CallHolds`), each in two parts: what is true in any case (a role
`EXPERT`, even in a stale copy, means that an approval was committed; an account
that can apply has no user profile), and what is true as long as the account is
not `mixed` (the copy is the row). Writes keep the first part, because the facts
it is made of only grow (`Grows`, `CallGrows`), and may lose the second, but then
`Touch` has put the account into `mixed`. That is how a stale row that
`VerifyUser` writes back takes no route from `RoutesAreEarned` although it takes
a role away. `NamesHold` says that a username is in the filter or about to be,
in the copies too, since a verification can write an old name back. `WriteHolds`
is the step of every write; each action's lemma only shows what is its own.

### SearchIndex

`SearchIndexProofs` proves, for any users, listings, skill profiles, commits and
faults, languages, profiles and sizes of a page, from `SearchIndexAssumption`
and `EditsAssumption`: `SearchTyped`, `IndexAlwaysFollows` and
`StrangersRecommended` (`TypeOK`, `IndexFollows`, `RecommendsStrangers`).

The argument. `TypesHold` says that every message on its way is of a change that
was committed. `FollowHolds` says, field by field and for a field that nothing
spoilt, where the committed value is: in the document, and all messages of the
field are older or copies of it (`Settled`), or in the newest of them
(`Coming`). Nothing is on its way for a user who is not registered (`NewUser`),
and an index that is being filled agrees with the one behind the alias but for
fields that were written meanwhile, which are astray (`CopyHolds`,
`ListingHolds`). A location is kept by both sides, so one that is in a message
or in a document was committed (`Located`). For the recommendations, two users
whose fields are up to date are in the index as the services have them; who fits
is then a candidate, and is cut only if the page is full, of which the user's
own document takes a place exactly when the user has a language, because skills
offered and wanted are disjoint.

### Workshops

`WorkshopsProofs` proves, for any number of calls, cohorts, schedules and edits,
from `WorkshopsAssumption`:

- `WorkshopsTyped`: `Spec => []TypeOK`;
- `OfferedAlwaysAsPublished`: `Spec => []OfferedAsPublished`;
- `SessionsAlwaysOnTime`: `Spec => []SessionsOnTime`, if the clocks of every
  time zone in use change further apart than its offsets are from each other and
  from zero (`Spaced`). In the tz database a period lasts weeks and an offset is
  at most 16 hours away, and TLC's zones satisfy it too.

The argument. Calls write whole documents from copies, so the invariant
(`InvAlways`) says of each call in flight what its copy is worth: an edit holds
a draft, a publication a draft that is ready, and a plan of a cohort dates that
belong to the document of today unless that was overwritten (`CallsHold`);
`CohortsHold` and `AnnouncedHolds` say the same of the cohorts that are offered
and of the last event, `WorkshopHolds` that what is published is ready. For the sessions there are lemmas about `CohortSchedule` itself: the
sorted schedule has an earliest session, each date falls on the weekday of its
slot (`OnItsWeekday`), and with `Spaced` two offsets at most come near a local
time, so that the three rounds of `localDateTimeToUtc` end at an instant whose
clock shows that time, unless the clocks skip it (`ThreeRoundsAreEnough`).

### Sums

`Sums` holds the lemmas about `SumFunction`, which the community modules define
as a fold: what it is of an empty function, of integers, of naturals, and after
one value has changed. They are proved by the least counterexample
(`MinIsLeast`, `MinimalSet`), since an induction theorem with an operator as its
parameter cannot be used here.

### What is only model-checked

Every invariant and action property of the passing runs is stated by a theorem.
Left to TLC, because the prover has no rules for it: liveness
(`CaptureIsPublished`, `VerifiedReachesSearch`, and the part of `DeliverySpec`
that says what is handled in the end). `SuccessNotDropped` is refuted and so has
no theorem. The operators of `Gateway` are tables; `RoutesEarned` reaches
through them.

## 5. Not modelled, and the plan

Not modelled, because nothing in them depends on an order of steps or on more
than one piece of state:

- the websocket gateway: it joins a socket to the room of its user, emits what
  Redis carries, and keeps nothing else;
- mail, request validation and DTOs, read endpoints, presigned uploads: they
  read, convert or call out, and no property is about their wording;
- the catalogue of skills and the profile row of an administrator: written once
  and read by no step of these models;
- the text search of es-proxy: how Elasticsearch ranks is not in this code;
- dependency wiring, infrastructure manifests, seed scripts.

What is left to do, in this order:

1. An abstract specification of a connection's life (asked, accepted, gone) and
   the refinement, where no answer overlaps another.
2. An abstract specification of a seat (free, reserved, paid, given back), with
   the races of `EnrollmentRaces` allowed, and the refinement by `Enrollment`.
3. Refinement mappings between the modules that meet: that the events
   `PaymentSession` puts into its outbox, carried by `OutboxRelay`, are events
   the environment of `Enrollment` allows.
