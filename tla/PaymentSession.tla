---------------------------- MODULE PaymentSession ----------------------------
(***************************************************************************)
(* The payments service: PaymentSessionService over its payments and       *)
(* outbox_events tables, with Stripe as its environment.                   *)
(*                                                                         *)
(* createCheckoutSession is three steps (row, Stripe call, row update) and *)
(* a webhook is two (read the payment, then write it back together with an *)
(* outbox row in one transaction), so calls, webhooks and crashes          *)
(* interleave between them.  The unique index on membership_id makes the   *)
(* payments table a function of the membership; a Stripe session and its   *)
(* payment intent share an id; a row has a checkout_url exactly when it    *)
(* has a session.                                                          *)
(***************************************************************************)
EXTENDS Integers, Sequences, FiniteSets

CONSTANTS
  Members,           \* memberships a payment can be for
  Calls,             \* createCheckoutSession calls open at once
  Hooks,             \* webhook requests open at once
  MaxSessions,       \* bound on the sessions Stripe creates
  MaxCrashes,        \* bound on the crashes of the service
  DelayedMethods,    \* whether learners may use delayed payment methods
  IntentAtCreation,  \* whether Stripe returns the intent with the session
  Overlap            \* whether Stripe may deliver an event while an earlier
                     \* delivery of it is still being handled

ASSUME PaymentAssumption ==
  /\ Members # {}
  /\ MaxSessions \in Nat /\ MaxCrashes \in Nat
  /\ {DelayedMethods, IntentAtCreation, Overlap} \subseteq BOOLEAN

VARIABLES
  row,      \* the payments table
  outbox,   \* the outbox_events table, in commit order
  call,     \* createCheckoutSession calls
  hook,     \* webhooks between their read and their transaction
  stripe,   \* Stripe's sessions
  sent,     \* events Stripe has sent at least once
  unacked,  \* events Stripe has had no 2xx answer for
  crashes   \* crashes so far

service == <<row, outbox, call, hook>>
vars == <<row, outbox, call, hook, stripe, sent, unacked, crashes>>

Sessions == 1..MaxSessions
NoSession == 0

Decided == {"SUCCEEDED", "FAILED", "REFUNDED"}
Row == [status : {"PENDING"} \cup Decided, session : Sessions \cup {NoSession},
        intent : BOOLEAN]
NoRow == [status |-> "none"]
NewRow == [status |-> "PENDING", session |-> NoSession, intent |-> FALSE]

SessionStates == {"none", "open", "processing", "paid", "failed", "expired",
                  "refunded"}
HookTypes == {"paid", "unpaid", "async_succeeded", "async_failed", "expired",
              "refunded"}
HookEvent == [type : HookTypes, session : Sessions]
OutboxEvent == [type : Decided, member : Members]

IdleCall == [stage |-> "idle"]
Call == {IdleCall}
        \cup [stage : {"stripe"}, member : Members, existing : BOOLEAN]
        \cup [stage : {"store"}, member : Members, session : Sessions]

IdleHook == [stage |-> "idle"]
Hook == {IdleHook} \cup [stage : {"commit"}, event : HookEvent,
                         member : Members, next : Row]

StripeSession == [state : SessionStates, member : Members \cup {NoSession},
                  shared : BOOLEAN]

HasRow(m) == row[m].status # "none"

Init ==
  /\ row = [m \in Members |-> NoRow]
  /\ outbox = <<>>
  /\ call = [c \in Calls |-> IdleCall]
  /\ hook = [w \in Hooks |-> IdleHook]
  /\ stripe = [s \in Sessions |->
                 [state |-> "none", member |-> NoSession, shared |-> FALSE]]
  /\ sent = {} /\ unacked = {}
  /\ crashes = 0

-----------------------------------------------------------------------------
(* createCheckoutSession                                                   *)

(* Nobody but the open transaction that drew a membership id knows it, so  *)
(* calls for one membership overlap only when its session exists.          *)
MayCall(c, m) ==
  /\ call[c] = IdleCall
  /\ \A d \in Calls : call[d] # IdleCall => call[d].member # m

(* Mutant: a pending payment goes to Stripe again although it has a session*)
OpenPaymentAgain(c, m) ==
  /\ MayCall(c, m)
  /\ HasRow(m) => row[m].status = "PENDING"
  /\ row' = [row EXCEPT ![m] = IF HasRow(m) THEN @ ELSE NewRow]
  /\ call' = [call EXCEPT ![c] = [stage |-> "stripe", member |-> m,
                                  existing |-> HasRow(m)]]
  /\ UNCHANGED <<outbox, hook, stripe, sent, unacked, crashes>>

(* No payment yet, or one whose session was never stored: insert the row   *)
(* and go to Stripe.  A decided payment is refused and changes nothing.    *)
OpenPayment(c, m) ==
  /\ MayCall(c, m)
  /\ HasRow(m) => row[m].status = "PENDING" /\ row[m].session = NoSession
  /\ row' = [row EXCEPT ![m] = IF HasRow(m) THEN @ ELSE NewRow]
  /\ call' = [call EXCEPT ![c] = [stage |-> "stripe", member |-> m,
                                  existing |-> HasRow(m)]]
  /\ UNCHANGED <<outbox, hook, stripe, sent, unacked, crashes>>

Share(s) == stripe' = [stripe EXCEPT ![s].shared = TRUE]

(* A pending payment with a checkout URL: return the same session.         *)
ReuseSession(c, m) ==
  /\ MayCall(c, m)
  /\ row[m].status = "PENDING" /\ row[m].session # NoSession
  /\ Share(row[m].session)
  /\ UNCHANGED <<service, sent, unacked, crashes>>

Created(s) == stripe[s].state # "none"
NextSession(s) == ~Created(s) /\ \A q \in Sessions : q < s => Created(q)
CreateSession(s, m) ==
  stripe' = [stripe EXCEPT ![s] = [state |-> "open", member |-> m,
                                   shared |-> FALSE]]

StripeAnswers(c, s) ==
  /\ call[c].stage = "stripe"
  /\ NextSession(s)
  /\ CreateSession(s, call[c].member)
  /\ call' = [call EXCEPT ![c] = [stage |-> "store",
                                  member |-> call[c].member, session |-> s]]
  /\ UNCHANGED <<row, outbox, hook, sent, unacked, crashes>>

(* Stripe's answer is an error, or is lost after the session was created:  *)
(* a row this call inserted is deleted again.                              *)
StripeFails(c) ==
  LET m == call[c].member IN
  /\ call[c].stage = "stripe"
  /\ \/ UNCHANGED stripe
     \/ \E s \in Sessions : NextSession(s) /\ CreateSession(s, m)
  /\ row' = [row EXCEPT ![m] = IF call[c].existing THEN @ ELSE NoRow]
  /\ call' = [call EXCEPT ![c] = IdleCall]
  /\ UNCHANGED <<outbox, hook, sent, unacked, crashes>>

(* The whole row is written from the copy the call holds, then the URL is  *)
(* returned.                                                               *)
StoreSession(c) ==
  LET m == call[c].member s == call[c].session IN
  /\ call[c].stage = "store"
  /\ row' = [row EXCEPT ![m] =
               IF HasRow(m) THEN [NewRow EXCEPT !.session = s,
                                                !.intent = IntentAtCreation]
               ELSE @]
  /\ Share(s)
  /\ call' = [call EXCEPT ![c] = IdleCall]
  /\ UNCHANGED <<outbox, hook, sent, unacked, crashes>>

-----------------------------------------------------------------------------
(* handleStripeWebhook                                                     *)

(* The row mapWebhookToTransition looks up: by session id, or by payment   *)
(* intent for a refund.                                                    *)
Lookup(e) ==
  {m \in Members : /\ HasRow(m) /\ row[m].session = e.session
                   /\ e.type = "refunded" => row[m].intent}

(* Mutant: an expired session is stored under Stripe's name for it.        *)
TargetRaw(e, status) ==
  CASE e.type = "paid" /\ status \notin {"SUCCEEDED", "REFUNDED"} ->
         {"SUCCEEDED"}
    [] e.type \in {"expired", "async_failed"} /\ status = "PENDING" ->
         {e.type}
    [] e.type = "refunded" /\ status # "REFUNDED" -> {"REFUNDED"}
    [] OTHER -> {}

(* Mutant: payment_status is not looked at when a checkout completes.      *)
TargetUnpaid(e, status) ==
  CASE e.type \in {"paid", "unpaid"} /\ status \notin {"SUCCEEDED", "REFUNDED"}
         -> {"SUCCEEDED"}
    [] e.type \in {"expired", "async_failed"} /\ status = "PENDING" ->
         {"FAILED"}
    [] e.type = "refunded" /\ status # "REFUNDED" -> {"REFUNDED"}
    [] OTHER -> {}

(* Mutant: a completed checkout forgets to look for a refund.              *)
TargetOverRefund(e, status) ==
  CASE e.type = "paid" /\ status # "SUCCEEDED" -> {"SUCCEEDED"}
    [] e.type \in {"expired", "async_failed"} /\ status = "PENDING" ->
         {"FAILED"}
    [] e.type = "refunded" /\ status # "REFUNDED" -> {"REFUNDED"}
    [] OTHER -> {}

(* The status an event moves a payment to; nothing for an event that is    *)
(* ignored.                                                                *)
Target(e, status) ==
  CASE e.type = "paid" /\ status \notin {"SUCCEEDED", "REFUNDED"} ->
         {"SUCCEEDED"}
    [] e.type \in {"expired", "async_failed"} /\ status = "PENDING" ->
         {"FAILED"}
    [] e.type = "refunded" /\ status # "REFUNDED" -> {"REFUNDED"}
    [] OTHER -> {}

MayReceive(w, e) ==
  /\ hook[w] = IdleHook
  /\ Overlap \/ \A v \in Hooks : hook[v] # IdleHook => hook[v].event # e

(* Answered at once: a type no case handles, a checkout that is not paid   *)
(* yet, or a payment the event has nothing to say about.                   *)
IgnoreWebhook(w, e) ==
  /\ MayReceive(w, e)
  /\ \/ e.type \in {"unpaid", "async_succeeded"}
     \/ \E m \in Lookup(e) : Target(e, row[m].status) = {}
  /\ unacked' = unacked \ {e}
  /\ UNCHANGED <<service, stripe, sent, crashes>>

(* Mutant: Stripe gets its 2xx answer before the transaction has committed.*)
ReadPaymentAcked(w, e) ==
  /\ MayReceive(w, e)
  /\ \E m \in Lookup(e) : \E status \in Target(e, row[m].status) :
       hook' = [hook EXCEPT ![w] =
                  [stage |-> "commit", event |-> e, member |-> m,
                   next |-> [row[m] EXCEPT !.status = status,
                                !.intent = @ \/ e.type # "expired"]]]
  /\ unacked' = unacked \ {e}
  /\ UNCHANGED <<row, outbox, call, stripe, sent, crashes>>

(* The payment is read, and the next row made from that copy, before the   *)
(* transaction begins.  An event whose payment is not found is answered    *)
(* with an error and stays unacked.                                        *)
ReadPayment(w, e) ==
  /\ MayReceive(w, e)
  /\ \E m \in Lookup(e) : \E status \in Target(e, row[m].status) :
       hook' = [hook EXCEPT ![w] =
                  [stage |-> "commit", event |-> e, member |-> m,
                   next |-> [row[m] EXCEPT !.status = status,
                                !.intent = @ \/ e.type # "expired"]]]
  /\ UNCHANGED <<row, outbox, call, stripe, sent, unacked, crashes>>

Receive(w, e) == IgnoreWebhook(w, e) \/ ReadPayment(w, e)

(* Mutant: the row is updated without its outbox row.                      *)
CommitWithoutEvent(w) ==
  LET m == hook[w].member IN
  /\ hook[w].stage = "commit"
  /\ row' = [row EXCEPT ![m] = IF HasRow(m) THEN hook[w].next ELSE @]
  /\ unacked' = unacked \ {hook[w].event}
  /\ hook' = [hook EXCEPT ![w] = IdleHook]
  /\ UNCHANGED <<outbox, call, stripe, sent, crashes>>

(* Both rows in one transaction; then the 2xx answer.                      *)
CommitWebhook(w) ==
  LET m == hook[w].member IN
  /\ hook[w].stage = "commit"
  /\ row' = [row EXCEPT ![m] = IF HasRow(m) THEN hook[w].next ELSE @]
  /\ outbox' = Append(outbox, [type |-> hook[w].next.status, member |-> m])
  /\ unacked' = unacked \ {hook[w].event}
  /\ hook' = [hook EXCEPT ![w] = IdleHook]
  /\ UNCHANGED <<call, stripe, sent, crashes>>

(* The service stops between any two steps.                                *)
Crash ==
  /\ crashes < MaxCrashes
  /\ crashes' = crashes + 1
  /\ call' = [c \in Calls |-> IdleCall]
  /\ hook' = [w \in Hooks |-> IdleHook]
  /\ UNCHANGED <<row, outbox, stripe, sent, unacked>>

-----------------------------------------------------------------------------
(* Stripe and the learner, who can pay only a session whose URL was        *)
(* returned.  Every change of a session sends an event.                    *)

StripeMove(s, from, to, type) ==
  LET e == [type |-> type, session |-> s] IN
  /\ stripe[s].state = from
  /\ stripe' = [stripe EXCEPT ![s].state = to]
  /\ sent' = sent \cup {e}
  /\ unacked' = unacked \cup {e}
  /\ UNCHANGED <<service, crashes>>

Pay(s) == stripe[s].shared /\ StripeMove(s, "open", "paid", "paid")
PayLater(s) == /\ DelayedMethods /\ stripe[s].shared
               /\ StripeMove(s, "open", "processing", "unpaid")
Clear(s) == StripeMove(s, "processing", "paid", "async_succeeded")
Bounce(s) == StripeMove(s, "processing", "failed", "async_failed")
Expire(s) == StripeMove(s, "open", "expired", "expired")
Refund(s) == StripeMove(s, "paid", "refunded", "refunded")

Settle(s) ==
  Pay(s) \/ PayLater(s) \/ Clear(s) \/ Bounce(s) \/ Expire(s) \/ Refund(s)

Next ==
  \/ \E c \in Calls, m \in Members : OpenPayment(c, m) \/ ReuseSession(c, m)
  \/ \E c \in Calls, s \in Sessions : StripeAnswers(c, s)
  \/ \E c \in Calls : StripeFails(c) \/ StoreSession(c)
  \/ \E w \in Hooks, e \in sent : IgnoreWebhook(w, e) \/ ReadPayment(w, e)
  \/ \E w \in Hooks : CommitWebhook(w)
  \/ \E s \in Sessions : Settle(s)
  \/ Crash

(* Stripe delivers an event until it is acknowledged, and a webhook that   *)
(* was read is committed unless the service stops.                         *)
Fairness ==
  /\ \A e \in HookEvent :
       WF_vars(e \in unacked /\ \E w \in Hooks : Receive(w, e))
  /\ \A w \in Hooks : WF_vars(CommitWebhook(w))

Spec == Init /\ [][Next]_vars
FairSpec == Spec /\ Fairness

-----------------------------------------------------------------------------
(* Properties.                                                             *)

(* Rows, calls and webhooks in flight, and sessions have their types.      *)
TypeOK ==
  /\ row \in [Members -> Row \cup {NoRow}]
  /\ outbox \in Seq(OutboxEvent)
  /\ call \in [Calls -> Call]
  /\ hook \in [Hooks -> Hook]
  /\ stripe \in [Sessions -> StripeSession]
  /\ unacked \subseteq sent /\ sent \subseteq HookEvent
  /\ crashes \in 0..MaxCrashes

LastEvent(m) ==
  LET mine == {i \in 1..Len(outbox) : outbox[i].member = m}
  IN IF mine = {} THEN "PENDING"
     ELSE outbox[CHOOSE i \in mine : \A j \in mine : j <= i].type

(* The outbox tells the story of the payments table: the last event of a   *)
(* payment is its status, even when webhooks handled at once overwrite     *)
(* each other's rows.                                                      *)
OutboxMatchesRow ==
  \A m \in Members :
    IF HasRow(m) THEN LastEvent(m) = row[m].status
    ELSE LastEvent(m) = "PENDING"

(* The service never believes in money Stripe does not have: a payment is  *)
(* SUCCEEDED only for a session that was paid, REFUNDED only for one that  *)
(* was refunded, FAILED only for one that can no longer be paid.           *)
RowAgreesWithStripe ==
  \A m \in Members :
    LET state == stripe[row[m].session].state IN
    /\ row[m].status = "SUCCEEDED" => state \in {"paid", "refunded"}
    /\ row[m].status = "REFUNDED" => state = "refunded"
    /\ row[m].status = "FAILED" => state \in {"failed", "expired"}

(* A session a learner holds the URL of is the one its payment's webhooks  *)
(* will be looked up by, through failed calls, retries and crashes; so a   *)
(* membership never has two sessions that can be paid.                     *)
SharedSessionIsKnown ==
  \A s \in Sessions : stripe[s].shared =>
    /\ stripe[s].member \in Members /\ HasRow(stripe[s].member)
    /\ row[stripe[s].member].session = s

(* A stored session belongs to its payment, and a decided payment has one. *)
RowsHold ==
  \A m \in Members : HasRow(m) =>
    /\ row[m].session # NoSession => /\ Created(row[m].session)
                                     /\ stripe[row[m].session].member = m
    /\ row[m].status \in Decided => row[m].session # NoSession

(* While a call is at Stripe, or about to store what Stripe answered, it is*)
(* the only one for its payment, which has no session yet.                 *)
CallsHold ==
  \A c \in Calls : call[c] # IdleCall =>
    LET m == call[c].member IN
    /\ HasRow(m) /\ row[m].session = NoSession
    /\ \A d \in Calls \ {c} : call[d] # IdleCall => call[d].member # m
    /\ call[c].stage = "store" => /\ Created(call[c].session)
                                  /\ stripe[call[c].session].member = m

(* The stages of a session in which an event of a type has been sent.      *)
Since(type) ==
  CASE type = "paid" -> {"paid", "refunded"}
    [] type = "refunded" -> {"refunded"}
    [] type = "expired" -> {"expired"}
    [] type = "async_failed" -> {"failed"}
    [] OTHER -> SessionStates

(* A webhook about to commit moves its payment to what Stripe said, and the*)
(* payment it read still has the session the event is about.               *)
HooksHold ==
  \A w \in Hooks : hook[w] # IdleHook =>
    LET e == hook[w].event m == hook[w].member next == hook[w].next IN
    /\ e \in sent
    /\ HasRow(m) /\ row[m].session = e.session /\ next.session = e.session
    /\ next.status \in Decided
    /\ next.status = "SUCCEEDED" => e.type = "paid"
    /\ next.status = "REFUNDED" => e.type = "refunded"
    /\ next.status = "FAILED" => e.type \in {"expired", "async_failed"}

SentHolds == \A e \in sent : stripe[e.session].state \in Since(e.type)

(* What a call or a webhook read still holds when it writes it back: no    *)
(* other call, webhook or failure took the row or its session away.        *)
InFlightHolds == RowsHold /\ CallsHold /\ HooksHold /\ SentHolds

(* As long as no two deliveries of one event overlap, the payments table   *)
(* implements PaymentLifecycle: decided once, refunds final.               *)
Lifecycle == INSTANCE PaymentLifecycle
               WITH status <- [m \in Members |-> row[m].status]
LifecycleSpec == Lifecycle!Spec

Published(type, m) ==
  \E i \in 1..Len(outbox) : outbox[i] = [type |-> type, member |-> m]

(* "Stripe marks a checkout payment paid": the service then publishes      *)
(* payment.succeeded, and payment.refunded once it is refunded, however    *)
(* often webhooks are lost to a crash.                                     *)
CaptureIsPublished ==
  \A s \in Sessions :
    /\ stripe[s].state \in {"paid", "refunded"}
         ~> Published("SUCCEEDED", stripe[s].member)
    /\ stripe[s].state = "refunded" ~> Published("REFUNDED", stripe[s].member)

=============================================================================
