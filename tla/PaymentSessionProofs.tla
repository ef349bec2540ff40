------------------------- MODULE PaymentSessionProofs -------------------------
(***************************************************************************)
(* Proofs about PaymentSession, for any number of memberships, calls,      *)
(* webhooks, sessions and crashes: the types, that what a call or webhook  *)
(* read still holds when it is written back, that the payments table never *)
(* claims money Stripe does not have, that a session a learner can pay is  *)
(* the one its payment knows, and that the outbox tells what the table says*)
(***************************************************************************)
EXTENDS PaymentSession, TLAPS

(* A stored payment is a complete row.                                     *)
LEMMA StoredIsRow ==
  ASSUME TypeOK, NEW m \in Members, HasRow(m)
  PROVE  row[m] \in Row
BY DEF TypeOK, HasRow, NoRow

(* The members of a busy call or webhook have their types.                 *)
LEMMA CallFields ==
  ASSUME TypeOK, NEW c \in Calls
  PROVE  /\ call[c] # IdleCall => call[c].member \in Members
         /\ call[c].stage = "stripe" => /\ call[c] # IdleCall
                                        /\ call[c].existing \in BOOLEAN
         /\ call[c].stage = "store" => /\ call[c] # IdleCall
                                       /\ call[c].session \in Sessions
BY DEF TypeOK, Call, IdleCall

LEMMA HookFields ==
  ASSUME TypeOK, NEW w \in Hooks
  PROVE  /\ hook[w].stage = "commit" <=> hook[w] # IdleHook
         /\ hook[w] # IdleHook => /\ hook[w].event \in HookEvent
                                  /\ hook[w].member \in Members
                                  /\ hook[w].next \in Row
BY DEF TypeOK, Hook, IdleHook

-----------------------------------------------------------------------------
(* Types.                                                                  *)

LEMMA TypeInit == ASSUME Init PROVE TypeOK
BY PaymentAssumption
   DEF Init, TypeOK, Call, Hook, StripeSession, SessionStates

LEMMA NewRowType == NewRow \in Row
BY DEF NewRow, Row

LEMMA OpenPaymentType ==
  ASSUME TypeOK, NEW c \in Calls, NEW m \in Members, OpenPayment(c, m)
  PROVE  TypeOK'
<1>1. row' \in [Members -> Row \cup {NoRow}]
  BY NewRowType DEF OpenPayment, TypeOK
<1>2. [stage |-> "stripe", member |-> m, existing |-> HasRow(m)] \in Call
  BY DEF Call, HasRow
<1>3. call' \in [Calls -> Call]
  BY <1>2 DEF OpenPayment, TypeOK
<1>. QED BY <1>1, <1>3 DEF OpenPayment, TypeOK

LEMMA ShareType ==
  ASSUME TypeOK, NEW s \in Sessions, Share(s)
  PROVE  stripe' \in [Sessions -> StripeSession]
BY DEF Share, TypeOK, StripeSession

LEMMA CreateSessionType ==
  ASSUME TypeOK, NEW s \in Sessions, NEW m \in Members, CreateSession(s, m)
  PROVE  stripe' \in [Sessions -> StripeSession]
BY DEF CreateSession, TypeOK, StripeSession, SessionStates

LEMMA ReuseSessionType ==
  ASSUME TypeOK, NEW c \in Calls, NEW m \in Members, ReuseSession(c, m)
  PROVE  TypeOK'
<1>1. row[m] \in Row
  BY StoredIsRow DEF ReuseSession, HasRow
<1>2. row[m].session \in Sessions
  BY <1>1 DEF ReuseSession, Row
<1>. QED BY <1>2, ShareType DEF ReuseSession, TypeOK, service

LEMMA StripeCallType ==
  ASSUME TypeOK, NEW c \in Calls,
         StripeFails(c) \/ \E s \in Sessions : StripeAnswers(c, s)
  PROVE  TypeOK'
<1>0. call[c].member \in Members
  BY CallFields DEF StripeAnswers, StripeFails
<1>1. CASE \E s \in Sessions : StripeAnswers(c, s)
  <2>1. PICK s \in Sessions : StripeAnswers(c, s)
    BY <1>1
  <2>2. stripe' \in [Sessions -> StripeSession]
    BY <1>0, <2>1, CreateSessionType DEF StripeAnswers
  <2>3. call' \in [Calls -> Call]
    BY <1>0, <2>1 DEF StripeAnswers, TypeOK, Call
  <2>. QED BY <2>1, <2>2, <2>3 DEF StripeAnswers, TypeOK
<1>2. CASE StripeFails(c)
  <2>1. stripe' \in [Sessions -> StripeSession]
    BY <1>0, <1>2, CreateSessionType DEF StripeFails, TypeOK
  <2>2. call' \in [Calls -> Call] /\ row' \in [Members -> Row \cup {NoRow}]
    BY <1>0, <1>2 DEF StripeFails, TypeOK, Call
  <2>. QED BY <1>2, <2>1, <2>2 DEF StripeFails, TypeOK
<1>. QED BY <1>1, <1>2

LEMMA StoreSessionType ==
  ASSUME TypeOK, NEW c \in Calls, StoreSession(c)
  PROVE  TypeOK'
<1>1. call[c].session \in Sessions /\ call[c].member \in Members
  BY CallFields DEF StoreSession
<1>2. [NewRow EXCEPT !.session = call[c].session, !.intent = IntentAtCreation]
        \in Row
  BY <1>1, PaymentAssumption DEF NewRow, Row
<1>3. row' \in [Members -> Row \cup {NoRow}]
  BY <1>1, <1>2 DEF StoreSession, TypeOK
<1>4. stripe' \in [Sessions -> StripeSession]
  BY <1>1, ShareType DEF StoreSession
<1>5. call' \in [Calls -> Call]
  BY DEF StoreSession, TypeOK, Call
<1>. QED BY <1>3, <1>4, <1>5 DEF StoreSession, TypeOK

LEMMA ReadPaymentType ==
  ASSUME TypeOK, NEW w \in Hooks, NEW e \in sent, ReadPayment(w, e)
  PROVE  TypeOK'
<1>1. PICK m \in Lookup(e), status \in Decided :
        /\ status \in Target(e, row[m].status)
        /\ hook' = [hook EXCEPT ![w] =
                      [stage |-> "commit", event |-> e, member |-> m,
                       next |-> [row[m] EXCEPT !.status = status,
                                    !.intent = @ \/ e.type # "expired"]]]
  BY DEF ReadPayment, Target, Decided
<1>. DEFINE next == [row[m] EXCEPT !.status = status,
                                   !.intent = @ \/ e.type # "expired"]
<1>2. m \in Members /\ row[m] \in Row /\ e \in HookEvent
  BY StoredIsRow DEF Lookup, TypeOK
<1>3. next \in Row
  BY <1>2 DEF Row
<1>4. [stage |-> "commit", event |-> e, member |-> m, next |-> next] \in Hook
  BY <1>2, <1>3 DEF Hook
<1>5. hook' \in [Hooks -> Hook]
  BY <1>1, <1>4 DEF TypeOK
<1>. QED BY <1>5 DEF ReadPayment, TypeOK

LEMMA CommitWebhookType ==
  ASSUME TypeOK, HooksHold, NEW w \in Hooks, CommitWebhook(w)
  PROVE  TypeOK'
<1>1. /\ hook[w].event \in HookEvent /\ hook[w].member \in Members
      /\ hook[w].next \in Row
  BY HookFields DEF CommitWebhook
<1>2. row' \in [Members -> Row \cup {NoRow}]
  BY <1>1 DEF CommitWebhook, TypeOK
<1>3. hook[w].next.status \in Decided
  BY <1>1, HookFields DEF CommitWebhook, HooksHold, Row
<1>4. outbox' \in Seq(OutboxEvent)
  BY <1>1, <1>3 DEF CommitWebhook, TypeOK, OutboxEvent
<1>5. hook' \in [Hooks -> Hook]
  BY DEF CommitWebhook, TypeOK, Hook
<1>. QED BY <1>2, <1>4, <1>5 DEF CommitWebhook, TypeOK

(* Every change Stripe makes moves a session along and sends its event.    *)
Moves == {<<"open", "paid", "paid">>, <<"open", "processing", "unpaid">>,
          <<"processing", "paid", "async_succeeded">>,
          <<"processing", "failed", "async_failed">>,
          <<"open", "expired", "expired">>, <<"paid", "refunded", "refunded">>}

LEMMA SettleMoves ==
  ASSUME NEW s \in Sessions, Settle(s)
  PROVE  \E v \in Moves : StripeMove(s, v[1], v[2], v[3])
BY DEF Settle, Pay, PayLater, Clear, Bounce, Expire, Refund, Moves

LEMMA SettleType ==
  ASSUME TypeOK, NEW s \in Sessions, Settle(s)
  PROVE  TypeOK'
<1>1. PICK v \in Moves : StripeMove(s, v[1], v[2], v[3])
  BY SettleMoves
<1>2. v[2] \in SessionStates /\ v[3] \in HookTypes
  BY DEF Moves, SessionStates, HookTypes
<1>3. stripe' \in [Sessions -> StripeSession]
  BY <1>1, <1>2 DEF StripeMove, TypeOK, StripeSession
<1>4. [type |-> v[3], session |-> s] \in HookEvent
  BY <1>2 DEF HookEvent
<1>. QED BY <1>1, <1>3, <1>4 DEF StripeMove, TypeOK, service

LEMMA CrashType == ASSUME TypeOK, Crash PROVE TypeOK'
BY PaymentAssumption DEF Crash, TypeOK, Call, Hook

(* Every step keeps the types.  HooksHold is needed for CommitWebhook: the *)
(* status it publishes is a decision.                                      *)
LEMMA TypeStep ==
  ASSUME TypeOK, HooksHold, [Next]_vars
  PROVE  TypeOK'
<1>1. CASE \E c \in Calls, m \in Members :
             OpenPayment(c, m) \/ ReuseSession(c, m)
  BY <1>1, OpenPaymentType, ReuseSessionType
<1>2. CASE \/ \E c \in Calls, s \in Sessions : StripeAnswers(c, s)
           \/ \E c \in Calls : StripeFails(c)
  BY <1>2, StripeCallType
<1>3. CASE \E c \in Calls : StoreSession(c)
  BY <1>3, StoreSessionType
<1>4. CASE \E w \in Hooks, e \in sent : IgnoreWebhook(w, e)
  BY <1>4 DEF IgnoreWebhook, TypeOK, service
<1>5. CASE \E w \in Hooks, e \in sent : ReadPayment(w, e)
  BY <1>5, ReadPaymentType
<1>6. CASE \E w \in Hooks : CommitWebhook(w)
  BY <1>6, CommitWebhookType
<1>7. CASE \E s \in Sessions : Settle(s)
  BY <1>7, SettleType
<1>8. CASE Crash
  BY <1>8, CrashType
<1>9. CASE UNCHANGED vars
  BY <1>9 DEF vars, service, TypeOK
<1>. QED
  BY <1>1, <1>2, <1>3, <1>4, <1>5, <1>6, <1>7, <1>8, <1>9 DEF Next

-----------------------------------------------------------------------------
(* What is read still holds when it is written back, and the table agrees  *)
(* with Stripe.                                                            *)

IInv == TypeOK /\ InFlightHolds /\ RowAgreesWithStripe /\ SharedSessionIsKnown

Agreement == InFlightHolds /\ RowAgreesWithStripe /\ SharedSessionIsKnown

LEMMA AgreementInit == ASSUME Init PROVE Agreement
BY DEF Init, Agreement, InFlightHolds, RowsHold, CallsHold, HooksHold,
       SentHolds, RowAgreesWithStripe, SharedSessionIsKnown, HasRow, NoRow,
       IdleCall, IdleHook

(* The parts of the invariant that rows, sessions and webhooks make up     *)
(* survive any change of Stripe that keeps the sessions there are.         *)
Keeps == \A s \in Sessions :
           /\ Created(s) => stripe'[s] = stripe[s]
           /\ stripe'[s].shared => stripe'[s] = stripe[s]

LEMMA CreateSessionKeeps ==
  ASSUME TypeOK, NEW s \in Sessions, NEW m, NextSession(s), CreateSession(s, m)
  PROVE  Keeps
BY DEF Keeps, CreateSession, NextSession, Created, TypeOK

(* No webhook in flight, and no session a learner holds, concerns a        *)
(* payment without a session.                                              *)
LEMMA NoSessionNoHook ==
  ASSUME IInv, NEW m \in Members, ~HasRow(m) \/ row[m].session = NoSession
  PROVE  /\ \A w \in Hooks : hook[w] # IdleHook => hook[w].member # m
         /\ \A s \in Sessions : stripe[s].shared => stripe[s].member # m
         /\ ~(row[m].status \in Decided)
<1>1. NoSession \notin Sessions
  BY DEF NoSession, Sessions
<1>2. \A w \in Hooks : hook[w] # IdleHook => hook[w].event.session \in Sessions
  BY HookFields DEF IInv, HookEvent
<1>3. ~HasRow(m) => ~(row[m].status \in Decided)
  BY DEF HasRow, Decided
<1>. QED BY <1>1, <1>2, <1>3 DEF IInv, InFlightHolds, HooksHold, RowsHold,
                            SharedSessionIsKnown

(* The session of a stored payment is one that Keeps keeps.                *)
LEMMA RowSessionKept ==
  ASSUME IInv, Keeps, NEW m \in Members, HasRow(m), row[m].session # NoSession
  PROVE  /\ row[m].session \in Sessions
         /\ Created(row[m].session)
         /\ stripe'[row[m].session] = stripe[row[m].session]
<1>1. row[m].session \in Sessions
  BY StoredIsRow DEF IInv, Row
<1>. QED BY <1>1 DEF IInv, InFlightHolds, RowsHold, Keeps

(* An event that was sent remains true of its session.                     *)
LEMMA SentKept ==
  ASSUME IInv, TypeOK', Keeps, UNCHANGED sent
  PROVE  SentHolds'
<1>. SUFFICES ASSUME NEW e \in sent
              PROVE  stripe'[e.session].state \in Since(e.type)
  BY DEF SentHolds
<1>1. e.session \in Sessions /\ stripe[e.session].state \in Since(e.type)
  BY DEF IInv, TypeOK, HookEvent, InFlightHolds, SentHolds
<1>2. CASE Created(e.session)
  BY <1>1, <1>2 DEF Keeps
<1>3. CASE ~Created(e.session)
  <2>1. Since(e.type) = SessionStates
    BY <1>1, <1>3 DEF Created, Since
  <2>. QED BY <1>1, <2>1 DEF TypeOK, StripeSession
<1>. QED BY <1>2, <1>3

(* When the row of a payment without a session changes to one that still   *)
(* has none, and Stripe keeps its sessions, everything but the calls       *)
(* agrees as before.                                                       *)
LEMMA RowWithoutSession ==
  ASSUME IInv, TypeOK', Keeps, NEW m \in Members,
         ~HasRow(m) \/ row[m].session = NoSession,
         NEW new \in {row[m], NewRow, NoRow},
         row' = [row EXCEPT ![m] = new],
         UNCHANGED <<hook, sent>>
  PROVE  (RowsHold /\ HooksHold /\ SentHolds /\ RowAgreesWithStripe
          /\ SharedSessionIsKnown)'
<1>1. /\ \A w \in Hooks : hook[w] # IdleHook => hook[w].member # m
      /\ \A s \in Sessions : stripe[s].shared => stripe[s].member # m
      /\ ~(row[m].status \in Decided)
  BY NoSessionNoHook
<1>2. \A x \in Members \ {m} : row'[x] = row[x]
  BY DEF IInv, TypeOK
<1>3. /\ row'[m] = new
      /\ ~(new.status \in Decided)
      /\ new.status # "none" => new.session = NoSession
  BY <1>1 DEF IInv, TypeOK, NewRow, NoRow, Decided, HasRow
<1>4. RowsHold'
  <2>. SUFFICES ASSUME NEW x \in Members \ {m}, HasRow(x)
                PROVE  /\ row[x].session # NoSession =>
                            /\ Created(row[x].session)'
                            /\ stripe'[row[x].session].member = x
                       /\ row[x].status \in Decided =>
                            row[x].session # NoSession
    BY <1>2, <1>3 DEF RowsHold, HasRow, Created
  <2>. QED BY RowSessionKept DEF IInv, InFlightHolds, RowsHold, Created
<1>5. HooksHold'
  BY <1>1, <1>2, HookFields DEF IInv, InFlightHolds, HooksHold, HasRow
<1>6. SentHolds'
  BY SentKept
<1>7. RowAgreesWithStripe'
  <2>. SUFFICES ASSUME NEW x \in Members \ {m}, row[x].status \in Decided
                PROVE  stripe'[row[x].session] = stripe[row[x].session]
    BY <1>2, <1>3 DEF IInv, RowAgreesWithStripe, Decided
  <2>1. HasRow(x) /\ row[x].session # NoSession
    BY DEF HasRow, Decided, IInv, InFlightHolds, RowsHold
  <2>. QED BY <2>1, RowSessionKept
<1>8. SharedSessionIsKnown'
  BY <1>1, <1>2 DEF IInv, SharedSessionIsKnown, Keeps, HasRow
<1>. QED BY <1>4, <1>5, <1>6, <1>7, <1>8

(* createCheckoutSession.                                                  *)
LEMMA OpenPaymentAgrees ==
  ASSUME IInv, TypeOK', NEW c \in Calls, NEW m \in Members, OpenPayment(c, m)
  PROVE  Agreement'
<1>1. ~HasRow(m) \/ row[m].session = NoSession
  BY DEF OpenPayment
<1>2. row' = [row EXCEPT ![m] = IF HasRow(m) THEN row[m] ELSE NewRow]
  BY DEF OpenPayment
<1>3. Keeps
  BY DEF OpenPayment, Keeps
<1>4. (RowsHold /\ HooksHold /\ SentHolds /\ RowAgreesWithStripe
       /\ SharedSessionIsKnown)'
  BY <1>1, <1>2, <1>3, RowWithoutSession DEF OpenPayment
<1>5. CallsHold'
  <2>1. /\ call'[c] = [stage |-> "stripe", member |-> m, existing |-> HasRow(m)]
        /\ \A d \in Calls \ {c} : /\ call'[d] = call[d]
                                  /\ call[d] # IdleCall => call[d].member # m
    BY DEF OpenPayment, MayCall, IInv, TypeOK
  <2>2. /\ HasRow(m)' /\ row'[m].session = NoSession
        /\ \A x \in Members \ {m} : row'[x] = row[x]
    BY <1>1, <1>2 DEF IInv, TypeOK, HasRow, NewRow
  <2>. QED BY <2>1, <2>2, CallFields
           DEF OpenPayment, IInv, InFlightHolds, CallsHold, HasRow, Created
<1>. QED BY <1>4, <1>5 DEF Agreement, InFlightHolds

LEMMA StripeCallAgrees ==
  ASSUME IInv, TypeOK', NEW c \in Calls,
         StripeFails(c) \/ \E s \in Sessions : StripeAnswers(c, s)
  PROVE  Agreement'
<1>. DEFINE m == call[c].member
<1>0. /\ m \in Members /\ call[c] # IdleCall
      /\ HasRow(m) /\ row[m].session = NoSession
      /\ \A d \in Calls \ {c} : call[d] # IdleCall => call[d].member # m
  BY CallFields DEF StripeAnswers, StripeFails, IInv, InFlightHolds, CallsHold
<1>1. Keeps
  <2>1. CASE UNCHANGED stripe
    BY <2>1 DEF Keeps
  <2>2. CASE \E s \in Sessions : NextSession(s) /\ CreateSession(s, m)
    BY <2>2, CreateSessionKeeps DEF IInv
  <2>. QED BY <2>1, <2>2 DEF StripeAnswers, StripeFails
<1>2. PICK new \in {row[m], NewRow, NoRow} : row' = [row EXCEPT ![m] = new]
  <2>1. CASE UNCHANGED row
    BY <1>0, <2>1 DEF IInv, TypeOK
  <2>. QED BY <1>0, <2>1 DEF StripeAnswers, StripeFails, IInv, TypeOK
<1>3. (RowsHold /\ HooksHold /\ SentHolds /\ RowAgreesWithStripe
       /\ SharedSessionIsKnown)'
  BY <1>0, <1>1, <1>2, RowWithoutSession DEF StripeAnswers, StripeFails
<1>4. CallsHold'
  <2>1. \A d \in Calls \ {c} :
          /\ call'[d] = call[d]
          /\ call[d] # IdleCall => row'[call[d].member] = row[call[d].member]
          /\ call[d].stage = "store" /\ Created(call[d].session) =>
               stripe'[call[d].session] = stripe[call[d].session]
    BY <1>0, <1>1, <1>2, CallFields
       DEF StripeAnswers, StripeFails, IInv, TypeOK, Keeps
  <2>2. CASE StripeFails(c)
    <3>1. call'[c] = IdleCall
      BY <2>2 DEF StripeFails, IInv, TypeOK
    <3>. QED BY <2>1, <3>1, CallFields
             DEF IInv, InFlightHolds, CallsHold, HasRow, Created, IdleCall
  <2>3. CASE \E s \in Sessions : StripeAnswers(c, s)
    <3>1. PICK s \in Sessions : StripeAnswers(c, s)
      BY <2>3
    <3>2. call'[c] = [stage |-> "store", member |-> m, session |-> s]
      BY <3>1 DEF StripeAnswers, IInv, TypeOK
    <3>3. Created(s)' /\ stripe'[s].member = m /\ row' = row
      BY <3>1 DEF StripeAnswers, CreateSession, IInv, TypeOK, Created
    <3>. QED BY <1>0, <2>1, <3>2, <3>3, CallFields
             DEF IInv, InFlightHolds, CallsHold, HasRow, Created
  <2>. QED BY <2>2, <2>3
<1>. QED BY <1>3, <1>4 DEF Agreement, InFlightHolds

(* Handing out the URL of a session changes nothing else of it.            *)
LEMMA ShareKeeps ==
  ASSUME TypeOK, NEW s \in Sessions, Share(s)
  PROVE  \A q \in Sessions : /\ stripe'[q].state = stripe[q].state
                             /\ stripe'[q].member = stripe[q].member
                             /\ stripe'[q].shared => stripe[q].shared \/ q = s
BY DEF Share, TypeOK, StripeSession

LEMMA ReuseSessionAgrees ==
  ASSUME IInv, TypeOK', NEW c \in Calls, NEW m \in Members, ReuseSession(c, m)
  PROVE  Agreement'
<1>. DEFINE s == row[m].session
<1>1. HasRow(m) /\ s \in Sessions /\ stripe[s].member = m
  BY StoredIsRow DEF ReuseSession, HasRow, IInv, Row, InFlightHolds, RowsHold
<1>2. \A q \in Sessions : /\ stripe'[q].state = stripe[q].state
                          /\ stripe'[q].member = stripe[q].member
                          /\ stripe'[q].shared => stripe[q].shared \/ q = s
  BY <1>1, ShareKeeps DEF ReuseSession, IInv
<1>3. UNCHANGED <<row, call, hook, sent>>
  BY DEF ReuseSession, service
<1>4. \A x \in Members :
        HasRow(x) => row[x].session \in Sessions \cup {NoSession}
  BY StoredIsRow DEF IInv, Row
<1>5. RowsHold'
  BY <1>2, <1>3, <1>4 DEF IInv, InFlightHolds, RowsHold, HasRow, Created
<1>6. CallsHold'
  BY <1>2, <1>3, CallFields DEF IInv, InFlightHolds, CallsHold, HasRow, Created
<1>7. HooksHold'
  BY <1>3 DEF IInv, InFlightHolds, HooksHold, HasRow
<1>8. SentHolds'
  BY <1>2, <1>3 DEF IInv, InFlightHolds, SentHolds, TypeOK, HookEvent
<1>9. RowAgreesWithStripe'
  <2>1. \A x \in Members :
          row[x].status \in Decided => row[x].session \in Sessions
    BY <1>4 DEF HasRow, Decided, IInv, InFlightHolds, RowsHold
  <2>. QED BY <1>2, <1>3, <2>1 DEF IInv, RowAgreesWithStripe, Decided
<1>10. SharedSessionIsKnown'
  BY <1>1, <1>2, <1>3 DEF IInv, SharedSessionIsKnown, HasRow
<1>. QED BY <1>5, <1>6, <1>7, <1>8, <1>9, <1>10 DEF Agreement, InFlightHolds

(* The session becomes known, and may be shared, in one step.              *)
LEMMA StoreSessionAgrees ==
  ASSUME IInv, TypeOK', NEW c \in Calls, StoreSession(c)
  PROVE  Agreement'
<1>. DEFINE m == call[c].member
            s == call[c].session
            new == [NewRow EXCEPT !.session = s, !.intent = IntentAtCreation]
<1>1. /\ m \in Members /\ s \in Sessions
      /\ HasRow(m) /\ row[m].session = NoSession
      /\ Created(s) /\ stripe[s].member = m
      /\ \A d \in Calls \ {c} : call[d] # IdleCall => call[d].member # m
  BY CallFields DEF StoreSession, IInv, InFlightHolds, CallsHold
<1>2. /\ \A w \in Hooks : hook[w] # IdleHook => hook[w].member # m
      /\ \A q \in Sessions : stripe[q].shared => stripe[q].member # m
  BY <1>1, NoSessionNoHook
<1>3. \A q \in Sessions : /\ stripe'[q].state = stripe[q].state
                          /\ stripe'[q].member = stripe[q].member
                          /\ stripe'[q].shared => stripe[q].shared \/ q = s
  BY <1>1, ShareKeeps DEF StoreSession, IInv
<1>4. /\ row'[m].status = "PENDING" /\ row'[m].session = s
      /\ \A x \in Members \ {m} : row'[x] = row[x]
  BY <1>1 DEF StoreSession, IInv, TypeOK, NewRow
<1>5. UNCHANGED <<hook, sent>>
  BY DEF StoreSession
<1>6. \A x \in Members :
        HasRow(x) => row[x].session \in Sessions \cup {NoSession}
  BY StoredIsRow DEF IInv, Row
<1>7. RowsHold'
  BY <1>1, <1>3, <1>4, <1>6
     DEF IInv, InFlightHolds, RowsHold, HasRow, Created, Decided
<1>8. CallsHold'
  <2>1. call'[c] = IdleCall /\ \A d \in Calls \ {c} : call'[d] = call[d]
    BY DEF StoreSession, IInv, TypeOK
  <2>. QED BY <1>1, <1>3, <1>4, <2>1, CallFields
           DEF IInv, InFlightHolds, CallsHold, HasRow, Created
<1>9. HooksHold'
  BY <1>2, <1>4, <1>5, HookFields DEF IInv, InFlightHolds, HooksHold, HasRow
<1>10. SentHolds'
  BY <1>3, <1>5 DEF IInv, InFlightHolds, SentHolds, TypeOK, HookEvent
<1>11. RowAgreesWithStripe'
  <2>1. \A x \in Members :
          row[x].status \in Decided => row[x].session \in Sessions
    BY <1>6 DEF HasRow, Decided, IInv, InFlightHolds, RowsHold
  <2>. QED BY <1>3, <1>4, <2>1 DEF IInv, RowAgreesWithStripe, Decided
<1>12. SharedSessionIsKnown'
  BY <1>1, <1>2, <1>3, <1>4 DEF IInv, SharedSessionIsKnown, HasRow
<1>. QED BY <1>7, <1>8, <1>9, <1>10, <1>11, <1>12 DEF Agreement, InFlightHolds

(* handleStripeWebhook.                                                    *)
LEMMA ReadPaymentAgrees ==
  ASSUME IInv, TypeOK', NEW w \in Hooks, NEW e \in sent, ReadPayment(w, e)
  PROVE  Agreement'
<1>1. PICK m \in Lookup(e), status \in Decided :
        /\ status \in Target(e, row[m].status)
        /\ hook' = [hook EXCEPT ![w] =
                      [stage |-> "commit", event |-> e, member |-> m,
                       next |-> [row[m] EXCEPT !.status = status,
                                    !.intent = @ \/ e.type # "expired"]]]
  BY DEF ReadPayment, Target, Decided
<1>2. /\ m \in Members /\ HasRow(m) /\ row[m] \in Row
      /\ row[m].session = e.session
  BY StoredIsRow DEF Lookup, IInv
<1>3. PICK next \in Row :
        /\ next.status = status /\ next.session = e.session
        /\ hook' = [hook EXCEPT ![w] = [stage |-> "commit", event |-> e,
                                        member |-> m, next |-> next]]
  <2>. DEFINE copy == [row[m] EXCEPT !.status = status,
                                     !.intent = @ \/ e.type # "expired"]
  <2>1. copy \in Row /\ copy.status = status /\ copy.session = e.session
    BY <1>2 DEF Row
  <2>. QED BY <1>1, <2>1
<1>4. /\ status = "SUCCEEDED" => e.type = "paid"
      /\ status = "REFUNDED" => e.type = "refunded"
      /\ status = "FAILED" => e.type \in {"expired", "async_failed"}
  BY <1>1 DEF Target
<1>5. /\ hook'[w] = [stage |-> "commit", event |-> e, member |-> m,
                     next |-> next]
      /\ \A v \in Hooks \ {w} : hook'[v] = hook[v]
  BY <1>3 DEF IInv, TypeOK
<1>6. UNCHANGED <<row, call, stripe, sent>>
  BY DEF ReadPayment
<1>7. HooksHold'
  BY <1>2, <1>3, <1>4, <1>5, <1>6 DEF IInv, InFlightHolds, HooksHold, HasRow
<1>. QED BY <1>6, <1>7 DEF Agreement, IInv, InFlightHolds, RowsHold, CallsHold,
            SentHolds, RowAgreesWithStripe, SharedSessionIsKnown, HasRow,
            Created

LEMMA CommitWebhookAgrees ==
  ASSUME IInv, TypeOK', NEW w \in Hooks, CommitWebhook(w)
  PROVE  Agreement'
<1>. DEFINE m == hook[w].member
            e == hook[w].event
            next == hook[w].next
<1>1. /\ m \in Members /\ e \in sent /\ e.session \in Sessions /\ next \in Row
      /\ HasRow(m) /\ row[m].session = e.session /\ next.session = e.session
      /\ next.status \in Decided
      /\ next.status = "SUCCEEDED" => e.type = "paid"
      /\ next.status = "REFUNDED" => e.type = "refunded"
      /\ next.status = "FAILED" => e.type \in {"expired", "async_failed"}
  BY HookFields DEF CommitWebhook, IInv, InFlightHolds, HooksHold, HookEvent
<1>2. row'[m] = next /\ \A x \in Members \ {m} : row'[x] = row[x]
  BY <1>1 DEF CommitWebhook, IInv, TypeOK
<1>3. \A x \in Members : /\ HasRow(x)' <=> HasRow(x)
                         /\ row'[x].session = row[x].session
  BY <1>1, <1>2 DEF HasRow, Decided
<1>4. /\ UNCHANGED <<call, stripe, sent>>
      /\ hook'[w] = IdleHook /\ \A v \in Hooks \ {w} : hook'[v] = hook[v]
  BY DEF CommitWebhook, IInv, TypeOK
<1>5. RowsHold'
  <2>1. row[m].session # NoSession
    BY <1>1 DEF NoSession, Sessions
  <2>. QED BY <1>2, <1>3, <1>4, <2>1 DEF IInv, InFlightHolds, RowsHold, Created
<1>6. CallsHold'
  BY <1>3, <1>4, CallFields DEF IInv, InFlightHolds, CallsHold, Created
<1>7. HooksHold'
  BY <1>3, <1>4, HookFields DEF IInv, InFlightHolds, HooksHold
<1>8. SentHolds'
  BY <1>4 DEF IInv, InFlightHolds, SentHolds
<1>9. RowAgreesWithStripe'
  <2>1. stripe[e.session].state \in Since(e.type)
    BY <1>1 DEF IInv, InFlightHolds, SentHolds
  <2>2. /\ next.status = "SUCCEEDED" =>
             stripe[e.session].state \in {"paid", "refunded"}
        /\ next.status = "REFUNDED" => stripe[e.session].state = "refunded"
        /\ next.status = "FAILED" =>
             stripe[e.session].state \in {"failed", "expired"}
    BY <1>1, <2>1 DEF Since
  <2>. QED BY <1>1, <1>2, <1>4, <2>2 DEF IInv, RowAgreesWithStripe
<1>10. SharedSessionIsKnown'
  BY <1>3, <1>4 DEF IInv, SharedSessionIsKnown
<1>. QED BY <1>5, <1>6, <1>7, <1>8, <1>9, <1>10 DEF Agreement, InFlightHolds

(* Stripe and the learner: a session only ever moves on, and what was said *)
(* of it remains true.                                                     *)
LEMMA SettleAgrees ==
  ASSUME IInv, TypeOK', NEW s \in Sessions, Settle(s)
  PROVE  Agreement'
<1>1. PICK v \in Moves : StripeMove(s, v[1], v[2], v[3])
  BY SettleMoves
<1>. DEFINE e == [type |-> v[3], session |-> s]
<1>2. /\ stripe[s].state = v[1] /\ stripe'[s].state = v[2]
      /\ \A q \in Sessions : /\ stripe'[q].member = stripe[q].member
                             /\ stripe'[q].shared = stripe[q].shared
                             /\ q # s => stripe'[q] = stripe[q]
                             /\ Created(q) => Created(q)'
      /\ sent' = sent \cup {e}
      /\ UNCHANGED <<row, call, hook>>
  BY <1>1 DEF StripeMove, Moves, IInv, TypeOK, StripeSession, Created, service
<1>3. \A x \in Members :
        HasRow(x) => row[x].session \in Sessions \cup {NoSession}
  BY StoredIsRow DEF IInv, Row
<1>4. RowsHold'
  BY <1>2, <1>3 DEF IInv, InFlightHolds, RowsHold, HasRow
<1>5. CallsHold'
  BY <1>2, CallFields DEF IInv, InFlightHolds, CallsHold, HasRow
<1>6. HooksHold'
  BY <1>2 DEF IInv, InFlightHolds, HooksHold, HasRow
<1>7. SentHolds'
  <2>1. v[2] \in Since(v[3])
    BY DEF Moves, Since, SessionStates
  <2>2. \A type \in HookTypes : v[1] \in Since(type) => v[2] \in Since(type)
    BY DEF Moves, Since, SessionStates, HookTypes
  <2>. QED BY <1>2, <2>1, <2>2
           DEF IInv, InFlightHolds, SentHolds, TypeOK, HookEvent
<1>8. RowAgreesWithStripe'
  <2>1. \A x \in Members :
          row[x].status \in Decided => row[x].session \in Sessions
    BY <1>3 DEF HasRow, Decided, IInv, InFlightHolds, RowsHold
  <2>. QED BY <1>2, <2>1 DEF IInv, RowAgreesWithStripe, Decided, Moves
<1>9. SharedSessionIsKnown'
  BY <1>2 DEF IInv, SharedSessionIsKnown, HasRow
<1>. QED BY <1>4, <1>5, <1>6, <1>7, <1>8, <1>9 DEF Agreement, InFlightHolds

LEMMA CrashAgrees == ASSUME IInv, Crash PROVE Agreement'
<1>1. CallsHold' /\ HooksHold'
  BY DEF Crash, CallsHold, HooksHold
<1>. QED BY <1>1 DEF Crash, Agreement, IInv, InFlightHolds, RowsHold, SentHolds,
            RowAgreesWithStripe, SharedSessionIsKnown, HasRow, Created

(* Nothing the invariant speaks of changes.                                *)
LEMMA QuietAgrees ==
  ASSUME IInv, UNCHANGED <<row, call, hook, stripe, sent>>
  PROVE  Agreement'
BY DEF Agreement, IInv, InFlightHolds, RowsHold, CallsHold, HooksHold,
       SentHolds, RowAgreesWithStripe, SharedSessionIsKnown, HasRow,
            Created

LEMMA Inductive == ASSUME IInv, [Next]_vars PROVE IInv'
<1>0. TypeOK'
  BY TypeStep DEF IInv, InFlightHolds
<1>1. CASE \E c \in Calls, m \in Members :
             OpenPayment(c, m) \/ ReuseSession(c, m)
  BY <1>0, <1>1, OpenPaymentAgrees, ReuseSessionAgrees
     DEF IInv, Agreement
<1>2. CASE \/ \E c \in Calls, s \in Sessions : StripeAnswers(c, s)
           \/ \E c \in Calls : StripeFails(c)
  BY <1>0, <1>2, StripeCallAgrees DEF IInv, Agreement
<1>3. CASE \E c \in Calls : StoreSession(c)
  BY <1>0, <1>3, StoreSessionAgrees DEF IInv, Agreement
<1>4. CASE \E w \in Hooks, e \in sent : IgnoreWebhook(w, e)
  BY <1>0, <1>4, QuietAgrees DEF IgnoreWebhook, service, IInv, Agreement
<1>5. CASE \E w \in Hooks, e \in sent : ReadPayment(w, e)
  BY <1>0, <1>5, ReadPaymentAgrees DEF IInv, Agreement
<1>6. CASE \E w \in Hooks : CommitWebhook(w)
  BY <1>0, <1>6, CommitWebhookAgrees DEF IInv, Agreement
<1>7. CASE \E s \in Sessions : Settle(s)
  BY <1>0, <1>7, SettleAgrees DEF IInv, Agreement
<1>8. CASE Crash
  BY <1>0, <1>8, CrashAgrees DEF IInv, Agreement
<1>9. CASE UNCHANGED vars
  BY <1>0, <1>9, QuietAgrees DEF vars, service, IInv, Agreement
<1>. QED
  BY <1>1, <1>2, <1>3, <1>4, <1>5, <1>6, <1>7, <1>8, <1>9 DEF Next

LEMMA InvariantHolds == Spec => []IInv
<1>1. Init => IInv
  BY TypeInit, AgreementInit DEF IInv, Agreement
<1>. QED BY <1>1, Inductive, PTL DEF Spec

-----------------------------------------------------------------------------
(* The payments table implements PaymentLifecycle when no two deliveries   *)
(* of one event overlap and Stripe names the payment intent only when the  *)
(* checkout completes: a refund is then looked up only after the payment.  *)

(* The status a webhook read has not changed when it commits.              *)
StatusHolds ==
  /\ \A m \in Members : HasRow(m) /\ row[m].intent => row[m].status \in Decided
  /\ \A w \in Hooks : hook[w] # IdleHook =>
       /\ row[hook[w].member].status =
            IF hook[w].next.status = "REFUNDED" THEN "SUCCEEDED" ELSE "PENDING"
       /\ \A v \in Hooks \ {w} :
            hook[v] # IdleHook => hook[v].event # hook[w].event

(* A webhook in flight excludes any other one for the same payment: it     *)
(* would be about the same session, and Stripe says one thing of it.       *)
LEMMA OneHookPerPayment ==
  ASSUME IInv, StatusHolds, NEW v \in Hooks, NEW w \in Hooks, v # w,
         hook[v] # IdleHook, hook[w] # IdleHook
  PROVE  hook[v].member # hook[w].member
<1>. SUFFICES ASSUME hook[v].member = hook[w].member PROVE FALSE
  OBVIOUS
<1>. DEFINE e == hook[v].event
            f == hook[w].event
<1>1. /\ e \in sent /\ f \in sent /\ e.session = f.session /\ e # f
      /\ e \in HookEvent /\ f \in HookEvent
  BY HookFields DEF IInv, InFlightHolds, HooksHold, StatusHolds
<1>2. e.type # f.type
  BY <1>1 DEF HookEvent
<1>3. /\ stripe[e.session].state \in Since(e.type)
      /\ stripe[e.session].state \in Since(f.type)
  BY <1>1 DEF IInv, InFlightHolds, SentHolds
<1>4. /\ hook[v].next.status = "REFUNDED" <=> hook[w].next.status = "REFUNDED"
      /\ {hook[v].next.status, hook[w].next.status} \subseteq Decided
  BY DEF StatusHolds, IInv, InFlightHolds, HooksHold
<1>5. \/ e.type = "refunded" /\ f.type = "refunded"
      \/ {e.type, f.type} \subseteq {"paid", "expired", "async_failed"}
  BY <1>4 DEF Decided, IInv, InFlightHolds, HooksHold
<1>. QED BY <1>2, <1>3, <1>5 DEF Since

LEMMA StatusInit == ASSUME Init PROVE StatusHolds
BY DEF Init, StatusHolds, HasRow, NoRow, IdleHook

(* A change to a payment without a session concerns no webhook.            *)
LEMMA StatusKept ==
  ASSUME IInv, StatusHolds, NEW m \in Members,
         ~HasRow(m) \/ row[m].session = NoSession,
         \A x \in Members \ {m} : row'[x] = row[x],
         HasRow(m)' /\ row'[m].intent => row'[m].status \in Decided,
         UNCHANGED hook
  PROVE  StatusHolds'
<1>1. \A w \in Hooks : hook[w] # IdleHook => /\ hook[w].member # m
                                             /\ hook[w].member \in Members
  BY NoSessionNoHook, HookFields DEF IInv
<1>. QED BY <1>1 DEF StatusHolds, HasRow

LEMMA ReadPaymentStatus ==
  ASSUME ~Overlap, IInv, StatusHolds, NEW w \in Hooks, NEW e \in sent,
         ReadPayment(w, e)
  PROVE  StatusHolds'
<1>1. PICK m \in Lookup(e), status \in Decided :
        /\ status \in Target(e, row[m].status)
        /\ hook' = [hook EXCEPT ![w] =
                      [stage |-> "commit", event |-> e, member |-> m,
                       next |-> [row[m] EXCEPT !.status = status,
                                    !.intent = @ \/ e.type # "expired"]]]
  BY DEF ReadPayment, Target, Decided
<1>2. /\ m \in Members /\ HasRow(m) /\ row[m] \in Row
      /\ row[m].session = e.session
      /\ e.type = "refunded" => row[m].intent
  BY StoredIsRow DEF Lookup, IInv
<1>3. [row[m] EXCEPT !.status = status,
                     !.intent = @ \/ e.type # "expired"].status = status
  BY <1>2 DEF Row
<1>4. row[m].status = "FAILED" => ~(e.type \in {"paid", "refunded"})
  BY <1>2 DEF IInv, InFlightHolds, SentHolds, Since, RowAgreesWithStripe
<1>5. e.type = "refunded" => row[m].status \in Decided
  BY <1>2 DEF StatusHolds
<1>6. row[m].status = IF status = "REFUNDED" THEN "SUCCEEDED" ELSE "PENDING"
  BY <1>1, <1>2, <1>4, <1>5 DEF Target, Row, Decided
<1>7. \A v \in Hooks : hook[v] # IdleHook => hook[v].event # e
  BY DEF ReadPayment, MayReceive
<1>8. /\ hook'[w].event = e /\ hook'[w].member = m
      /\ hook'[w].next.status = status
      /\ \A v \in Hooks \ {w} : hook'[v] = hook[v]
  BY <1>1, <1>3 DEF IInv, TypeOK
<1>. QED BY <1>6, <1>7, <1>8 DEF ReadPayment, StatusHolds, HasRow

LEMMA CommitWebhookStatus ==
  ASSUME IInv, StatusHolds, NEW w \in Hooks, CommitWebhook(w)
  PROVE  StatusHolds'
<1>. DEFINE m == hook[w].member
<1>1. /\ hook[w] # IdleHook /\ m \in Members /\ hook[w].next.status \in Decided
  BY HookFields DEF CommitWebhook, IInv, InFlightHolds, HooksHold
<1>2. /\ HasRow(m)
      /\ row'[m] = hook[w].next
      /\ \A x \in Members \ {m} : row'[x] = row[x]
  BY <1>1 DEF CommitWebhook, IInv, TypeOK, InFlightHolds, HooksHold
<1>3. /\ hook'[w] = IdleHook
      /\ \A v \in Hooks \ {w} :
           /\ hook'[v] = hook[v]
           /\ hook[v] # IdleHook => /\ hook[v].member # m
                                    /\ hook[v].member \in Members
  BY <1>1, OneHookPerPayment, HookFields DEF CommitWebhook, IInv, TypeOK
<1>. QED BY <1>1, <1>2, <1>3 DEF StatusHolds, HasRow

LEMMA StatusStep ==
  ASSUME ~Overlap, ~IntentAtCreation, IInv, StatusHolds, [Next]_vars
  PROVE  StatusHolds'
<1>1. CASE \E c \in Calls, m \in Members : OpenPayment(c, m)
  <2>1. PICK c \in Calls, m \in Members : OpenPayment(c, m)
    BY <1>1
  <2>2. /\ \A x \in Members \ {m} : row'[x] = row[x]
        /\ row'[m] \in {row[m], NewRow}
        /\ ~HasRow(m) => row'[m] = NewRow
    BY <2>1 DEF OpenPayment, IInv, TypeOK
  <2>. QED BY <2>1, <2>2, StatusKept
           DEF OpenPayment, StatusHolds, NewRow, HasRow
<1>2. CASE \E c \in Calls : StripeFails(c)
  <2>1. PICK c \in Calls : StripeFails(c)
    BY <1>2
  <2>. DEFINE m == call[c].member
  <2>2. m \in Members /\ HasRow(m) /\ row[m].session = NoSession
    BY <2>1, CallFields DEF StripeFails, IInv, InFlightHolds, CallsHold
  <2>3. /\ \A x \in Members \ {m} : row'[x] = row[x]
        /\ row'[m] \in {row[m], NoRow}
    BY <2>1, <2>2 DEF StripeFails, IInv, TypeOK
  <2>. QED BY <2>1, <2>2, <2>3, StatusKept
           DEF StripeFails, StatusHolds, NoRow, HasRow
<1>3. CASE \E c \in Calls : StoreSession(c)
  <2>1. PICK c \in Calls : StoreSession(c)
    BY <1>3
  <2>. DEFINE m == call[c].member
  <2>2. m \in Members /\ HasRow(m) /\ row[m].session = NoSession
    BY <2>1, CallFields DEF StoreSession, IInv, InFlightHolds, CallsHold
  <2>3. /\ \A x \in Members \ {m} : row'[x] = row[x]
        /\ ~row'[m].intent
    BY <2>1, <2>2 DEF StoreSession, IInv, TypeOK, NewRow
  <2>. QED BY <2>1, <2>2, <2>3, StatusKept DEF StoreSession
<1>4. CASE \E w \in Hooks, e \in sent : ReadPayment(w, e)
  BY <1>4, ReadPaymentStatus
<1>5. CASE \E w \in Hooks : CommitWebhook(w)
  BY <1>5, CommitWebhookStatus
<1>6. CASE Crash
  BY <1>6 DEF Crash, StatusHolds, HasRow
<1>7. CASE UNCHANGED <<row, hook>>
  BY <1>7 DEF StatusHolds, HasRow
<1>. QED
  BY <1>1, <1>2, <1>3, <1>4, <1>5, <1>6, <1>7
     DEF Next, ReuseSession, StripeAnswers, IgnoreWebhook, Settle, Pay,
         PayLater, Clear, Bounce, Expire, Refund, StripeMove, service, vars

(* The status of every payment, as PaymentLifecycle sees it.               *)
Status == [m \in Members |-> row[m].status]

(* A step that changes one row only is a move of that payment.             *)
LEMMA OneMove ==
  ASSUME NEW m \in Members, NEW from, NEW to,
         row[m].status = from, row'[m].status = to,
         \A x \in Members \ {m} : row'[x] = row[x]
  PROVE  Lifecycle!Move(m, from, to)
BY DEF Lifecycle!Move

LEMMA LifecycleStep ==
  ASSUME ~Overlap, ~IntentAtCreation, IInv, StatusHolds, [Next]_vars
  PROVE  Lifecycle!Next \/ UNCHANGED Status
<1>1. CASE \E c \in Calls, m \in Members : OpenPayment(c, m)
  <2>1. PICK c \in Calls, m \in Members : OpenPayment(c, m)
    BY <1>1
  <2>2. CASE HasRow(m)
    BY <2>1, <2>2 DEF OpenPayment, IInv, TypeOK, Status
  <2>3. CASE ~HasRow(m)
    <3>1. /\ row[m].status = "none" /\ row'[m].status = "PENDING"
          /\ \A x \in Members \ {m} : row'[x] = row[x]
      BY <2>1, <2>3 DEF OpenPayment, IInv, TypeOK, HasRow, NewRow
    <3>. QED BY <3>1, OneMove DEF Lifecycle!Next, Lifecycle!Open
  <2>. QED BY <2>2, <2>3
<1>2. CASE \E c \in Calls : StripeFails(c) \/ StoreSession(c)
  <2>1. PICK c \in Calls : StripeFails(c) \/ StoreSession(c)
    BY <1>2
  <2>. DEFINE m == call[c].member
  <2>2. m \in Members /\ HasRow(m) /\ row[m].session = NoSession
    BY <2>1, CallFields
       DEF StripeFails, StoreSession, IInv, InFlightHolds, CallsHold
  <2>3. row[m].status = "PENDING"
    BY <2>2, StoredIsRow DEF IInv, InFlightHolds, RowsHold, Row
  <2>4. \A x \in Members \ {m} : row'[x] = row[x]
    BY <2>1, <2>2 DEF StripeFails, StoreSession, IInv, TypeOK
  <2>5. row'[m].status \in {"PENDING", "none"}
    <3>1. CASE StripeFails(c)
      BY <2>2, <2>3, <3>1 DEF StripeFails, IInv, TypeOK, NoRow
    <3>2. CASE StoreSession(c)
      BY <2>2, <3>2 DEF StoreSession, IInv, TypeOK, NewRow
    <3>. QED BY <2>1, <3>1, <3>2
  <2>6. CASE row'[m].status = "PENDING"
    BY <2>3, <2>4, <2>6 DEF Status
  <2>7. CASE row'[m].status = "none"
    BY <2>2, <2>3, <2>4, <2>7, OneMove DEF Lifecycle!Next, Lifecycle!Withdraw
  <2>. QED BY <2>5, <2>6, <2>7
<1>3. CASE \E w \in Hooks : CommitWebhook(w)
  <2>1. PICK w \in Hooks : CommitWebhook(w)
    BY <1>3
  <2>. DEFINE m == hook[w].member
              new == hook[w].next.status
  <2>2. /\ m \in Members /\ HasRow(m) /\ new \in Decided
        /\ row[m].status = IF new = "REFUNDED" THEN "SUCCEEDED" ELSE "PENDING"
    BY <2>1, HookFields
       DEF CommitWebhook, IInv, InFlightHolds, HooksHold, StatusHolds
  <2>3. /\ row'[m].status = new
        /\ \A x \in Members \ {m} : row'[x] = row[x]
    BY <2>1, <2>2 DEF CommitWebhook, IInv, TypeOK
  <2>4. CASE new = "SUCCEEDED"
    BY <2>2, <2>3, <2>4, OneMove DEF Lifecycle!Next, Lifecycle!Succeed
  <2>5. CASE new = "FAILED"
    BY <2>2, <2>3, <2>5, OneMove DEF Lifecycle!Next, Lifecycle!Fail
  <2>6. CASE new = "REFUNDED"
    BY <2>2, <2>3, <2>6, OneMove DEF Lifecycle!Next, Lifecycle!Refund
  <2>. QED BY <2>2, <2>4, <2>5, <2>6 DEF Decided
<1>4. CASE UNCHANGED row
  BY <1>4 DEF Status
<1>. QED
  BY <1>1, <1>2, <1>3, <1>4
     DEF Next, ReuseSession, StripeAnswers, IgnoreWebhook, ReadPayment, Settle,
         Pay, PayLater, Clear, Bounce, Expire, Refund, StripeMove, service,
         Crash, vars

-----------------------------------------------------------------------------
(* The outbox tells what the payments table says.                          *)

(* The last event of a decided payment is its decision; a payment that is  *)
(* not decided has no events.  OutboxMatchesRow follows, with the index    *)
(* that its CHOOSE finds.                                                  *)
LastAt(m, i) ==
  /\ outbox[i].member = m
  /\ \A j \in 1..Len(outbox) : outbox[j].member = m => j <= i

OutboxHolds ==
  \A m \in Members :
    IF row[m].status \in Decided
      THEN \E i \in 1..Len(outbox) : LastAt(m, i) /\ outbox[i].type = row[m].status
      ELSE \A i \in 1..Len(outbox) : outbox[i].member # m

LEMMA LastEventIs ==
  ASSUME TypeOK, NEW m \in Members, NEW i \in 1..Len(outbox), LastAt(m, i)
  PROVE  LastEvent(m) = outbox[i].type
<1>. DEFINE mine == {j \in 1..Len(outbox) : outbox[j].member = m}
            last == CHOOSE j \in mine : \A k \in mine : k <= j
<1>1. i \in mine /\ \A k \in mine : k <= i
  BY DEF LastAt
<1>2. last \in mine /\ \A k \in mine : k <= last
  BY <1>1
<1>3. Len(outbox) \in Nat
  BY DEF TypeOK
<1>4. last \in Int /\ i \in Int
  BY <1>2, <1>3
<1>5. last = i
  BY <1>1, <1>2, <1>4
<1>. QED BY <1>1, <1>5 DEF LastEvent

LEMMA OutboxMatches ==
  ASSUME IInv, OutboxHolds
  PROVE  OutboxMatchesRow
<1>. SUFFICES ASSUME NEW m \in Members
              PROVE  IF HasRow(m) THEN LastEvent(m) = row[m].status
                     ELSE LastEvent(m) = "PENDING"
  BY DEF OutboxMatchesRow
<1>1. CASE row[m].status \in Decided
  <2>1. PICK i \in 1..Len(outbox) : LastAt(m, i) /\ outbox[i].type = row[m].status
    BY <1>1 DEF OutboxHolds
  <2>. QED BY <1>1, <2>1, LastEventIs DEF IInv, HasRow, Decided
<1>2. CASE row[m].status \notin Decided
  <2>1. LastEvent(m) = "PENDING"
    BY <1>2 DEF OutboxHolds, LastEvent
  <2>2. HasRow(m) => row[m].status = "PENDING"
    BY <1>2, StoredIsRow DEF IInv, Row
  <2>. QED BY <2>1, <2>2
<1>. QED BY <1>1, <1>2

LEMMA OutboxInit == ASSUME Init PROVE OutboxHolds
BY DEF Init, OutboxHolds, NoRow, Decided

(* Only a webhook decides a payment, and the other steps leave the decided *)
(* ones alone.                                                             *)
LEMMA OutboxKept ==
  ASSUME OutboxHolds, NEW m \in Members, ~(row[m].status \in Decided),
         ~(row'[m].status \in Decided), UNCHANGED outbox,
         \A x \in Members \ {m} : row'[x] = row[x]
  PROVE  OutboxHolds'
BY DEF OutboxHolds, LastAt

LEMMA CommitWebhookOutbox ==
  ASSUME IInv, OutboxHolds, NEW w \in Hooks, CommitWebhook(w)
  PROVE  OutboxHolds'
<1>1. PICK m \in Members, next \in Row : m = hook[w].member /\ next = hook[w].next
  BY HookFields DEF CommitWebhook, IInv
<1>2. HasRow(m) /\ next.status \in Decided
  BY <1>1, HookFields DEF CommitWebhook, IInv, InFlightHolds, HooksHold
<1>3. row'[m] = next /\ \A x \in Members \ {m} : row'[x] = row[x]
  BY <1>1, <1>2 DEF CommitWebhook, IInv, TypeOK
<1>4. PICK n \in Nat : n = Len(outbox)
  BY DEF IInv, TypeOK
<1>5. [type |-> next.status, member |-> m] \in OutboxEvent
  BY <1>2 DEF OutboxEvent
<1>6. outbox' = Append(outbox, [type |-> next.status, member |-> m])
  BY <1>1 DEF CommitWebhook
<1>7. /\ Len(outbox') = n + 1
      /\ \A i \in 1..n : outbox'[i] = outbox[i]
      /\ outbox'[n + 1] = [type |-> next.status, member |-> m]
  BY <1>4, <1>5, <1>6 DEF IInv, TypeOK
<1>8. ASSUME NEW i \in 1..(n + 1) PROVE i \in 1..n \/ i = n + 1
  OBVIOUS
<1>9. \E i \in 1..(n + 1) : LastAt(m, i)' /\ outbox'[i].type = next.status
  <2>1. n + 1 \in 1..(n + 1) /\ \A j \in 1..(n + 1) : j <= n + 1
    OBVIOUS
  <2>2. LastAt(m, n + 1)'
    BY <1>7, <2>1 DEF LastAt
  <2>. QED BY <1>7, <2>1, <2>2
<1>10. ASSUME NEW x \in Members \ {m}, row[x].status \in Decided
       PROVE  \E i \in 1..(n + 1) : LastAt(x, i)' /\ outbox'[i].type = row[x].status
  <2>1. PICK i \in 1..n : LastAt(x, i) /\ outbox[i].type = row[x].status
    BY <1>4, <1>10 DEF OutboxHolds
  <2>2. i \in 1..(n + 1)
    BY <2>1
  <2>3. \A j \in 1..(n + 1) : outbox'[j].member = x => j <= i
    BY <1>4, <1>7, <1>8, <2>1 DEF LastAt
  <2>4. LastAt(x, i)'
    BY <1>7, <2>1, <2>3 DEF LastAt
  <2>. QED BY <1>7, <2>1, <2>2, <2>4
<1>11. ASSUME NEW x \in Members \ {m}, row[x].status \notin Decided
       PROVE  \A i \in 1..(n + 1) : outbox'[i].member # x
  BY <1>4, <1>7, <1>8, <1>11 DEF OutboxHolds
<1>. QED BY <1>2, <1>3, <1>7, <1>9, <1>10, <1>11 DEF OutboxHolds

LEMMA OutboxStep ==
  ASSUME IInv, OutboxHolds, [Next]_vars
  PROVE  OutboxHolds'
<1>1. CASE \E c \in Calls, m \in Members : OpenPayment(c, m)
  <2>1. PICK c \in Calls, m \in Members : OpenPayment(c, m)
    BY <1>1
  <2>2. /\ \A x \in Members \ {m} : row'[x] = row[x]
        /\ row'[m] = IF HasRow(m) THEN row[m] ELSE NewRow
        /\ UNCHANGED outbox
    BY <2>1 DEF OpenPayment, IInv, TypeOK
  <2>3. ~(row[m].status \in Decided)
    BY <2>1 DEF OpenPayment, HasRow, Decided
  <2>. QED BY <2>2, <2>3, OutboxKept DEF NewRow, Decided
<1>2. CASE \E c \in Calls : StripeFails(c) \/ StoreSession(c)
  <2>1. PICK c \in Calls : StripeFails(c) \/ StoreSession(c)
    BY <1>2
  <2>2. PICK m \in Members : m = call[c].member
    BY <2>1, CallFields DEF StripeFails, StoreSession, IInv
  <2>3. HasRow(m) /\ row[m].session = NoSession
    BY <2>1, <2>2, CallFields
       DEF StripeFails, StoreSession, IInv, InFlightHolds, CallsHold
  <2>4. ~(row[m].status \in Decided)
    BY <2>3 DEF IInv, InFlightHolds, RowsHold
  <2>5. /\ \A x \in Members \ {m} : row'[x] = row[x]
        /\ UNCHANGED outbox
    BY <2>1, <2>2 DEF StripeFails, StoreSession, IInv, TypeOK
  <2>6. ~(row'[m].status \in Decided)
    <3>1. CASE StripeFails(c)
      BY <2>2, <2>4, <3>1 DEF StripeFails, IInv, TypeOK, NoRow, Decided
    <3>2. CASE StoreSession(c)
      BY <2>2, <2>3, <3>2 DEF StoreSession, IInv, TypeOK, NewRow, Decided
    <3>. QED BY <2>1, <3>1, <3>2
  <2>. QED BY <2>4, <2>5, <2>6, OutboxKept
<1>3. CASE \E w \in Hooks : CommitWebhook(w)
  BY <1>3, CommitWebhookOutbox
<1>4. CASE UNCHANGED <<row, outbox>>
  BY <1>4 DEF OutboxHolds, LastAt
<1>. QED
  BY <1>1, <1>2, <1>3, <1>4
     DEF Next, ReuseSession, StripeAnswers, IgnoreWebhook, ReadPayment, Settle,
         Pay, PayLater, Clear, Bounce, Expire, Refund, StripeMove, service,
         Crash, vars

-----------------------------------------------------------------------------
(* Rows, calls and webhooks in flight, and sessions always have their      *)
(* types.                                                                  *)
THEOREM TypeCorrect == Spec => []TypeOK
BY InvariantHolds, PTL DEF IInv

(* What createCheckoutSession and handleStripeWebhook read before they call*)
(* Stripe or open their transaction still holds when they write, although  *)
(* nothing locks the row in between.                                       *)
THEOREM InFlightCorrect == Spec => []InFlightHolds
BY InvariantHolds, PTL DEF IInv

(* The payments table never claims money Stripe does not have, however     *)
(* webhooks overlap, repeat or are interrupted.                            *)
THEOREM RowCorrect == Spec => []RowAgreesWithStripe
BY InvariantHolds, PTL DEF IInv

(* A session that a learner can pay is the one stored for its payment,     *)
(* whatever calls failed or stopped half way before.                       *)
THEOREM SessionCorrect == Spec => []SharedSessionIsKnown
BY InvariantHolds, PTL DEF IInv

(* The outbox tells the story of the payments table: what was published of *)
(* a payment last is what its row says, even when webhooks handled at once *)
(* overwrite each other's rows.                                            *)
THEOREM OutboxCorrect == Spec => []OutboxMatchesRow
<1>1. Init => OutboxHolds
  BY OutboxInit
<1>2. IInv /\ OutboxHolds /\ [Next]_vars => OutboxHolds'
  BY OutboxStep
<1>3. IInv /\ OutboxHolds => OutboxMatchesRow
  BY OutboxMatches
<1>. QED BY <1>1, <1>2, <1>3, InvariantHolds, PTL DEF Spec

(* A payment is decided once and a refund is final: the payments table     *)
(* implements PaymentLifecycle, if Stripe handles one delivery of an event *)
(* at a time and names the payment intent only with the completed checkout.*)
THEOREM LifecycleCorrect ==
  ~Overlap /\ ~IntentAtCreation => (Spec => LifecycleSpec)
<1>. SUFFICES ASSUME ~Overlap, ~IntentAtCreation
              PROVE  Spec => LifecycleSpec
  OBVIOUS
<1>1. Init => Lifecycle!Init
  BY DEF Init, Lifecycle!Init, NoRow
<1>2. IInv /\ StatusHolds /\ [Next]_vars => [Lifecycle!Next]_Status
  BY LifecycleStep
<1>3. Init => StatusHolds
  BY StatusInit
<1>4. IInv /\ StatusHolds /\ [Next]_vars => StatusHolds'
  BY StatusStep
<1>. QED
  BY <1>1, <1>2, <1>3, <1>4, InvariantHolds, PTL
     DEF Spec, LifecycleSpec, Lifecycle!Spec, Status

=============================================================================
