------------------------------ MODULE OutboxRelay ------------------------------
(***************************************************************************)
(* The way of a domain event from a service's outbox table to a consumer:  *)
(* an outbox worker (user, skill or payment), the stew_exchange topic      *)
(* exchange with one durable queue, and a RabbitMQ consumer (skill,        *)
(* notification or es-proxy).                                              *)
(*                                                                         *)
(* The worker's setInterval callback is not guarded, so passes over the    *)
(* pending rows may overlap.  It publishes on a plain channel: a message   *)
(* waits in a buffer until the broker has it, and nothing confirms that.   *)
(* The consumer starts to consume before its first handler is registered,  *)
(* and a handler is registered only after its binding was made.            *)
(***************************************************************************)
EXTENDS Integers, Sequences, FiniteSets

CONSTANTS
  Events,         \* rows of outbox_events
  Name,           \* the event name of each row
  Setup,          \* event names in the order setupEventHandlers takes them
  Malformed,      \* rows whose name or payload the schemas reject
  Passes,         \* polling passes that may overlap
  Limit,          \* PENDING_FETCH_LIMIT
  Ordered,        \* whether the fetch sorts by created_at (skill worker)
  ConsumerReady,  \* whether the consumer is deployed and set up at first
  Restarts,       \* whether the consumer may stop
  LossyStops,     \* whether a lost connection may lose what is in the buffer
  BrokerCloses,   \* whether the broker may close the worker's connection
  Requeues,       \* whether a failed message goes back to the queue: the
                  \* answers the handler of each event name may give
  MaxFaults       \* bound on faults

ASSUME RelayAssumption ==
  /\ Setup \in Seq({Name[e] : e \in Events})
  /\ \A e \in Events : \E i \in 1..Len(Setup) : Setup[i] = Name[e]
  /\ Malformed \subseteq Events
  /\ Limit \in Nat \ {0} /\ MaxFaults \in Nat
  /\ {Ordered, ConsumerReady, Restarts, LossyStops, BrokerCloses} \subseteq BOOLEAN
  /\ \A e \in Events : Requeues[Name[e]] \subseteq BOOLEAN

VARIABLES
  table,       \* status of each outbox row
  created,     \* rows in the order of created_at
  before,      \* history: what was committed when a row was created
  pass,        \* the rows each pass still has to go through
  channel,     \* the worker's channel, "open" or "closed"
  buffer,      \* published messages the broker does not have yet
  arrived,     \* history: events in the order the broker first got them
  bindings,    \* event names bound to the queue
  queue,       \* copies of each event ready in the queue
  consumer,    \* "down" or "up"
  registered,  \* how many handlers of Setup are registered
  inflight,    \* copies of each event being handled
  handled,     \* events handled and acknowledged at least once
  dropped,     \* history: events a copy of which failed and was not requeued
  faults       \* faults so far

rows == <<table, created, before>>
worker == <<pass, channel, buffer>>
consuming == <<consumer, registered, inflight, handled, dropped>>
broker == <<arrived, bindings, queue>>
vars == <<table, created, before, pass, channel, buffer, arrived, bindings,
          queue, consumer, registered, inflight, handled, dropped, faults>>

RowStates == {"none", "open", "rolled back", "PENDING", "PROCESSED"}
Committed == {e \in Events : table[e] \in {"PENDING", "PROCESSED"}}
Pending == {e \in Events : table[e] = "PENDING"}
Idle == [rows |-> <<>>, stage |-> "publish"]
Ran(s) == {s[i] : i \in DOMAIN s}
Handlers == {Setup[i] : i \in 1..registered}

Init ==
  /\ table = [e \in Events |-> "none"]
  /\ created = <<>>
  /\ before = [e \in Events |-> {}]
  /\ pass = [p \in Passes |-> Idle]
  /\ channel = "open"
  /\ buffer = <<>> /\ arrived = <<>>
  /\ bindings = IF ConsumerReady THEN Ran(Setup) ELSE {}
  /\ consumer = IF ConsumerReady THEN "up" ELSE "down"
  /\ registered = IF ConsumerReady THEN Len(Setup) ELSE 0
  /\ queue = [e \in Events |-> 0] /\ inflight = [e \in Events |-> 0]
  /\ handled = {} /\ dropped = {}
  /\ faults = 0

-----------------------------------------------------------------------------
(* A use case stamps its outbox row and commits it with its data.          *)

CreateRow(e) ==
  /\ table[e] = "none"
  /\ table' = [table EXCEPT ![e] = "open"]
  /\ created' = Append(created, e)
  /\ before' = [before EXCEPT ![e] = Committed]
  /\ UNCHANGED <<worker, broker, consuming, faults>>

EndTransaction(e) ==
  /\ table[e] = "open"
  /\ \E status \in {"PENDING", "rolled back"} :
       table' = [table EXCEPT ![e] = status]
  /\ UNCHANGED <<created, before, worker, broker, consuming, faults>>

-----------------------------------------------------------------------------
(* The worker.                                                             *)

Older(e, f) == \E i, j \in DOMAIN created :
                 i < j /\ created[i] = e /\ created[j] = f

OldestFirst(s) ==
  /\ \A i, j \in DOMAIN s : i < j => Older(s[i], s[j])
  /\ \A i \in DOMAIN s, e \in Pending \ Ran(s) : Older(s[i], e)

BatchSize == IF Cardinality(Pending) < Limit THEN Cardinality(Pending)
             ELSE Limit

Batch(s) ==
  /\ s # <<>>
  /\ \A i, j \in DOMAIN s : s[i] = s[j] => i = j

(* Mutant: the sort is missing.                                            *)
FetchUnsorted(p) ==
  /\ pass[p].rows = <<>>
  /\ \E s \in [1..BatchSize -> Pending] :
       /\ Batch(s)
       /\ pass' = [pass EXCEPT ![p].rows = s]
  /\ UNCHANGED <<rows, channel, buffer, broker, consuming, faults>>

(* Mutant: the rows of a pass are claimed when they are fetched.           *)
FetchClaiming(p) ==
  /\ pass[p].rows = <<>>
  /\ \E s \in [1..BatchSize -> Pending] :
       /\ Batch(s)
       /\ Ordered => OldestFirst(s)
       /\ pass' = [pass EXCEPT ![p].rows = s]
       /\ table' = [e \in Events |-> IF e \in Ran(s) THEN "PROCESSED"
                                     ELSE table[e]]
  /\ UNCHANGED <<created, before, channel, buffer, broker, consuming, faults>>

(* The interval fires, whether or not an earlier pass has ended.           *)
Fetch(p) ==
  /\ pass[p].rows = <<>>
  /\ \E s \in [1..BatchSize -> Pending] :
       /\ Batch(s)
       /\ Ordered => OldestFirst(s)
       /\ pass' = [pass EXCEPT ![p].rows = s]
  /\ UNCHANGED <<rows, channel, buffer, broker, consuming, faults>>

Skip(p) == pass' = [pass EXCEPT ![p] = [Idle EXCEPT !.rows = Tail(pass[p].rows)]]

(* A malformed row is only marked.  On a closed channel publish throws, and*)
(* the pass goes on with the next row.                                     *)
Publish(p) ==
  LET e == Head(pass[p].rows) IN
  /\ pass[p].rows # <<>> /\ pass[p].stage = "publish"
  /\ IF e \in Malformed \/ channel = "open"
       THEN pass' = [pass EXCEPT ![p].stage = "mark"]
       ELSE Skip(p)
  /\ buffer' = IF e \in Malformed \/ channel = "closed" THEN buffer
               ELSE Append(buffer, e)
  /\ UNCHANGED <<rows, channel, broker, consuming, faults>>

(* Mutant: a status outside the enum.                                      *)
MarkMisspelt(p) ==
  /\ pass[p].stage = "mark"
  /\ table' = [table EXCEPT ![Head(pass[p].rows)] = "DONE"]
  /\ Skip(p)
  /\ UNCHANGED <<created, before, channel, buffer, broker, consuming, faults>>

Mark(p) ==
  /\ pass[p].stage = "mark"
  /\ table' = [table EXCEPT ![Head(pass[p].rows)] = "PROCESSED"]
  /\ Skip(p)
  /\ UNCHANGED <<created, before, channel, buffer, broker, consuming, faults>>

Fault == faults < MaxFaults /\ faults' = faults + 1

(* The update fails: the pass goes on, except after a malformed row.       *)
MarkFails(p) ==
  /\ Fault
  /\ pass[p].stage = "mark"
  /\ IF Head(pass[p].rows) \in Malformed
       THEN pass' = [pass EXCEPT ![p] = Idle]
       ELSE Skip(p)
  /\ UNCHANGED <<rows, channel, buffer, broker, consuming>>

LoseBuffer == \E k \in 0..Len(buffer) :
                /\ LossyStops \/ k = Len(buffer)
                /\ buffer' = SubSeq(buffer, 1, k)

(* The process exits and is started again, with a new channel.             *)
WorkerRestarts ==
  /\ Fault
  /\ pass' = [p \in Passes |-> Idle]
  /\ channel' = "open"
  /\ LoseBuffer
  /\ UNCHANGED <<rows, broker, consuming>>

(* The broker closes the connection, which raises no 'error' event: the    *)
(* process stays, and nothing in it connects again.                        *)
BrokerClosesConnection ==
  /\ BrokerCloses /\ Fault
  /\ channel = "open" /\ channel' = "closed"
  /\ LoseBuffer
  /\ UNCHANGED <<rows, pass, broker, consuming>>

-----------------------------------------------------------------------------
(* The broker gets the next message; one that no binding routes is dropped.*)
Arrive ==
  LET e == Head(buffer) IN
  /\ buffer # <<>>
  /\ buffer' = Tail(buffer)
  /\ arrived' = IF e \in Ran(arrived) THEN arrived ELSE Append(arrived, e)
  /\ queue' = IF Name[e] \in bindings THEN [queue EXCEPT ![e] = @ + 1]
              ELSE queue
  /\ UNCHANGED <<rows, pass, channel, bindings, consuming, faults>>

-----------------------------------------------------------------------------
(* The consumer.                                                           *)

(* new RabbitMQEventConsumer(...) consumes at once.                        *)
StartConsumer ==
  /\ consumer = "down"
  /\ consumer' = "up"
  /\ UNCHANGED <<rows, worker, broker, registered, inflight, handled, dropped, faults>>

(* registerHandler, before and after its await.                            *)
Bind ==
  /\ consumer = "up" /\ registered < Len(Setup)
  /\ Setup[registered + 1] \notin bindings
  /\ bindings' = bindings \cup {Setup[registered + 1]}
  /\ UNCHANGED <<rows, worker, arrived, queue, consuming, faults>>

SetHandler ==
  /\ consumer = "up" /\ registered < Len(Setup)
  /\ Setup[registered + 1] \in bindings
  /\ registered' = registered + 1
  /\ UNCHANGED <<rows, worker, broker, consumer, inflight, handled, dropped, faults>>

(* A message without a handler is acknowledged.                            *)
Deliver(e) ==
  /\ consumer = "up" /\ queue[e] > 0
  /\ queue' = [queue EXCEPT ![e] = @ - 1]
  /\ inflight' = IF Name[e] \in Handlers THEN [inflight EXCEPT ![e] = @ + 1]
                 ELSE inflight
  /\ UNCHANGED <<rows, worker, arrived, bindings, consumer, registered, handled>>
  /\ UNCHANGED <<dropped, faults>>

(* The handler succeeds and the message is acknowledged.                   *)
Handle(e) ==
  /\ inflight[e] > 0
  /\ inflight' = [inflight EXCEPT ![e] = @ - 1]
  /\ handled' = handled \cup {e}
  /\ UNCHANGED <<rows, worker, broker, consumer, registered, dropped, faults>>

(* Mutant: the failed message is not requeued, whatever the handler said.  *)
HandlerFailsUnheard(e) ==
  /\ Fault
  /\ inflight[e] > 0
  /\ inflight' = [inflight EXCEPT ![e] = @ - 1]
  /\ dropped' = dropped \cup {e}
  /\ UNCHANGED <<rows, worker, broker, consumer, registered, handled>>

(* nack, with requeue as the handler's result or the error's retryable has *)
(* it: always for user.verified in es-proxy, for transient errors alone in *)
(* the user service, and never in the other handlers of es-proxy, none of  *)
(* whose errors is transient, nor in the skill and notification services,  *)
(* whose transient errors say they are not retryable.                      *)
HandlerFails(e) ==
  /\ Fault
  /\ inflight[e] > 0
  /\ inflight' = [inflight EXCEPT ![e] = @ - 1]
  /\ \E requeue \in Requeues[Name[e]] :
       IF requeue
         THEN queue' = [queue EXCEPT ![e] = @ + 1] /\ UNCHANGED dropped
         ELSE dropped' = dropped \cup {e} /\ UNCHANGED queue
  /\ UNCHANGED <<rows, worker, arrived, bindings, consumer, registered, handled>>

StopConsumer ==
  /\ Restarts /\ Fault
  /\ consumer = "up" /\ consumer' = "down"
  /\ registered' = 0
  /\ queue' = [e \in Events |-> queue[e] + inflight[e]]
  /\ inflight' = [e \in Events |-> 0]
  /\ UNCHANGED <<rows, worker, arrived, bindings, handled, dropped>>

-----------------------------------------------------------------------------
Next ==
  \/ \E e \in Events : CreateRow(e) \/ EndTransaction(e)
  \/ \E p \in Passes : Fetch(p) \/ Publish(p) \/ Mark(p) \/ MarkFails(p)
  \/ WorkerRestarts \/ BrokerClosesConnection
  \/ Arrive
  \/ StartConsumer \/ Bind \/ SetHandler \/ StopConsumer
  \/ \E e \in Events : Deliver(e) \/ Handle(e) \/ HandlerFails(e)

Spec == Init /\ [][Next]_vars

(* The interval keeps firing, calls that were started return, the broker   *)
(* reads and delivers.  A worker that runs is not restarted by anybody.    *)
Fairness ==
  /\ \A p \in Passes : /\ WF_vars(Fetch(p))
                       /\ WF_vars(Publish(p))
                       /\ WF_vars(Mark(p))
  /\ WF_vars(Arrive)
  /\ WF_vars(StartConsumer) /\ WF_vars(Bind) /\ WF_vars(SetHandler)
  /\ \A e \in Events : WF_vars(Deliver(e)) /\ WF_vars(Handle(e))

FairSpec == Spec /\ Fairness

-----------------------------------------------------------------------------
(* Properties.                                                             *)

(* Rows, passes and message counts have their types.                       *)
TypeOK ==
  /\ table \in [Events -> RowStates]
  /\ created \in Seq(Events)
  /\ before \in [Events -> SUBSET Events]
  /\ pass \in [Passes -> [rows : Seq(Events), stage : {"publish", "mark"}]]
  /\ channel \in {"open", "closed"}
  /\ buffer \in Seq(Events) /\ arrived \in Seq(Events)
  /\ bindings \subseteq Ran(Setup)
  /\ consumer \in {"down", "up"}
  /\ registered \in 0..Len(Setup)
  /\ queue \in [Events -> Nat] /\ inflight \in [Events -> Nat]
  /\ handled \subseteq Events /\ dropped \subseteq Events
  /\ faults \in 0..MaxFaults

(* "Mark as PROCESSED only after successful publish": a processed row is   *)
(* on its way to the broker or there already.                              *)
ProcessedIsPublished ==
  \A e \in Events : table[e] = "PROCESSED" =>
    e \in Malformed \cup Ran(buffer) \cup Ran(arrived)

(* The skill worker sorts, so an event that was committed before another   *)
(* one was created also reaches the broker first, if it does: overlapping  *)
(* passes, failed updates, restarts and lost buffers included.             *)
CausalOrder ==
  \A i, j \in DOMAIN arrived : i < j => arrived[j] \notin before[arrived[i]]

(* What a queue hands out is handled before it is gone: at-least-once      *)
(* delivery, on the consumer's side.                                       *)
GoneWasHandled ==
  [][\A e \in Events :
       queue'[e] + inflight'[e] < queue[e] + inflight[e] => e \in handled']_vars

(* What becomes of a well-formed committed event, whatever updates fail and*)
(* workers restart, is what EventDelivery promises of it, as long as the   *)
(* consumer stays up (GoneWasHandled tells what a restart does):           *)
(* an event whose handler has every failure tried again (user.verified in  *)
(* es-proxy) is handled; any other is handled, or its handler failed and   *)
(* the message was not requeued.                                           *)
Delivery == INSTANCE EventDelivery WITH
              Events <- Events \ Malformed,
              Retried <- {e \in Events \ Malformed : Requeues[Name[e]] = {TRUE}},
              fate <- [e \in Events \ Malformed |->
                         IF e \in handled THEN "handled"
                         ELSE IF e \in dropped THEN "given up"
                         ELSE IF e \in Committed THEN "committed" ELSE "none"]
DeliverySpec == Delivery!Spec

(* "Don't mark processed - retry next interval": a pending row reaches the *)
(* broker in the end.                                                      *)
PendingIsPublished ==
  \A e \in Events \ Malformed :
    table[e] = "PENDING" ~> \E i \in DOMAIN arrived : arrived[i] = e

=============================================================================
