---------------------------- MODULE Notifications ----------------------------
(***************************************************************************)
(* The notification service, fed by the connection events of the user      *)
(* service: an event becomes a notification of one user and one more in    *)
(* the unread counter, in one MongoDB transaction; the cached counter in   *)
(* Redis follows after the commit.  Reading a notification does the        *)
(* reverse; reading the counter fills the cache when it misses.            *)
(*                                                                         *)
(* Counter documents have no unique index, so a user may get two of them;  *)
(* every operation works with the one of lowest record id it can see.      *)
(* A transaction whose counter was written meanwhile ends in a write       *)
(* conflict; its error loses the label that would have it retried.  The    *)
(* outbox worker and the broker (module OutboxRelay) are what Receive      *)
(* assumes of them: a committed event is delivered at any time after its   *)
(* commit, in any order, and possibly again.                               *)
(***************************************************************************)
EXTENDS Connections, Functions, FiniteSetsExt, TLC

CONSTANTS
  Jobs,        \* handlers, markRead calls and counter reads at work at once
  MaxRelays,   \* bound on deliveries of events, copies included
  MaxCalls,    \* bound on markRead calls and counter reads
  MaxFaults,   \* bound on crashes, expiries and failures
  PageLimits   \* page sizes a client asks for

ASSUME NotificationsAssumption ==
  /\ IsFiniteSet(Jobs)
  /\ {MaxRelays, MaxCalls, MaxFaults} \subseteq Nat /\ PageLimits \subseteq Nat \ {0}

VARIABLES
  sent,       \* how often each event was relayed
  queue,      \* copies of each event that wait to be delivered again
  notes,      \* notifications, in the order of their ids
  counters,   \* each user's counter documents: record id -> unreadCount
  cache,      \* each user's key in Redis
  job,        \* what each job is doing
  dropped,    \* history: events nacked without requeue
  doubled,    \* history: how often a notification was read a second time
  disturbed,  \* history: users whose cached count cannot be relied on
  calls,      \* calls of clients so far
  faults      \* faults so far

delivery == <<sent, queue, dropped>>
store == <<notes, counters, doubled>>
caching == <<cache, disturbed>>
notifications == <<delivery, store, caching, job, calls, faults>>
vars == <<connections, sent, queue, notes, counters, cache, job, dropped,
          doubled, disturbed, calls, faults>>

NoJob == [stage |-> "none"]
NoKey == [set |-> FALSE, ttl |-> FALSE, count |-> 0]
Empty == [i \in {} |-> 0]
Recipient(e) == IF e.kind = "requested" THEN e.other ELSE e.requester
Unread(u) == {n \in DOMAIN notes : notes[n].recipient = u /\ ~notes[n].isRead}
First(u) == Min(DOMAIN counters[u])
Count(u) == IF counters[u] = Empty THEN 0 ELSE counters[u][First(u)]

Init ==
  /\ ConnectionsInit
  /\ sent = [n \in 1..MaxEvents |-> 0]
  /\ queue = [n \in 1..MaxEvents |-> 0]
  /\ notes = <<>>
  /\ counters = [u \in Users |-> Empty]
  /\ cache = [u \in Users |-> NoKey]
  /\ job = [j \in Jobs |-> NoJob]
  /\ dropped = {} /\ doubled = [u \in Users |-> 0]
  /\ disturbed = {} /\ calls = 0 /\ faults = 0

-----------------------------------------------------------------------------
Is(j, op, stage) == job[j] # NoJob /\ job[j].op = op /\ job[j].stage = stage
Busy(u) == {j \in Jobs : job[j] # NoJob /\ job[j].user = u}
Set(j, r) == job' = [job EXCEPT ![j] = r]
End(j) == Set(j, NoJob)
Goto(j, stage) == job' = [job EXCEPT ![j].stage = stage]

-----------------------------------------------------------------------------
(* Transactions.  The counter document a transaction works with is chosen  *)
(* from its snapshot; an upsert that sees none inserts one.                *)

RecordIds(u) == DOMAIN counters[u]
                  \cup {job[j].rid : j \in {k \in Busy(u) : job[k].stage = "tx"}}
NewRecord(u) == IF RecordIds(u) = {} THEN 1 ELSE Max(RecordIds(u)) + 1

Tx(op, n, u) ==
  [stage |-> "tx", op |-> op, n |-> n, user |-> u, clean |-> TRUE,
   rid |-> IF counters[u] = Empty THEN NewRecord(u) ELSE First(u)]

Begin(j, op, n, u) == Set(j, Tx(op, n, u))

(* Committing spoils the transactions on the same document and the counts  *)
(* that were read from it and wait to be cached.                           *)
Spoilt(j, k) ==
  /\ job[k] # NoJob /\ k # j /\ job[k].user = job[j].user
  /\ \/ job[k].stage = "tx" /\ job[k].rid = job[j].rid
     \/ job[k].stage = "tx" /\ job[k].op = "mark" /\ job[j].op = "mark"
          /\ job[k].n = job[j].n
     \/ job[k].stage \in {"insert", "fill"}

AfterCommit(j) ==
  job' = [k \in Jobs |-> IF k = j THEN [job[j] EXCEPT !.stage = "cache"]
                         ELSE IF Spoilt(j, k) THEN [job[k] EXCEPT !.clean = FALSE]
                         ELSE job[k]]

Add(u, rid, d) ==
  counters' = [counters EXCEPT ![u] =
    [r \in DOMAIN @ \cup {rid} |->
       (IF r \in DOMAIN @ THEN @[r] ELSE 0) + (IF r = rid THEN d ELSE 0)]]

(* The document whose count is shown is the one that is written.           *)
Counted(u, rid) == counters[u] = Empty \/ rid = First(u)

Disturb(u, cond) == disturbed' = IF cond THEN disturbed \cup {u} ELSE disturbed

(* createNotification, for the handlers of connection.requested, accepted  *)
(* and rejected.                                                           *)
Receive(j, n) ==
  /\ job[j] = NoJob
  /\ \/ /\ SumFunction(sent) < MaxRelays
        /\ sent' = [sent EXCEPT ![n] = @ + 1]
        /\ UNCHANGED queue
     \/ /\ queue[n] > 0
        /\ queue' = [queue EXCEPT ![n] = @ - 1]
        /\ UNCHANGED sent
  /\ Begin(j, "create", n, Recipient(outbox[n]))
  /\ UNCHANGED <<dropped, store, caching, faults, calls>>

(* Mutant: the counter is incremented only if it exists (no upsert).       *)
CountUpNoUpsert(u, rid) == IF rid \in DOMAIN counters[u] THEN Add(u, rid, 1)
                           ELSE UNCHANGED counters
CountUp(u, rid) == Add(u, rid, 1)

Create(j) ==
  LET u == job[j].user IN
  /\ Is(j, "create", "tx") /\ job[j].clean
  /\ notes' = Append(notes, [event |-> job[j].n, recipient |-> u,
                             isRead |-> FALSE])
  /\ CountUp(u, job[j].rid)
  /\ AfterCommit(j)
  /\ Disturb(u, ~Counted(u, job[j].rid))
  /\ UNCHANGED <<delivery, doubled, cache, faults, calls>>

(* markRead: whether the notification is read is looked up before the      *)
(* transaction, which marks it whatever it finds.                          *)
OpenNote(j, n) ==
  /\ job[j] = NoJob /\ calls < MaxCalls /\ calls' = calls + 1
  /\ n \in DOMAIN notes
  /\ ~notes[n].isRead
  /\ Set(j, [stage |-> "look", op |-> "mark", n |-> n,
             user |-> notes[n].recipient])
  /\ UNCHANGED <<delivery, store, caching, faults>>

BeginMark(j) ==
  /\ Is(j, "mark", "look")
  /\ Begin(j, "mark", job[j].n, job[j].user)
  /\ UNCHANGED <<delivery, store, caching, faults, calls>>

Mark(j) ==
  LET u == job[j].user  n == job[j].n IN
  /\ Is(j, "mark", "tx") /\ job[j].clean
  /\ notes' = [notes EXCEPT ![n].isRead = TRUE]
  /\ doubled' = [doubled EXCEPT ![u] = IF notes[n].isRead THEN @ + 1 ELSE @]
  /\ Add(u, job[j].rid, -1)
  /\ AfterCommit(j)
  /\ Disturb(u, ~Counted(u, job[j].rid))
  /\ UNCHANGED <<delivery, cache, faults, calls>>

(* A failed transaction: the handler's event is nacked without requeue,    *)
(* the caller of markRead gets an error.                                   *)
Abort(j) ==
  /\ End(j)
  /\ dropped' = IF job[j].op = "create" THEN dropped \cup {job[j].n} ELSE dropped
  /\ UNCHANGED <<sent, queue, store, caching, calls>>

WriteConflict(j) ==
  /\ job[j] # NoJob /\ job[j].stage = "tx"
  /\ ~job[j].clean
  /\ Abort(j) /\ UNCHANGED faults

DatabaseFails(j) ==
  /\ job[j] # NoJob /\ job[j].stage = "tx"
  /\ faults < MaxFaults /\ faults' = faults + 1
  /\ Abort(j)

-----------------------------------------------------------------------------
(* The cached counter.  A handler increments it after its commit, on a     *)
(* missing key from zero and without expiry, and acknowledges; markRead    *)
(* takes one off, in two commands, if it finds one to take off.            *)

(* The key moves under the counts that wait to be cached.                  *)
Spoil(j) == job' = [k \in Jobs |->
                      IF k = j THEN NoJob
                      ELSE IF job[k] # NoJob /\ job[k].user = job[j].user
                                /\ job[k].stage \in {"insert", "fill"}
                           THEN [job[k] EXCEPT !.clean = FALSE]
                      ELSE job[k]]

Move(u, d) == cache' = [cache EXCEPT ![u] = [set |-> TRUE, ttl |-> cache[u].ttl,
                                             count |-> cache[u].count + d]]

(* Jobs that have committed and have not yet moved the key.                *)
Trailing(u) == {k \in Busy(u) : job[k].stage \in {"cache", "decr"}}

Incr(j) ==
  LET u == job[j].user IN
  /\ Is(j, "create", "cache")
  /\ Move(u, 1)
  /\ Spoil(j)
  /\ Disturb(u, ~cache[u].set /\ (Count(u) # 1 \/ Trailing(u) # {j}))
  /\ UNCHANGED <<delivery, store, faults, calls>>

(* Mutant: one cannot be taken off one.                                    *)
CanTakeTwo(u) == cache[u].set /\ cache[u].count > 1
CanTakeOne(u) == cache[u].set /\ cache[u].count >= 1

CheckKey(j) ==
  LET u == job[j].user IN
  /\ Is(j, "mark", "cache")
  /\ \/ CanTakeOne(u) /\ Goto(j, "decr") /\ UNCHANGED disturbed
     \/ ~CanTakeOne(u) /\ Spoil(j)
        /\ Disturb(u, cache[u].set /\ cache[u].count < 1)
  /\ UNCHANGED <<delivery, store, cache, faults, calls>>

Decr(j) ==
  LET u == job[j].user IN
  /\ Is(j, "mark", "decr")
  /\ Move(u, -1)
  /\ Spoil(j)
  /\ Disturb(u, ~cache[u].set)
  /\ UNCHANGED <<delivery, store, faults, calls>>

(* Redis fails: the handler's message is nacked, without requeue, although *)
(* its notification is there.                                              *)
RedisFails(j) ==
  /\ job[j] # NoJob /\ job[j].stage \in {"cache", "decr"}
  /\ faults < MaxFaults /\ faults' = faults + 1
  /\ End(j) /\ Disturb(job[j].user, TRUE)
  /\ UNCHANGED <<delivery, store, cache, calls>>

Expire(u) ==
  /\ cache[u].set /\ cache[u].ttl
  /\ faults < MaxFaults /\ faults' = faults + 1
  /\ cache' = [cache EXCEPT ![u] = NoKey]
  /\ UNCHANGED <<delivery, store, disturbed, job, calls>>

(* getUnreadCountForUser: a miss is filled from the counter, which is      *)
(* created when there is none.                                             *)
Miss(j, u) ==
  /\ job[j] = NoJob /\ calls < MaxCalls /\ calls' = calls + 1
  /\ ~cache[u].set
  /\ Set(j, [stage |-> "load", op |-> "count", user |-> u])
  /\ UNCHANGED <<delivery, store, caching, faults>>

LoadCount(j) ==
  LET u == job[j].user IN
  /\ Is(j, "count", "load")
  /\ Set(j, [stage |-> IF counters[u] = Empty THEN "insert" ELSE "fill",
             op |-> "count", user |-> u, count |-> Count(u),
             clean |-> Trailing(u) = {}])
  /\ UNCHANGED <<delivery, store, caching, faults, calls>>

InsertCount(j) ==
  LET u == job[j].user IN
  /\ Is(j, "count", "insert")
  /\ Add(u, NewRecord(u), 0)
  /\ Goto(j, "fill")
  /\ UNCHANGED <<delivery, notes, doubled, caching, faults, calls>>

Fill(j) ==
  LET u == job[j].user IN
  /\ Is(j, "count", "fill")
  /\ cache' = [cache EXCEPT ![u] = [set |-> TRUE, ttl |-> TRUE,
                                    count |-> job[j].count]]
  /\ disturbed' = IF job[j].clean THEN disturbed \ {u} ELSE disturbed \cup {u}
  /\ End(j)
  /\ UNCHANGED <<delivery, store, faults, calls>>

(* The process stops: what it was handling is delivered again.             *)
Handling(n) == {j \in Jobs : job[j] # NoJob /\ job[j].op = "create"
                               /\ job[j].n = n}

(* Mutant: messages are acknowledged on receipt.                           *)
ReturnedNone(n) == 0
Returned(n) == Cardinality(Handling(n))

Crash ==
  /\ \E j \in Jobs : job[j] # NoJob
  /\ faults < MaxFaults /\ faults' = faults + 1
  /\ queue' = [n \in DOMAIN queue |-> queue[n] + Returned(n)]
  /\ disturbed' = disturbed \cup {u \in Users : Trailing(u) # {}}
  /\ job' = [j \in Jobs |-> NoJob]
  /\ UNCHANGED <<sent, dropped, store, cache, calls>>

HandleStep(j) ==
  \/ \E n \in DOMAIN outbox : Receive(j, n)
  \/ Create(j) \/ Incr(j)

MarkStep(j) ==
  \/ \E n \in DOMAIN notes : OpenNote(j, n)
  \/ BeginMark(j) \/ Mark(j) \/ CheckKey(j) \/ Decr(j)

CountStep(j) ==
  \/ \E u \in Users : Miss(j, u)
  \/ LoadCount(j) \/ InsertCount(j) \/ Fill(j)

NotificationsNext ==
  \/ \E j \in Jobs : HandleStep(j) \/ MarkStep(j) \/ CountStep(j)
  \/ \E j \in Jobs : WriteConflict(j) \/ DatabaseFails(j) \/ RedisFails(j)
  \/ \E u \in Users : Expire(u)
  \/ Crash

(* The services share only the outbox, to which one appends and from which *)
(* the other takes: their steps commute, and one rests while the other     *)
(* works.                                                                  *)
Next ==
  \/ /\ \A j \in Jobs : job[j] = NoJob
     /\ ConnectionsNext
     /\ UNCHANGED notifications
  \/ /\ \A c \in Answers : answer[c] = Idle
     /\ NotificationsNext
     /\ UNCHANGED connections

Spec == Init /\ [][Next]_vars

-----------------------------------------------------------------------------
(* getNotificationsForUser: one row more than asked is fetched to see if   *)
(* there is a next page, and its id is the cursor of that page, which      *)
(* starts below it.                                                        *)

Rows(u, below, k) ==
  LET mine == {n \in DOMAIN notes : notes[n].recipient = u /\ n < below}
  IN  {n \in mine : Cardinality({m \in mine : m > n}) < k}

(* Mutant: pages may overlap, the cursor is included in the next page.     *)
NextCursorInclusive(u, below, limit) == Min(Rows(u, below, limit + 1)) + 1
NextCursor(u, below, limit) == Min(Rows(u, below, limit + 1))

HasNextPage(u, below, limit) == Cardinality(Rows(u, below, limit + 1)) > limit

(* What the pages show from the first to the last.                         *)
Pages(u, limit) ==
  LET walk[below \in 1..(Len(notes) + 1)] ==
        IF HasNextPage(u, below, limit)
        THEN <<Rows(u, below, limit)>> \o walk[NextCursor(u, below, limit)]
        ELSE <<Rows(u, below, limit)>>
  IN  walk[Len(notes) + 1]

-----------------------------------------------------------------------------
TypeOK ==
  /\ ConnectionsTypeOK
  /\ sent \in [1..MaxEvents -> 0..MaxRelays]
  /\ queue \in [1..MaxEvents -> 0..MaxRelays]
  /\ notes \in Seq([event : 1..MaxEvents, recipient : Users, isRead : BOOLEAN])
  /\ \A u \in Users : DOMAIN counters[u] \subseteq Nat
                       /\ Range(counters[u]) \subseteq Int
  /\ \A u \in Users : cache[u] \in [set : BOOLEAN, ttl : BOOLEAN, count : Int]
  /\ \A j \in Jobs : job[j].stage \in {"none", "look", "tx", "cache", "decr",
                                        "load", "insert", "fill"}
  /\ dropped \subseteq 1..MaxEvents /\ disturbed \subseteq Users
  /\ calls \in 0..MaxCalls
  /\ doubled \in [Users -> Nat] /\ faults \in 0..MaxFaults

(* A user's counter documents add up to the unread notifications, less one *)
(* for every time a notification was marked again by a call that had found *)
(* it unread (NotificationService.markRead): whatever creations, reads,    *)
(* write conflicts, crashes and doubled counter documents there are.       *)
CounterAddsUp ==
  \A u \in Users :
    SumFunction(counters[u]) = Cardinality(Unread(u)) - doubled[u]

(* "The cache is updated alongside the database within the same flow,      *)
(* keeping them in sync" (README): so it is for a user nothing is at work  *)
(* for, unless a step failed after a commit, a key expired before it was   *)
(* incremented, a fill overlapped a commit, or a commit counted in another *)
(* document of the user than the one shown; and a fill that nothing        *)
(* overlaps puts it right again.                                           *)
CacheFollows ==
  \A u \in Users \ disturbed :
    Busy(u) = {} /\ cache[u].set => cache[u].count = Count(u)

(* Every event that was delivered, and is neither waiting nor being        *)
(* handled, has told its user of it, or was nacked after a failure of the  *)
(* database; and who is told is the user that did not act.                 *)
Told(n) == \E i \in DOMAIN notes : notes[i].event = n

EveryEventTold ==
  /\ \A n \in DOMAIN outbox :
       sent[n] > 0 /\ queue[n] = 0 /\ Handling(n) = {} => Told(n) \/ n \in dropped
  /\ \A i \in DOMAIN notes :
       LET e == outbox[notes[i].event] IN
       notes[i].recipient = IF e.kind = "requested" THEN e.other ELSE e.requester

(* Following the cursors of getNotificationsForUser shows no notification  *)
(* twice, and misses exactly those at a page boundary: counted from the    *)
(* newest, every (limit + 1)-th.                                           *)
Rank(n) == Cardinality({m \in DOMAIN notes : m >= n
                          /\ notes[m].recipient = notes[n].recipient})

PagesMissBoundaries ==
  \A u \in Users, limit \in PageLimits :
    LET pages == Pages(u, limit) IN
    /\ \A i, k \in DOMAIN pages : i # k => pages[i] \cap pages[k] = {}
    /\ \A n \in DOMAIN notes : notes[n].recipient = u =>
         (n \in UNION Range(pages) <=> Rank(n) % (limit + 1) # 0)
=============================================================================
