-------------------------- MODULE OutboxRelayProofs --------------------------
(***************************************************************************)
(* Proofs about OutboxRelay, for any events, passes, batch size and number *)
(* of faults: the types, that a sorting worker keeps the order of events,  *)
(* that a worker that loses no buffer marks only what it published, and    *)
(* that the relay does no step EventDelivery does not have.                *)
(***************************************************************************)
EXTENDS OutboxRelay, TLAPS, SequenceTheorems, FiniteSetTheorems

-----------------------------------------------------------------------------
(* The inductive invariant.                                                *)

Out == Ran(arrived) \cup Ran(buffer)

(* A row has a place in the order of creation once it is created, and the  *)
(* rows that were committed before it have earlier ones.                   *)
RowsHold ==
  /\ IsFiniteSet(Pending)
  /\ \A e \in Events : table[e] # "none" <=> e \in Ran(created)
  /\ \A i, j \in DOMAIN created : created[i] = created[j] => i = j
  /\ \A e \in Events : table[e] = "none" => before[e] = {}
  /\ \A e \in Events : \A f \in before[e] : f \in Committed /\ Older(f, e)

(* Only committed rows are under way, and a pass marks the row that it has *)
(* published last.                                                         *)
UnderWay ==
  /\ \A p \in Passes : Ran(pass[p].rows) \subseteq Committed
  /\ \A p \in Passes : pass[p].stage = "mark" => pass[p].rows # <<>>
  /\ Out \subseteq Committed \ Malformed
  /\ \A e \in Events : queue[e] > 0 \/ inflight[e] > 0 => e \in Committed
  /\ handled \subseteq Committed /\ dropped \subseteq Committed
  /\ \A i, j \in DOMAIN arrived : arrived[i] = arrived[j] => i = j

(* The row a pass is about to mark has left, as long as nothing is lost.   *)
LeftBeforeMark ==
  channel = "open" \/ ~LossyStops =>
    \A p \in Passes : pass[p].stage = "mark" =>
      Head(pass[p].rows) \in Malformed \cup Out

(* A processed row that is neither at the broker nor on its way there will *)
(* never be.                                                               *)
Gone(f) == /\ table[f] = "PROCESSED" /\ f \notin Out
           /\ \A p \in Passes : f \notin Ran(pass[p].rows)

LostForGood ==
  channel = "open" =>
    \A f \in Events \ Malformed : table[f] = "PROCESSED" /\ f \notin Out => Gone(f)

(* What comes before an event, wherever the event is, is before it there,  *)
(* or further on, or lost for good.                                        *)
PassesSorted ==
  channel = "open" =>
    \A p \in Passes : \A i \in DOMAIN pass[p].rows :
      \A f \in before[pass[p].rows[i]] \ Malformed :
        \/ f \in Out \/ Gone(f)
        \/ \E j \in 1..(i - 1) : pass[p].rows[j] = f

BufferSorted ==
  \A i \in DOMAIN buffer : \A f \in before[buffer[i]] \ Malformed :
    \/ f \in Ran(arrived) \/ Gone(f)
    \/ \E j \in 1..(i - 1) : buffer[j] = f

ArrivedSorted ==
  \A i \in DOMAIN arrived : \A f \in before[arrived[i]] \ Malformed :
    \/ Gone(f)
    \/ \E j \in 1..(i - 1) : arrived[j] = f

Sorted == Ordered => PassesSorted /\ BufferSorted /\ ArrivedSorted

Published == ~LossyStops => ProcessedIsPublished

IInv ==
  /\ TypeOK /\ RowsHold /\ UnderWay
  /\ LeftBeforeMark /\ LostForGood /\ Sorted /\ Published

-----------------------------------------------------------------------------
(* What is in a sequence.                                                  *)

LEMMA RanFacts ==
  ASSUME NEW S, NEW s \in Seq(S)
  PROVE  /\ Ran(s) \subseteq S
         /\ \A x : x \in Ran(s) <=> \E i \in 1..Len(s) : s[i] = x
         /\ DOMAIN s = 1..Len(s) /\ Len(s) \in Nat
<1>1. DOMAIN s = 1..Len(s) /\ Len(s) \in Nat /\ \A i \in 1..Len(s) : s[i] \in S
  BY LenProperties, ElementOfSeq
<1>. QED BY <1>1 DEF Ran

LEMMA AppendFacts ==
  ASSUME NEW S, NEW s \in Seq(S), NEW x \in S
  PROVE  /\ Append(s, x) \in Seq(S) /\ Ran(Append(s, x)) = Ran(s) \cup {x}
         /\ DOMAIN Append(s, x) = 1..(Len(s) + 1)
         /\ \A i \in 1..Len(s) : Append(s, x)[i] = s[i]
         /\ Append(s, x)[Len(s) + 1] = x
<1>. DEFINE t == Append(s, x)
<1>1. /\ t \in Seq(S) /\ Len(t) = Len(s) + 1
      /\ \A i \in 1..Len(s) : t[i] = s[i]
      /\ t[Len(s) + 1] = x
  BY AppendProperties
<1>2. /\ Len(s) \in Nat /\ DOMAIN t = 1..Len(t)
      /\ \A y : y \in Ran(s) <=> \E i \in 1..Len(s) : s[i] = y
      /\ \A y : y \in Ran(t) <=> \E i \in 1..Len(t) : t[i] = y
  BY <1>1, RanFacts
<1>. HIDE DEF t
<1>3. \A y : y \in Ran(t) <=> y \in Ran(s) \/ y = x
  BY <1>1, <1>2
<1>. QED BY <1>1, <1>2, <1>3 DEF t

LEMMA TailFacts ==
  ASSUME NEW S, NEW s \in Seq(S), s # <<>>
  PROVE  /\ Tail(s) \in Seq(S) /\ Head(s) \in S /\ Head(s) = s[1]
         /\ Ran(s) = Ran(Tail(s)) \cup {Head(s)}
         /\ Len(s) \in Nat \ {0} /\ DOMAIN s = 1..Len(s)
         /\ DOMAIN Tail(s) = 1..(Len(s) - 1)
         /\ \A i \in 1..(Len(s) - 1) : Tail(s)[i] = s[i + 1]
<1>. DEFINE t == Tail(s)
<1>1. /\ t \in Seq(S) /\ Len(t) = Len(s) - 1 /\ Head(s) \in S /\ Head(s) = s[1]
      /\ \A i \in 1..Len(t) : t[i] = s[i + 1]
  <2>1. Head(s) = s[1]
    OBVIOUS
  <2>2. /\ Head(s) \in S /\ Tail(s) \in Seq(S) /\ Len(Tail(s)) = Len(s) - 1
        /\ \A i \in 1..Len(Tail(s)) : Tail(s)[i] = s[i + 1]
    BY HeadTailProperties
  <2>. QED BY <2>1, <2>2
<1>2. /\ Len(s) \in Nat \ {0} /\ DOMAIN s = 1..Len(s) /\ DOMAIN t = 1..Len(t)
      /\ \A y : y \in Ran(s) <=> \E i \in 1..Len(s) : s[i] = y
      /\ \A y : y \in Ran(t) <=> \E i \in 1..Len(t) : t[i] = y
  <2>1. Len(s) \in Nat \ {0}
    BY EmptySeq
  <2>2. /\ DOMAIN t = 1..Len(t)
        /\ \A y : y \in Ran(t) <=> \E i \in 1..Len(t) : t[i] = y
    BY <1>1, RanFacts
  <2>3. /\ DOMAIN s = 1..Len(s)
        /\ \A y : y \in Ran(s) <=> \E i \in 1..Len(s) : s[i] = y
    BY RanFacts
  <2>. QED BY <2>1, <2>2, <2>3
<1>. HIDE DEF t
<1>3. ASSUME NEW y, y \in Ran(s) PROVE y \in Ran(t) \/ y = Head(s)
  <2>1. PICK i \in 1..Len(s) : s[i] = y
    BY <1>2, <1>3
  <2>2. CASE i = 1
    BY <1>1, <2>1, <2>2
  <2>3. CASE i # 1
    <3>1. i - 1 \in 1..Len(t) /\ t[i - 1] = s[(i - 1) + 1] /\ (i - 1) + 1 = i
      BY <1>1, <1>2, <2>1, <2>3
    <3>. QED BY <1>2, <2>1, <3>1
  <2>. QED BY <2>2, <2>3
<1>4. ASSUME NEW y, y \in Ran(t) \/ y = Head(s) PROVE y \in Ran(s)
  BY <1>1, <1>2, <1>4
<1>5. Ran(s) = Ran(t) \cup {Head(s)}
  BY <1>3, <1>4
<1>. QED BY <1>1, <1>2, <1>5 DEF t

LEMMA PrefixFacts ==
  ASSUME NEW S, NEW s \in Seq(S), NEW k \in 0..Len(s)
  PROVE  /\ SubSeq(s, 1, k) \in Seq(S) /\ Ran(SubSeq(s, 1, k)) \subseteq Ran(s)
         /\ DOMAIN SubSeq(s, 1, k) = 1..k
         /\ \A i \in 1..k : SubSeq(s, 1, k)[i] = s[i]
<1>. DEFINE t == SubSeq(s, 1, k)
<1>1. Len(s) \in Nat /\ DOMAIN s = 1..Len(s) /\ \A i \in 1..k : s[i] \in S
  BY LenProperties, ElementOfSeq
<1>2. /\ t \in Seq(S) /\ Len(t) = k
      /\ \A i \in 1..k : t[i] = s[i]
  BY <1>1, SubSeqProperties
<1>3. /\ DOMAIN t = 1..Len(t)
      /\ \A y : y \in Ran(s) <=> \E i \in 1..Len(s) : s[i] = y
      /\ \A y : y \in Ran(t) <=> \E i \in 1..Len(t) : t[i] = y
  BY <1>2, RanFacts
<1>. HIDE DEF t
<1>4. Ran(t) \subseteq Ran(s)
  BY <1>1, <1>2, <1>3
<1>. QED BY <1>2, <1>3, <1>4 DEF t

-----------------------------------------------------------------------------
(* What a step leaves alone still holds.                                   *)

(* Where the rows of a pass are.                                           *)
LEMMA PassFacts ==
  ASSUME TypeOK, NEW p \in Passes
  PROVE  /\ pass[p] \in [rows : Seq(Events), stage : {"publish", "mark"}]
         /\ pass[p].rows \in Seq(Events) /\ pass[p].stage \in {"publish", "mark"}
         /\ Ran(pass[p].rows) \subseteq Events
         /\ \A f : f \in Ran(pass[p].rows) <=>
              \E i \in 1..Len(pass[p].rows) : pass[p].rows[i] = f
         /\ DOMAIN pass[p].rows = 1..Len(pass[p].rows) /\ Len(pass[p].rows) \in Nat
<1>1. /\ pass[p] \in [rows : Seq(Events), stage : {"publish", "mark"}]
      /\ pass[p].rows \in Seq(Events) /\ pass[p].stage \in {"publish", "mark"}
  BY DEF TypeOK
<1>. QED BY <1>1, RanFacts

LEMMA OutFacts ==
  ASSUME TypeOK
  PROVE  /\ Ran(buffer) \subseteq Events /\ Ran(arrived) \subseteq Events
         /\ DOMAIN buffer = 1..Len(buffer) /\ Len(buffer) \in Nat
         /\ DOMAIN arrived = 1..Len(arrived) /\ Len(arrived) \in Nat
         /\ \A f : f \in Ran(buffer) <=> \E i \in 1..Len(buffer) : buffer[i] = f
         /\ \A f : f \in Ran(arrived) <=> \E i \in 1..Len(arrived) : arrived[i] = f
BY RanFacts DEF TypeOK

(* The worker changes rows only from pending or processed to processed.    *)
LEMMA RowsKept ==
  ASSUME IInv, UNCHANGED <<created, before>>,
         \A e \in Events : \/ table'[e] = table[e]
                           \/ e \in Committed /\ table'[e] = "PROCESSED"
  PROVE  /\ RowsHold' /\ Committed' = Committed
         /\ \A e \in Events : table[e] = "PROCESSED" => table'[e] = "PROCESSED"
<1>1. Committed' = Committed /\ Pending' \subseteq Pending
  BY DEF Committed, Pending
<1>2. IsFiniteSet(Pending')
  BY <1>1, FS_Subset DEF IInv, RowsHold
<1>3. \A e \in Events : table'[e] = "none" <=> table[e] = "none"
  BY DEF Committed
<1>4. \A e, f : Older(e, f)' <=> Older(e, f)
  BY DEF Older
<1>. QED BY <1>1, <1>2, <1>3, <1>4 DEF IInv, RowsHold, Committed

(* What is lost stays lost: it is neither pending, nor in a pass, nor out. *)
LEMMA GoneKept ==
  ASSUME IInv, \A e \in Events : table[e] = "PROCESSED" => table'[e] = "PROCESSED",
         \A p \in Passes : \A f \in Ran(pass'[p].rows) :
           f \in Pending \/ \E q \in Passes : f \in Ran(pass[q].rows),
         \A f \in Out' : f \in Out \/ \E q \in Passes : f \in Ran(pass[q].rows)
  PROVE  \A f \in Events : Gone(f) => Gone(f)'
BY DEF Gone, Pending

LEMMA OutSortedKept ==
  ASSUME IInv, Ordered, UNCHANGED <<buffer, arrived>>,
         \A e \in Committed : before'[e] = before[e],
         \A f \in Events : Gone(f) => Gone(f)'
  PROVE  BufferSorted' /\ ArrivedSorted'
<1>1. /\ \A i \in DOMAIN buffer : buffer[i] \in Committed
      /\ \A i \in DOMAIN arrived : arrived[i] \in Committed
  BY OutFacts DEF IInv, UnderWay, Out
<1>2. \A e \in Committed : before[e] \subseteq Events
  BY DEF IInv, TypeOK, Committed
<1>. QED BY <1>1, <1>2 DEF IInv, Sorted, BufferSorted, ArrivedSorted

LEMMA PassesSortedKept ==
  ASSUME IInv, Ordered, pass' = pass, channel' = "open" => channel = "open",
         Out \subseteq Out', \A e \in Committed : before'[e] = before[e],
         \A f \in Events : Gone(f) => Gone(f)'
  PROVE  PassesSorted'
<1>1. ASSUME NEW p \in Passes, NEW i \in DOMAIN pass[p].rows
      PROVE  pass[p].rows[i] \in Committed
  <2>1. pass[p].rows[i] \in Ran(pass[p].rows)
    BY DEF Ran
  <2>. QED BY <2>1 DEF IInv, UnderWay
<1>2. \A e \in Committed : before[e] \subseteq Events
  BY DEF IInv, TypeOK, Committed
<1>. QED BY <1>1, <1>2 DEF IInv, Sorted, PassesSorted

(* The consumer's steps touch nothing but what comes out of the queue.     *)
LEMMA ConsumerKeeps ==
  ASSUME IInv, UNCHANGED <<rows, worker, arrived>>, TypeOK',
         \A e \in Events : queue'[e] > 0 \/ inflight'[e] > 0 => e \in Committed,
         handled' \subseteq Committed, dropped' \subseteq Committed
  PROVE  IInv'
<1>1. /\ UNCHANGED <<table, created, before, pass, channel, buffer, arrived>>
      /\ Out' = Out /\ Committed' = Committed
  BY DEF rows, worker, Out, Committed
<1>2. RowsHold'
  BY <1>1, RowsKept
<1>3. UnderWay'
  BY <1>1 DEF IInv, UnderWay
<1>4. \A f : Gone(f)' = Gone(f)
  BY <1>1 DEF Gone
<1>5. LeftBeforeMark' /\ LostForGood'
  BY <1>1, <1>4 DEF IInv, LeftBeforeMark, LostForGood
<1>6. Sorted'
  BY <1>1, <1>4, OutSortedKept, PassesSortedKept DEF Sorted
<1>7. Published'
  BY <1>1 DEF IInv, Published, ProcessedIsPublished
<1>. QED BY <1>2, <1>3, <1>5, <1>6, <1>7 DEF IInv

-----------------------------------------------------------------------------
(* The rows of the use cases.                                              *)

LEMMA CreateRowHolds ==
  ASSUME IInv, NEW e \in Events, CreateRow(e)
  PROVE  IInv'
<1>1. /\ table[e] = "none" /\ table' = [table EXCEPT ![e] = "open"]
      /\ created' = Append(created, e) /\ before' = [before EXCEPT ![e] = Committed]
      /\ UNCHANGED <<pass, channel, buffer, arrived, bindings, queue, consumer,
                     registered, inflight, handled, dropped, faults>>
  BY DEF CreateRow, worker, broker, consuming
<1>2. /\ table \in [Events -> RowStates] /\ created \in Seq(Events)
      /\ before \in [Events -> SUBSET Events]
  BY DEF IInv, TypeOK
<1>3. /\ created' \in Seq(Events) /\ Ran(created') = Ran(created) \cup {e}
      /\ DOMAIN created = 1..Len(created) /\ DOMAIN created' = 1..(Len(created) + 1)
      /\ Len(created) \in Nat
      /\ \A i \in 1..Len(created) : created'[i] = created[i]
      /\ created'[Len(created) + 1] = e
  BY <1>1, <1>2, AppendFacts, RanFacts
<1>4. /\ Committed' = Committed /\ Pending' = Pending /\ Out' = Out
      /\ e \notin Committed /\ Committed \subseteq Events
      /\ \A d \in Events \ {e} : table'[d] = table[d] /\ before'[d] = before[d]
      /\ table'[e] = "open" /\ before'[e] = Committed
  BY <1>1, <1>2 DEF Committed, Pending, Out
<1>5. TypeOK'
  BY <1>1, <1>2, <1>3, <1>4 DEF IInv, TypeOK, RowStates
<1>6. e \notin Ran(created) /\ before[e] = {}
  BY <1>1 DEF IInv, RowsHold
<1>7. /\ \A i \in 1..Len(created) : created[i] # e /\ created[i] \in Events
      /\ \A f \in Ran(created) : \E i \in 1..Len(created) : created[i] = f
  BY <1>2, <1>3, <1>6, RanFacts
<1>8. RowsHold'
  <2>1. IsFiniteSet(Pending)'
    BY <1>4 DEF IInv, RowsHold
  <2>2. \A d \in Events : table'[d] # "none" <=> d \in Ran(created')
    BY <1>3, <1>4 DEF IInv, RowsHold
  <2>3. \A i, j \in DOMAIN created' : created'[i] = created'[j] => i = j
    BY <1>3, <1>7 DEF IInv, RowsHold
  <2>4. \A d \in Events : table'[d] = "none" => before'[d] = {}
    BY <1>1, <1>4 DEF IInv, RowsHold
  <2>5. \A f, d : Older(f, d) => Older(f, d)'
    BY <1>3 DEF Older
  <2>6. \A f \in Committed : Older(f, e)'
    <3>1. SUFFICES ASSUME NEW f \in Committed PROVE Older(f, e)'
      OBVIOUS
    <3>2. f \in Ran(created)
      BY DEF IInv, RowsHold, Committed
    <3>3. PICK i \in 1..Len(created) : created[i] = f
      BY <1>7, <3>2
    <3>. QED BY <1>3, <3>3 DEF Older
  <2>7. \A d \in Events : \A f \in before'[d] : f \in Committed' /\ Older(f, d)'
    BY <1>4, <2>5, <2>6 DEF IInv, RowsHold
  <2>. QED BY <2>1, <2>2, <2>3, <2>4, <2>7 DEF RowsHold
<1>9. UnderWay'
  BY <1>1, <1>4 DEF IInv, UnderWay
<1>10. \A f \in Events : Gone(f) <=> Gone(f)'
  BY <1>1, <1>4 DEF Gone
<1>11. LeftBeforeMark' /\ LostForGood'
  BY <1>1, <1>4, <1>10 DEF IInv, LeftBeforeMark, LostForGood
<1>12. Sorted'
  BY <1>1, <1>4, <1>10, OutSortedKept, PassesSortedKept DEF Sorted, Committed
<1>13. Published'
  BY <1>1, <1>4 DEF IInv, Published, ProcessedIsPublished
<1>. QED BY <1>5, <1>8, <1>9, <1>11, <1>12, <1>13 DEF IInv

LEMMA EndTransactionHolds ==
  ASSUME IInv, NEW e \in Events, EndTransaction(e)
  PROVE  IInv'
<1>1. PICK status \in {"PENDING", "rolled back"} :
        /\ table[e] = "open" /\ table' = [table EXCEPT ![e] = status]
        /\ UNCHANGED <<created, before, pass, channel, buffer, arrived, bindings, queue,
                       consumer, registered, inflight, handled, dropped, faults>>
  BY DEF EndTransaction, worker, broker, consuming
<1>2. table \in [Events -> RowStates] /\ TypeOK'
  BY <1>1 DEF IInv, TypeOK, RowStates
<1>3. /\ Committed \subseteq Committed' /\ Pending' \subseteq Pending \cup {e} /\ Out' = Out
      /\ e \notin Committed
      /\ \A d \in Events \ {e} : table'[d] = table[d]
      /\ table'[e] = status
  BY <1>1, <1>2 DEF Committed, Pending, Out
<1>4. RowsHold'
  <2>1. IsFiniteSet(Pending \cup {e})
    BY FS_AddElement DEF IInv, RowsHold
  <2>2. IsFiniteSet(Pending')
    BY <1>3, <2>1, FS_Subset
  <2>3. \A f, d : Older(f, d)' <=> Older(f, d)
    BY <1>1 DEF Older
  <2>. QED BY <1>1, <1>3, <2>2, <2>3 DEF IInv, RowsHold
<1>5. UnderWay'
  <2>1. Out \subseteq Committed' \ Malformed
    BY <1>3 DEF IInv, UnderWay
  <2>. QED BY <1>1, <1>3, <2>1 DEF IInv, UnderWay
<1>6. \A f \in Events : Gone(f) <=> Gone(f)'
  BY <1>1, <1>3 DEF Gone
<1>7. LeftBeforeMark' /\ LostForGood'
  BY <1>1, <1>3, <1>6 DEF IInv, LeftBeforeMark, LostForGood
<1>8. Sorted'
  BY <1>1, <1>3, <1>6, OutSortedKept, PassesSortedKept DEF Sorted
<1>9. Published'
  BY <1>1, <1>3 DEF IInv, Published, ProcessedIsPublished
<1>. QED BY <1>2, <1>4, <1>5, <1>7, <1>8, <1>9 DEF IInv

-----------------------------------------------------------------------------
(* The worker.                                                             *)

LEMMA FetchHolds ==
  ASSUME IInv, NEW p \in Passes, Fetch(p)
  PROVE  IInv'
<1>1. PICK s \in [1..BatchSize -> Pending] :
        /\ Batch(s)
        /\ Ordered => OldestFirst(s)
        /\ pass' = [pass EXCEPT ![p].rows = s]
  BY DEF Fetch
<1>2. /\ pass[p].rows = <<>>
      /\ UNCHANGED <<table, created, before, channel, buffer, arrived, bindings, queue,
                     consumer, registered, inflight, handled, dropped, faults>>
  BY DEF Fetch, rows, broker, consuming
<1>3. BatchSize \in Nat
  BY FS_CardinalityType, RelayAssumption DEF IInv, RowsHold, BatchSize
<1>4. /\ s \in Seq(Pending) /\ Pending \subseteq Committed /\ Committed \subseteq Events
      /\ Len(s) = BatchSize /\ s # <<>>
  <2>1. s \in Seq(Pending)
    BY <1>3, SeqDef
  <2>2. Len(s) = BatchSize
    BY <1>3, <2>1, LenProperties
  <2>. QED BY <1>1, <2>1, <2>2 DEF Pending, Committed, Batch
<1>5. /\ s \in Seq(Events) /\ Ran(s) \subseteq Pending
      /\ DOMAIN s = 1..Len(s) /\ Len(s) \in Nat
      /\ \A f : f \in Ran(s) <=> \E i \in 1..Len(s) : s[i] = f
  BY <1>4, RanFacts, SeqMonotonic
<1>6. /\ pass' \in [Passes -> [rows : Seq(Events), stage : {"publish", "mark"}]]
      /\ pass'[p].rows = s /\ pass'[p].stage = "publish"
      /\ \A q \in Passes \ {p} : pass'[q] = pass[q]
  <2>1. pass[p].stage = "publish"
    BY <1>2, PassFacts DEF IInv, UnderWay
  <2>. QED BY <1>1, <1>5, <2>1 DEF IInv, TypeOK
<1>7. TypeOK'
  BY <1>2, <1>6 DEF IInv, TypeOK
<1>8. RowsHold' /\ Committed' = Committed
  BY <1>2, RowsKept
<1>9. UnderWay'
  <2>1. \A q \in Passes : Ran(pass'[q].rows) \subseteq Committed
    BY <1>4, <1>5, <1>6 DEF IInv, UnderWay
  <2>2. \A q \in Passes : pass'[q].stage = "mark" => pass'[q].rows # <<>>
    BY <1>6 DEF IInv, UnderWay
  <2>. QED BY <1>2, <1>8, <2>1, <2>2 DEF IInv, UnderWay, Out
<1>10. \A q \in Passes : \A f \in Ran(pass'[q].rows) :
         f \in Pending \/ f \in Ran(pass[q].rows)
  BY <1>5, <1>6
<1>11. \A f \in Events : Gone(f) => Gone(f)'
  BY <1>2, <1>10, GoneKept DEF Out
<1>12. LeftBeforeMark'
  BY <1>2, <1>6 DEF IInv, LeftBeforeMark, Out
<1>13. LostForGood'
  BY <1>2, <1>11 DEF IInv, LostForGood, Out
<1>14. Sorted'
  <2>. SUFFICES ASSUME Ordered PROVE PassesSorted' /\ BufferSorted' /\ ArrivedSorted'
    BY DEF Sorted
  <2>1. BufferSorted' /\ ArrivedSorted'
    BY <1>2, <1>11, OutSortedKept
  <2>2. ASSUME channel = "open", NEW i \in DOMAIN s, NEW f \in before[s[i]] \ Malformed
        PROVE  f \in Out \/ Gone(f) \/ \E j \in 1..(i - 1) : s[j] = f
    <3>1. s[i] \in Pending /\ s[i] \in Events
      BY <1>4, <1>5
    <3>2. f \in Committed /\ f \in Events /\ Older(f, s[i])
      BY <3>1 DEF IInv, RowsHold, TypeOK, Committed
    <3>3. \A e : ~(Older(f, e) /\ Older(e, f))
      <4>1. DOMAIN created = 1..Len(created) /\ Len(created) \in Nat
        BY RanFacts DEF IInv, TypeOK
      <4>. QED BY <4>1 DEF Older, IInv, RowsHold
    <3>4. CASE f \in Pending
      <4>1. f \in Ran(s)
        BY <1>1, <3>2, <3>3, <3>4 DEF OldestFirst
      <4>2. PICK j \in 1..Len(s) : s[j] = f
        BY <1>5, <4>1
      <4>3. ~(i < j) /\ i # j
        BY <1>1, <1>5, <3>2, <3>3, <4>2 DEF OldestFirst
      <4>4. j \in 1..(i - 1)
        BY <1>5, <4>2, <4>3
      <4>. QED BY <4>2, <4>4
    <3>5. CASE table[f] = "PROCESSED"
      BY <2>2, <3>2, <3>5 DEF IInv, LostForGood
    <3>. QED BY <3>2, <3>4, <3>5 DEF Committed, Pending
  <2>3. PassesSorted'
    <3>. SUFFICES ASSUME channel' = "open", NEW q \in Passes, NEW i \in DOMAIN pass'[q].rows,
                         NEW f \in before'[pass'[q].rows[i]] \ Malformed
                  PROVE  \/ f \in Out' \/ Gone(f)'
                         \/ \E j \in 1..(i - 1) : pass'[q].rows[j] = f
      BY DEF PassesSorted
    <3>1. channel = "open" /\ Out' = Out /\ before' = before
      BY <1>2 DEF Out
    <3>2. pass'[q].rows[i] \in Events
      BY <1>7, PassFacts DEF TypeOK
    <3>3. f \in Events
      BY <3>1, <3>2 DEF IInv, TypeOK
    <3>4. CASE q = p
      BY <1>6, <1>11, <2>2, <3>1, <3>3, <3>4
    <3>5. CASE q # p
      <4>1. pass'[q] = pass[q]
        BY <1>6, <3>5
      <4>2. f \in Out \/ Gone(f) \/ \E j \in 1..(i - 1) : pass[q].rows[j] = f
        BY <3>1, <4>1 DEF IInv, Sorted, PassesSorted
      <4>. QED BY <1>11, <3>1, <3>3, <4>1, <4>2
    <3>. QED BY <3>4, <3>5
  <2>. QED BY <2>1, <2>3
<1>15. Published'
  BY <1>2 DEF IInv, Published, ProcessedIsPublished
<1>. QED BY <1>7, <1>8, <1>9, <1>12, <1>13, <1>14, <1>15 DEF IInv

(* A pass goes on with the next row.                                       *)
LEMMA SkipFacts ==
  ASSUME TypeOK, NEW p \in Passes, pass[p].rows # <<>>, Skip(p)
  PROVE  /\ pass' \in [Passes -> [rows : Seq(Events), stage : {"publish", "mark"}]]
         /\ pass'[p].rows = Tail(pass[p].rows) /\ pass'[p].stage = "publish"
         /\ Head(pass[p].rows) \in Ran(pass[p].rows)
         /\ Ran(pass[p].rows) = Ran(pass'[p].rows) \cup {Head(pass[p].rows)}
         /\ \A q \in Passes \ {p} : pass'[q] = pass[q]
<1>1. Tail(pass[p].rows) \in Seq(Events) /\ pass \in [Passes -> [rows : Seq(Events), stage : {"publish", "mark"}]]
  BY PassFacts, TailFacts DEF TypeOK
<1>2. [Idle EXCEPT !.rows = Tail(pass[p].rows)] = [rows |-> Tail(pass[p].rows), stage |-> "publish"]
  BY DEF Idle
<1>3. pass' = [pass EXCEPT ![p] = [rows |-> Tail(pass[p].rows), stage |-> "publish"]]
  BY <1>2 DEF Skip
<1>4. pass'[p].rows = Tail(pass[p].rows) /\ pass'[p].stage = "publish"
  BY <1>1, <1>3
<1>5. Ran(pass[p].rows) = Ran(Tail(pass[p].rows)) \cup {Head(pass[p].rows)}
  BY PassFacts, TailFacts
<1>. QED BY <1>1, <1>3, <1>4, <1>5

(* The rows behind the first one lose a predecessor only if it is out.     *)
LEMMA SkipSorted ==
  ASSUME IInv, Ordered, NEW p \in Passes, pass[p].rows # <<>>, Skip(p),
         channel' = "open" => /\ channel = "open"
                              /\ Head(pass[p].rows) \in Malformed \cup Out,
         Out \subseteq Out', before' = before,
         \A f \in Events : Gone(f) => Gone(f)'
  PROVE  PassesSorted'
<1>. DEFINE r == pass[p].rows
<1>1. /\ r \in Seq(Events) /\ Head(r) = r[1] /\ DOMAIN Tail(r) = 1..(Len(r) - 1)
      /\ Len(r) \in Nat \ {0} /\ DOMAIN r = 1..Len(r)
      /\ \A i \in 1..(Len(r) - 1) : Tail(r)[i] = r[i + 1]
  BY PassFacts, TailFacts DEF IInv
<1>2. pass'[p].rows = Tail(r) /\ \A q \in Passes \ {p} : pass'[q] = pass[q]
  BY SkipFacts DEF IInv
<1>. SUFFICES ASSUME channel' = "open", NEW q \in Passes, NEW i \in DOMAIN pass'[q].rows,
                     NEW f \in before'[pass'[q].rows[i]] \ Malformed
              PROVE  \/ f \in Out' \/ Gone(f)'
                     \/ \E j \in 1..(i - 1) : pass'[q].rows[j] = f
  BY DEF PassesSorted
<1>3. CASE q # p
  <2>1. pass'[q] = pass[q] /\ pass[q].rows[i] \in Events
    BY <1>2, <1>3, PassFacts, ElementOfSeq DEF IInv
  <2>2. f \in Events
    BY <2>1 DEF IInv, TypeOK
  <2>. QED BY <2>1, <2>2 DEF IInv, Sorted, PassesSorted
<1>4. CASE q = p
  <2>1. i \in 1..(Len(r) - 1) /\ pass'[q].rows[i] = r[i + 1] /\ i + 1 \in 1..Len(r)
    <3>1. pass'[q].rows = Tail(r)
      BY <1>2, <1>4
    <3>2. i \in 1..(Len(r) - 1)
      BY <1>1, <3>1
    <3>. QED BY <1>1, <3>1, <3>2
  <2>2. r[i + 1] \in Events /\ f \in before[r[i + 1]] \ Malformed
    BY <1>1, <2>1, ElementOfSeq
  <2>3. f \in Events
    BY <2>2 DEF IInv, TypeOK
  <2>4. f \in Out \/ Gone(f) \/ \E j \in 1..((i + 1) - 1) : r[j] = f
    BY <1>1, <2>1, <2>2 DEF IInv, Sorted, PassesSorted
  <2>5. ASSUME NEW j \in 1..((i + 1) - 1), r[j] = f
        PROVE  f \in Out' \/ \E k \in 1..(i - 1) : pass'[q].rows[k] = f
    <3>1. CASE j = 1
      BY <1>1, <2>2, <2>5, <3>1
    <3>2. CASE j # 1
      <4>1. j - 1 \in 1..(i - 1) /\ j - 1 \in 1..(Len(r) - 1) /\ (j - 1) + 1 = j
        BY <1>1, <2>1, <2>5, <3>2
      <4>2. Tail(r)[j - 1] = r[j]
        BY <1>1, <4>1
      <4>. QED BY <1>2, <1>4, <2>5, <4>1, <4>2
    <3>. QED BY <3>1, <3>2
  <2>. QED BY <2>3, <2>4, <2>5
<1>. QED BY <1>3, <1>4

(* A published row goes into the buffer; a malformed one does not.         *)
LEMMA PublishedHolds ==
  ASSUME IInv, NEW p \in Passes, Publish(p),
         Head(pass[p].rows) \in Malformed \/ channel = "open"
  PROVE  IInv'
<1>1. PICK e : e = Head(pass[p].rows)
  OBVIOUS
<1>2. /\ pass[p].rows # <<>> /\ pass' = [pass EXCEPT ![p].stage = "mark"]
      /\ UNCHANGED <<table, created, before, channel, arrived, bindings, queue,
                     consumer, registered, inflight, handled, dropped, faults>>
      /\ e \in Malformed => buffer' = buffer
      /\ e \notin Malformed => buffer' = Append(buffer, e) /\ channel = "open"
  BY <1>1 DEF Publish, rows, broker, consuming
<1>3. /\ e \in Ran(pass[p].rows) /\ e \in Events /\ e \in Committed
      /\ pass[p].rows \in Seq(Events) /\ 1 \in DOMAIN pass[p].rows /\ e = pass[p].rows[1]
  <2>1. pass[p].rows \in Seq(Events) /\ Ran(pass[p].rows) \subseteq Events
    BY PassFacts DEF IInv
  <2>2. e \in Ran(pass[p].rows) /\ 1 \in DOMAIN pass[p].rows /\ e = pass[p].rows[1]
    BY <1>1, <1>2, <2>1, TailFacts
  <2>. QED BY <2>1, <2>2 DEF IInv, UnderWay
<1>4. /\ pass' \in [Passes -> [rows : Seq(Events), stage : {"publish", "mark"}]]
      /\ \A q \in Passes : pass'[q].rows = pass[q].rows
      /\ \A q \in Passes \ {p} : pass'[q] = pass[q]
  BY <1>2 DEF IInv, TypeOK
<1>5. /\ buffer \in Seq(Events) /\ buffer' \in Seq(Events)
      /\ Ran(buffer) \subseteq Ran(buffer')
      /\ Ran(buffer') \subseteq Ran(buffer) \cup {e}
      /\ e \notin Malformed => e \in Ran(buffer')
  <2>1. buffer \in Seq(Events)
    BY DEF IInv, TypeOK
  <2>2. Append(buffer, e) \in Seq(Events) /\ Ran(Append(buffer, e)) = Ran(buffer) \cup {e}
    BY <1>3, <2>1, AppendFacts
  <2>. QED BY <1>2, <2>1, <2>2
<1>6. /\ Out \subseteq Out' /\ Out' \subseteq Out \cup {e}
      /\ e \in Malformed => Out' = Out
      /\ e \notin Malformed => e \in Out'
  BY <1>2, <1>5 DEF Out
<1>7. TypeOK'
  BY <1>2, <1>4, <1>5 DEF IInv, TypeOK
<1>8. RowsHold' /\ Committed' = Committed
  BY <1>2, RowsKept
<1>9. UnderWay'
  <2>1. \A q \in Passes : pass'[q].stage = "mark" => pass'[q].rows # <<>>
    BY <1>2, <1>4 DEF IInv, UnderWay
  <2>2. Out' \subseteq Committed \ Malformed
    BY <1>3, <1>6 DEF IInv, UnderWay
  <2>. QED BY <1>2, <1>4, <1>8, <2>1, <2>2 DEF IInv, UnderWay
<1>10. \A f \in Events : Gone(f) => Gone(f)'
  <2>1. \A f \in Out' : f \in Out \/ \E q \in Passes : f \in Ran(pass[q].rows)
    BY <1>3, <1>6
  <2>. QED BY <1>2, <1>4, <2>1, GoneKept
<1>11. LeftBeforeMark'
  <2>1. Head(pass'[p].rows) \in Malformed \cup Out'
    BY <1>1, <1>4, <1>6
  <2>. QED BY <1>2, <1>4, <1>6, <2>1 DEF IInv, LeftBeforeMark
<1>12. LostForGood'
  BY <1>2, <1>6, <1>10 DEF IInv, LostForGood
<1>13. Sorted'
  <2>. SUFFICES ASSUME Ordered PROVE PassesSorted' /\ BufferSorted' /\ ArrivedSorted'
    BY DEF Sorted
  <2>1. PassesSorted'
    <3>1. ASSUME NEW q \in Passes, NEW i \in DOMAIN pass[q].rows
          PROVE  before[pass[q].rows[i]] \subseteq Events
      BY PassFacts, ElementOfSeq DEF IInv, TypeOK
    <3>. QED BY <1>2, <1>4, <1>6, <1>10, <3>1 DEF IInv, Sorted, PassesSorted
  <2>2. ASSUME e \in Malformed PROVE BufferSorted' /\ ArrivedSorted'
    BY <1>2, <1>10, <2>2, OutSortedKept
  <2>3. ASSUME e \notin Malformed PROVE BufferSorted' /\ ArrivedSorted'
    <3>1. /\ DOMAIN buffer = 1..Len(buffer) /\ Len(buffer) \in Nat
          /\ DOMAIN buffer' = 1..(Len(buffer) + 1)
          /\ \A i \in 1..Len(buffer) : buffer'[i] = buffer[i] /\ buffer[i] \in Events
          /\ buffer'[Len(buffer) + 1] = e
      BY <1>2, <1>3, <1>5, <2>3, AppendFacts, RanFacts, ElementOfSeq
    <3>2. \A d \in Events : before'[d] = before[d] /\ before[d] \subseteq Events
      BY <1>2 DEF IInv, TypeOK
    <3>3. ASSUME NEW i \in 1..Len(buffer), NEW f \in before[buffer[i]] \ Malformed
          PROVE  f \in Ran(arrived) \/ Gone(f)' \/ \E j \in 1..(i - 1) : buffer'[j] = f
      <4>1. f \in Ran(arrived) \/ Gone(f) \/ \E j \in 1..(i - 1) : buffer[j] = f
        BY <3>1 DEF IInv, Sorted, BufferSorted
      <4>2. f \in Events
        BY <3>1, <3>2
      <4>3. \A j \in 1..(i - 1) : buffer'[j] = buffer[j]
        BY <3>1
      <4>. QED BY <1>10, <4>1, <4>2, <4>3
    <3>4. ASSUME NEW f \in before[e] \ Malformed
          PROVE  f \in Ran(arrived) \/ Gone(f)'
                 \/ \E j \in 1..((Len(buffer) + 1) - 1) : buffer'[j] = f
      <4>1. f \in Out \/ Gone(f) \/ \E j \in 1..(1 - 1) : pass[p].rows[j] = f
        BY <1>2, <1>3, <2>3 DEF IInv, Sorted, PassesSorted
      <4>2. f \in Events
        BY <1>3, <3>2
      <4>3. ASSUME f \in Ran(buffer) PROVE \E j \in 1..((Len(buffer) + 1) - 1) : buffer'[j] = f
        BY <3>1, <4>3, OutFacts DEF IInv
      <4>. QED BY <1>10, <4>1, <4>2, <4>3 DEF Out
    <3>5. BufferSorted'
      <4>. SUFFICES ASSUME NEW i \in 1..(Len(buffer) + 1),
                           NEW f \in before[buffer'[i]] \ Malformed
                    PROVE  \/ f \in Ran(arrived) \/ Gone(f)'
                           \/ \E j \in 1..(i - 1) : buffer'[j] = f
        BY <1>2, <3>1 DEF BufferSorted
      <4>1. CASE i = Len(buffer) + 1
        BY <3>1, <3>4, <4>1
      <4>2. CASE i # Len(buffer) + 1
        <5>1. i \in 1..Len(buffer) /\ buffer'[i] = buffer[i]
          BY <3>1, <4>2
        <5>. QED BY <3>3, <5>1
      <4>. QED BY <4>1, <4>2
    <3>6. ArrivedSorted'
      <4>1. \A i \in DOMAIN arrived : before[arrived[i]] \subseteq Events
        BY <3>2, OutFacts, ElementOfSeq DEF IInv, TypeOK
      <4>. QED BY <1>2, <1>10, <4>1 DEF IInv, Sorted, ArrivedSorted
    <3>. QED BY <3>5, <3>6
  <2>. QED BY <2>1, <2>2, <2>3
<1>14. Published'
  BY <1>2, <1>5 DEF IInv, Published, ProcessedIsPublished
<1>. QED BY <1>7, <1>8, <1>9, <1>11, <1>12, <1>13, <1>14 DEF IInv

(* A pass that goes on with the next row, and its row is marked or not.    *)
LEMMA SkipHolds ==
  ASSUME IInv, NEW p \in Passes, pass[p].rows # <<>>, Skip(p),
         UNCHANGED <<created, before, channel, buffer, broker, consuming>>,
         faults' \in 0..MaxFaults,
         \A e \in Events : \/ table'[e] = table[e]
                           \/ e = Head(pass[p].rows) /\ table'[e] = "PROCESSED",
         table' \in [Events -> RowStates],
         channel = "open" \/ table' # table =>
           /\ pass[p].stage = "mark"
  PROVE  IInv'
<1>1. PICK e : e = Head(pass[p].rows)
  OBVIOUS
<1>2. UNCHANGED <<created, before, channel, buffer, arrived, bindings, queue,
                  consumer, registered, inflight, handled, dropped>>
  BY DEF broker, consuming
<1>3. /\ pass' \in [Passes -> [rows : Seq(Events), stage : {"publish", "mark"}]]
      /\ pass'[p].stage = "publish" /\ e \in Ran(pass[p].rows)
      /\ Ran(pass'[p].rows) \subseteq Ran(pass[p].rows)
      /\ \A q \in Passes \ {p} : pass'[q] = pass[q]
  BY <1>1, SkipFacts DEF IInv
<1>4. e \in Committed /\ Committed \subseteq Events
  BY <1>3 DEF IInv, UnderWay, Committed
<1>5. /\ RowsHold' /\ Committed' = Committed
      /\ \A d \in Events : table[d] = "PROCESSED" => table'[d] = "PROCESSED"
  <2>1. \A d \in Events : \/ table'[d] = table[d]
                          \/ d \in Committed /\ table'[d] = "PROCESSED"
    BY <1>1, <1>4
  <2>. QED BY <1>2, <2>1, RowsKept
<1>6. Out' = Out
  BY <1>2 DEF Out
<1>7. \A f \in Events : Gone(f) => Gone(f)'
  <2>1. \A q \in Passes : \A f \in Ran(pass'[q].rows) : f \in Ran(pass[q].rows)
    BY <1>3
  <2>. QED BY <1>5, <1>6, <2>1, GoneKept
<1>8. TypeOK'
  BY <1>2, <1>3 DEF IInv, TypeOK
<1>9. UnderWay'
  <2>1. \A q \in Passes : pass'[q].stage = "mark" => pass'[q].rows # <<>>
    BY <1>3 DEF IInv, UnderWay
  <2>2. \A q \in Passes : Ran(pass'[q].rows) \subseteq Committed
    BY <1>3 DEF IInv, UnderWay
  <2>. QED BY <1>2, <1>5, <1>6, <2>1, <2>2 DEF IInv, UnderWay
<1>10. LeftBeforeMark'
  BY <1>2, <1>3, <1>6 DEF IInv, LeftBeforeMark
<1>11. channel = "open" \/ (table' # table /\ ~LossyStops) => e \in Malformed \cup Out
  BY <1>1 DEF IInv, LeftBeforeMark
<1>12. LostForGood'
  BY <1>1, <1>2, <1>6, <1>7, <1>11 DEF IInv, LostForGood
<1>13. Sorted'
  <2>. SUFFICES ASSUME Ordered PROVE PassesSorted' /\ BufferSorted' /\ ArrivedSorted'
    BY DEF Sorted
  <2>1. PassesSorted'
    BY <1>1, <1>2, <1>6, <1>7, <1>11, SkipSorted
  <2>. QED BY <1>2, <1>7, <2>1, OutSortedKept
<1>14. Published'
  <2>. SUFFICES ASSUME ~LossyStops, NEW d \in Events, table'[d] = "PROCESSED"
                PROVE  d \in Malformed \cup Ran(buffer) \cup Ran(arrived)
    BY <1>2 DEF Published, ProcessedIsPublished
  <2>1. CASE table'[d] = table[d]
    BY <2>1 DEF IInv, Published, ProcessedIsPublished
  <2>2. CASE table'[d] # table[d]
    BY <1>1, <1>11, <2>2 DEF Out
  <2>. QED BY <2>1, <2>2
<1>. QED BY <1>5, <1>8, <1>9, <1>10, <1>12, <1>13, <1>14 DEF IInv

LEMMA PublishHolds ==
  ASSUME IInv, NEW p \in Passes, Publish(p)
  PROVE  IInv'
<1>1. CASE Head(pass[p].rows) \in Malformed \/ channel = "open"
  BY <1>1, PublishedHolds
<1>2. CASE ~(Head(pass[p].rows) \in Malformed \/ channel = "open")
  <2>1. /\ pass[p].rows # <<>> /\ Skip(p) /\ table' = table /\ faults' = faults
        /\ UNCHANGED <<created, before, channel, buffer, broker, consuming>>
    BY <1>2 DEF Publish, rows, IInv, TypeOK
  <2>2. faults' \in 0..MaxFaults /\ table' \in [Events -> RowStates]
    BY <2>1 DEF IInv, TypeOK
  <2>. QED BY <1>2, <2>1, <2>2, SkipHolds
<1>. QED BY <1>1, <1>2

LEMMA MarkHolds ==
  ASSUME IInv, NEW p \in Passes, Mark(p)
  PROVE  IInv'
<1>1. /\ pass[p].stage = "mark" /\ Skip(p) /\ faults' = faults
      /\ table' = [table EXCEPT ![Head(pass[p].rows)] = "PROCESSED"]
      /\ UNCHANGED <<created, before, channel, buffer, broker, consuming>>
  BY DEF Mark
<1>2. pass[p].rows # <<>>
  BY <1>1 DEF IInv, UnderWay
<1>3. faults' \in 0..MaxFaults /\ table' \in [Events -> RowStates]
  BY <1>1 DEF IInv, TypeOK, RowStates
<1>4. \A e \in Events : \/ table'[e] = table[e]
                        \/ e = Head(pass[p].rows) /\ table'[e] = "PROCESSED"
  BY <1>1 DEF IInv, TypeOK
<1>. QED BY <1>1, <1>2, <1>3, <1>4, SkipHolds

(* Rows that a pass forgets and messages that the buffer loses.  The row   *)
(* stays pending, or it was marked and is now lost for good.               *)
LEMMA LoseBufferFacts ==
  ASSUME TypeOK, LoseBuffer, arrived' = arrived
  PROVE  /\ buffer' \in Seq(Events) /\ Ran(buffer') \subseteq Ran(buffer)
         /\ Out' \subseteq Out
         /\ ~LossyStops => buffer' = buffer
         /\ DOMAIN buffer' \subseteq DOMAIN buffer
         /\ \A i \in DOMAIN buffer' : \A j \in 1..i : buffer'[j] = buffer[j]
<1>1. PICK k \in 0..Len(buffer) : /\ LossyStops \/ k = Len(buffer)
                                  /\ buffer' = SubSeq(buffer, 1, k)
  BY DEF LoseBuffer
<1>2. buffer \in Seq(Events) /\ Len(buffer) \in Nat /\ DOMAIN buffer = 1..Len(buffer)
  BY OutFacts DEF TypeOK
<1>3. /\ buffer' \in Seq(Events) /\ Ran(buffer') \subseteq Ran(buffer)
      /\ DOMAIN buffer' = 1..k
      /\ \A i \in 1..k : buffer'[i] = buffer[i]
  BY <1>1, <1>2, PrefixFacts
<1>4. ASSUME ~LossyStops PROVE buffer' = buffer
  BY <1>1, <1>2, <1>4, SubSeqFull
<1>5. /\ DOMAIN buffer' \subseteq DOMAIN buffer
      /\ \A i \in DOMAIN buffer' : \A j \in 1..i : buffer'[j] = buffer[j]
  BY <1>2, <1>3
<1>6. Out' \subseteq Out
  BY <1>3 DEF Out
<1>. QED BY <1>3, <1>4, <1>5, <1>6

LEMMA DropHolds ==
  ASSUME IInv, LoseBuffer, UNCHANGED <<rows, broker, consuming>>,
         faults' \in 0..MaxFaults, channel' \in {"open", "closed"},
         pass' \in [Passes -> [rows : Seq(Events), stage : {"publish", "mark"}]],
         \A q \in Passes : pass'[q] = pass[q] \/ pass'[q] = Idle,
         \/ UNCHANGED <<channel, buffer>>
         \/ \A q \in Passes : pass'[q] = Idle
         \/ channel' = "closed"
  PROVE  IInv'
<1>1. UNCHANGED <<table, created, before, arrived, bindings, queue, consumer,
                  registered, inflight, handled, dropped>>
  BY DEF rows, broker, consuming
<1>2. /\ buffer' \in Seq(Events) /\ Ran(buffer') \subseteq Ran(buffer)
      /\ Out' \subseteq Out
      /\ ~LossyStops => buffer' = buffer
      /\ DOMAIN buffer' \subseteq DOMAIN buffer
      /\ \A i \in DOMAIN buffer' : \A j \in 1..i : buffer'[j] = buffer[j]
  BY <1>1, LoseBufferFacts DEF IInv
<1>3. Idle.rows = <<>> /\ Idle.stage = "publish" /\ Ran(<<>>) = {} /\ DOMAIN <<>> = {}
  BY DEF Idle, Ran
<1>4. TypeOK'
  BY <1>1, <1>2 DEF IInv, TypeOK
<1>5. RowsHold' /\ Committed' = Committed
  BY <1>1, RowsKept
<1>6. UnderWay'
  <2>1. /\ \A q \in Passes : Ran(pass'[q].rows) \subseteq Committed
        /\ \A q \in Passes : pass'[q].stage = "mark" => pass'[q].rows # <<>>
    BY <1>3 DEF IInv, UnderWay
  <2>. QED BY <1>1, <1>2, <1>5, <2>1 DEF IInv, UnderWay
<1>7. \A f \in Events : Gone(f) => Gone(f)'
  <2>1. \A q \in Passes : \A f \in Ran(pass'[q].rows) : f \in Ran(pass[q].rows)
    BY <1>3
  <2>. QED BY <1>1, <1>2, <2>1, GoneKept
<1>8. LeftBeforeMark'
  <2>1. CASE \A q \in Passes : pass'[q] = Idle
    BY <1>3, <2>1 DEF LeftBeforeMark
  <2>2. CASE UNCHANGED <<channel, buffer>>
    BY <1>1, <1>3, <2>2 DEF IInv, LeftBeforeMark, Out
  <2>3. CASE channel' = "closed"
    <3>. SUFFICES ASSUME ~LossyStops, NEW q \in Passes, pass'[q].stage = "mark"
                  PROVE  Head(pass'[q].rows) \in Malformed \cup Out
      BY <1>1, <1>2, <2>3 DEF LeftBeforeMark, Out
    <3>1. pass'[q] = pass[q]
      BY <1>3
    <3>. QED BY <3>1 DEF IInv, LeftBeforeMark
  <2>. QED BY <2>1, <2>2, <2>3
<1>9. LostForGood'
  <2>1. CASE \A q \in Passes : pass'[q] = Idle
    BY <1>3, <2>1 DEF LostForGood, Gone
  <2>2. CASE UNCHANGED <<channel, buffer>>
    BY <1>1, <1>7, <2>2 DEF IInv, LostForGood, Out
  <2>3. CASE channel' = "closed"
    BY <2>3 DEF LostForGood
  <2>. QED BY <2>1, <2>2, <2>3
<1>10. Sorted'
  <2>. SUFFICES ASSUME Ordered PROVE PassesSorted' /\ BufferSorted' /\ ArrivedSorted'
    BY DEF Sorted
  <2>1. PassesSorted'
    <3>1. CASE \A q \in Passes : pass'[q] = Idle
      BY <1>3, <3>1 DEF PassesSorted
    <3>2. CASE UNCHANGED <<channel, buffer>>
      <4>1. ASSUME NEW q \in Passes, NEW i \in DOMAIN pass[q].rows
            PROVE  before[pass[q].rows[i]] \subseteq Events
        BY PassFacts, ElementOfSeq DEF IInv, TypeOK
      <4>2. Out' = Out
        BY <1>1, <3>2 DEF Out
      <4>. SUFFICES ASSUME channel = "open", NEW q \in Passes, NEW i \in DOMAIN pass'[q].rows,
                           NEW f \in before[pass'[q].rows[i]] \ Malformed
                    PROVE  \/ f \in Out \/ Gone(f)'
                           \/ \E j \in 1..(i - 1) : pass'[q].rows[j] = f
        BY <1>1, <3>2, <4>2 DEF PassesSorted
      <4>3. pass'[q] = pass[q]
        BY <1>3
      <4>4. f \in Out \/ Gone(f) \/ \E j \in 1..(i - 1) : pass[q].rows[j] = f
        BY <4>3 DEF IInv, Sorted, PassesSorted
      <4>. QED BY <1>7, <4>1, <4>3, <4>4
    <3>3. CASE channel' = "closed"
      BY <3>3 DEF PassesSorted
    <3>. QED BY <3>1, <3>2, <3>3
  <2>2. /\ \A i \in DOMAIN buffer : before[buffer[i]] \subseteq Events
        /\ \A i \in DOMAIN arrived : before[arrived[i]] \subseteq Events
    BY OutFacts, ElementOfSeq DEF IInv, TypeOK
  <2>3. BufferSorted'
    <3>. SUFFICES ASSUME NEW i \in DOMAIN buffer', NEW f \in before[buffer'[i]] \ Malformed
                  PROVE  \/ f \in Ran(arrived) \/ Gone(f)'
                         \/ \E j \in 1..(i - 1) : buffer'[j] = f
      BY <1>1 DEF BufferSorted
    <3>1. i \in DOMAIN buffer /\ i \in Nat \ {0}
      BY <1>2, OutFacts DEF IInv
    <3>2. buffer'[i] = buffer[i] /\ \A j \in 1..(i - 1) : buffer'[j] = buffer[j]
      BY <1>2, <3>1
    <3>3. f \in Events
      BY <2>2, <3>1, <3>2
    <3>. QED BY <1>7, <3>1, <3>2, <3>3 DEF IInv, Sorted, BufferSorted
  <2>4. ArrivedSorted'
    BY <1>1, <1>7, <2>2 DEF IInv, Sorted, ArrivedSorted
  <2>. QED BY <2>1, <2>3, <2>4
<1>11. Published'
  BY <1>1, <1>2 DEF IInv, Published, ProcessedIsPublished
<1>. QED BY <1>4, <1>5, <1>6, <1>8, <1>9, <1>10, <1>11 DEF IInv

LEMMA KeptBuffer ==
  ASSUME TypeOK, buffer' = buffer
  PROVE  LoseBuffer
<1>1. Len(buffer) \in 0..Len(buffer) /\ SubSeq(buffer, 1, Len(buffer)) = buffer
  BY OutFacts, SubSeqFull DEF TypeOK
<1>. QED BY <1>1 DEF LoseBuffer

LEMMA MarkFailsHolds ==
  ASSUME IInv, NEW p \in Passes, MarkFails(p)
  PROVE  IInv'
<1>1. /\ faults' \in 0..MaxFaults /\ pass[p].stage = "mark"
      /\ IF Head(pass[p].rows) \in Malformed THEN pass' = [pass EXCEPT ![p] = Idle]
                                              ELSE Skip(p)
      /\ UNCHANGED <<rows, channel, buffer, broker, consuming>>
  BY RelayAssumption DEF MarkFails, Fault, IInv, TypeOK
<1>2. CASE Head(pass[p].rows) \in Malformed
  <2>1. Idle \in [rows : Seq(Events), stage : {"publish", "mark"}]
    BY EmptySeq DEF Idle
  <2>2. /\ pass' \in [Passes -> [rows : Seq(Events), stage : {"publish", "mark"}]]
        /\ \A q \in Passes : pass'[q] = pass[q] \/ pass'[q] = Idle
    <3>1. /\ pass' = [pass EXCEPT ![p] = Idle]
          /\ pass \in [Passes -> [rows : Seq(Events), stage : {"publish", "mark"}]]
      BY <1>1, <1>2 DEF IInv, TypeOK
    <3>. QED BY <2>1, <3>1
  <2>3. LoseBuffer /\ channel' \in {"open", "closed"}
    BY <1>1, KeptBuffer DEF IInv, TypeOK
  <2>. QED BY <1>1, <2>2, <2>3, DropHolds
<1>3. CASE Head(pass[p].rows) \notin Malformed
  <2>1. pass[p].rows # <<>> /\ table' = table /\ table' \in [Events -> RowStates]
        /\ UNCHANGED <<created, before, channel, buffer, broker, consuming>>
    BY <1>1 DEF rows, IInv, UnderWay, TypeOK
  <2>. QED BY <1>1, <1>3, <2>1, SkipHolds
<1>. QED BY <1>2, <1>3

LEMMA WorkerRestartsHolds ==
  ASSUME IInv, WorkerRestarts
  PROVE  IInv'
<1>1. /\ faults' \in 0..MaxFaults /\ pass' = [p \in Passes |-> Idle] /\ channel' = "open"
      /\ LoseBuffer /\ UNCHANGED <<rows, broker, consuming>>
  BY RelayAssumption DEF WorkerRestarts, Fault, IInv, TypeOK
<1>2. Idle \in [rows : Seq(Events), stage : {"publish", "mark"}]
  BY EmptySeq DEF Idle
<1>3. /\ pass' \in [Passes -> [rows : Seq(Events), stage : {"publish", "mark"}]]
      /\ \A q \in Passes : pass'[q] = Idle
  BY <1>1, <1>2
<1>. QED BY <1>1, <1>3, DropHolds

LEMMA BrokerClosesHolds ==
  ASSUME IInv, BrokerClosesConnection
  PROVE  IInv'
<1>1. /\ faults' \in 0..MaxFaults /\ pass' = pass /\ channel' = "closed"
      /\ LoseBuffer /\ UNCHANGED <<rows, broker, consuming>>
  BY RelayAssumption DEF BrokerClosesConnection, Fault, IInv, TypeOK
<1>2. pass' \in [Passes -> [rows : Seq(Events), stage : {"publish", "mark"}]]
  BY <1>1 DEF IInv, TypeOK
<1>. QED BY <1>1, <1>2, DropHolds

-----------------------------------------------------------------------------
(* The broker.                                                             *)

LEMMA ArriveHolds ==
  ASSUME IInv, Arrive
  PROVE  IInv'
<1>1. PICK e : e = Head(buffer)
  OBVIOUS
<1>2. /\ buffer # <<>> /\ buffer' = Tail(buffer)
      /\ e \in Ran(arrived) => arrived' = arrived
      /\ e \notin Ran(arrived) => arrived' = Append(arrived, e)
      /\ \/ queue' = queue
         \/ queue' = [queue EXCEPT ![e] = @ + 1]
      /\ UNCHANGED <<table, created, before, pass, channel, bindings, consumer,
                     registered, inflight, handled, dropped, faults>>
  BY <1>1 DEF Arrive, rows, consuming
<1>3. /\ buffer \in Seq(Events) /\ arrived \in Seq(Events)
      /\ \A d \in Events : before[d] \subseteq Events
  BY DEF IInv, TypeOK
<1>4. /\ buffer' \in Seq(Events) /\ e \in Events /\ e = buffer[1]
      /\ Ran(buffer) = Ran(buffer') \cup {e}
      /\ Len(buffer) \in Nat \ {0} /\ DOMAIN buffer = 1..Len(buffer)
      /\ DOMAIN buffer' = 1..(Len(buffer) - 1)
      /\ \A i \in 1..(Len(buffer) - 1) : buffer'[i] = buffer[i + 1]
      /\ \A i \in 1..Len(buffer) : buffer[i] \in Events
  BY <1>1, <1>2, <1>3, TailFacts, ElementOfSeq
<1>5. /\ Len(arrived) \in Nat /\ DOMAIN arrived = 1..Len(arrived)
      /\ \A i \in 1..Len(arrived) : arrived[i] \in Events
      /\ \A f : f \in Ran(arrived) <=> \E i \in 1..Len(arrived) : arrived[i] = f
  BY <1>3, RanFacts, ElementOfSeq
<1>6. /\ arrived' \in Seq(Events) /\ Ran(arrived') = Ran(arrived) \cup {e}
      /\ \A i \in DOMAIN arrived' : \/ i \in 1..Len(arrived)
                                    \/ /\ e \notin Ran(arrived)
                                       /\ i = Len(arrived) + 1 /\ arrived'[i] = e
      /\ \A i \in 1..Len(arrived) : arrived'[i] = arrived[i]
  <2>1. CASE e \in Ran(arrived)
    BY <1>2, <1>3, <1>5, <2>1
  <2>2. CASE e \notin Ran(arrived)
    <3>1. /\ arrived' \in Seq(Events) /\ Ran(arrived') = Ran(arrived) \cup {e}
          /\ DOMAIN arrived' = 1..(Len(arrived) + 1)
          /\ \A i \in 1..Len(arrived) : arrived'[i] = arrived[i]
          /\ arrived'[Len(arrived) + 1] = e
      <4>1. arrived' = Append(arrived, e) /\ arrived \in Seq(Events) /\ e \in Events
        BY <1>2, <1>3, <1>4, <2>2
      <4>. QED BY <4>1, AppendFacts
    <3>2. \A i \in 1..(Len(arrived) + 1) : i \in 1..Len(arrived) \/ i = Len(arrived) + 1
      BY <1>5
    <3>. QED BY <2>2, <3>1, <3>2
  <2>. QED BY <2>1, <2>2
<1>7. Out' = Out
  BY <1>4, <1>6 DEF Out
<1>8. e \in Committed
  BY <1>4 DEF IInv, UnderWay, Out
<1>9. TypeOK'
  <2>1. queue \in [Events -> Nat]
    BY DEF IInv, TypeOK
  <2>2. queue' \in [Events -> Nat]
    BY <1>2, <1>4, <2>1
  <2>. QED BY <1>2, <1>4, <1>6, <2>2 DEF IInv, TypeOK
<1>10. RowsHold' /\ Committed' = Committed
  BY <1>2, RowsKept
<1>11. UnderWay'
  <2>1. \A d \in Events : queue'[d] > 0 \/ inflight'[d] > 0 => d \in Committed
    BY <1>2, <1>8 DEF IInv, TypeOK, UnderWay
  <2>2. \A i, j \in DOMAIN arrived' : arrived'[i] = arrived'[j] => i = j
    BY <1>5, <1>6 DEF IInv, UnderWay
  <2>. QED BY <1>2, <1>7, <1>10, <2>1, <2>2 DEF IInv, UnderWay
<1>12. \A f \in Events : Gone(f) => Gone(f)'
  BY <1>2, <1>7 DEF Gone
<1>13. LeftBeforeMark' /\ LostForGood'
  BY <1>2, <1>7, <1>12 DEF IInv, LeftBeforeMark, LostForGood
<1>14. Sorted'
  <2>. SUFFICES ASSUME Ordered PROVE PassesSorted' /\ BufferSorted' /\ ArrivedSorted'
    BY DEF Sorted
  <2>1. PassesSorted'
    BY <1>2, <1>7, <1>12, PassesSortedKept
  <2>2. BufferSorted'
    <3>. SUFFICES ASSUME NEW i \in DOMAIN buffer',
                         NEW f \in before[buffer'[i]] \ Malformed
                  PROVE  \/ f \in Ran(arrived') \/ Gone(f)'
                         \/ \E j \in 1..(i - 1) : buffer'[j] = f
      BY <1>2 DEF BufferSorted
    <3>1. /\ i \in 1..(Len(buffer) - 1) /\ i + 1 \in 1..Len(buffer)
          /\ f \in before[buffer[i + 1]] \ Malformed
      BY <1>4
    <3>2. \/ f \in Ran(arrived) \/ Gone(f)
          \/ \E j \in 1..((i + 1) - 1) : buffer[j] = f
      BY <1>4, <3>1 DEF IInv, Sorted, BufferSorted
    <3>3. f \in Events
      BY <1>3, <1>4, <3>1
    <3>4. ASSUME NEW j \in 1..((i + 1) - 1), buffer[j] = f
          PROVE  f \in Ran(arrived') \/ \E k \in 1..(i - 1) : buffer'[k] = f
      <4>1. CASE j = 1
        BY <1>4, <1>6, <3>4, <4>1
      <4>2. CASE j # 1
        <5>1. /\ j - 1 \in 1..(i - 1) /\ j - 1 \in 1..(Len(buffer) - 1)
              /\ (j - 1) + 1 = j
          BY <1>4, <4>2
        <5>2. buffer'[j - 1] = buffer[j]
          BY <1>4, <5>1
        <5>. QED BY <3>4, <5>1, <5>2
      <4>. QED BY <4>1, <4>2
    <3>. QED BY <1>6, <1>12, <3>2, <3>3, <3>4
  <2>3. ArrivedSorted'
    <3>. SUFFICES ASSUME NEW i \in DOMAIN arrived',
                         NEW f \in before[arrived'[i]] \ Malformed
                  PROVE  \/ Gone(f)'
                         \/ \E j \in 1..(i - 1) : arrived'[j] = f
      BY <1>2 DEF ArrivedSorted
    <3>1. CASE i \in 1..Len(arrived)
      <4>1. arrived'[i] = arrived[i] /\ \A j \in 1..(i - 1) : arrived'[j] = arrived[j]
        BY <1>5, <1>6, <3>1
      <4>2. f \in Events
        BY <1>3, <1>5, <3>1, <4>1
      <4>3. Gone(f) \/ \E j \in 1..(i - 1) : arrived[j] = f
        BY <1>5, <3>1, <4>1 DEF IInv, Sorted, ArrivedSorted
      <4>. QED BY <1>12, <4>1, <4>2, <4>3
    <3>2. CASE i = Len(arrived) + 1 /\ arrived'[i] = e
      <4>1. f \in Events /\ f \in before[buffer[1]] \ Malformed /\ 1 \in DOMAIN buffer
        BY <1>3, <1>4, <3>2
      <4>2. \/ f \in Ran(arrived) \/ Gone(f)
            \/ \E j \in 1..(1 - 1) : buffer[j] = f
        BY <4>1 DEF IInv, Sorted, BufferSorted
      <4>3. ASSUME f \in Ran(arrived)
            PROVE  \E j \in 1..(i - 1) : arrived'[j] = f
        BY <1>5, <1>6, <3>2, <4>3
      <4>. QED BY <1>12, <4>1, <4>2, <4>3
    <3>. QED BY <1>6, <3>1, <3>2
  <2>. QED BY <2>1, <2>2, <2>3
<1>15. Published'
  BY <1>2, <1>4, <1>6 DEF IInv, Published, ProcessedIsPublished
<1>. QED BY <1>9, <1>10, <1>11, <1>13, <1>14, <1>15 DEF IInv

-----------------------------------------------------------------------------
(* The consumer, and all steps together.                                   *)

LEMMA SetupFacts ==
  /\ Len(Setup) \in Nat
  /\ \A i \in 1..Len(Setup) : Setup[i] \in Ran(Setup)
BY RanFacts, RelayAssumption

LEMMA ConsumerSetsUp ==
  ASSUME IInv, StartConsumer \/ Bind \/ SetHandler
  PROVE  IInv'
<1>1. /\ UNCHANGED <<rows, worker, arrived, queue, inflight, handled, dropped, faults>>
      /\ consumer' \in {"down", "up"}
      /\ bindings' \subseteq Ran(Setup) /\ registered' \in 0..Len(Setup)
  BY SetupFacts DEF StartConsumer, Bind, SetHandler, broker, consuming, IInv, TypeOK
<1>2. TypeOK'
  BY <1>1 DEF rows, worker, IInv, TypeOK
<1>. QED BY <1>1, <1>2, ConsumerKeeps DEF IInv, UnderWay

LEMMA MessageHolds ==
  ASSUME IInv, NEW e \in Events, Deliver(e) \/ Handle(e) \/ HandlerFails(e)
  PROVE  IInv'
<1>1. /\ UNCHANGED <<rows, worker, arrived, bindings, consumer, registered>>
      /\ handled' \subseteq handled \cup {e} /\ dropped' \subseteq dropped \cup {e}
      /\ faults' \in 0..MaxFaults
  <2>1. faults \in 0..MaxFaults
    BY DEF IInv, TypeOK
  <2>2. CASE Deliver(e)
    BY <2>1, <2>2 DEF Deliver
  <2>3. CASE Handle(e)
    BY <2>1, <2>3 DEF Handle, broker
  <2>4. CASE HandlerFails(e)
    <3>1. dropped' \subseteq dropped \cup {e}
      BY <2>4 DEF HandlerFails
    <3>. QED BY <2>1, <2>4, <3>1, RelayAssumption DEF HandlerFails, Fault
  <2>. QED BY <2>2, <2>3, <2>4
<1>2. /\ queue \in [Events -> Nat] /\ inflight \in [Events -> Nat]
      /\ queue[e] > 0 \/ inflight[e] > 0
  BY DEF Deliver, Handle, HandlerFails, IInv, TypeOK
<1>3. e \in Committed
  BY <1>2 DEF IInv, UnderWay
<1>4. /\ queue' \in [Events -> Nat] /\ inflight' \in [Events -> Nat]
      /\ \A d \in Events \ {e} : queue'[d] = queue[d] /\ inflight'[d] = inflight[d]
  <2>1. CASE Deliver(e)
    BY <1>2, <2>1 DEF Deliver
  <2>2. CASE Handle(e)
    BY <1>2, <2>2 DEF Handle, broker
  <2>3. CASE HandlerFails(e)
    <3>1. queue' = queue \/ queue' = [queue EXCEPT ![e] = @ + 1]
      BY <2>3 DEF HandlerFails
    <3>. QED BY <1>2, <2>3, <3>1 DEF HandlerFails
  <2>. QED BY <2>1, <2>2, <2>3
<1>5. TypeOK'
  BY <1>1, <1>4 DEF rows, worker, IInv, TypeOK
<1>6. /\ \A d \in Events : queue'[d] > 0 \/ inflight'[d] > 0 => d \in Committed
      /\ handled' \subseteq Committed /\ dropped' \subseteq Committed
  BY <1>1, <1>3, <1>4 DEF IInv, UnderWay
<1>. QED BY <1>1, <1>5, <1>6, ConsumerKeeps

LEMMA StopConsumerHolds ==
  ASSUME IInv, StopConsumer
  PROVE  IInv'
<1>1. /\ UNCHANGED <<rows, worker, arrived, bindings, handled, dropped>>
      /\ consumer' \in {"down", "up"} /\ registered' = 0
      /\ faults' \in 0..MaxFaults
      /\ queue' = [e \in Events |-> queue[e] + inflight[e]]
      /\ inflight' = [e \in Events |-> 0]
      /\ queue \in [Events -> Nat] /\ inflight \in [Events -> Nat]
  BY RelayAssumption DEF StopConsumer, Fault, IInv, TypeOK
<1>2. TypeOK'
  BY <1>1, SetupFacts DEF rows, worker, IInv, TypeOK
<1>3. \A d \in Events : queue'[d] > 0 \/ inflight'[d] > 0 => d \in Committed
  BY <1>1 DEF IInv, UnderWay
<1>. QED BY <1>1, <1>2, <1>3, ConsumerKeeps DEF IInv, UnderWay

LEMMA InitHolds == Init => IInv
<1>. SUFFICES ASSUME Init PROVE IInv
  OBVIOUS
<1>. USE DEF Init
<1>1. /\ Committed = {} /\ Pending = {} /\ Ran(<<>>) = {} /\ DOMAIN <<>> = {}
      /\ Idle.rows = <<>> /\ Idle.stage = "publish"
  BY DEF Committed, Pending, Ran, Idle
<1>2. TypeOK
  <2>1. <<>> \in Seq(Events)
    BY EmptySeq
  <2>2. Idle \in [rows : Seq(Events), stage : {"publish", "mark"}]
    BY <2>1 DEF Idle
  <2>. QED BY <2>1, <2>2, SetupFacts, RelayAssumption DEF TypeOK, RowStates
<1>3. RowsHold
  BY <1>1, FS_EmptySet DEF RowsHold
<1>4. UnderWay
  BY <1>1 DEF UnderWay, Out
<1>5. LeftBeforeMark /\ LostForGood
  BY <1>1 DEF LeftBeforeMark, LostForGood
<1>6. Sorted
  BY <1>1 DEF Sorted, PassesSorted, BufferSorted, ArrivedSorted
<1>7. Published
  BY DEF Published, ProcessedIsPublished
<1>. QED BY <1>2, <1>3, <1>4, <1>5, <1>6, <1>7 DEF IInv

LEMMA NextHolds == IInv /\ [Next]_vars => IInv'
<1>. SUFFICES ASSUME IInv, [Next]_vars PROVE IInv'
  OBVIOUS
<1>1. ASSUME NEW e \in Events, CreateRow(e) \/ EndTransaction(e) PROVE IInv'
  BY <1>1, CreateRowHolds, EndTransactionHolds
<1>2. ASSUME NEW p \in Passes, Fetch(p) \/ Publish(p) \/ Mark(p) \/ MarkFails(p) PROVE IInv'
  BY <1>2, FetchHolds, PublishHolds, MarkHolds, MarkFailsHolds
<1>3. ASSUME WorkerRestarts \/ BrokerClosesConnection \/ Arrive PROVE IInv'
  BY <1>3, WorkerRestartsHolds, BrokerClosesHolds, ArriveHolds
<1>4. ASSUME StartConsumer \/ Bind \/ SetHandler \/ StopConsumer PROVE IInv'
  BY <1>4, ConsumerSetsUp, StopConsumerHolds
<1>5. ASSUME NEW e \in Events, Deliver(e) \/ Handle(e) \/ HandlerFails(e) PROVE IInv'
  BY <1>5, MessageHolds
<1>6. CASE UNCHANGED vars
  <2>1. UNCHANGED <<rows, worker, arrived>> /\ UNCHANGED <<queue, inflight, handled, dropped>>
    BY <1>6 DEF vars, rows, worker
  <2>2. TypeOK'
    BY <1>6 DEF vars, IInv, TypeOK
  <2>. QED BY <2>1, <2>2, ConsumerKeeps DEF IInv, UnderWay
<1>. QED BY <1>1, <1>2, <1>3, <1>4, <1>5, <1>6 DEF Next

LEMMA Invariance == Spec => []IInv
BY InitHolds, NextHolds, PTL DEF Spec

-----------------------------------------------------------------------------
(* The theorems.                                                           *)

(* Rows, passes, messages and handlers have their types in every state.    *)
THEOREM RelayTyped == Spec => []TypeOK
<1>1. IInv => TypeOK
  BY DEF IInv
<1>. QED BY <1>1, Invariance, PTL

(* As long as no buffer is lost with its connection, a worker marks only   *)
(* what it published, whatever passes overlap, updates fail and processes  *)
(* restart.                                                                *)
THEOREM ProcessedPublished ==
  ASSUME ~LossyStops
  PROVE  Spec => []ProcessedIsPublished
<1>1. IInv => ProcessedIsPublished
  BY DEF IInv, Published
<1>. QED BY <1>1, Invariance, PTL

(* A worker that fetches in the order of creation lets no event reach the  *)
(* broker ahead of one it depends on, even when buffers are lost.          *)
THEOREM CausalOrderAlways ==
  ASSUME Ordered
  PROVE  Spec => []CausalOrder
<1>1. ASSUME IInv PROVE CausalOrder
  <2>. SUFFICES ASSUME NEW i \in DOMAIN arrived, NEW j \in DOMAIN arrived, i < j,
                       arrived[j] \in before[arrived[i]]
                PROVE  FALSE
    BY DEF CausalOrder
  <2>1. /\ DOMAIN arrived = 1..Len(arrived) /\ Len(arrived) \in Nat
        /\ arrived[j] \in Ran(arrived)
    BY <1>1, OutFacts DEF IInv
  <2>2. arrived[j] \in Out /\ arrived[j] \notin Malformed
    BY <1>1, <2>1 DEF IInv, UnderWay, Out
  <2>3. ~Gone(arrived[j])
    BY <2>2 DEF Gone
  <2>4. PICK k \in 1..(i - 1) : arrived[k] = arrived[j]
    BY <1>1, <2>2, <2>3 DEF IInv, Sorted, ArrivedSorted
  <2>5. k \in DOMAIN arrived
    BY <2>1, <2>4
  <2>6. k = j
    BY <1>1, <2>4, <2>5 DEF IInv, UnderWay
  <2>. QED BY <2>1, <2>6
<1>. QED BY <1>1, Invariance, PTL

-----------------------------------------------------------------------------
(* What becomes of an event, in the terms of EventDelivery.                *)

Fate == [e \in Events \ Malformed |->
           IF e \in handled THEN "handled"
           ELSE IF e \in dropped THEN "given up"
           ELSE IF e \in Committed THEN "committed" ELSE "none"]

Retried == {e \in Events \ Malformed : Requeues[Name[e]] = {TRUE}}

LEMMA CommittedKept ==
  ASSUME IInv, Next, \A e \in Events : ~EndTransaction(e)
  PROVE  Committed' = Committed
<1>1. ASSUME NEW e \in Events, CreateRow(e) PROVE Committed' = Committed
  BY <1>1 DEF CreateRow, Committed, IInv, TypeOK
<1>2. ASSUME NEW p \in Passes, Mark(p) PROVE Committed' = Committed
  <2>1. Head(pass[p].rows) \in Committed
    <3>1. pass[p].rows # <<>>
      BY <1>2 DEF Mark, IInv, UnderWay
    <3>2. Head(pass[p].rows) \in Ran(pass[p].rows)
      BY <1>2, <3>1, SkipFacts DEF Mark, IInv
    <3>. QED BY <3>2 DEF IInv, UnderWay
  <2>. QED BY <1>2, <2>1 DEF Mark, Committed, IInv, TypeOK
<1>3. ASSUME UNCHANGED rows PROVE Committed' = Committed
  BY <1>3 DEF rows, Committed
<1>4. ASSUME NEW p \in Passes, Fetch(p) \/ Publish(p) \/ MarkFails(p) PROVE UNCHANGED rows
  BY <1>4 DEF Fetch, Publish, MarkFails
<1>5. ASSUME NEW e \in Events, Deliver(e) \/ Handle(e) \/ HandlerFails(e) PROVE UNCHANGED rows
  BY <1>5 DEF Deliver, Handle, HandlerFails
<1>6. ASSUME \/ WorkerRestarts \/ BrokerClosesConnection \/ Arrive
             \/ StartConsumer \/ Bind \/ SetHandler \/ StopConsumer
      PROVE  UNCHANGED rows
  BY <1>6 DEF WorkerRestarts, BrokerClosesConnection, Arrive,
              StartConsumer, Bind, SetHandler, StopConsumer
<1>. QED BY <1>1, <1>2, <1>3, <1>4, <1>5, <1>6 DEF Next

LEMMA HandledKept ==
  ASSUME Next, \A e \in Events : ~Handle(e) /\ ~HandlerFails(e)
  PROVE  handled' = handled /\ dropped' = dropped
<1>1. ASSUME NEW e \in Events, CreateRow(e) \/ EndTransaction(e) \/ Deliver(e)
      PROVE  handled' = handled /\ dropped' = dropped
  BY <1>1 DEF CreateRow, EndTransaction, Deliver, consuming
<1>2. ASSUME NEW p \in Passes, Fetch(p) \/ Publish(p) \/ Mark(p) \/ MarkFails(p)
      PROVE  handled' = handled /\ dropped' = dropped
  BY <1>2 DEF Fetch, Publish, Mark, MarkFails, consuming
<1>3. ASSUME \/ WorkerRestarts \/ BrokerClosesConnection \/ Arrive
             \/ StartConsumer \/ Bind \/ SetHandler \/ StopConsumer
      PROVE  handled' = handled /\ dropped' = dropped
  BY <1>3 DEF WorkerRestarts, BrokerClosesConnection, Arrive,
              StartConsumer, Bind, SetHandler, StopConsumer, consuming
<1>. QED BY <1>1, <1>2, <1>3 DEF Next

(* The end of a transaction commits an event or changes nothing; the       *)
(* success of a handler delivers a committed event, one that was given up  *)
(* included, or repeats a delivery; a failure gives up a committed event   *)
(* whose handler may answer so, or changes nothing.                        *)
LEMMA StepDelivers ==
  ASSUME IInv, Next
  PROVE  Fate' = Fate \/ \E e \in Events \ Malformed :
           \/ Fate[e] = "none" /\ Fate' = [Fate EXCEPT ![e] = "committed"]
           \/ /\ Fate[e] \in {"committed", "given up"}
              /\ Fate' = [Fate EXCEPT ![e] = "handled"]
           \/ /\ e \notin Retried /\ Fate[e] = "committed"
              /\ Fate' = [Fate EXCEPT ![e] = "given up"]
<1>1. handled \subseteq Committed /\ dropped \subseteq Committed
  BY DEF IInv, UnderWay
<1>2. ASSUME NEW e \in Events, EndTransaction(e)
      PROVE  \/ Fate' = Fate
             \/ /\ e \in Events \ Malformed /\ Fate[e] = "none"
                /\ Fate' = [Fate EXCEPT ![e] = "committed"]
  <2>1. /\ handled' = handled /\ dropped' = dropped /\ e \notin Committed
        /\ Committed' = Committed \/ Committed' = Committed \cup {e}
    BY <1>2 DEF EndTransaction, consuming, Committed, IInv, TypeOK
  <2>2. e \notin handled /\ e \notin dropped
    BY <1>1, <2>1
  <2>3. CASE Committed' = Committed \/ e \in Malformed
    BY <2>1, <2>3 DEF Fate
  <2>4. CASE Committed' = Committed \cup {e} /\ e \notin Malformed
    BY <2>1, <2>2, <2>4 DEF Fate
  <2>. QED BY <2>1, <2>3, <2>4
<1>3. ASSUME NEW e \in Events, Handle(e), Committed' = Committed
      PROVE  \/ Fate' = Fate
             \/ /\ e \in Events \ Malformed /\ Fate[e] \in {"committed", "given up"}
                /\ Fate' = [Fate EXCEPT ![e] = "handled"]
  <2>1. handled' = handled \cup {e} /\ dropped' = dropped /\ e \in Committed
    BY <1>3 DEF Handle, IInv, UnderWay
  <2>2. CASE e \in handled \/ e \in Malformed
    BY <1>3, <2>1, <2>2 DEF Fate
  <2>3. CASE e \notin handled /\ e \notin Malformed
    BY <1>3, <2>1, <2>3 DEF Fate
  <2>. QED BY <2>2, <2>3
<1>4. ASSUME NEW e \in Events, HandlerFails(e), Committed' = Committed
      PROVE  \/ Fate' = Fate
             \/ /\ e \in (Events \ Malformed) \ Retried /\ Fate[e] = "committed"
                /\ Fate' = [Fate EXCEPT ![e] = "given up"]
  <2>1. handled' = handled /\ e \in Committed
    BY <1>4 DEF HandlerFails, IInv, UnderWay, TypeOK
  <2>2. CASE dropped' = dropped
    BY <1>4, <2>1, <2>2 DEF Fate
  <2>3. CASE dropped' = dropped \cup {e} /\ FALSE \in Requeues[Name[e]]
    <3>1. e \notin Retried
      BY <2>3 DEF Retried
    <3>2. CASE e \in handled \cup dropped \cup Malformed
      BY <1>4, <2>1, <2>3, <3>2 DEF Fate
    <3>3. CASE e \notin handled \cup dropped \cup Malformed
      BY <1>4, <2>1, <2>3, <3>1, <3>3 DEF Fate
    <3>. QED BY <3>2, <3>3
  <2>4. dropped' = dropped \/ (dropped' = dropped \cup {e} /\ FALSE \in Requeues[Name[e]])
    BY <1>4, RelayAssumption DEF HandlerFails
  <2>. QED BY <2>2, <2>3, <2>4
<1>5. ASSUME \A e \in Events : ~Handle(e) /\ ~HandlerFails(e), Committed' = Committed
      PROVE  Fate' = Fate
  BY <1>5, HandledKept DEF Fate
<1>. QED BY <1>2, <1>3, <1>4, <1>5, CommittedKept

(* Whatever the relay does is a step of EventDelivery: no event is handled *)
(* that was not committed, none is ever taken back, and none is given up   *)
(* whose handler has every failure tried again.                            *)
THEOREM RelayDelivers == Spec => Delivery!Safety
<1>1. ASSUME Init PROVE Delivery!Init
  <2>1. Committed = {} /\ handled = {} /\ dropped = {}
    BY <1>1 DEF Init, Committed
  <2>. QED BY <2>1 DEF Delivery!Init
<1>2. ASSUME IInv, [Next]_vars PROVE [Delivery!Next]_Fate
  <2>1. CASE Next
    BY <1>2, <2>1, StepDelivers DEF Delivery!Next, Delivery!Commit, Delivery!Handle,
       Delivery!GiveUp, Delivery!Move, Fate, Retried
  <2>2. CASE UNCHANGED vars
    BY <2>2 DEF vars, Fate, Committed
  <2>. QED BY <1>2, <2>1, <2>2
<1>. QED BY <1>1, <1>2, Invariance, PTL DEF Spec, Delivery!Safety, Fate
=============================================================================
