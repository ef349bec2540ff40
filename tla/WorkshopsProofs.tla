---------------------------- MODULE WorkshopsProofs ----------------------------
(***************************************************************************)
(* Proofs about CohortSchedule and Workshops, for any number of calls at   *)
(* once, cohorts, schedules and edits.                                     *)
(*                                                                         *)
(* Of the schedules: a valid one has one session in each slot and an       *)
(* earliest one, sessions fall on their weekday, and three rounds find the *)
(* instant of a local time.  Of the workshops: the types, that what is     *)
(* offered is what was published, and that sessions are held on time.      *)
(***************************************************************************)
EXTENDS Workshops, Sums

-----------------------------------------------------------------------------
(* Finite sets with an order.                                              *)

(* A finite set that is not empty has a least member in a total order that *)
(* is transitive, given as a set of pairs.                                 *)
LEMMA LeastMember ==
  ASSUME NEW S, IsFiniteSet(S), S # {}, NEW R,
         \A x, y \in S : <<x, y>> \in R \/ <<y, x>> \in R,
         \A x, y, z \in S : <<x, y>> \in R /\ <<y, z>> \in R => <<x, z>> \in R
  PROVE  \E x \in S : \A y \in S : <<x, y>> \in R
<1>. DEFINE B == {T \in SUBSET S : T # {} /\ ~ \E x \in T : \A y \in T : <<x, y>> \in R}
<1>. SUFFICES ASSUME B # {} PROVE FALSE
  OBVIOUS
<1>1. B \subseteq SUBSET S
  OBVIOUS
<1>2. PICK T \in B : \A U \in B : U \subseteq T => U = T
  <2>. HIDE DEF B
  <2>. QED
    BY <1>1, MinimalSet
<1>3. PICK x \in T : TRUE
  OBVIOUS
<1>4. T \ {x} # {}
  <2>. SUFFICES ASSUME T = {x} PROVE FALSE
    OBVIOUS
  <2>1. <<x, x>> \in R
    OBVIOUS
  <2>. QED
    BY <2>1
<1>5. T \ {x} \notin B
  <2>. HIDE DEF B
  <2>. QED
    BY <1>2, <1>3
<1>6. PICK m \in T \ {x} : \A y \in T \ {x} : <<m, y>> \in R
  BY <1>4, <1>5
<1>7. CASE <<m, x>> \in R
  BY <1>6, <1>7
<1>8. CASE <<x, m>> \in R
  <2>1. \A y \in T : <<x, y>> \in R
    BY <1>6, <1>8
  <2>. QED
    BY <2>1
<1>. QED
  BY <1>6, <1>7, <1>8

LEMMA LeastInteger ==
  ASSUME NEW S, IsFiniteSet(S), S # {}, \A x \in S : x \in Int
  PROVE  Min(S) \in S /\ \A y \in S : Min(S) <= y
<1>. DEFINE R == {p \in S \X S : p[1] <= p[2]}
<1>1. \A x, y \in S : <<x, y>> \in R <=> x <= y
  OBVIOUS
<1>2. \A x, y \in S : x <= y \/ y <= x
  OBVIOUS
<1>3. \A x, y, z \in S : x <= y /\ y <= z => x <= z
  OBVIOUS
<1>. HIDE DEF R
<1>4. \E x \in S : \A y \in S : <<x, y>> \in R
  BY <1>1, <1>2, <1>3, LeastMember
<1>. QED
  BY <1>1, <1>4 DEF Min

LEMMA GreatestInteger ==
  ASSUME NEW S, IsFiniteSet(S), S # {}, \A x \in S : x \in Int
  PROVE  Max(S) \in S /\ \A y \in S : y <= Max(S)
<1>. DEFINE R == {p \in S \X S : p[1] >= p[2]}
<1>1. \A x, y \in S : <<x, y>> \in R <=> x >= y
  OBVIOUS
<1>2. \A x, y \in S : x >= y \/ y >= x
  OBVIOUS
<1>3. \A x, y, z \in S : x >= y /\ y >= z => x >= z
  OBVIOUS
<1>. HIDE DEF R
<1>4. \E x \in S : \A y \in S : <<x, y>> \in R
  BY <1>1, <1>2, <1>3, LeastMember
<1>. QED
  BY <1>1, <1>4 DEF Max

-----------------------------------------------------------------------------
(* Schedules.                                                              *)

SlotOf(s) == <<s.week, s.day, s.order>>
SameDay(S, s) == {t \in S : t.week = s.week /\ t.day = s.day}

(* What has a slot: a slot that was sent, or a session.                    *)
Placed(S) == \A s \in S : s.week \in Nat /\ s.day \in 0..6 /\ s.order \in Nat

LEMMA ValidIs ==
  ASSUME NEW S
  PROVE  ValidSchedule(S) <=>
         \A s \in S : {t.order : t \in SameDay(S, s)} = 1..Cardinality(SameDay(S, s))
  BY DEF ValidSchedule, SameDay

(* No two sessions of a valid schedule are in one slot.                    *)
LEMMA SlotsApart ==
  ASSUME NEW S, IsFiniteSet(S), ValidSchedule(S), NEW s \in S, NEW t \in S,
         SlotOf(s) = SlotOf(t)
  PROVE  s = t
<1>. DEFINE day == SameDay(S, s)
            n == Cardinality(day)
            orders == [u \in day |-> u.order]
<1>1. s \in day /\ t \in day
  BY DEF SlotOf, SameDay
<1>2. IsFiniteSet(day) /\ n \in Nat
  BY FS_Subset, FS_CardinalityType DEF SameDay
<1>3. {u.order : u \in day} = 1..n
  BY ValidIs
<1>4. orders \in Surjection(day, 1..n)
  BY <1>3 DEF Surjection
<1>5. IsFiniteSet(1..n) /\ Cardinality(1..n) = n
  BY <1>2, FS_Interval
<1>6. orders \in Injection(day, 1..n)
  <2>. HIDE DEF orders
  <2>. QED
    BY <1>2, <1>4, <1>5, FS_SurjSameCardinalityImpliesInj
<1>7. orders[s] = orders[t]
  BY <1>1 DEF SlotOf
<1>. QED
  BY <1>1, <1>6, <1>7 DEF Injection, IsInjective

(* Sessions that take over the slots of a valid schedule make a valid one. *)
LEMMA SlotsTakenOver ==
  ASSUME NEW S, IsFiniteSet(S), ValidSchedule(S), NEW U, NEW f \in Surjection(S, U),
         \A s \in S : SlotOf(f[s]) = SlotOf(s)
  PROVE  IsFiniteSet(U) /\ ValidSchedule(U)
<1>1. IsFiniteSet(U)
  BY FS_Surjection
<1>2. \A s \in S : /\ f[s] \in U
                   /\ f[s].week = s.week /\ f[s].day = s.day /\ f[s].order = s.order
  BY DEF SlotOf, Surjection
<1>3. \A u \in U : \E s \in S : f[s] = u
  BY DEF Surjection
<1>4. SUFFICES ASSUME NEW u \in U
               PROVE  {v.order : v \in SameDay(U, u)} = 1..Cardinality(SameDay(U, u))
  BY <1>1, ValidIs
<1>5. PICK s \in S : f[s] = u
  BY <1>3
<1>. DEFINE g == [t \in SameDay(S, s) |-> f[t]]
<1>6. \A t \in SameDay(S, s) : f[t] \in SameDay(U, u)
  BY <1>2, <1>5 DEF SameDay
<1>7. \A v \in SameDay(U, u) : \E t \in SameDay(S, s) : f[t] = v
  BY <1>2, <1>3, <1>5 DEF SameDay
<1>8. \A t, v \in SameDay(S, s) : f[t] = f[v] => t = v
  <2>. SUFFICES ASSUME NEW t \in SameDay(S, s), NEW v \in SameDay(S, s), f[t] = f[v]
                PROVE  t = v
    OBVIOUS
  <2>1. t \in S /\ v \in S
    BY DEF SameDay
  <2>2. SlotOf(t) = SlotOf(v)
    BY <1>2, <2>1 DEF SlotOf
  <2>. QED
    BY <2>1, <2>2, SlotsApart
<1>9. g \in Bijection(SameDay(S, s), SameDay(U, u))
  BY <1>6, <1>7, <1>8 DEF Bijection, Injection, Surjection, IsInjective
<1>10. IsFiniteSet(SameDay(S, s))
  BY FS_Subset DEF SameDay
<1>11. Cardinality(SameDay(U, u)) = Cardinality(SameDay(S, s))
  <2>1. ExistsBijection(SameDay(S, s), SameDay(U, u))
    BY <1>9 DEF ExistsBijection
  <2>. QED
    BY <1>10, <2>1, FS_Bijection
<1>12. {v.order : v \in SameDay(U, u)} = {t.order : t \in SameDay(S, s)}
  <2>1. \A t \in SameDay(S, s) : f[t].order = t.order
    BY <1>2 DEF SameDay
  <2>. QED
    BY <1>6, <1>7, <2>1
<1>. QED
  BY <1>11, <1>12, ValidIs

(* There is an earliest session, and it is before every other one.         *)
LEMMA EarliestIsFirst ==
  ASSUME NEW S, IsFiniteSet(S), S # {}, ValidSchedule(S), Placed(S)
  PROVE  /\ getEarliestWorkshopSession(S) \in S
         /\ \A t \in S \ {getEarliestWorkshopSession(S)} :
              Before(getEarliestWorkshopSession(S), t)
<1>. DEFINE R == {p \in S \X S : p[1] = p[2] \/ Before(p[1], p[2])}
<1>1. \A s, t \in S : <<s, t>> \in R <=> s = t \/ Before(s, t)
  OBVIOUS
<1>2. \A s, t \in S : s = t \/ Before(s, t) \/ Before(t, s)
  <2>. SUFFICES ASSUME NEW s \in S, NEW t \in S, ~Before(s, t), ~Before(t, s)
                PROVE  SlotOf(s) = SlotOf(t)
    BY SlotsApart
  <2>1. /\ s.week \in Nat /\ s.day \in Int /\ s.order \in Nat
        /\ t.week \in Nat /\ t.day \in Int /\ t.order \in Nat
    BY DEF Placed
  <2>. QED
    BY <2>1 DEF Before, SlotOf
<1>3. \A s, t, u \in S : Before(s, t) /\ Before(t, u) => Before(s, u)
  <2>. SUFFICES ASSUME NEW s \in S, NEW t \in S, NEW u \in S, Before(s, t), Before(t, u)
                PROVE  Before(s, u)
    OBVIOUS
  <2>1. /\ s.week \in Nat /\ s.day \in Int /\ s.order \in Nat
        /\ t.week \in Nat /\ t.day \in Int /\ t.order \in Nat
        /\ u.week \in Nat /\ u.day \in Int /\ u.order \in Nat
    BY DEF Placed
  <2>. QED
    BY <2>1 DEF Before
<1>. HIDE DEF R
<1>4. \A s, t, u \in S : <<s, t>> \in R /\ <<t, u>> \in R => <<s, u>> \in R
  BY <1>1, <1>3
<1>5. \A s, t \in S : <<s, t>> \in R \/ <<t, s>> \in R
  BY <1>1, <1>2
<1>6. \E s \in S : \A t \in S : <<s, t>> \in R
  BY <1>4, <1>5, LeastMember
<1>7. \E s \in S : \A t \in S \ {s} : Before(s, t)
  BY <1>1, <1>6
<1>. QED
  BY <1>7 DEF getEarliestWorkshopSession

-----------------------------------------------------------------------------
(* Time zones.                                                             *)

Period == [from : Int, offset : Int]
IsZone(zone) == IsFiniteSet(zone) /\ zone # {} /\ \A p \in zone : p \in Period

Begun(zone, instant) ==
  {p \in zone : p.from <= instant \/ \A q \in zone : p.from <= q.from}

(* The period a zone is in at an instant.                                  *)
At(zone, instant) ==
  CHOOSE p \in Begun(zone, instant) : \A q \in Begun(zone, instant) : q.from <= p.from

LEMMA OffsetIsAt == \A zone, instant : getOffset(zone, instant) = At(zone, instant).offset
  BY DEF getOffset, At, Begun

LEMMA InPeriod ==
  ASSUME NEW zone, IsZone(zone), NEW instant \in Int
  PROVE  /\ At(zone, instant) \in Begun(zone, instant)
         /\ \A q \in Begun(zone, instant) : q.from <= At(zone, instant).from
<1>. DEFINE S == Begun(zone, instant)
            E == {p \in zone \X zone : p[1].from <= p[2].from}
            L == {p \in S \X S : p[1].from >= p[2].from}
<1>1. IsFiniteSet(S) /\ S \subseteq zone
  BY FS_Subset DEF Begun, IsZone
<1>2. \A p \in zone : p.from \in Int
  BY DEF IsZone, Period
<1>3. \A p, q \in zone : p.from <= q.from \/ q.from <= p.from
  BY <1>2
<1>4. \A p, q, r \in zone : p.from <= q.from /\ q.from <= r.from => p.from <= r.from
  BY <1>2
<1>5. S # {}
  <2>1. \A p, q \in zone : <<p, q>> \in E <=> p.from <= q.from
    OBVIOUS
  <2>. HIDE DEF E
  <2>2. \E p \in zone : \A q \in zone : <<p, q>> \in E
    BY <1>3, <1>4, <2>1, LeastMember DEF IsZone
  <2>. QED
    BY <2>1, <2>2 DEF Begun
<1>6. \E p \in S : \A q \in S : q.from <= p.from
  <2>1. \A p, q \in S : <<p, q>> \in L <=> q.from <= p.from
    BY <1>1, <1>2
  <2>. HIDE DEF L, S
  <2>2. \A p, q \in S : <<p, q>> \in L \/ <<q, p>> \in L
    BY <1>1, <1>3, <2>1
  <2>3. \A p, q, r \in S : <<p, q>> \in L /\ <<q, r>> \in L => <<p, r>> \in L
    BY <1>1, <1>4, <2>1
  <2>4. \E p \in S : \A q \in S : <<p, q>> \in L
    BY <1>1, <1>5, <2>2, <2>3, LeastMember
  <2>. QED
    BY <2>1, <2>4
<1>. QED
  BY <1>6 DEF At

LEMMA OffsetInt ==
  ASSUME NEW zone, IsZone(zone), NEW instant \in Int
  PROVE  /\ getOffset(zone, instant) \in Int
         /\ getOffset(zone, instant) \in {p.offset : p \in zone}
<1>1. At(zone, instant) \in zone
  BY InPeriod DEF Begun
<1>. QED
  BY <1>1, OffsetIsAt DEF IsZone, Period

LEMMA ConvertedInt ==
  ASSUME NEW zone, IsZone(zone), NEW local \in Int
  PROVE  localDateTimeToUtc(zone, local) \in Int
  BY OffsetInt DEF localDateTimeToUtc, Adjusted

(* Nearby: the instants a local time can stand for, and that local time    *)
(* taken for UTC.                                                          *)
Nearby(zone, local) == {local} \cup {local - p.offset : p \in zone}

(* A quiet zone changes its clocks at most once around any local time, or  *)
(* back and forth between two offsets.                                     *)
QuietZone(zone) ==
  \A local \in Int : \A x, y, z \in Nearby(zone, local) :
    \/ getOffset(zone, x) = getOffset(zone, y)
    \/ getOffset(zone, y) = getOffset(zone, z)
    \/ getOffset(zone, x) = getOffset(zone, z)

(* The clocks of a zone change further apart than its offsets are from each*)
(* other, and from UTC: in every zone of the tz database a period lasts    *)
(* weeks, and no offset is further than 16 hours from UTC or another.      *)
Spaced(zone) ==
  \A p, q \in zone : p # q /\ p.from <= q.from =>
    \A d, e \in {0} \cup {r.offset : r \in zone} : d - e < q.from - p.from

(* Between two instants with different offsets a period begins.            *)
LEMMA ChangeBetween ==
  ASSUME NEW zone, IsZone(zone), Spaced(zone), NEW x \in Int, NEW y \in Int, x <= y,
         getOffset(zone, x) # getOffset(zone, y)
  PROVE  x < At(zone, y).from /\ At(zone, y).from <= y
<1>. DEFINE P == At(zone, x)
            Q == At(zone, y)
<1>1. P \in Begun(zone, x) /\ Q \in Begun(zone, y) /\ P \in zone /\ Q \in zone
  BY InPeriod DEF Begun
<1>2. P # Q
  BY OffsetIsAt
<1>3. P.from \in Int /\ Q.from \in Int /\ \A q \in zone : q.from \in Int
  BY <1>1 DEF IsZone, Period
<1>4. P \in Begun(zone, y)
  BY <1>1, <1>3 DEF Begun
<1>5. P.from <= Q.from
  BY <1>4, InPeriod
<1>6. Q \notin Begun(zone, x)
  <2>. SUFFICES ASSUME Q \in Begun(zone, x) PROVE FALSE
    OBVIOUS
  <2>1. Q.from <= P.from
    BY InPeriod
  <2>2. 0 - 0 < Q.from - P.from
    BY <1>1, <1>2, <1>5 DEF Spaced
  <2>. QED
    BY <1>3, <2>1, <2>2
<1>. QED
  BY <1>1, <1>3, <1>6 DEF Begun

(* Zones of the tz database are quiet.                                     *)
LEMMA SpacedIsQuiet ==
  ASSUME NEW zone, IsZone(zone), Spaced(zone)
  PROVE  QuietZone(zone)
<1>. SUFFICES ASSUME NEW local \in Int
              PROVE  \A x, y, z \in Nearby(zone, local) :
                       \/ getOffset(zone, x) = getOffset(zone, y)
                       \/ getOffset(zone, y) = getOffset(zone, z)
                       \/ getOffset(zone, x) = getOffset(zone, z)
  BY DEF QuietZone
<1>1. \A x \in Nearby(zone, local) :
        x \in Int /\ \E d \in {0} \cup {r.offset : r \in zone} : d \in Int /\ x = local - d
  BY DEF Nearby, IsZone, Period
<1>2. ASSUME NEW x \in Nearby(zone, local), NEW y \in Nearby(zone, local),
             NEW z \in Nearby(zone, local), x <= y, y <= z
      PROVE  getOffset(zone, x) = getOffset(zone, y) \/ getOffset(zone, y) = getOffset(zone, z)
  <2>. SUFFICES ASSUME getOffset(zone, x) # getOffset(zone, y),
                       getOffset(zone, y) # getOffset(zone, z)
                PROVE  FALSE
    OBVIOUS
  <2>. DEFINE P == At(zone, y)
              Q == At(zone, z)
  <2>1. x \in Int /\ y \in Int /\ z \in Int
    BY <1>1
  <2>2. x < P.from /\ P.from <= y
    BY <1>2, <2>1, ChangeBetween
  <2>3. y < Q.from /\ Q.from <= z
    BY <1>2, <2>1, ChangeBetween
  <2>4. P \in zone /\ Q \in zone /\ P.from \in Int /\ Q.from \in Int
    BY <2>1, InPeriod DEF Begun, IsZone, Period
  <2>5. PICK d \in {0} \cup {r.offset : r \in zone} : d \in Int /\ x = local - d
    BY <1>1
  <2>6. PICK e \in {0} \cup {r.offset : r \in zone} : e \in Int /\ z = local - e
    BY <1>1
  <2>7. P # Q /\ P.from <= Q.from
    BY <2>1, <2>2, <2>3, <2>4
  <2>8. d - e < Q.from - P.from
    BY <2>4, <2>7 DEF Spaced
  <2>. QED
    BY <2>1, <2>2, <2>3, <2>4, <2>5, <2>6, <2>8
<1>3. SUFFICES ASSUME NEW x \in Nearby(zone, local), NEW y \in Nearby(zone, local),
                      NEW z \in Nearby(zone, local)
               PROVE  \/ getOffset(zone, x) = getOffset(zone, y)
                      \/ getOffset(zone, y) = getOffset(zone, z)
                      \/ getOffset(zone, x) = getOffset(zone, z)
  OBVIOUS
<1>4. x \in Int /\ y \in Int /\ z \in Int
  BY <1>1
<1>5. \/ (x <= y /\ y <= z)
      \/ (x <= z /\ z <= y)
      \/ (y <= x /\ x <= z)
      \/ (y <= z /\ z <= x)
      \/ (z <= x /\ x <= y)
      \/ (z <= y /\ y <= x)
  BY <1>4
<1>. QED
  BY <1>2, <1>5

(* The three rounds find the instant that shows the local time, if there is*)
(* one; otherwise what is shown differs as two offsets do.                 *)
LEMMA ThreeRoundsAreEnough ==
  ASSUME NEW zone, IsZone(zone), QuietZone(zone), NEW local \in Int
  PROVE  /\ \A o \in {p.offset : p \in zone} :
              Shown(zone, local - o) = local =>
              Shown(zone, localDateTimeToUtc(zone, local)) = local
         /\ \E o, p \in {q.offset : q \in zone} :
              Shown(zone, localDateTimeToUtc(zone, local)) - local = o - p
<1>. DEFINE offsets == {p.offset : p \in zone}
            o1 == getOffset(zone, local)
            o2 == getOffset(zone, local - o1)
            o3 == getOffset(zone, local - o2)
            o4 == getOffset(zone, local - o3)
<1>1. o1 \in Int /\ o1 \in offsets
  BY OffsetInt
<1>2. o2 \in Int /\ o2 \in offsets
  BY <1>1, OffsetInt
<1>3. o3 \in Int /\ o3 \in offsets
  BY <1>2, OffsetInt
<1>4. o4 \in Int /\ o4 \in offsets
  BY <1>3, OffsetInt
<1>5. Shown(zone, localDateTimeToUtc(zone, local)) = local - o3 + o4
  BY DEF Shown, localDateTimeToUtc, Adjusted
<1>6. \E o, p \in offsets : (local - o3 + o4) - local = o - p
  <2>1. (local - o3 + o4) - local = o4 - o3
    BY <1>3, <1>4
  <2>. QED
    BY <1>3, <1>4, <2>1
<1>7. ASSUME NEW o \in offsets, Shown(zone, local - o) = local
      PROVE  local - o3 + o4 = local
  <2>1. o \in Int
    BY DEF IsZone, Period
  <2>2. getOffset(zone, local - o) \in Int
    BY <2>1, OffsetInt
  <2>3. getOffset(zone, local - o) = o
    BY <1>7, <2>1, <2>2 DEF Shown
  <2>4. /\ local - o1 \in Nearby(zone, local) /\ local - o2 \in Nearby(zone, local)
        /\ local - o \in Nearby(zone, local)
    BY <1>1, <1>2 DEF Nearby
  <2>5. o2 = o3 \/ o3 = o \/ o2 = o
    BY <2>3, <2>4 DEF QuietZone
  <2>6. o4 = o3
    BY <2>3, <2>5
  <2>. QED
    BY <1>3, <2>6
<1>8. ASSUME NEW o \in offsets, Shown(zone, local - o) = local
      PROVE  Shown(zone, localDateTimeToUtc(zone, local)) = local
  BY <1>5, <1>7, <1>8
<1>9. \E o, p \in offsets : Shown(zone, localDateTimeToUtc(zone, local)) - local = o - p
  BY <1>5, <1>6
<1>. HIDE DEF o1, o2, o3, o4
<1>. QED
  BY <1>8, <1>9

-----------------------------------------------------------------------------
(* Derived schedules.                                                      *)

(* Sessions a workshop may have.                                           *)
Sound(S) == IsFiniteSet(S) /\ ValidSchedule(S) /\ \A s \in S : s \in Sessions

LEMMA SoundPlaced ==
  ASSUME NEW S, Sound(S)
  PROVE  Placed(S) /\ \A s \in S : s.start \in Int
  BY DEF Sound, Placed, Sessions, Day

LEMMA EarliestSound ==
  ASSUME NEW S, Sound(S), S # {}
  PROVE  getEarliestWorkshopSession(S) \in S
  BY SoundPlaced, EarliestIsFirst DEF Sound

LEMMA DateInt ==
  ASSUME NEW S, Sound(S), S # {}, NEW startDate \in Int, NEW s \in S
  PROVE  SessionDate(S, startDate, s) \in Int /\ SessionLocal(S, startDate, s) \in Int
<1>. DEFINE e == getEarliestWorkshopSession(S)
<1>1. e \in S
  BY EarliestSound
<1>2. /\ s.week \in Nat /\ s.day \in Int /\ s.start \in Int
      /\ e.week \in Nat /\ e.day \in Int
  BY <1>1, SoundPlaced DEF Placed
<1>. HIDE DEF e
<1>3. startDate + (s.week - e.week) * 7 + (s.day - e.day) \in Int
  BY <1>2
<1>4. SessionDate(S, startDate, s) \in Int
  BY <1>3 DEF SessionDate, e
<1>. QED
  BY <1>2, <1>4 DEF SessionLocal, Local, Day

(* Whole weeks do not change the weekday.                                  *)
LEMMA WholeWeeks ==
  ASSUME NEW a \in Int, NEW k \in Int, NEW d \in 0..6, NEW e \in 0..6, (a + 3) % 7 = e
  PROVE  (a + k * 7 + (d - e) + 3) % 7 = d
<1>1. PICK q \in Int : a + 3 = 7 * q + e
  OBVIOUS
<1>2. a + k * 7 + (d - e) + 3 = 7 * (q + k) + d
  BY <1>1
<1>3. \A n \in Int : (7 * n + d) % 7 = d
  OBVIOUS
<1>. QED
  BY <1>2, <1>3

LEMMA OnItsWeekday ==
  ASSUME NEW S, Sound(S), S # {}, NEW startDate \in Int, NEW s \in S,
         dateOnlyWeekday(startDate) = getEarliestWorkshopSession(S).day
  PROVE  dateOnlyWeekday(SessionDate(S, startDate, s)) = s.day
<1>. DEFINE e == getEarliestWorkshopSession(S)
<1>1. e \in S
  BY EarliestSound
<1>2. s.week \in Nat /\ s.day \in 0..6 /\ e.week \in Nat /\ e.day \in 0..6
  BY <1>1, SoundPlaced DEF Placed
<1>. HIDE DEF e
<1>3. s.week - e.week \in Int
  BY <1>2
<1>4. (startDate + 3) % 7 = e.day
  BY DEF dateOnlyWeekday, e
<1>5. (startDate + (s.week - e.week) * 7 + (s.day - e.day) + 3) % 7 = s.day
  BY <1>2, <1>3, <1>4, WholeWeeks
<1>. QED
  BY <1>5 DEF dateOnlyWeekday, SessionDate, e

(* Every session starts at an instant within the window of the cohort.     *)
LEMMA WindowHolds ==
  ASSUME NEW S, Sound(S), S # {}, NEW startDate \in Int, NEW zone, IsZone(zone),
         NEW starts, starts = deriveCohortSessions(S, startDate, zone)
  PROVE  /\ \A s \in S : /\ starts[s] \in Int
                         /\ deriveCohortWindow(starts).first <= starts[s]
                         /\ starts[s] <= deriveCohortWindow(starts).last
         /\ DOMAIN deriveCohortWindow(starts) = {"first", "last"}
         /\ deriveCohortWindow(starts).first \in Int
         /\ deriveCohortWindow(starts).last \in Int
<1>. DEFINE instants == {starts[s] : s \in S}
            f == [s \in S |-> starts[s]]
<1>1. DOMAIN starts = S
  BY DEF deriveCohortSessions
<1>2. \A s \in S : starts[s] \in Int
  BY DateInt, ConvertedInt DEF deriveCohortSessions
<1>3. IsFiniteSet(instants)
  <2>1. f \in Surjection(S, instants)
    BY DEF Surjection
  <2>. HIDE DEF f, instants
  <2>. QED
    BY <2>1, FS_Surjection DEF Sound
<1>4. instants # {} /\ \A x \in instants : x \in Int
  BY <1>2
<1>5. deriveCohortWindow(starts) = [first |-> Min(instants), last |-> Max(instants)]
  BY <1>1 DEF deriveCohortWindow
<1>6. \A s \in S : starts[s] \in instants
  OBVIOUS
<1>. HIDE DEF instants
<1>7. Min(instants) \in Int /\ \A y \in instants : Min(instants) <= y
  BY <1>3, <1>4, LeastInteger
<1>8. Max(instants) \in Int /\ \A y \in instants : y <= Max(instants)
  BY <1>3, <1>4, GreatestInteger
<1>. QED
  BY <1>2, <1>5, <1>6, <1>7, <1>8

(* The document of a cohort.                                               *)
CohortDoc(d) ==
  /\ DOMAIN d = {"startDate", "timezone", "first", "last"}
  /\ d.startDate \in StartDates /\ d.timezone \in Zones
  /\ d.first \in Int /\ d.last \in Int

LEMMA ZonesAreZones == \A zone \in Zones : IsZone(zone)
  BY WorkshopsAssumption DEF Zones, IsZone, Period

LEMMA DerivedTyped ==
  ASSUME NEW doc, Sound(doc.sessions), doc.sessions # {}, doc.timezone \in Zones,
         NEW startDate \in StartDates
  PROVE  /\ CohortDoc(deriveSchedule(doc, startDate))
         /\ deriveSchedule(doc, startDate).startDate = startDate
         /\ deriveSchedule(doc, startDate).timezone = doc.timezone
<1>1. startDate \in Int /\ IsZone(doc.timezone)
  BY ZonesAreZones, WorkshopsAssumption
<1>. DEFINE window == deriveCohortWindow(
                        deriveCohortSessions(doc.sessions, startDate, doc.timezone))
<1>2. window.first \in Int /\ window.last \in Int
  BY <1>1, WindowHolds
<1>3. deriveSchedule(doc, startDate) =
        [startDate |-> startDate, timezone |-> doc.timezone,
         first |-> window.first, last |-> window.last]
  BY DEF deriveSchedule
<1>. HIDE DEF window
<1>. QED
  BY <1>2, <1>3 DEF CohortDoc

-----------------------------------------------------------------------------
(* The inductive invariant.                                                *)

Doc(doc) == IsWorkshop(doc) /\ IsFiniteSet(doc.sessions)

Publishable(doc) ==
  doc.timezone # NoZone /\ doc.sessions # {} /\ \A s \in doc.sessions : s.titled

CohortDocs == [startDate : StartDates, timezone : Zones, first : Int, last : Int]
Announcements == [basics : 0..MaxEdits, sessions : SUBSET (1..MaxEdits)]

RestTyped ==
  /\ cohort \in [Cohorts -> CohortDocs \cup {NoCohort}]
  /\ call = [k \in Calls |-> call[k]]
  /\ announced \in Seq(Announcements)
  /\ edits \in 0..MaxEdits /\ overwritten \in BOOLEAN

WorkshopHolds ==
  /\ workshop = NoWorkshop \/ Doc(workshop)
  /\ workshop.status = "published" => Publishable(workshop)
  /\ workshop = NoWorkshop => Offered = {}

(* The dates of d are those of the workshop as it is now.                  *)
Current(d) ==
  /\ workshop.status = "published"
  /\ StartsRight(workshop, d.startDate)
  /\ d = deriveSchedule(workshop, d.startDate)

EditHolds(edit) ==
  \/ edit.kind = "basics"
  \/ /\ edit.kind = "schedule"
     /\ edit.timezone \in Zones /\ IsFiniteSet(edit.slots) /\ ValidSchedule(edit.slots)
     /\ \A t \in edit.slots : t \in Slots
  \/ edit.kind = "session" /\ edit.title \in BOOLEAN

(* An edit that has read the workshop holds a draft, a publication a draft *)
(* that was ready, and a plan the dates of the workshop: of the one that is*)
(* there, unless a write discarded another.                                *)
EditCall(a) ==
  /\ a.op = "edit" /\ EditHolds(a.edit)
  /\ \/ a = [op |-> a.op, edit |-> a.edit]
     \/ /\ a = [op |-> a.op, edit |-> a.edit, copy |-> a.copy]
        /\ Doc(a.copy) /\ a.copy.status = "draft"

PublishCall(a) ==
  /\ a.op = "publish" /\ a = [op |-> a.op, copy |-> a.copy]
  /\ Doc(a.copy) /\ Ready(a.copy)

PlanCall(a) ==
  /\ a.op \in {"create", "move"} /\ a.cohort \in Cohorts /\ a.doc \in CohortDocs
  /\ \/ a = [op |-> a.op, cohort |-> a.cohort, doc |-> a.doc]
     \/ a = [op |-> a.op, cohort |-> a.cohort, doc |-> a.doc, clear |-> TRUE]

DeleteCall(a) ==
  a.op = "delete" /\ a = [op |-> a.op, cohort |-> a.cohort] /\ a.cohort \in Cohorts

CallTyped(a) ==
  a = Idle \/ EditCall(a) \/ PublishCall(a) \/ PlanCall(a) \/ DeleteCall(a)

CallsHold ==
  \A k \in Calls :
    /\ CallTyped(call[k])
    /\ PlanCall(call[k]) => /\ workshop # NoWorkshop
                            /\ ~overwritten => Current(call[k].doc)

CohortsHold == \A c \in Offered : ~overwritten => Current(cohort[c])

AnnouncedHolds ==
  ~overwritten /\ workshop.status = "published" =>
    announced # <<>> /\ Last(announced) = Announcement(workshop)

IInv == RestTyped /\ WorkshopHolds /\ CallsHold /\ CohortsHold /\ AnnouncedHolds

-----------------------------------------------------------------------------
(* What writes keep of a document.                                         *)

LEMMA DocSound ==
  ASSUME NEW doc, Doc(doc)
  PROVE  Sound(doc.sessions)
  BY DEF Doc, IsWorkshop, Sound

LEMMA NewDoc ==
  Doc([status |-> "draft", basics |-> 0, timezone |-> NoZone, sessions |-> {}])
<1>1. ValidSchedule({}) /\ IsFiniteSet({})
  BY FS_EmptySet DEF ValidSchedule
<1>. QED
  BY <1>1, WorkshopsAssumption DEF Doc, IsWorkshop

(* A schedule replaced keeps the slots that were sent.                     *)
LEMMA ReplacedSound ==
  ASSUME NEW slots, IsFiniteSet(slots), ValidSchedule(slots), \A t \in slots : t \in Slots,
         NEW id \in 1..MaxEdits
  PROVE  Sound({[id |-> id, week |-> s.week, day |-> s.day, order |-> s.order,
                 start |-> s.start, titled |-> FALSE] : s \in slots})
<1>. DEFINE f == [s \in slots |->
                    [id |-> id, week |-> s.week, day |-> s.day, order |-> s.order,
                     start |-> s.start, titled |-> FALSE]]
            U == {[id |-> id, week |-> s.week, day |-> s.day, order |-> s.order,
                   start |-> s.start, titled |-> FALSE] : s \in slots}
<1>1. f \in Surjection(slots, U)
  BY DEF Surjection
<1>2. \A s \in slots : SlotOf(f[s]) = SlotOf(s)
  BY DEF SlotOf
<1>3. \A u \in U : u \in Sessions
  <2>. SUFFICES ASSUME NEW s \in slots PROVE f[s] \in Sessions
    OBVIOUS
  <2>1. s.week \in Nat /\ s.day \in 0..6 /\ s.order \in Nat /\ s.start \in 0..Day - 1
    BY DEF Slots
  <2>. QED
    BY <2>1 DEF Sessions
<1>. HIDE DEF f, U
<1>4. IsFiniteSet(U) /\ ValidSchedule(U)
  BY <1>1, <1>2, SlotsTakenOver
<1>. QED
  BY <1>3, <1>4 DEF Sound, U

(* An edited session stays in its slot.                                    *)
LEMMA UpdatedSound ==
  ASSUME NEW doc, Doc(doc), NEW edit, edit.title \in BOOLEAN,
         "sessions" \in DOMAIN doc
  PROVE  Sound(updateSession(doc, edit).sessions)
<1>. DEFINE g(s) == IF Same(s, edit.session)
                    THEN [s EXCEPT !.titled = @ \/ edit.title,
                                   !.start = IF edit.start \in StartTimes
                                             THEN edit.start ELSE @]
                    ELSE s
            f == [s \in doc.sessions |-> g(s)]
            U == {g(s) : s \in doc.sessions}
<1>1. updateSession(doc, edit).sessions = U
  BY DEF updateSession
<1>2. \A s \in doc.sessions : s \in Sessions
  BY DEF Doc, IsWorkshop
<1>3. \A s \in Sessions : g(s) \in Sessions
  BY WorkshopsAssumption DEF Sessions
<1>4. \A s \in Sessions : SlotOf(g(s)) = SlotOf(s)
  BY DEF Sessions, SlotOf
<1>. HIDE DEF g
<1>5. f \in Surjection(doc.sessions, U)
  BY DEF Surjection
<1>6. \A s \in doc.sessions : SlotOf(f[s]) = SlotOf(s)
  BY <1>2, <1>4
<1>7. \A u \in U : u \in Sessions
  BY <1>2, <1>3
<1>. HIDE DEF f, U
<1>8. IsFiniteSet(doc.sessions) /\ ValidSchedule(doc.sessions)
  BY DEF Doc, IsWorkshop
<1>9. IsFiniteSet(U) /\ ValidSchedule(U)
  BY <1>5, <1>6, <1>8, SlotsTakenOver
<1>. QED
  BY <1>1, <1>7, <1>9 DEF Sound

LEMMA EditedDoc ==
  ASSUME NEW doc, Doc(doc), doc.status = "draft", NEW edit, EditHolds(edit),
         edits \in 0..MaxEdits, edits < MaxEdits
  PROVE  Doc(Edited(doc, edit)) /\ Edited(doc, edit).status = "draft"
<1>1. /\ DOMAIN doc = {"status", "basics", "timezone", "sessions"}
      /\ doc.basics \in 0..MaxEdits /\ doc.timezone \in Zones \cup {NoZone}
      /\ Sound(doc.sessions)
  BY DocSound DEF Doc, IsWorkshop
<1>2. edits + 1 \in 1..MaxEdits /\ edits + 1 \in 0..MaxEdits
  BY WorkshopsAssumption
<1>3. CASE edit.kind = "basics"
  <2>1. Edited(doc, edit) = updateBasics(doc, edit)
    BY <1>3 DEF Edited
  <2>. QED
    BY <1>1, <1>2, <2>1 DEF updateBasics, Doc, IsWorkshop, Sound
<1>4. CASE edit.kind = "schedule"
  <2>1. Edited(doc, edit) = replaceSchedule(doc, edit)
    BY <1>4 DEF Edited
  <2>2. /\ edit.timezone \in Zones /\ IsFiniteSet(edit.slots)
        /\ ValidSchedule(edit.slots) /\ \A t \in edit.slots : t \in Slots
    BY <1>4 DEF EditHolds
  <2>3. Sound(Edited(doc, edit).sessions)
    <3>1. Edited(doc, edit).sessions =
            {[id |-> edits + 1, week |-> s.week, day |-> s.day, order |-> s.order,
              start |-> s.start, titled |-> FALSE] : s \in edit.slots}
      BY <1>1, <2>1 DEF replaceSchedule
    <3>. QED
      BY <1>2, <2>2, <3>1, ReplacedSound
  <2>4. /\ DOMAIN Edited(doc, edit) = {"status", "basics", "timezone", "sessions"}
        /\ Edited(doc, edit).status = "draft"
        /\ Edited(doc, edit).basics = doc.basics
        /\ Edited(doc, edit).timezone = edit.timezone
    BY <1>1, <2>1 DEF replaceSchedule
  <2>. QED
    BY <1>1, <2>2, <2>3, <2>4 DEF Doc, IsWorkshop, Sound
<1>5. CASE edit.kind = "session"
  <2>1. Edited(doc, edit) = updateSession(doc, edit)
    BY <1>5 DEF Edited
  <2>2. edit.title \in BOOLEAN
    BY <1>5 DEF EditHolds
  <2>3. Sound(Edited(doc, edit).sessions)
    BY <1>1, <2>1, <2>2, UpdatedSound
  <2>4. /\ DOMAIN Edited(doc, edit) = {"status", "basics", "timezone", "sessions"}
        /\ Edited(doc, edit).status = "draft"
        /\ Edited(doc, edit).basics = doc.basics
        /\ Edited(doc, edit).timezone = doc.timezone
    BY <1>1, <2>1 DEF updateSession
  <2>. QED
    BY <1>1, <2>3, <2>4 DEF Doc, IsWorkshop, Sound
<1>. QED
  BY <1>3, <1>4, <1>5 DEF EditHolds

LEMMA PublishedDoc ==
  ASSUME NEW doc, Doc(doc), Ready(doc)
  PROVE  /\ Doc([doc EXCEPT !.status = "published"])
         /\ [doc EXCEPT !.status = "published"].status = "published"
         /\ Publishable([doc EXCEPT !.status = "published"])
         /\ Announcement([doc EXCEPT !.status = "published"]) = Announcement(doc)
         /\ Announcement(doc) \in Announcements
<1>. DEFINE new == [doc EXCEPT !.status = "published"]
<1>1. /\ DOMAIN new = {"status", "basics", "timezone", "sessions"}
      /\ new.status = "published" /\ new.basics = doc.basics
      /\ new.timezone = doc.timezone /\ new.sessions = doc.sessions
  BY DEF Doc, IsWorkshop
<1>. HIDE DEF new
<1>2. Doc(new)
  BY <1>1 DEF Doc, IsWorkshop
<1>3. Publishable(new)
  BY <1>1 DEF Ready, Publishable
<1>4. Announcement(new) = Announcement(doc)
  BY <1>1 DEF Announcement
<1>5. Announcement(doc) \in Announcements
  BY DEF Announcement, Announcements, Doc, IsWorkshop, Sessions
<1>. QED
  BY <1>1, <1>2, <1>3, <1>4, <1>5 DEF new

LEMMA PublishableSound ==
  ASSUME Doc(workshop), Publishable(workshop)
  PROVE  /\ Sound(workshop.sessions) /\ workshop.sessions # {}
         /\ workshop.timezone \in Zones
  BY DocSound DEF Doc, IsWorkshop, Publishable

-----------------------------------------------------------------------------
(* Steps.                                                                  *)

LEMMA InitHolds == Init => IInv
<1>. SUFFICES ASSUME Init PROVE IInv
  OBVIOUS
<1>1. Offered = {}
  BY DEF Init, Offered
<1>2. RestTyped
  <2>1. cohort \in [Cohorts -> CohortDocs \cup {NoCohort}]
    BY DEF Init
  <2>2. call = [k \in Calls |-> call[k]]
    BY DEF Init
  <2>3. announced \in Seq(Announcements)
    BY DEF Init
  <2>4. edits \in 0..MaxEdits
    BY WorkshopsAssumption DEF Init
  <2>5. overwritten \in BOOLEAN
    BY DEF Init
  <2>. QED
    BY <2>1, <2>2, <2>3, <2>4, <2>5 DEF RestTyped
<1>3. WorkshopHolds
  BY <1>1 DEF Init, WorkshopHolds, NoWorkshop
<1>4. CallsHold
  BY DEF Init, CallsHold, CallTyped, PlanCall, Idle
<1>5. CohortsHold /\ AnnouncedHolds
  BY <1>1 DEF Init, CohortsHold, AnnouncedHolds, NoWorkshop
<1>. QED
  BY <1>2, <1>3, <1>4, <1>5 DEF IInv

LEMMA CurrentStays == workshop' = workshop => \A d : Current(d)' <=> Current(d)
  BY DEF Current

(* A step that only moves a call on.                                       *)
LEMMA CallStep ==
  ASSUME IInv, NEW k \in Calls, NEW a, Goto(k, a), Reads, CallTyped(a),
         PlanCall(a) => workshop # NoWorkshop /\ (~overwritten => Current(a.doc))
  PROVE  IInv'
<1>. USE DEF IInv
<1>1. UNCHANGED <<workshop, cohort, announced, edits, overwritten>>
  BY DEF Reads
<1>2. /\ call' = [call EXCEPT ![k] = a] /\ call = [j \in Calls |-> call[j]]
  BY DEF Goto, RestTyped
<1>3. call' = [j \in Calls |-> call'[j]] /\ call'[k] = a
  BY <1>2
<1>4. \A j \in Calls : j # k => call'[j] = call[j]
  BY <1>2
<1>5. RestTyped'
  BY <1>1, <1>3 DEF RestTyped
<1>6. WorkshopHolds'
  BY <1>1 DEF WorkshopHolds, Offered, Doc, IsWorkshop, Publishable
<1>7. CohortsHold'
  BY <1>1, CurrentStays DEF CohortsHold, Offered
<1>8. AnnouncedHolds'
  BY <1>1 DEF AnnouncedHolds
<1>9. CallsHold'
  <2>. SUFFICES ASSUME NEW j \in Calls
                PROVE  /\ CallTyped(call'[j])
                       /\ PlanCall(call'[j]) =>
                            workshop # NoWorkshop /\ (~overwritten => Current(call'[j].doc))
    BY <1>1, CurrentStays DEF CallsHold, CallTyped, EditCall, PublishCall, PlanCall,
         DeleteCall, EditHolds, Doc, IsWorkshop, Ready
  <2>. QED
    BY <1>3, <1>4 DEF CallsHold
<1>. QED
  BY <1>5, <1>6, <1>7, <1>8, <1>9

(* A call that ends.                                                       *)
LEMMA IdleStep ==
  ASSUME IInv, NEW k \in Calls, Goto(k, Idle)
  PROVE  /\ call' = [j \in Calls |-> call'[j]]
         /\ \A j \in Calls : call'[j] = Idle \/ call'[j] = call[j]
  BY DEF IInv, RestTyped, Goto

LEMMA IdleTyped == CallTyped(Idle) /\ ~PlanCall(Idle)
  BY DEF CallTyped, PlanCall, Idle

(* A document is written from a draft.  If it is still the one that was    *)
(* read, nothing is offered and no plan is under way.                      *)
LEMMA WriteStep ==
  ASSUME IInv, NEW k \in Calls, NEW doc, Write(k, doc),
         call[k].copy.status = "draft", Doc(doc),
         doc.status = "published" =>
           Publishable(doc) /\ announced' # <<>> /\ Last(announced') = Announcement(doc),
         cohort' = cohort, announced' \in Seq(Announcements), edits' \in 0..MaxEdits
  PROVE  IInv'
<1>. USE DEF IInv
<1>1. workshop' = doc /\ overwritten' = (overwritten \/ workshop # call[k].copy)
      /\ Goto(k, Idle)
  BY DEF Write
<1>2. RestTyped'
  BY <1>1, IdleStep DEF RestTyped
<1>3. WorkshopHolds'
  <2>1. doc # NoWorkshop
    BY DEF Doc, IsWorkshop, NoWorkshop
  <2>. QED
    BY <1>1, <2>1 DEF WorkshopHolds, Doc, IsWorkshop, Publishable
<1>4. AnnouncedHolds'
  BY <1>1 DEF AnnouncedHolds
<1>5. ~overwritten' => ~overwritten /\ workshop.status = "draft"
  BY <1>1
<1>6. \A d : ~overwritten' => ~Current(d)
  BY <1>5 DEF Current
<1>7. CohortsHold'
  <2>1. Offered' = Offered
    BY DEF Offered
  <2>2. ~overwritten' => Offered = {}
    BY <1>5, <1>6 DEF CohortsHold
  <2>. QED
    BY <2>1, <2>2 DEF CohortsHold
<1>8. CallsHold'
  <2>1. \A j \in Calls : CallTyped(call'[j])
    BY <1>1, IdleStep, IdleTyped DEF CallsHold
  <2>2. \A j \in Calls : PlanCall(call'[j]) => workshop' # NoWorkshop /\ overwritten'
    BY <1>1, <1>5, <1>6, IdleStep, IdleTyped DEF CallsHold, Doc, IsWorkshop, NoWorkshop
  <2>. QED
    BY <2>1, <2>2 DEF CallsHold, CallTyped, EditCall, PublishCall, PlanCall,
         DeleteCall, EditHolds, Doc, IsWorkshop, Ready
<1>. QED
  BY <1>2, <1>3, <1>4, <1>7, <1>8

LEMMA CreateStep ==
  ASSUME IInv, CreateWorkshop
  PROVE  IInv'
<1>. DEFINE new == [status |-> "draft", basics |-> 0, timezone |-> NoZone, sessions |-> {}]
<1>1. workshop = NoWorkshop /\ workshop' = new
      /\ UNCHANGED <<cohort, announced, call, edits, overwritten>>
  BY DEF CreateWorkshop
<1>2. Doc(new) /\ new # NoWorkshop
  BY NewDoc DEF NoWorkshop
<1>3. RestTyped'
  BY <1>1 DEF IInv, RestTyped
<1>4. WorkshopHolds'
  BY <1>1, <1>2 DEF WorkshopHolds, Doc, IsWorkshop, Publishable
<1>5. CallsHold'
  <2>1. \A k \in Calls : CallTyped(call[k]) /\ ~PlanCall(call[k])
    BY <1>1 DEF IInv, CallsHold
  <2>2. call' = call
    BY <1>1
  <2>3. \A k \in Calls : CallTyped(call'[k]) /\ ~PlanCall(call'[k])
    BY <2>1, <2>2
  <2>. QED
    BY <2>3 DEF CallsHold, CallTyped, EditCall, PublishCall, PlanCall,
         DeleteCall, EditHolds, Doc, IsWorkshop, Ready
<1>6. CohortsHold'
  BY <1>1 DEF IInv, WorkshopHolds, CohortsHold, Offered
<1>7. AnnouncedHolds'
  BY <1>1 DEF AnnouncedHolds
<1>. QED
  BY <1>3, <1>4, <1>5, <1>6, <1>7 DEF IInv

LEMMA WriteEditStep ==
  ASSUME IInv, NEW k \in Calls, WriteEdit(k)
  PROVE  IInv'
<1>. DEFINE a == call[k]
            doc == Edited(a.copy, a.edit)
<1>1. a.op = "edit" /\ "copy" \in DOMAIN a
  BY DEF WriteEdit
<1>2. EditHolds(a.edit) /\ Doc(a.copy) /\ a.copy.status = "draft"
  <2>1. CallTyped(a)
    BY DEF IInv, CallsHold
  <2>2. EditCall(a)
    BY <1>1, <2>1 DEF CallTyped, PublishCall, PlanCall, DeleteCall, Idle
  <2>3. a # [op |-> a.op, edit |-> a.edit]
    BY <1>1
  <2>. QED
    BY <2>2, <2>3 DEF EditCall
<1>3. edits \in 0..MaxEdits /\ edits < MaxEdits /\ edits' = edits + 1
  BY DEF WriteEdit, IInv, RestTyped
<1>4. Doc(doc) /\ doc.status = "draft"
  BY <1>2, <1>3, EditedDoc
<1>5. Write(k, doc) /\ cohort' = cohort /\ announced' = announced
  BY DEF WriteEdit
<1>6. announced' \in Seq(Announcements) /\ edits' \in 0..MaxEdits
  BY <1>3, <1>5, WorkshopsAssumption DEF IInv, RestTyped
<1>. HIDE DEF doc
<1>. QED
  BY <1>2, <1>4, <1>5, <1>6, WriteStep

LEMMA PublishStep ==
  ASSUME IInv, NEW k \in Calls, publishWorkshop(k)
  PROVE  IInv'
<1>. DEFINE copy == call[k].copy
            doc == [copy EXCEPT !.status = "published"]
<1>1. Doc(copy) /\ Ready(copy)
  <2>1. call[k].op = "publish" /\ CallTyped(call[k])
    BY DEF publishWorkshop, IInv, CallsHold
  <2>. QED
    BY <2>1 DEF CallTyped, PublishCall, EditCall, PlanCall, DeleteCall, Idle
<1>2. copy.status = "draft"
  BY <1>1 DEF Ready
<1>. HIDE DEF copy
<1>3. /\ Doc(doc) /\ Publishable(doc) /\ Announcement(doc) = Announcement(copy)
      /\ Announcement(copy) \in Announcements
  BY <1>1, PublishedDoc
<1>4. /\ Write(k, doc) /\ announced' = Append(announced, Announcement(copy))
      /\ cohort' = cohort /\ edits' = edits
  BY DEF publishWorkshop, copy
<1>5. announced \in Seq(Announcements) /\ edits \in 0..MaxEdits
  BY DEF IInv, RestTyped
<1>. DEFINE n == Announcement(copy)
<1>6. /\ announced' \in Seq(Announcements) /\ announced' # <<>>
      /\ Last(announced') = n
  <2>1. n \in Announcements
    BY <1>3
  <2>. HIDE DEF n
  <2>2. announced' = Append(announced, n)
    BY <1>4 DEF n
  <2>. QED
    BY <1>5, <2>1, <2>2 DEF Last
<1>. HIDE DEF doc
<1>7. Last(announced') = Announcement(doc) /\ edits' \in 0..MaxEdits
  BY <1>3, <1>4, <1>5, <1>6
<1>8. call[k].copy.status = "draft"
  BY <1>2 DEF copy
<1>. QED
  BY <1>3, <1>4, <1>6, <1>7, <1>8, WriteStep

-----------------------------------------------------------------------------
(* Steps of calls about the workshop.                                      *)

LEMMA BeginEditStep ==
  ASSUME IInv, NEW k \in Calls, workshop # NoWorkshop, NEW edit \in Edits,
         ensureWorkshopIsNotFrozen(k, edit)
  PROVE  IInv'
<1>. DEFINE a == [op |-> "edit", edit |-> edit]
<1>1. EditHolds(edit)
  BY WorkshopsAssumption DEF Edits, EditHolds, Zones
<1>2. EditCall(a) /\ ~PlanCall(a)
  BY <1>1 DEF EditCall, PlanCall
<1>3. Goto(k, a) /\ Reads
  BY DEF ensureWorkshopIsNotFrozen
<1>. HIDE DEF a
<1>. QED
  BY <1>2, <1>3, CallStep DEF CallTyped

LEMMA ReadDraftStep ==
  ASSUME IInv, NEW k \in Calls, getOwnedDraftWorkshop(k)
  PROVE  IInv'
<1>. DEFINE a == [op |-> "edit", edit |-> call[k].edit, copy |-> workshop]
<1>1. call[k].op = "edit" /\ CallTyped(call[k])
  BY DEF getOwnedDraftWorkshop, IInv, CallsHold
<1>2. EditHolds(call[k].edit)
  BY <1>1 DEF CallTyped, EditCall, PublishCall, PlanCall, DeleteCall, Idle
<1>3. workshop.status = "draft" /\ Doc(workshop)
  BY DEF getOwnedDraftWorkshop, Editable, IInv, WorkshopHolds, NoWorkshop
<1>4. EditCall(a) /\ ~PlanCall(a)
  BY <1>2, <1>3 DEF EditCall, PlanCall
<1>5. Goto(k, a) /\ Reads
  BY DEF getOwnedDraftWorkshop
<1>. HIDE DEF a
<1>. QED
  BY <1>4, <1>5, CallStep DEF CallTyped

LEMMA ReadForPublicationStep ==
  ASSUME IInv, NEW k \in Calls, ReadForPublication(k)
  PROVE  IInv'
<1>. DEFINE a == [op |-> "publish", copy |-> workshop]
<1>1. Doc(workshop) /\ Ready(workshop)
  BY DEF ReadForPublication, IInv, WorkshopHolds
<1>2. PublishCall(a) /\ ~PlanCall(a)
  BY <1>1 DEF PublishCall, PlanCall
<1>3. Goto(k, a) /\ Reads
  BY DEF ReadForPublication
<1>. HIDE DEF a
<1>. QED
  BY <1>2, <1>3, CallStep DEF CallTyped

LEMMA EndStep ==
  ASSUME IInv, NEW k \in Calls, End(k)
  PROVE  IInv'
<1>1. Goto(k, Idle) /\ Reads
  BY DEF End
<1>. QED
  BY <1>1, IdleTyped, CallStep

-----------------------------------------------------------------------------
(* Steps of calls about cohorts.                                           *)

LEMMA DerivedDoc ==
  ASSUME IInv, Doc(workshop), workshop.sessions # {}, workshop.timezone # NoZone,
         NEW startDate \in StartDates
  PROVE  /\ deriveSchedule(workshop, startDate) \in CohortDocs
         /\ deriveSchedule(workshop, startDate).startDate = startDate
         /\ deriveSchedule(workshop, startDate).timezone = workshop.timezone
<1>1. Sound(workshop.sessions) /\ workshop.timezone \in Zones
  BY DocSound DEF Doc, IsWorkshop
<1>. DEFINE d == deriveSchedule(workshop, startDate)
<1>2. CohortDoc(d) /\ d.startDate = startDate /\ d.timezone = workshop.timezone
  BY <1>1, DerivedTyped
<1>3. d = [startDate |-> d.startDate, timezone |-> d.timezone,
           first |-> d.first, last |-> d.last]
  BY DEF deriveSchedule
<1>. HIDE DEF d
<1>4. d \in CohortDocs
  BY <1>2, <1>3 DEF CohortDoc, CohortDocs
<1>. QED
  BY <1>2, <1>4 DEF d

LEMMA PlanCohortStep ==
  ASSUME IInv, NEW k \in Calls, NEW c \in Cohorts, NEW startDate \in StartDates,
         PlanCohort(k, c, startDate)
  PROVE  IInv'
<1>. DEFINE d == deriveSchedule(workshop, startDate)
            a == [op |-> "create", cohort |-> c, doc |-> d]
<1>1. /\ workshop # NoWorkshop /\ Doc(workshop)
      /\ workshop.status = "published"
      /\ workshop.sessions # {} /\ workshop.timezone # NoZone
      /\ StartsRight(workshop, startDate)
  BY DEF PlanCohort, assertWorkshopReadyForCohorts, IInv, WorkshopHolds
<1>2. d \in CohortDocs /\ d.startDate = startDate
  BY <1>1, DerivedDoc
<1>3. Goto(k, a) /\ Reads
  BY DEF PlanCohort
<1>4. Current(d)
  BY <1>1, <1>2 DEF Current
<1>. HIDE DEF d
<1>5. PlanCall(a) /\ a.doc = d
  BY <1>2 DEF PlanCall
<1>. HIDE DEF a
<1>. QED
  BY <1>1, <1>3, <1>4, <1>5, CallStep DEF CallTyped

LEMMA PlanMoveStep ==
  ASSUME IInv, NEW k \in Calls, NEW c \in Cohorts, NEW startDate \in StartDates,
         PlanMove(k, c, startDate)
  PROVE  IInv'
<1>. DEFINE d == deriveSchedule(workshop, startDate)
            e == [d EXCEPT !.timezone = cohort[c].timezone]
            a == [op |-> "move", cohort |-> c, doc |-> e]
<1>1. c \in Offered /\ workshop # NoWorkshop /\ Doc(workshop)
  BY DEF PlanMove, IInv, WorkshopHolds
<1>2. /\ workshop.sessions # {} /\ workshop.timezone # NoZone
      /\ StartsRight(workshop, startDate)
  BY DEF PlanMove
<1>3. d \in CohortDocs /\ d.startDate = startDate /\ d.timezone = workshop.timezone
  BY <1>1, <1>2, DerivedDoc
<1>4. cohort[c] \in CohortDocs
  BY <1>1 DEF IInv, RestTyped, Offered
<1>5. Goto(k, a) /\ Reads
  BY DEF PlanMove
<1>6. ~overwritten => Current(cohort[c])
  BY <1>1 DEF IInv, CohortsHold
<1>7. ~overwritten => cohort[c].timezone = workshop.timezone
  <2>. SUFFICES ASSUME ~overwritten PROVE cohort[c].timezone = workshop.timezone
    OBVIOUS
  <2>1. cohort[c].startDate \in StartDates
    BY <1>4 DEF CohortDocs
  <2>2. cohort[c] = deriveSchedule(workshop, cohort[c].startDate)
    BY <1>6 DEF Current
  <2>3. deriveSchedule(workshop, cohort[c].startDate).timezone = workshop.timezone
    BY <1>1, <1>2, <2>1, DerivedDoc
  <2>. QED
    BY <2>2, <2>3
<1>8. ~overwritten => workshop.status = "published"
  BY <1>6 DEF Current
<1>9. d = deriveSchedule(workshop, startDate)
  OBVIOUS
<1>. HIDE DEF d
<1>10. e \in CohortDocs
  BY <1>3, <1>4 DEF CohortDocs
<1>11. ~overwritten => e = d
  BY <1>3, <1>7 DEF CohortDocs
<1>12. ~overwritten => Current(e)
  BY <1>2, <1>3, <1>8, <1>9, <1>11 DEF Current
<1>. HIDE DEF e
<1>13. PlanCall(a) /\ a.doc = e
  BY <1>10 DEF PlanCall
<1>. HIDE DEF a
<1>. QED
  BY <1>1, <1>5, <1>12, <1>13, CallStep DEF CallTyped

LEMMA PlanIs ==
  ASSUME IInv, NEW k \in Calls, call[k].op \in {"create", "move"}
  PROVE  /\ PlanCall(call[k]) /\ workshop # NoWorkshop
         /\ ~overwritten => Current(call[k].doc)
<1>1. CallTyped(call[k])
  BY DEF IInv, CallsHold
<1>2. PlanCall(call[k])
  BY <1>1 DEF CallTyped, EditCall, PublishCall, DeleteCall, Idle
<1>. QED
  BY <1>2 DEF IInv, CallsHold

LEMMA NoOverlapStep ==
  ASSUME IInv, NEW k \in Calls, ensureNoOverlap(k)
  PROVE  IInv'
<1>. DEFINE a == [op |-> call[k].op, cohort |-> call[k].cohort, doc |-> call[k].doc,
                  clear |-> TRUE]
<1>1. call[k].op \in {"create", "move"} /\ Goto(k, a) /\ Reads
  BY DEF ensureNoOverlap
<1>2. /\ PlanCall(call[k]) /\ workshop # NoWorkshop
      /\ ~overwritten => Current(call[k].doc)
  BY <1>1, PlanIs
<1>3. PlanCall(a) /\ a.doc = call[k].doc
  BY <1>2 DEF PlanCall
<1>. HIDE DEF a
<1>. QED
  BY <1>1, <1>2, <1>3, CallStep DEF CallTyped

LEMMA PlanDeletionStep ==
  ASSUME IInv, NEW k \in Calls, NEW c \in Cohorts, PlanDeletion(k, c)
  PROVE  IInv'
<1>. DEFINE a == [op |-> "delete", cohort |-> c]
<1>1. Goto(k, a) /\ Reads
  BY DEF PlanDeletion
<1>2. DeleteCall(a) /\ ~PlanCall(a)
  BY DEF DeleteCall, PlanCall
<1>. HIDE DEF a
<1>. QED
  BY <1>1, <1>2, CallStep DEF CallTyped

(* A cohort is written or deleted, and the call ends.                      *)
LEMMA CohortWritten ==
  ASSUME IInv, NEW k \in Calls, Goto(k, Idle), NEW c \in Cohorts, NEW d,
         cohort' = [cohort EXCEPT ![c] = d],
         d = NoCohort \/ (d \in CohortDocs /\ workshop # NoWorkshop
                            /\ (~overwritten => Current(d))),
         UNCHANGED <<workshop, announced, edits, overwritten>>
  PROVE  IInv'
<1>1. cohort \in [Cohorts -> CohortDocs \cup {NoCohort}]
  BY DEF IInv, RestTyped
<1>2. /\ cohort'[c] = d
      /\ \A b \in Cohorts : b # c => cohort'[b] = cohort[b]
      /\ cohort' \in [Cohorts -> CohortDocs \cup {NoCohort}]
  BY <1>1
<1>3. Offered' \subseteq Offered \cup {b \in {c} : d # NoCohort}
  BY <1>2 DEF Offered
<1>4. RestTyped'
  BY <1>2, IdleStep DEF IInv, RestTyped
<1>5. WorkshopHolds'
  BY <1>3 DEF IInv, WorkshopHolds, Doc, IsWorkshop, Publishable
<1>6. CallsHold'
  <2>1. \A j \in Calls :
          /\ CallTyped(call'[j])
          /\ PlanCall(call'[j]) => workshop # NoWorkshop
                                     /\ (~overwritten => Current(call'[j].doc))
    BY IdleStep, IdleTyped DEF IInv, CallsHold
  <2>. QED
    BY <2>1, CurrentStays DEF CallsHold, CallTyped, EditCall, PublishCall, PlanCall,
         DeleteCall, EditHolds, Doc, IsWorkshop, Ready
<1>7. CohortsHold'
  <2>. SUFFICES ASSUME NEW b \in Offered', ~overwritten PROVE Current(cohort'[b])
    BY CurrentStays DEF CohortsHold
  <2>1. CASE b = c
    <3>1. cohort'[b] = d /\ d # NoCohort
      BY <1>2, <2>1 DEF Offered
    <3>. QED
      BY <3>1
  <2>2. CASE b # c
    <3>1. b \in Offered /\ cohort'[b] = cohort[b]
      BY <1>2, <1>3, <2>2 DEF Offered
    <3>. QED
      BY <3>1 DEF IInv, CohortsHold
  <2>. QED
    BY <2>1, <2>2
<1>8. AnnouncedHolds'
  BY DEF IInv, AnnouncedHolds
<1>. QED
  BY <1>4, <1>5, <1>6, <1>7, <1>8 DEF IInv

LEMMA WriteCohortStep ==
  ASSUME IInv, NEW k \in Calls, WriteCohort(k)
  PROVE  IInv'
<1>1. /\ call[k].op \in {"create", "move"} /\ Goto(k, Idle)
      /\ cohort' = [cohort EXCEPT ![call[k].cohort] = call[k].doc]
      /\ UNCHANGED <<workshop, announced, edits, overwritten>>
  BY DEF WriteCohort
<1>2. /\ PlanCall(call[k]) /\ workshop # NoWorkshop
      /\ ~overwritten => Current(call[k].doc)
  BY <1>1, PlanIs
<1>3. call[k].cohort \in Cohorts /\ call[k].doc \in CohortDocs
  BY <1>2 DEF PlanCall
<1>. QED
  BY <1>1, <1>2, <1>3, CohortWritten

LEMMA DeleteCohortStep ==
  ASSUME IInv, NEW k \in Calls, DeleteCohort(k)
  PROVE  IInv'
<1>1. /\ Goto(k, Idle) /\ call[k].cohort \in Cohorts
      /\ cohort' = [cohort EXCEPT ![call[k].cohort] = NoCohort]
      /\ UNCHANGED <<workshop, announced, edits, overwritten>>
  BY DEF DeleteCohort, Offered
<1>. QED
  BY <1>1, CohortWritten

-----------------------------------------------------------------------------
(* Theorems.                                                               *)

LEMMA Steps == IInv /\ [Next]_vars => IInv'
<1>. SUFFICES ASSUME IInv, [Next]_vars PROVE IInv'
  OBVIOUS
<1>1. CASE CreateWorkshop
  BY <1>1, CreateStep
<1>2. ASSUME NEW k \in Calls, WorkshopStep(k)
      PROVE  IInv'
  BY <1>2, BeginEditStep, ReadDraftStep, WriteEditStep, ReadForPublicationStep, PublishStep
     DEF WorkshopStep
<1>3. ASSUME NEW k \in Calls, CohortStep(k)
      PROVE  IInv'
  BY <1>3, PlanCohortStep, PlanMoveStep, NoOverlapStep, WriteCohortStep, PlanDeletionStep,
     DeleteCohortStep DEF CohortStep
<1>4. ASSUME NEW k \in Calls, End(k)
      PROVE  IInv'
  BY <1>4, EndStep
<1>5. CASE UNCHANGED vars
  <2>1. RestTyped' /\ AnnouncedHolds'
    BY <1>5 DEF vars, IInv, RestTyped, AnnouncedHolds
  <2>2. WorkshopHolds'
    BY <1>5 DEF vars, IInv, WorkshopHolds, Doc, IsWorkshop, Publishable, Offered
  <2>3. CallsHold'
    <3>1. call' = call /\ workshop' = workshop /\ overwritten' = overwritten
      BY <1>5 DEF vars
    <3>2. \A j \in Calls :
            /\ CallTyped(call'[j])
            /\ PlanCall(call'[j]) => workshop # NoWorkshop
                                       /\ (~overwritten => Current(call'[j].doc))
      BY <3>1 DEF IInv, CallsHold
    <3>. QED
      BY <3>1, <3>2, CurrentStays DEF CallsHold, CallTyped, EditCall, PublishCall,
         PlanCall, DeleteCall, EditHolds, Doc, IsWorkshop, Ready
  <2>4. CohortsHold'
    BY <1>5, CurrentStays DEF vars, IInv, CohortsHold, Offered
  <2>. QED
    BY <2>1, <2>2, <2>3, <2>4 DEF IInv
<1>. QED
  BY <1>1, <1>2, <1>3, <1>4, <1>5 DEF Next

(* The invariant holds in every reachable state of WorkshopService and the *)
(* expert's part of CohortService.                                         *)
THEOREM InvAlways == Spec => []IInv
BY InitHolds, Steps, PTL DEF Spec

LEMMA TypesFollow == IInv => TypeOK
<1>. SUFFICES ASSUME IInv PROVE TypeOK
  OBVIOUS
<1>1. workshop = NoWorkshop \/ IsWorkshop(workshop)
  BY DEF IInv, WorkshopHolds, Doc
<1>2. workshop.status = "published" =>
        /\ workshop.timezone # NoZone /\ workshop.sessions # {}
        /\ \A s \in workshop.sessions : s.titled
  BY DEF IInv, WorkshopHolds, Publishable
<1>3. \A c \in Offered :
        /\ DOMAIN cohort[c] = {"startDate", "timezone", "first", "last"}
        /\ cohort[c].startDate \in StartDates /\ cohort[c].timezone \in Zones
        /\ {cohort[c].first, cohort[c].last} \subseteq Int
  <2>1. \A c \in Offered : cohort[c] \in CohortDocs
    BY DEF IInv, RestTyped, Offered
  <2>. QED
    BY <2>1 DEF CohortDocs
<1>4. \A k \in Calls : "copy" \in DOMAIN call[k] => IsWorkshop(call[k].copy)
  <2>. SUFFICES ASSUME NEW k \in Calls, "copy" \in DOMAIN call[k]
                PROVE  IsWorkshop(call[k].copy)
    OBVIOUS
  <2>. DEFINE a == call[k]
  <2>1. CallTyped(a)
    BY DEF IInv, CallsHold
  <2>. HIDE DEF a
  <2>2. "copy" \in DOMAIN a
    BY DEF a
  <2>3. a # Idle /\ ~PlanCall(a) /\ ~DeleteCall(a)
    BY <2>2 DEF Idle, PlanCall, DeleteCall
  <2>4. EditCall(a) => Doc(a.copy)
    <3>1. a # [op |-> a.op, edit |-> a.edit]
      BY <2>2
    <3>. QED
      BY <3>1 DEF EditCall
  <2>5. PublishCall(a) => Doc(a.copy)
    BY DEF PublishCall
  <2>6. Doc(a.copy)
    BY <2>1, <2>3, <2>4, <2>5 DEF CallTyped
  <2>. QED
    BY <2>6 DEF Doc, a
<1>5. edits \in 0..MaxEdits /\ overwritten \in BOOLEAN
  BY DEF IInv, RestTyped
<1>. QED
  BY <1>1, <1>2, <1>3, <1>4, <1>5 DEF TypeOK

(* Documents, calls and cohorts keep their types, and whatever calls raced *)
(* with publishWorkshop, a workshop that is published has a time zone,     *)
(* sessions and a title for each.                                          *)
THEOREM WorkshopsTyped == Spec => []TypeOK
BY InvAlways, TypesFollow, PTL

LEMMA OfferedFollows == IInv => OfferedAsPublished
<1>. SUFFICES ASSUME IInv, ~overwritten
              PROVE  /\ Offered # {} => workshop.status = "published"
                     /\ workshop.status = "published" =>
                          announced # <<>> /\ Last(announced) = Announcement(workshop)
                     /\ \A c \in Offered :
                          cohort[c] = deriveSchedule(workshop, cohort[c].startDate)
  BY DEF OfferedAsPublished
<1>. QED
  BY DEF IInv, CohortsHold, AnnouncedHolds, Current

(* Unless a call wrote the workshop back from an outdated copy, a workshop *)
(* with cohorts is published, is what the search was told, and each cohort *)
(* has the window of its schedule (ensureWorkshopIsNotFrozen,              *)
(* getOwnedDraftWorkshop, createCohort, updateCohort).                     *)
THEOREM OfferedAlwaysAsPublished == Spec => []OfferedAsPublished
BY InvAlways, OfferedFollows, PTL

LEMMA SessionsFollow ==
  ASSUME \A s \in Schedules : Spaced(s.timezone), IInv
  PROVE  SessionsOnTime
<1>. SUFFICES ASSUME NEW c \in Offered, ~overwritten, NEW s \in workshop.sessions
     PROVE LET zone == cohort[c].timezone
               starts == deriveCohortSessions(workshop.sessions, cohort[c].startDate, zone)
               offsets == {p.offset : p \in zone}
               local == SessionLocal(workshop.sessions, cohort[c].startDate, s)
               exists == \E o \in offsets : Shown(zone, local - o) = local
               shown == Shown(zone, starts[s]) IN
      /\ dateOnlyWeekday(SessionDate(workshop.sessions, cohort[c].startDate, s)) = s.day
      /\ exists => shown = local
      /\ ~exists => \E o, p \in offsets : shown - local = o - p
      /\ cohort[c].first <= starts[s] /\ starts[s] <= cohort[c].last
  BY DEF SessionsOnTime
<1>. DEFINE S == workshop.sessions
            startDate == cohort[c].startDate
            zone == cohort[c].timezone
            starts == deriveCohortSessions(S, startDate, zone)
            offsets == {p.offset : p \in zone}
            local == SessionLocal(S, startDate, s)
            shown == Shown(zone, starts[s])
<1>1. Current(cohort[c])
  BY DEF IInv, CohortsHold
<1>2. Doc(workshop) /\ Publishable(workshop)
  BY <1>1 DEF IInv, WorkshopHolds, Current, NoWorkshop
<1>3. Sound(S) /\ S # {} /\ workshop.timezone \in Zones
  BY <1>2, PublishableSound
<1>4. startDate \in StartDates /\ startDate \in Int
  BY WorkshopsAssumption DEF IInv, RestTyped, Offered, CohortDocs
<1>5. zone = workshop.timezone
  <2>1. deriveSchedule(workshop, startDate).timezone = workshop.timezone
    BY DEF deriveSchedule
  <2>. QED
    BY <1>1, <2>1 DEF Current
<1>6. IsZone(zone) /\ Spaced(zone)
  <2>1. zone \in Zones
    BY <1>3, <1>5
  <2>. QED
    BY <2>1, ZonesAreZones DEF Zones
<1>7. dateOnlyWeekday(SessionDate(S, startDate, s)) = s.day
  <2>1. dateOnlyWeekday(startDate) = getEarliestWorkshopSession(S).day
    BY <1>1 DEF Current, StartsRight
  <2>. QED
    BY <1>3, <1>4, <2>1, OnItsWeekday
<1>8. starts[s] = localDateTimeToUtc(zone, local)
  BY DEF deriveCohortSessions
<1>9. local \in Int
  BY <1>3, <1>4, DateInt
<1>10. QuietZone(zone)
  BY <1>6, SpacedIsQuiet
<1>. HIDE DEF local, zone
<1>11. /\ \A o \in offsets : Shown(zone, local - o) = local => shown = local
       /\ \E o, p \in offsets : shown - local = o - p
  BY <1>6, <1>8, <1>9, <1>10, ThreeRoundsAreEnough
<1>12. cohort[c].first <= starts[s] /\ starts[s] <= cohort[c].last
  <2>1. /\ deriveCohortWindow(starts).first <= starts[s]
        /\ starts[s] <= deriveCohortWindow(starts).last
    BY <1>3, <1>4, <1>6, WindowHolds
  <2>2. cohort[c] = deriveSchedule(workshop, startDate)
    BY <1>1 DEF Current
  <2>3. /\ deriveSchedule(workshop, startDate).first = deriveCohortWindow(starts).first
        /\ deriveSchedule(workshop, startDate).last = deriveCohortWindow(starts).last
    BY <1>5 DEF deriveSchedule
  <2>. QED
    BY <2>1, <2>2, <2>3
<1>. HIDE DEF starts, offsets, S, startDate
<1>. QED
  BY <1>7, <1>11, <1>12 DEF starts, offsets, S, startDate, zone, local

(* In zones whose clocks change rarely, as all do, sessions are held on    *)
(* their weekday, at their local time if it exists, and within the window  *)
(* of their cohort, whatever the schedule, the start date and the zone     *)
(* (deriveCohortSessions, localDateTimeToUtc, deriveCohortWindow).         *)
THEOREM SessionsAlwaysOnTime ==
  ASSUME \A s \in Schedules : Spaced(s.timezone)
  PROVE  Spec => []SessionsOnTime
<1>1. IInv => SessionsOnTime
  BY SessionsFollow
<1>. QED
  BY <1>1, InvAlways, PTL
=============================================================================
