---------------------------- MODULE CohortSchedule ----------------------------
(***************************************************************************)
(* Session dates of a cohort (skill/src/utils/cohortSchedule.ts).          *)
(*                                                                         *)
(* A date is a number of days since 1 January 1970, a time an hour of the  *)
(* day, an instant a number of hours since 1970 in UTC.  A time zone is a  *)
(* set of periods: from an instant on it has an offset, and keeps it until *)
(* the next period begins.                                                 *)
(***************************************************************************)
EXTENDS Integers, FiniteSets, FiniteSetsExt

Day == 24

(* 0 is Monday; 1 January 1970 was a Thursday.                             *)
dateOnlyWeekday(date) == (date + 3) % 7

Local(date, time) == date * Day + time

-----------------------------------------------------------------------------
(* Time zones.                                                             *)

(* The earliest period has always begun: a zone has an offset at every      *)
(* instant.                                                                *)
getOffset(zone, instant) ==
  LET begun == {p \in zone : p.from <= instant \/ \A q \in zone : p.from <= q.from} IN
  (CHOOSE p \in begun : \A q \in begun : q.from <= p.from).offset

(* Intl writes the offset 0 as "GMT", which the regular expression for     *)
(* offsets does not accept: the call fails.                                *)
parseOffset(zone, instant) == getOffset(zone, instant) # 0

Adjusted(zone, local, utc) == local - getOffset(zone, utc)

(* Mutant: the offset at the local time, taken for UTC, is final.          *)
localDateTimeToUtcOnce(zone, local) == Adjusted(zone, local, local)
(* Three rounds; a round that changes nothing changes nothing again.       *)
localDateTimeToUtc(zone, local) ==
  Adjusted(zone, local, Adjusted(zone, local, Adjusted(zone, local, local)))

(* Every instant whose offset is asked for has one that can be read.       *)
Convertible(zone, local) ==
  LET once == Adjusted(zone, local, local) IN
  \A utc \in {local, once, Adjusted(zone, local, once)} : parseOffset(zone, utc)

-----------------------------------------------------------------------------
(* Schedules: sets of sessions, each in a slot of its own.                 *)

Before(s, t) ==
  \/ s.week < t.week
  \/ s.week = t.week /\ s.day < t.day
  \/ s.week = t.week /\ s.day = t.day /\ s.order < t.order

(* replaceWorkshopSessionsBodyDTO: no slot twice, and the sessions of a day*)
(* are numbered from 1 on.                                                 *)
ValidSchedule(sessions) ==
  \A s \in sessions :
    LET sameDay == {t \in sessions : t.week = s.week /\ t.day = s.day} IN
    {t.order : t \in sameDay} = 1..Cardinality(sameDay)

getEarliestWorkshopSession(sessions) ==
  CHOOSE s \in sessions : \A t \in sessions \ {s} : Before(s, t)

SessionDate(sessions, startDate, s) ==
  LET earliest == getEarliestWorkshopSession(sessions) IN
  startDate + (s.week - earliest.week) * 7 + (s.day - earliest.day)

SessionLocal(sessions, startDate, s) ==
  Local(SessionDate(sessions, startDate, s), s.start)

deriveCohortSessions(sessions, startDate, zone) ==
  [s \in sessions |-> localDateTimeToUtc(zone, SessionLocal(sessions, startDate, s))]

Derivable(sessions, startDate, zone) ==
  \A s \in sessions : Convertible(zone, SessionLocal(sessions, startDate, s))

deriveCohortWindow(starts) ==
  LET instants == {starts[s] : s \in DOMAIN starts} IN
  [first |-> Min(instants), last |-> Max(instants)]
=============================================================================
