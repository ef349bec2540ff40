----------------------------- MODULE MCWorkshops -----------------------------
(***************************************************************************)
(* Workshops for TLC.  The clocks change on Sunday 11 January 1970 (day    *)
(* 10), when the rules of New York, Berlin in spring and in autumn, and    *)
(* London are applied to it.                                               *)
(***************************************************************************)
EXTENDS Workshops, TLC

Start == -1000
Zone(before, at, after) ==
  {[from |-> Start, offset |-> before], [from |-> at, offset |-> after]}

NewYork == Zone(-5, 10 * Day + 7, -4)
BerlinSpring == Zone(1, 10 * Day + 1, 2)
BerlinAutumn == Zone(2, 10 * Day + 1, 1)
London == Zone(0, 10 * Day + 1, 1)

Slot(week, day, order, start) ==
  [week |-> week, day |-> day, order |-> order, start |-> start]

Schedule(timezone, slots) == [timezone |-> timezone, slots |-> slots]

(* One session when the clocks skip an hour; two on one day, in the other  *)
(* order than their numbers and one of them skipped; two in successive     *)
(* weeks, around a repeated hour; one in a zone that leaves GMT; one that  *)
(* is not in week 1; one numbered from 2.                                  *)
SixSchedules ==
  {Schedule(NewYork, {Slot(1, 6, 1, 2)}),
   Schedule(BerlinSpring, {Slot(1, 6, 1, 20), Slot(1, 6, 2, 2)}),
   Schedule(BerlinAutumn, {Slot(1, 5, 1, 21), Slot(2, 6, 1, 2)}),
   Schedule(London, {Slot(1, 6, 1, 2)}),
   Schedule(BerlinSpring, {Slot(2, 6, 1, 2)}),
   Schedule(BerlinSpring, {Slot(1, 6, 2, 2)})}

Interchangeable == Permutations(Calls) \cup Permutations(Cohorts)
=============================================================================
