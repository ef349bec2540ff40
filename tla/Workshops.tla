------------------------------ MODULE Workshops ------------------------------
(***************************************************************************)
(* A workshop of the skill service, from draft to cohorts (WorkshopService *)
(* and the expert's part of CohortService).                                *)
(*                                                                         *)
(* Every call reads documents, decides, and writes a whole document from   *)
(* the copy it read; only publishWorkshop writes in a transaction, and it  *)
(* too reads before it.  Calls of one expert, from two tabs or repeated by *)
(* the browser, interleave at every await.  Workshops do not share         *)
(* documents, so one is enough; calls of other experts are refused and     *)
(* change nothing.  Memberships belong to Enrollment: with some, an update *)
(* of the start date and a deletion are refused, as calls also are here    *)
(* whenever they end without a write.                                      *)
(***************************************************************************)
EXTENDS CohortSchedule, Sequences, SequencesExt

CONSTANTS
  Calls,        \* calls that may be open at once
  Cohorts,      \* cohort ids
  Schedules,    \* the time zones and slots the expert may send
  StartDates,   \* start dates the expert may send
  StartTimes,   \* times a session may be moved to
  MaxEdits      \* bound on the edits of the workshop that are written

(* A slot as a request may send it (replaceWorkshopSessionsBodyDTO).        *)
Slots == [week : Nat, day : 0..6, order : Nat, start : 0..Day - 1]

ASSUME WorkshopsAssumption ==
  /\ \A s \in Schedules :
       /\ IsFiniteSet(s.timezone) /\ s.timezone # {}
       /\ \A p \in s.timezone : p \in [from : Int, offset : Int]
       /\ IsFiniteSet(s.slots) /\ \A t \in s.slots : t \in Slots
  /\ StartDates \subseteq Int /\ StartTimes \subseteq 0..Day - 1
  /\ MaxEdits \in Nat

VARIABLES
  workshop,     \* the document, or NoWorkshop
  cohort,       \* the collection of cohorts
  announced,    \* workshop.published events in the outbox
  call,         \* calls between two of their steps
  edits,        \* edits written so far
  overwritten   \* history: a write discarded another made since its read

vars == <<workshop, cohort, announced, call, edits, overwritten>>

NoZone == {}
NoWorkshop == [status |-> "none"]
NoCohort == [startDate |-> "none"]
Idle == [op |-> "idle"]

Init ==
  /\ workshop = NoWorkshop
  /\ cohort = [c \in Cohorts |-> NoCohort]
  /\ announced = <<>>
  /\ call = [k \in Calls |-> Idle]
  /\ edits = 0
  /\ overwritten = FALSE

Offered == {c \in Cohorts : cohort[c] # NoCohort}

Goto(k, next) == call' = [call EXCEPT ![k] = next]
Reads == UNCHANGED <<workshop, cohort, announced, edits, overwritten>>

(* The call ends, with an answer, a refusal or the process.                *)
End(k) == call[k] # Idle /\ Goto(k, Idle) /\ Reads

CreateWorkshop ==
  /\ workshop = NoWorkshop
  /\ workshop' = [status |-> "draft", basics |-> 0, timezone |-> NoZone, sessions |-> {}]
  /\ UNCHANGED <<cohort, announced, call, edits, overwritten>>

-----------------------------------------------------------------------------
(* Edits of the draft.  A new schedule has new session ids, named here by  *)
(* the edit and the slot, and no titles: the request has no field for them.*)

replaceSchedule(doc, edit) ==
  [doc EXCEPT !.timezone = edit.timezone,
              !.sessions = {[id |-> edits + 1, week |-> s.week, day |-> s.day,
                             order |-> s.order, start |-> s.start, titled |-> FALSE]
                            : s \in edit.slots}]

updateBasics(doc, edit) == [doc EXCEPT !.basics = edits + 1]

Same(s, t) == s.id = t.id /\ s.week = t.week /\ s.day = t.day /\ s.order = t.order

updateSession(doc, edit) ==
  [doc EXCEPT !.sessions =
     {IF Same(s, edit.session)
      THEN [s EXCEPT !.titled = @ \/ edit.title,
                     !.start = IF edit.start \in StartTimes THEN edit.start ELSE @]
      ELSE s : s \in doc.sessions}]

Edited(doc, edit) ==
  CASE edit.kind = "basics" -> updateBasics(doc, edit)
    [] edit.kind = "schedule" -> replaceSchedule(doc, edit)
    [] edit.kind = "session" -> updateSession(doc, edit)

NoTime == Day
Edits ==
  {[kind |-> "basics"]} \cup
  {[kind |-> "schedule", timezone |-> s.timezone, slots |-> s.slots] :
     s \in {t \in Schedules : ValidSchedule(t.slots)}} \cup
  {[kind |-> "session", session |-> s, title |-> t, start |-> u] :
     s \in workshop.sessions, t \in BOOLEAN, u \in StartTimes \cup {NoTime}}

ensureWorkshopIsNotFrozen(k, edit) ==
  /\ call[k] = Idle
  /\ edit.kind = "session" => edit.title \/ edit.start \in StartTimes
  /\ Offered = {}
  /\ Goto(k, [op |-> "edit", edit |-> edit])
  /\ Reads

(* Mutant: having no cohorts is enough, the workshop need not be a draft.  *)
EditableUntilOffered(doc) == Offered = {}
Editable(doc) == doc.status = "draft"

getOwnedDraftWorkshop(k) ==
  /\ call[k].op = "edit" /\ "copy" \notin DOMAIN call[k]
  /\ Editable(workshop)
  /\ call[k].edit.kind = "session" =>
       \E s \in workshop.sessions : Same(s, call[k].edit.session)
  /\ Goto(k, [op |-> "edit", edit |-> call[k].edit, copy |-> workshop])
  /\ Reads

(* A whole document is written, whatever became of it since it was read.   *)
Write(k, doc) ==
  /\ workshop' = doc
  /\ overwritten' = (overwritten \/ workshop # call[k].copy)
  /\ Goto(k, Idle)

WriteEdit(k) ==
  /\ call[k].op = "edit" /\ "copy" \in DOMAIN call[k]
  /\ edits < MaxEdits
  /\ edits' = edits + 1
  /\ Write(k, Edited(call[k].copy, call[k].edit))
  /\ UNCHANGED <<cohort, announced>>

-----------------------------------------------------------------------------
(* Publication: checked on a copy, written with its event.                 *)

(* Mutant: sessions without a title may be published.                      *)
ReadyUntitled(doc) ==
  doc.status = "draft" /\ doc.timezone # NoZone /\ doc.sessions # {}
(* The title and the size are there from the start.                        *)
Ready(doc) ==
  /\ doc.status = "draft"
  /\ doc.timezone # NoZone
  /\ doc.sessions # {}
  /\ \A s \in doc.sessions : s.titled

ReadForPublication(k) ==
  /\ call[k] = Idle
  /\ workshop # NoWorkshop /\ Ready(workshop)
  /\ Goto(k, [op |-> "publish", copy |-> workshop])
  /\ Reads

Announcement(doc) == [basics |-> doc.basics, sessions |-> {s.id : s \in doc.sessions}]

publishWorkshop(k) ==
  /\ call[k].op = "publish"
  /\ Write(k, [call[k].copy EXCEPT !.status = "published"])
  /\ announced' = Append(announced, Announcement(call[k].copy))
  /\ UNCHANGED <<cohort, edits>>

-----------------------------------------------------------------------------
(* Cohorts: the schedule is derived, overlaps are looked for, and the      *)
(* cohort is written, each in a step of its own.                           *)

assertWorkshopReadyForCohorts(doc) ==
  /\ doc.status = "published" /\ doc.timezone # NoZone /\ doc.sessions # {}
  /\ getEarliestWorkshopSession(doc.sessions).week = 1

(* The start date is the day of the earliest session, and every local time *)
(* can be converted.                                                       *)
StartsRight(doc, startDate) ==
  /\ dateOnlyWeekday(startDate) = getEarliestWorkshopSession(doc.sessions).day
  /\ Derivable(doc.sessions, startDate, doc.timezone)

deriveSchedule(doc, startDate) ==
  LET window == deriveCohortWindow(
                  deriveCohortSessions(doc.sessions, startDate, doc.timezone)) IN
  [startDate |-> startDate, timezone |-> doc.timezone,
   first |-> window.first, last |-> window.last]

PlanCohort(k, c, startDate) ==
  /\ call[k] = Idle /\ c \notin Offered
  /\ workshop # NoWorkshop /\ assertWorkshopReadyForCohorts(workshop)
  /\ StartsRight(workshop, startDate)
  /\ Goto(k, [op |-> "create", cohort |-> c, doc |-> deriveSchedule(workshop, startDate)])
  /\ Reads

(* updateCohort moves the start date; the zone the cohort was made with    *)
(* stays.  That the workshop is ready is not asked again.                  *)
PlanMove(k, c, startDate) ==
  /\ call[k] = Idle /\ c \in Offered
  /\ workshop.sessions # {} /\ workshop.timezone # NoZone
  /\ StartsRight(workshop, startDate)
  /\ Goto(k, [op |-> "move", cohort |-> c,
              doc |-> [deriveSchedule(workshop, startDate)
                         EXCEPT !.timezone = cohort[c].timezone]])
  /\ Reads

ensureNoOverlap(k) ==
  /\ call[k].op \in {"create", "move"} /\ "clear" \notin DOMAIN call[k]
  /\ \A c \in Offered \ (IF call[k].op = "move" THEN {call[k].cohort} ELSE {}) :
       ~(/\ cohort[c].first <= call[k].doc.last
         /\ cohort[c].last >= call[k].doc.first)
  /\ Goto(k, [op |-> call[k].op, cohort |-> call[k].cohort, doc |-> call[k].doc,
              clear |-> TRUE])
  /\ Reads

WriteCohort(k) ==
  /\ call[k].op \in {"create", "move"} /\ "clear" \in DOMAIN call[k]
  /\ (call[k].op = "move") <=> (call[k].cohort \in Offered)
  /\ cohort' = [cohort EXCEPT ![call[k].cohort] = call[k].doc]
  /\ Goto(k, Idle)
  /\ UNCHANGED <<workshop, announced, edits, overwritten>>

PlanDeletion(k, c) ==
  /\ call[k] = Idle /\ c \in Offered
  /\ Goto(k, [op |-> "delete", cohort |-> c])
  /\ Reads

DeleteCohort(k) ==
  /\ call[k].op = "delete" /\ call[k].cohort \in Offered
  /\ cohort' = [cohort EXCEPT ![call[k].cohort] = NoCohort]
  /\ Goto(k, Idle)
  /\ UNCHANGED <<workshop, announced, edits, overwritten>>

-----------------------------------------------------------------------------
WorkshopStep(k) ==
  \/ /\ workshop # NoWorkshop
     /\ \E edit \in Edits : ensureWorkshopIsNotFrozen(k, edit)
  \/ getOwnedDraftWorkshop(k) \/ WriteEdit(k)
  \/ ReadForPublication(k) \/ publishWorkshop(k)

CohortStep(k) ==
  \/ \E c \in Cohorts, d \in StartDates : PlanCohort(k, c, d) \/ PlanMove(k, c, d)
  \/ ensureNoOverlap(k) \/ WriteCohort(k)
  \/ \E c \in Cohorts : PlanDeletion(k, c)
  \/ DeleteCohort(k)

Next ==
  \/ CreateWorkshop
  \/ \E k \in Calls : WorkshopStep(k) \/ CohortStep(k) \/ End(k)

Spec == Init /\ [][Next]_vars
-----------------------------------------------------------------------------
(* Properties.                                                             *)

Sessions == [id : 1..MaxEdits, week : Nat, day : 0..6, order : Nat,
             start : 0..Day - 1, titled : BOOLEAN]

Zones == {s.timezone : s \in Schedules}

IsWorkshop(doc) ==
  /\ DOMAIN doc = {"status", "basics", "timezone", "sessions"}
  /\ doc.status \in {"draft", "published"}
  /\ doc.basics \in 0..MaxEdits
  /\ doc.timezone \in Zones \cup {NoZone}
  /\ \A s \in doc.sessions : s \in Sessions
  /\ ValidSchedule(doc.sessions)

(* Every variable has its type; a workshop that is published has a time    *)
(* zone, sessions and a title for each, whatever calls raced with          *)
(* publishWorkshop.                                                        *)
TypeOK ==
  /\ workshop = NoWorkshop \/ IsWorkshop(workshop)
  /\ workshop.status = "published" =>
       /\ workshop.timezone # NoZone /\ workshop.sessions # {}
       /\ \A s \in workshop.sessions : s.titled
  /\ \A c \in Offered :
       /\ DOMAIN cohort[c] = {"startDate", "timezone", "first", "last"}
       /\ cohort[c].startDate \in StartDates /\ cohort[c].timezone \in Zones
       /\ {cohort[c].first, cohort[c].last} \subseteq Int
  /\ \A k \in Calls : "copy" \in DOMAIN call[k] => IsWorkshop(call[k].copy)
  /\ edits \in 0..MaxEdits /\ overwritten \in BOOLEAN

(* What is offered is what was published: unless a call wrote the workshop *)
(* back from an outdated copy, one with cohorts is published, it is what   *)
(* the search was told, and the window stored with each cohort, which      *)
(* decides about overlaps and enrolment, is that of the schedule shown     *)
(* (WorkshopService.ensureWorkshopIsNotFrozen, getOwnedDraftWorkshop).     *)
OfferedAsPublished ==
  ~overwritten =>
    /\ Offered # {} => workshop.status = "published"
    /\ workshop.status = "published" =>
         announced # <<>> /\ Last(announced) = Announcement(workshop)
    /\ \A c \in Offered : cohort[c] = deriveSchedule(workshop, cohort[c].startDate)

(* The local time a clock in the zone shows at an instant.                 *)
Shown(zone, instant) == instant + getOffset(zone, instant)

(* Sessions are held when the schedule says: on their weekday, at their    *)
(* local time on both sides of a change of the clocks, within the window of*)
(* the cohort; where the clocks skip the local time, at most as far from it*)
(* as they skip (deriveCohortSessions, localDateTimeToUtc).                *)
SessionsOnTime ==
  \A c \in Offered : ~overwritten =>
    LET zone == cohort[c].timezone
        starts == deriveCohortSessions(workshop.sessions, cohort[c].startDate, zone)
        offsets == {p.offset : p \in zone} IN
    \A s \in workshop.sessions :
      LET local == SessionLocal(workshop.sessions, cohort[c].startDate, s)
          exists == \E o \in offsets : Shown(zone, local - o) = local
          shown == Shown(zone, starts[s]) IN
      /\ dateOnlyWeekday(SessionDate(workshop.sessions, cohort[c].startDate, s)) = s.day
      /\ exists => shown = local
      /\ ~exists => \E o, p \in offsets : shown - local = o - p
      /\ cohort[c].first <= starts[s] /\ starts[s] <= cohort[c].last
=============================================================================
