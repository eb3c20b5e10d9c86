------------------------------ MODULE SlaCalendar ------------------------------
(***************************************************************************)
(* The working-day calendar behind every deadline, and the two loops over  *)
(* local days that use it: add_working_time sets a deadline, and           *)
(* working_time_between measures what is left of it when the request is    *)
(* returned.  A behaviour is the deadline arithmetic of one request: filed *)
(* at `start`, returned once and resumed.                                  *)
(*                                                                         *)
(* Moments are hours of UTC, days are judged in the local zone.  Requests  *)
(* counts in working hours and relies on what is checked here.             *)
(***************************************************************************)
EXTENDS Integers, FiniteSets

CONSTANTS
  DayLength,     \* hours in a day
  Offset,        \* the local zone is this far ahead of UTC
  WorkWeeks,     \* what settings.sla_workdays may be (0 is Monday)
  HolidayDays,   \* local days that may be holidays
  Starts,        \* moments of filing
  SlaHours,      \* sla_hours of a service, at least 1
  LastMoment,    \* bound on the moments of return and resumption
  MaxRounds      \* 3660: days the loop looks at before it gives up

ASSUME CalendarAssumption ==
  /\ DayLength \in Nat \ {0} /\ Offset \in Nat
  /\ WorkWeeks \subseteq SUBSET (0 .. 6) /\ HolidayDays \subseteq Nat
  /\ Starts \subseteq Nat /\ SlaHours \subseteq Nat \ {0}
  /\ LastMoment \in Nat /\ MaxRounds \in Nat \ {0}

VARIABLES
  workdays, holidays,   \* the settings
  start, hours,         \* the request and its service
  deadline,             \* sla_deadline
  paused, resumed,      \* moments of the return and of the resumption
  pc,                   \* which loop runs
  cursor, rounds,       \* the loop's position and its iterations
  amount                \* `remaining` of the one, `total` of the other

vars == <<workdays, holidays, start, hours, deadline, paused, resumed,
          pc, cursor, rounds, amount>>

inputs == <<workdays, holidays, start, hours>>

-----------------------------------------------------------------------------
\* Days and midnights of the local zone.
DateOf(t) == (t + Offset) \div DayLength

\* Midnight judged in UTC.
MidnightAfterUtc(t) == (t \div DayLength + 1) * DayLength

LocalMidnightAfter(t) == (DateOf(t) + 1) * DayLength - Offset

IsWorkingDay(d) == d % 7 \in workdays /\ d \notin holidays

Available(t) == LocalMidnightAfter(t) - t

\* The reference: the hours from a to b that fall on a working day.
Worked(a, b) == Cardinality({t \in a .. b - 1 : IsWorkingDay(DateOf(t))})

-----------------------------------------------------------------------------
\* One loop starts; what it works on.
Begins(loop, at, n) ==
  /\ pc' = loop
  /\ cursor' = at
  /\ amount' = n
  /\ rounds' = 0

\* One iteration of add_working_time, which continues at `next`.
AddDay(loop, next) ==
  /\ pc = loop
  /\ rounds < MaxRounds
  /\ IF IsWorkingDay(DateOf(cursor)) /\ amount <= Available(cursor)
     THEN /\ deadline' = cursor + amount
          /\ pc' = next
          /\ UNCHANGED <<cursor, amount, rounds>>
     ELSE /\ amount' = IF IsWorkingDay(DateOf(cursor)) THEN amount - Available(cursor) ELSE amount
          /\ cursor' = LocalMidnightAfter(cursor)
          /\ rounds' = rounds + 1
          /\ UNCHANGED <<pc, deadline>>
  /\ UNCHANGED <<inputs, paused, resumed>>

\* "SLA calendar has no working days configured"
AddFails(loop) ==
  /\ pc = loop
  /\ rounds = MaxRounds
  /\ pc' = "failed"
  /\ UNCHANGED <<inputs, deadline, paused, resumed, cursor, amount, rounds>>

\* The clock never leaves a day off.
FileDayStuck ==
  /\ pc = "filing"
  /\ IF IsWorkingDay(DateOf(cursor)) THEN AddDay("filing", "filed") ELSE UNCHANGED vars

\* sla_deadline_from
FileDay == AddDay("filing", "filed")

\* The request is returned at some moment and resumed at a later one: measure
\* what was left.
Resume ==
  /\ pc = "filed"
  /\ \E p \in start .. LastMoment :
       /\ paused' = p
       /\ resumed' \in p .. LastMoment
       /\ Begins("measuring", p, 0)
  /\ UNCHANGED <<inputs, deadline>>

\* Days off count too.
MeasureEveryDay ==
  /\ pc = "measuring"
  /\ cursor < deadline
  /\ LET next == IF LocalMidnightAfter(cursor) < deadline
                 THEN LocalMidnightAfter(cursor) ELSE deadline
     IN /\ amount' = amount + (next - cursor)
        /\ cursor' = next
  /\ UNCHANGED <<inputs, deadline, paused, resumed, pc, rounds>>

\* One iteration of working_time_between(paused, deadline).
MeasureDay ==
  /\ pc = "measuring"
  /\ cursor < deadline
  /\ LET next == IF LocalMidnightAfter(cursor) < deadline
                 THEN LocalMidnightAfter(cursor) ELSE deadline
     IN /\ amount' = IF IsWorkingDay(DateOf(cursor)) THEN amount + (next - cursor) ELSE amount
        /\ cursor' = next
  /\ UNCHANGED <<inputs, deadline, paused, resumed, pc, rounds>>

\* The new deadline counts from the pause.
MeasureDoneFromPause ==
  /\ pc = "measuring"
  /\ cursor >= deadline
  /\ IF amount > 0
     THEN Begins("moving", paused, amount)
     ELSE pc' = "done" /\ UNCHANGED <<cursor, amount, rounds>>
  /\ UNCHANGED <<inputs, deadline, paused, resumed>>

\* _apply_status: a deadline that was still ahead moves, a missed one stays.
MeasureDone ==
  /\ pc = "measuring"
  /\ cursor >= deadline
  /\ IF amount > 0
     THEN Begins("moving", resumed, amount)
     ELSE pc' = "done" /\ UNCHANGED <<cursor, amount, rounds>>
  /\ UNCHANGED <<inputs, deadline, paused, resumed>>

MoveDay == AddDay("moving", "done")

Init ==
  /\ workdays \in WorkWeeks
  /\ holidays \in SUBSET HolidayDays
  /\ start \in Starts
  /\ hours \in SlaHours
  /\ deadline = 0 /\ paused = 0 /\ resumed = 0
  /\ pc = "filing" /\ cursor = start /\ amount = hours /\ rounds = 0

Next ==
  \/ FileDay \/ MoveDay \/ MeasureDay \/ MeasureDone \/ Resume
  \/ \E loop \in {"filing", "moving"} : AddFails(loop)

Spec == Init /\ [][Next]_vars

\* The loops run; nobody has to return or resume a request.
FairSpec ==
  /\ Spec
  /\ WF_vars(FileDay \/ MoveDay \/ MeasureDay \/ MeasureDone)
  /\ \A loop \in {"filing", "moving"} : WF_vars(AddFails(loop))

-----------------------------------------------------------------------------
(* Every variable keeps its type; a position never runs away from the days *)
(* the loop may look at.                                                   *)
TypeOK ==
  /\ workdays \in WorkWeeks /\ holidays \subseteq HolidayDays
  /\ start \in Starts /\ hours \in SlaHours
  /\ deadline \in Nat /\ paused \in Nat /\ resumed \in Nat
  /\ pc \in {"filing", "filed", "measuring", "moving", "done", "failed"}
  /\ cursor \in Nat /\ amount \in Nat /\ rounds \in 0 .. MaxRounds

\* `due` is the first moment by which n working hours passed since `from`.
Exactly(from, due, n) == Worked(from, due) = n /\ Worked(from, due - 1) = n - 1

(* sla_deadline_from: the deadline is the first moment by which the        *)
(* service's hours have passed on working days of the local zone, whatever *)
(* weekends and holidays lie between, and wherever the request was filed.  *)
DeadlineIsExact == pc = "filed" => Exactly(start, deadline, hours)

(* working_time_between measures the working hours left at the pause.      *)
RemainderIsExact ==
  pc = "measuring" /\ cursor >= deadline => amount = Worked(paused, deadline)

(* _apply_status: "the deadline moves out by exactly the working time that *)
(* was left at the pause", and a deadline already missed does not move.    *)
ReturnCostsNothing ==
  [][pc # "done" /\ pc' = "done" =>
       IF Worked(paused, deadline) > 0
       THEN Exactly(resumed, deadline', Worked(paused, deadline))
       ELSE deadline' = deadline]_vars

(* Both loops end.                                                         *)
LoopsEnd == pc \in {"filing", "measuring", "moving"} ~> pc \in {"filed", "done", "failed"}

=============================================================================
