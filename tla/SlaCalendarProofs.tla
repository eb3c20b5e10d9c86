-------------------------- MODULE SlaCalendarProofs --------------------------
(***************************************************************************)
(* Theorems about SlaCalendar for every length of day and local zone,      *)
(* every set of working days and holidays, any hours and any moments: both *)
(* loops count working hours exactly, and a return costs none.             *)
(***************************************************************************)
EXTENDS SlaCalendar, FiniteSetTheorems, TLAPS

-----------------------------------------------------------------------------
(* Quotients *)

LEMMA ProductOrder ==
  ASSUME NEW p \in Int, NEW q \in Int, NEW d \in Nat \ {0}, p < q
  PROVE  (p + 1) * d \in Int /\ q * d \in Int /\ (p + 1) * d <= q * d
OBVIOUS

LEMMA Division ==
  ASSUME NEW x \in Nat, NEW d \in Nat \ {0}
  PROVE  /\ x \div d \in Nat
         /\ (x \div d) * d <= x /\ x < (x \div d + 1) * d
OBVIOUS

LEMMA QuotientIs ==
  ASSUME NEW x \in Nat, NEW q \in Nat, NEW d \in Nat \ {0}, q * d <= x, x < (q + 1) * d
  PROVE  x \div d = q
<1>1. PICK p \in Nat : p = x \div d
  BY Division
<1>2. p * d <= x /\ x < (p + 1) * d
  BY <1>1, Division
<1>3. CASE p < q
  BY <1>2, <1>3, ProductOrder
<1>4. CASE q < p
  BY <1>2, <1>4, ProductOrder
<1> QED  BY <1>1, <1>3, <1>4

-----------------------------------------------------------------------------
(* Days *)

(* Up to the next midnight of the local zone it is the same local day.     *)
LEMMA SameDay ==
  ASSUME NEW t \in Nat
  PROVE  /\ LocalMidnightAfter(t) \in Nat /\ t < LocalMidnightAfter(t)
         /\ \A s \in t .. LocalMidnightAfter(t) - 1 : DateOf(s) = DateOf(t)
<1>1. PICK q : q = DateOf(t)
  OBVIOUS
<1>2. DayLength \in Nat \ {0} /\ Offset \in Nat /\ t + Offset \in Nat
  BY CalendarAssumption
<1>3. q \in Nat /\ q * DayLength <= t + Offset /\ t + Offset < (q + 1) * DayLength
  BY <1>1, <1>2, Division DEF DateOf
<1>4. PICK m : m = (q + 1) * DayLength
  OBVIOUS
<1>5. m \in Nat
  BY <1>2, <1>3, <1>4
<1>6. LocalMidnightAfter(t) = m - Offset
  BY <1>1, <1>4 DEF LocalMidnightAfter
<1>7. m - Offset \in Nat /\ t < m - Offset
  BY <1>2, <1>3, <1>4, <1>5
<1>8. ASSUME NEW s \in t .. m - Offset - 1 PROVE DateOf(s) = q
  <2>1. s \in Nat /\ t <= s /\ s + Offset < m
    BY <1>2, <1>5, <1>8
  <2>2. s + Offset \in Nat /\ t + Offset <= s + Offset
    BY <1>2, <2>1
  <2>3. q * DayLength \in Int
    BY <1>2, <1>3
  <2>4. q * DayLength <= s + Offset
    BY <1>2, <1>3, <2>2, <2>3
  <2> QED  BY <1>2, <1>3, <1>4, <2>1, <2>2, <2>4, QuotientIs DEF DateOf
<1> QED  BY <1>1, <1>6, <1>7, <1>8

Days(a, b) == {t \in a .. b - 1 : IsWorkingDay(DateOf(t))}

LEMMA WorkedIs ==
  ASSUME NEW a \in Int, NEW b \in Int
  PROVE  IsFiniteSet(Days(a, b)) /\ Worked(a, b) = Cardinality(Days(a, b)) /\ Worked(a, b) \in Nat
<1>1. IsFiniteSet(a .. b - 1)
  BY FS_Interval
<1>2. Days(a, b) \subseteq a .. b - 1
  BY DEF Days
<1>3. IsFiniteSet(Days(a, b))
  BY <1>1, <1>2, FS_Subset
<1> QED  BY <1>3, FS_CardinalityType DEF Worked, Days

LEMMA NothingWorked ==
  ASSUME NEW a \in Int, NEW b \in Int, b <= a
  PROVE  Worked(a, b) = 0
<1>1. Days(a, b) = {}
  BY DEF Days
<1> QED  BY <1>1, WorkedIs, FS_EmptySet

(* The hours worked add up, one local day at a time.                       *)
LEMMA WorkedOnDay ==
  ASSUME NEW a \in Nat, NEW c \in Nat, NEW b \in Nat,
         a <= c, c <= b, b <= LocalMidnightAfter(c)
  PROVE  Worked(a, b) = Worked(a, c) + (IF IsWorkingDay(DateOf(c)) THEN b - c ELSE 0)
<1> a \in Int /\ b \in Int /\ c \in Int /\ b - 1 \in Int
  OBVIOUS
<1>1. Days(a, b) = Days(a, c) \cup Days(c, b) /\ Days(a, c) \cap Days(c, b) = {}
  BY DEF Days
<1>2. IsFiniteSet(Days(a, c)) /\ IsFiniteSet(Days(c, b))
  BY WorkedIs
<1>3. Cardinality(Days(a, c) \cup Days(c, b)) =
        Cardinality(Days(a, c)) + Cardinality(Days(c, b)) - Cardinality(Days(a, c) \cap Days(c, b))
  BY <1>2, FS_Union
<1>4. Cardinality({}) = 0
  BY FS_EmptySet
<1>5. Worked(a, b) = Worked(a, c) + Worked(c, b)
  <2>1. /\ Worked(a, b) = Cardinality(Days(a, b)) /\ Worked(a, c) = Cardinality(Days(a, c))
        /\ Worked(c, b) = Cardinality(Days(c, b)) /\ Worked(a, c) \in Nat /\ Worked(c, b) \in Nat
    BY WorkedIs
  <2>2. Cardinality(Days(a, c) \cup Days(c, b)) = Cardinality(Days(a, b))
    BY <1>1
  <2>3. Cardinality(Days(a, c) \cap Days(c, b)) = 0
    BY <1>1, <1>4
  <2>4. Worked(a, b) = Worked(a, c) + Worked(c, b) - 0
    BY <1>3, <2>1, <2>2, <2>3
  <2> QED  BY <2>1, <2>4
<1>6. LocalMidnightAfter(c) \in Nat
  BY SameDay
<1>7. \A t \in c .. b - 1 : DateOf(t) = DateOf(c)
  <2>1. \A t \in c .. b - 1 : t \in c .. LocalMidnightAfter(c) - 1
    BY <1>6
  <2> QED  BY <2>1, SameDay
<1>8. CASE IsWorkingDay(DateOf(c))
  <2>1. Days(c, b) = c .. b - 1
    BY <1>7, <1>8 DEF Days
  <2>2. Cardinality(c .. b - 1) = IF c > b - 1 THEN 0 ELSE b - 1 - c + 1
    BY FS_Interval
  <2>3. Cardinality(c .. b - 1) = b - c
    BY <2>2
  <2>4. Worked(c, b) = b - c
    BY <2>1, <2>3, WorkedIs
  <2> QED  BY <1>5, <1>8, <2>4
<1>9. CASE ~IsWorkingDay(DateOf(c))
  <2>1. Days(c, b) = {}
    BY <1>7, <1>9 DEF Days
  <2>2. Worked(c, b) = 0
    BY <1>4, <2>1, WorkedIs
  <2>3. Worked(a, c) \in Nat
    BY WorkedIs
  <2> QED  BY <1>5, <1>9, <2>2, <2>3
<1> QED  BY <1>8, <1>9

LEMMA SettingsStay ==
  ASSUME UNCHANGED <<workdays, holidays>>, NEW a, NEW b
  PROVE  Worked(a, b)' = Worked(a, b)
BY DEF Worked, IsWorkingDay, DateOf

-----------------------------------------------------------------------------
(* What the loops have counted so far: filing and moving are looking for   *)
(* the hours that are left to give, measuring for those there were.        *)
Counts(from, n) == from <= cursor /\ amount > 0 /\ Worked(from, cursor) + amount = n

CalendarInv ==
  /\ TypeOK
  /\ pc = "filing" => Counts(start, hours)
  /\ pc = "filed" => Exactly(start, deadline, hours)
  /\ pc = "measuring" => /\ paused <= cursor /\ (cursor = paused \/ cursor <= deadline)
                         /\ amount = Worked(paused, cursor)
  /\ pc = "moving" => Counts(resumed, Worked(paused, deadline))

(* One day of add_working_time, at work on n hours from some moment on.    *)
LEMMA DayAdds ==
  ASSUME CalendarInv, NEW loop, NEW next, AddDay(loop, next),
         NEW from \in Nat, NEW n \in Nat, Counts(from, n)
  PROVE  /\ UNCHANGED <<inputs, paused, resumed>>
         /\ cursor' \in Nat /\ amount' \in Nat /\ rounds' \in 0 .. MaxRounds /\ deadline' \in Nat
         /\ \/ /\ pc' = next /\ Exactly(from, deadline', n)
            \/ /\ pc' = loop /\ deadline' = deadline
               /\ from <= cursor' /\ amount' > 0 /\ Worked(from, cursor') + amount' = n
<1>1. cursor \in Nat /\ amount \in Nat /\ deadline \in Nat /\ rounds \in 0 .. MaxRounds /\ MaxRounds \in Nat
  BY CalendarAssumption DEF CalendarInv, TypeOK
<1>2. PICK m : m = LocalMidnightAfter(cursor)
  OBVIOUS
<1>3. m \in Nat /\ cursor < m
  BY <1>1, <1>2, SameDay
<1>4. from <= cursor /\ amount > 0 /\ Worked(from, cursor) + amount = n /\ Worked(from, cursor) \in Nat
  BY <1>1, WorkedIs DEF Counts
<1>5. UNCHANGED <<inputs, paused, resumed>>
  BY DEF AddDay
<1>6. CASE IsWorkingDay(DateOf(cursor)) /\ amount <= Available(cursor)
  <2>1. deadline' = cursor + amount /\ pc' = next /\ UNCHANGED <<cursor, amount, rounds>>
    BY <1>6 DEF AddDay
  <2>2. cursor + amount \in Nat /\ cursor + amount - 1 \in Nat /\ cursor + amount <= m
    BY <1>1, <1>2, <1>3, <1>4, <1>6 DEF Available
  <2>3. Worked(from, cursor + amount) = Worked(from, cursor) + (cursor + amount - cursor)
    BY <1>1, <1>2, <1>4, <1>6, <2>2, WorkedOnDay
  <2>4. Worked(from, cursor + amount - 1) = Worked(from, cursor) + (cursor + amount - 1 - cursor)
    BY <1>1, <1>2, <1>3, <1>4, <1>6, <2>2, WorkedOnDay
  <2>5. Exactly(from, cursor + amount, n)
    BY <1>1, <1>4, <2>3, <2>4 DEF Exactly
  <2> QED  BY <1>1, <1>5, <2>1, <2>2, <2>5
<1>7. CASE ~(IsWorkingDay(DateOf(cursor)) /\ amount <= Available(cursor))
  <2>1. /\ amount' = IF IsWorkingDay(DateOf(cursor)) THEN amount - (m - cursor) ELSE amount
        /\ cursor' = m /\ rounds' = rounds + 1 /\ rounds < MaxRounds
        /\ UNCHANGED <<pc, deadline>> /\ pc = loop
    BY <1>2, <1>7 DEF AddDay, Available
  <2>2. Worked(from, m) = Worked(from, cursor) + (IF IsWorkingDay(DateOf(cursor)) THEN m - cursor ELSE 0)
    BY <1>1, <1>2, <1>3, <1>4, WorkedOnDay
  <2>3. amount' \in Nat /\ amount' > 0
    BY <1>1, <1>2, <1>3, <1>4, <1>7, <2>1 DEF Available
  <2>4. Worked(from, m) + amount' = n
    BY <1>1, <1>3, <1>4, <2>1, <2>2
  <2> QED  BY <1>1, <1>3, <1>4, <1>5, <2>1, <2>3, <2>4
<1> QED  BY <1>6, <1>7

(* One day of working_time_between.                                        *)
LEMMA DayMeasured ==
  ASSUME CalendarInv, MeasureDay
  PROVE  CalendarInv'
<1>1. /\ cursor \in Nat /\ amount \in Nat /\ deadline \in Nat /\ paused \in Nat
      /\ cursor < deadline /\ paused <= cursor /\ amount = Worked(paused, cursor) /\ pc = "measuring"
  BY DEF CalendarInv, TypeOK, MeasureDay
<1>2. PICK m : m = LocalMidnightAfter(cursor)
  OBVIOUS
<1>3. m \in Nat /\ cursor < m
  BY <1>1, <1>2, SameDay
<1>4. PICK next : next = IF m < deadline THEN m ELSE deadline
  OBVIOUS
<1>5. next \in Nat /\ cursor < next /\ next <= deadline /\ next <= m
  BY <1>1, <1>3, <1>4
<1>6. /\ amount' = IF IsWorkingDay(DateOf(cursor)) THEN amount + (next - cursor) ELSE amount
      /\ cursor' = next /\ UNCHANGED <<inputs, deadline, paused, resumed, pc, rounds>>
  BY <1>2, <1>4 DEF MeasureDay
<1>7. Worked(paused, next) = Worked(paused, cursor)
        + (IF IsWorkingDay(DateOf(cursor)) THEN next - cursor ELSE 0)
  BY <1>1, <1>2, <1>5, WorkedOnDay
<1>8. amount' = Worked(paused, next) /\ amount' \in Nat
  BY <1>1, <1>5, <1>6, <1>7
<1>9. Worked(paused, next)' = Worked(paused, next)
  BY <1>6, SettingsStay DEF inputs
<1>10. Worked(paused, cursor)' = Worked(paused, next)'
  BY <1>6
<1> QED  BY <1>1, <1>5, <1>6, <1>8, <1>9, <1>10 DEF CalendarInv, TypeOK, inputs

\* What has been measured once the loop is through.
LEMMA MeasuredIs ==
  ASSUME CalendarInv, pc = "measuring", cursor >= deadline
  PROVE  amount = Worked(paused, deadline)
<1>1. /\ cursor \in Nat /\ deadline \in Nat /\ paused \in Nat
      /\ amount = Worked(paused, cursor) /\ (cursor = paused \/ cursor <= deadline)
  BY DEF CalendarInv, TypeOK
<1>2. CASE cursor <= deadline
  <2>1. cursor = deadline
    BY <1>1, <1>2
  <2> QED  BY <1>1, <2>1
<1>3. CASE cursor = paused
  <2>1. Worked(paused, cursor) = 0 /\ Worked(paused, deadline) = 0
    BY <1>1, <1>3, NothingWorked
  <2> QED  BY <1>1, <2>1
<1> QED  BY <1>1, <1>2, <1>3

LEMMA CalendarAtStart == Init => CalendarInv
<1> SUFFICES ASSUME Init PROVE CalendarInv
  OBVIOUS
<1>1. start \in Nat /\ hours \in Nat \ {0} /\ 0 \in 0 .. MaxRounds
  BY CalendarAssumption DEF Init
<1>2. Worked(start, start) = 0
  BY <1>1, NothingWorked
<1> QED  BY <1>1, <1>2 DEF Init, CalendarInv, TypeOK, Counts

LEMMA ResumeCounts ==
  ASSUME CalendarInv, Resume
  PROVE  CalendarInv'
<1>1. PICK p \in start .. LastMoment :
        paused' = p /\ resumed' \in p .. LastMoment /\ Begins("measuring", p, 0)
  BY DEF Resume
<1>2. start \in Nat /\ LastMoment \in Nat /\ MaxRounds \in Nat
  BY CalendarAssumption DEF CalendarInv, TypeOK
<1>3. p \in Nat /\ resumed' \in Nat
  BY <1>1, <1>2
<1>4. pc' = "measuring" /\ cursor' = p /\ amount' = 0 /\ rounds' = 0 /\ UNCHANGED <<inputs, deadline>>
  BY <1>1 DEF Begins, Resume
<1>5. Worked(p, p) = 0
  BY <1>3, NothingWorked
<1>6. Worked(p, p)' = 0
  BY <1>4, <1>5, SettingsStay DEF inputs
<1>7. Worked(paused, cursor)' = Worked(p, p)'
  BY <1>1, <1>4
<1> QED  BY <1>1, <1>2, <1>3, <1>4, <1>6, <1>7 DEF CalendarInv, TypeOK, inputs

LEMMA MeasureDoneCounts ==
  ASSUME CalendarInv, MeasureDone
  PROVE  CalendarInv'
<1>1. /\ pc = "measuring" /\ cursor >= deadline /\ UNCHANGED <<inputs, deadline, paused, resumed>>
      /\ amount = Worked(paused, deadline)
  BY MeasuredIs DEF MeasureDone
<1>2. amount \in Nat /\ resumed \in Nat /\ paused \in Nat /\ deadline \in Nat /\ MaxRounds \in Nat
  BY CalendarAssumption DEF CalendarInv, TypeOK
<1>3. CASE amount > 0
  <2>1. pc' = "moving" /\ cursor' = resumed /\ amount' = amount /\ rounds' = 0
    BY <1>3 DEF MeasureDone, Begins
  <2>2. Worked(resumed, resumed) = 0
    BY <1>2, NothingWorked
  <2>3. Worked(resumed, resumed)' = 0 /\ Worked(paused, deadline)' = amount
    <3>1. UNCHANGED <<workdays, holidays>>
      BY <1>1 DEF inputs
    <3>2. PICK r, p, d : r = resumed /\ p = paused /\ d = deadline
      OBVIOUS
    <3>3. Worked(r, r)' = Worked(r, r) /\ Worked(p, d)' = Worked(p, d)
      BY <3>1, SettingsStay
    <3>4. resumed' = r /\ paused' = p /\ deadline' = d
      BY <1>1, <3>2
    <3>5. Worked(resumed, resumed)' = Worked(r, r)' /\ Worked(paused, deadline)' = Worked(p, d)'
      BY <3>4
    <3> QED  BY <1>1, <2>2, <3>2, <3>3, <3>5
  <2>4. Worked(resumed, cursor)' = Worked(resumed, resumed)'
    BY <1>1, <2>1
  <2>5. Counts(resumed, Worked(paused, deadline))'
    BY <1>1, <1>2, <1>3, <2>1, <2>3, <2>4 DEF Counts
  <2>6. TypeOK'
    BY <1>1, <1>2, <2>1 DEF CalendarInv, TypeOK, inputs
  <2> QED  BY <2>1, <2>5, <2>6 DEF CalendarInv
<1>4. CASE ~(amount > 0)
  <2>1. pc' = "done" /\ UNCHANGED <<cursor, amount, rounds>>
    BY <1>4 DEF MeasureDone
  <2> QED  BY <1>1, <2>1 DEF CalendarInv, TypeOK, inputs
<1> QED  BY <1>3, <1>4

LEMMA FileDayCounts ==
  ASSUME CalendarInv, FileDay
  PROVE  CalendarInv'
<1>1. pc = "filing" /\ AddDay("filing", "filed")
  BY DEF FileDay, AddDay
<1>2. start \in Nat /\ hours \in Nat
  BY CalendarAssumption DEF CalendarInv, TypeOK
<1>3. PICK from, n : from = start /\ n = hours
  OBVIOUS
<1>4. from \in Nat /\ n \in Nat /\ Counts(from, n)
  BY <1>1, <1>2, <1>3 DEF CalendarInv
<1>5. /\ UNCHANGED <<inputs, paused, resumed>>
      /\ cursor' \in Nat /\ amount' \in Nat /\ rounds' \in 0 .. MaxRounds /\ deadline' \in Nat
      /\ \/ /\ pc' = "filed" /\ Exactly(from, deadline', n)
         \/ /\ pc' = "filing" /\ deadline' = deadline
            /\ from <= cursor' /\ amount' > 0 /\ Worked(from, cursor') + amount' = n
  BY <1>1, <1>4, DayAdds
<1>6. start' = from /\ hours' = n /\ UNCHANGED <<workdays, holidays>>
  BY <1>3, <1>5 DEF inputs
<1>7. TypeOK'
  BY <1>5 DEF CalendarInv, TypeOK, inputs
<1>8. PICK d, k : d = deadline' /\ k = cursor'
  OBVIOUS
<1>9. /\ Worked(from, d)' = Worked(from, d) /\ Worked(from, d - 1)' = Worked(from, d - 1)
      /\ Worked(from, k)' = Worked(from, k)
  BY <1>6, SettingsStay
<1>10. CASE pc' = "filed" /\ Exactly(from, deadline', n)
  <2>1. Worked(from, d)' = n /\ Worked(from, d - 1)' = n - 1
    BY <1>8, <1>9, <1>10 DEF Exactly
  <2>2. Worked(start, deadline)' = Worked(from, d)' /\ Worked(start, deadline - 1)' = Worked(from, d - 1)'
    BY <1>6, <1>8
  <2>3. Exactly(start, deadline, hours)'
    BY <1>6, <2>1, <2>2 DEF Exactly
  <2> QED  BY <1>7, <1>10, <2>3 DEF CalendarInv
<1>11. CASE pc' = "filing" /\ from <= cursor' /\ amount' > 0 /\ Worked(from, cursor') + amount' = n
  <2>1. Worked(start, cursor)' = Worked(from, k)'
    BY <1>6, <1>8
  <2>2. Counts(start, hours)'
    BY <1>6, <1>8, <1>9, <1>11, <2>1 DEF Counts
  <2> QED  BY <1>7, <1>11, <2>2 DEF CalendarInv
<1> QED  BY <1>5, <1>10, <1>11

\* Moving, by a day, to exactly what had been left at the pause.
LEMMA MoveDayCounts ==
  ASSUME CalendarInv, MoveDay
  PROVE  /\ CalendarInv'
         /\ pc' = "done" => Exactly(resumed, deadline', Worked(paused, deadline))
<1>1. pc = "moving" /\ AddDay("moving", "done")
  BY DEF MoveDay, AddDay
<1>2. resumed \in Nat /\ paused \in Nat /\ deadline \in Nat
  BY DEF CalendarInv, TypeOK
<1>3. PICK from, p, d : from = resumed /\ p = paused /\ d = deadline
  OBVIOUS
<1>4. PICK n : n = Worked(p, d)
  OBVIOUS
<1>5. from \in Nat /\ n \in Nat /\ Counts(from, n)
  <2>1. n \in Nat
    BY <1>2, <1>3, <1>4, WorkedIs
  <2> QED  BY <1>1, <1>2, <1>3, <1>4, <2>1 DEF CalendarInv
<1>6. /\ UNCHANGED <<inputs, paused, resumed>>
      /\ cursor' \in Nat /\ amount' \in Nat /\ rounds' \in 0 .. MaxRounds /\ deadline' \in Nat
      /\ \/ /\ pc' = "done" /\ Exactly(from, deadline', n)
         \/ /\ pc' = "moving" /\ deadline' = deadline
            /\ from <= cursor' /\ amount' > 0 /\ Worked(from, cursor') + amount' = n
  BY <1>1, <1>5, DayAdds
<1>7. resumed' = from /\ paused' = p /\ UNCHANGED <<workdays, holidays>>
  BY <1>3, <1>6 DEF inputs
<1>8. TypeOK'
  BY <1>6 DEF CalendarInv, TypeOK, inputs
<1>9. CASE pc' = "done" /\ Exactly(from, deadline', n)
  BY <1>3, <1>4, <1>8, <1>9 DEF CalendarInv
<1>10. CASE /\ pc' = "moving" /\ deadline' = deadline
            /\ from <= cursor' /\ amount' > 0 /\ Worked(from, cursor') + amount' = n
  <2>1. PICK k : k = cursor'
    OBVIOUS
  <2>2. Worked(from, k)' = Worked(from, k) /\ Worked(p, d)' = n
    BY <1>4, <1>7, SettingsStay
  <2>3. Worked(resumed, cursor)' = Worked(from, k)' /\ Worked(paused, deadline)' = Worked(p, d)'
    BY <1>3, <1>7, <1>10, <2>1
  <2>4. Counts(resumed, Worked(paused, deadline))'
    BY <1>7, <1>10, <2>1, <2>2, <2>3 DEF Counts
  <2> QED  BY <1>8, <1>10, <2>4 DEF CalendarInv
<1> QED  BY <1>6, <1>9, <1>10

LEMMA CalendarKept == CalendarInv /\ [Next]_vars => CalendarInv'
<1> SUFFICES ASSUME CalendarInv, [Next]_vars PROVE CalendarInv'
  OBVIOUS
<1>1. CASE UNCHANGED vars
  BY <1>1 DEF vars, CalendarInv, TypeOK, Counts, Exactly, Worked, IsWorkingDay, DateOf
<1>2. ASSUME NEW loop \in {"filing", "moving"}, AddFails(loop) PROVE CalendarInv'
  BY <1>2 DEF AddFails, CalendarInv, TypeOK, inputs
<1> QED
  BY <1>1, <1>2, FileDayCounts, MoveDayCounts, DayMeasured, MeasureDoneCounts, ResumeCounts DEF Next

(* DeadlineIsExact: add_working_time stops at the first moment by which    *)
(* the service's hours have passed on working days of the local zone, for  *)
(* every zone, day length, set of working days and of holidays.            *)
THEOREM DeadlinesAreExact == Spec => []DeadlineIsExact
<1>1. CalendarInv => DeadlineIsExact
  BY DEF CalendarInv, DeadlineIsExact
<1> QED  BY <1>1, CalendarAtStart, CalendarKept, PTL DEF Spec

(* RemainderIsExact: working_time_between measures the working hours that  *)
(* were left at the pause, none if the deadline was missed.                *)
THEOREM RemaindersAreExact == Spec => []RemainderIsExact
<1>1. CalendarInv => RemainderIsExact
  BY MeasuredIs DEF RemainderIsExact
<1> QED  BY <1>1, CalendarAtStart, CalendarKept, PTL DEF Spec

(* ReturnCostsNothing: _apply_status moves the deadline out by exactly the *)
(* working hours that were left at the pause, and leaves a missed one.     *)
THEOREM ReturnsCostNothing == Spec => ReturnCostsNothing
<1>1. ASSUME CalendarInv, [Next]_vars
      PROVE  [pc # "done" /\ pc' = "done" =>
                IF Worked(paused, deadline) > 0
                THEN Exactly(resumed, deadline', Worked(paused, deadline))
                ELSE deadline' = deadline]_vars
  <2> SUFFICES ASSUME Next, pc # "done", pc' = "done"
               PROVE  IF Worked(paused, deadline) > 0
                      THEN Exactly(resumed, deadline', Worked(paused, deadline))
                      ELSE deadline' = deadline
    BY <1>1
  <2>1. CASE MoveDay
    <3>1. Worked(paused, deadline) > 0
      <4>1. Counts(resumed, Worked(paused, deadline)) /\ amount \in Nat
            /\ resumed \in Int /\ cursor \in Int
        BY <1>1, <2>1 DEF MoveDay, AddDay, CalendarInv, TypeOK
      <4>2. Worked(resumed, cursor) \in Nat
        BY <4>1, WorkedIs
      <4> QED  BY <4>1, <4>2 DEF Counts
    <3> QED  BY <1>1, <2>1, <3>1, MoveDayCounts
  <2>2. CASE MeasureDone
    <3>1. amount = Worked(paused, deadline) /\ deadline' = deadline
      BY <1>1, <2>2, MeasuredIs DEF MeasureDone
    <3>2. ~(amount > 0)
      BY <2>2 DEF MeasureDone, Begins
    <3> QED  BY <3>1, <3>2
  <2> QED  BY <2>1, <2>2 DEF Next, FileDay, AddDay, MeasureDay, Resume, Begins, AddFails
<1> QED  BY <1>1, CalendarAtStart, CalendarKept, PTL DEF Spec, ReturnCostsNothing

=============================================================================
