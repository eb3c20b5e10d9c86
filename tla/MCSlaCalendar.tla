----------------------------- MODULE MCSlaCalendar -----------------------------
(* Small instances of SlaCalendar for TLC: a week from Monday on, five       *)
(* working days or, misconfigured, none.                                     *)
EXTENDS SlaCalendar

Weeks == {{0, 1, 2, 3, 4}, {}}
Week == 0 .. 6 * DayLength
Working == 1 .. 7

=============================================================================
