--------------------------- MODULE MCCalendarCache ---------------------------
(* A small instance of CalendarCache for TLC: one frequency, whose future  *)
(* calendar falls back to the current one.                                 *)
EXTENDS CalendarCache

CONSTANTS day, future

DayViews == {day, future}
DayFiles == {day, future}
SameFile == [v \in DayViews |-> v]
DayCurrent == [v \in DayViews |-> day]
Budgets == {[capacity |-> 2, cached |-> TRUE], [capacity |-> None, cached |-> FALSE]}
=============================================================================
