---------------------------- MODULE MCDailySpin ----------------------------
(***************************************************************************)
(* The instances of DailySpin that TLC checks.                             *)
(***************************************************************************)
EXTENDS TodayScreen

Fixed(offset) == [before |-> offset, after |-> offset, shift |-> 0]

\* Three evenings around a Sunday night (dates 5, 6 and 7: the Monday 7
\* begins a new week), and a home zone with two far ones.
TravelZones    == {Fixed(0), Fixed(-10), Fixed(9)}
TravelInstants == {24 * d + h : d \in 5 .. 7, h \in {10, 20}}
TravelDates    == 4 .. 8
\* Saves of a full wheel take the other categories of one day at most.
OneDayGone     == Cardinality(othersGone') <= 1

\* Four dates around the Sunday (date 6) in whose night the clock of the one
\* zone goes forward: two days of each of two weeks, so that with a goal of 2
\* the second week can be reached while the bonus spin of the first is held.
WeekZones    == {[before |-> 0, after |-> 1, shift |-> 24 * 6 + 26]}
WeekInstants == {24 * d + h : d \in 5 .. 8, h \in {12, 20}}
WeekDates    == 5 .. 8
WeekTestDates == {5, 7}
=============================================================================
