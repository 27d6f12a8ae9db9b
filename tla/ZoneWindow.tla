---------------------------- MODULE ZoneWindow ----------------------------
(***************************************************************************)
(* The spin window of a local date in a time zone (internal/spin           *)
(* window.go and week.go).  Pure: no variables.                            *)
(*                                                                         *)
(* The unit of time is the hour, so the product's constants keep their     *)
(* own values: the window opens at 20:00, a local day has 24 hours on the  *)
(* wall clock, two daily spins are 12 hours apart, a week has 7 days.      *)
(* An instant is an integer number of hours; a reading is what a wall      *)
(* clock shows, as hours since local midnight of date 0; date 0 is a       *)
(* Monday.  A zone has at most one clock change in the time modelled: its  *)
(* offset is `before` up to the instant `shift` and `after` from then on.  *)
(***************************************************************************)
EXTENDS Integers

OpenHour    == 20
MinSpinGap  == 12
DayHours    == 24
DaysInWeek  == 7

\* No zone is more than 16 hours from UTC (window.go, firstAtOrAfter).
Offsets == -16 .. 16
Zone    == [before : Offsets, after : Offsets, shift : Int]

Reading(t, z)   == t + (IF t < z.shift THEN z.before ELSE z.after)
LocalDate(t, z) == Reading(t, z) \div DayHours

\* The walk over the zone's periods: within a period the reading reaches
\* `civil` at civil minus the offset; a target jumped over by the change is
\* reached at the change.
FirstAtOrAfter(civil, z) ==
    IF civil - z.before < z.shift THEN civil - z.before
    ELSE IF civil - z.after < z.shift THEN z.shift
    ELSE civil - z.after

DayStart(d, z)  == FirstAtOrAfter(DayHours * d, z)
OpensAt(d, z)   == FirstAtOrAfter(DayHours * d + OpenHour, z)
ClosesAt(d, z)  == DayStart(d + 1, z)
LateUntil(d, z) == OpensAt(LocalDate(ClosesAt(d, z), z), z)
PrevDate(d, z)  == LocalDate(DayStart(d, z) - 1, z)

WeekStart(d)     == d - (d % DaysInWeek)
DatesOfWeek(w)   == w .. w + DaysInWeek - 1
=============================================================================
