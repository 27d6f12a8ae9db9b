---------------------------- MODULE PhoneBirthday ----------------------------
(***************************************************************************)
(* The birthday of a sign up: the three boxes of ProfileForm.tsx, the      *)
(* check on the phone (lib/profile/birthday.ts: "in the future" on the     *)
(* phone's own date, the age on the UTC date) and the server's             *)
(* (internal/user/birthdate.go), which judges again when the request       *)
(* arrives.  Time is the hours since midnight UTC two days before the day  *)
(* of signing up, late in that day; the phone's clock is right, in any     *)
(* zone.                                                                   *)
(***************************************************************************)
EXTENDS Integers

CONSTANTS
    Days,           \* each two days before a day of signing up
    Zones,          \* hours ahead of UTC
    Months, MonthDays, Years,   \* what may be typed; Blank is an empty box
    MaxBirthdayTaps,\* bound: boxes filled
    MaxHours        \* bound: hours that pass

Blank == -1
MinAge == 13
MinYear == 1900
Grace == 14
Evening == 70

VARIABLES
    baseDay, zone, hour,        \* the clock
    dateBoxes, birthdayError,       \* birthday, birthdayError
    signUp,                     \* submitSignup() under way
    birthdayTaps

clock == <<baseDay, zone, hour>>
vars == <<clock, dateBoxes, birthdayError, signUp, birthdayTaps>>

(* ---- dates -------------------------------------------------------------- *)

Date(y, m, d) == [y |-> y, m |-> m, d |-> d]
Leap(y) == y % 4 = 0 /\ (y % 100 # 0 \/ y % 400 = 0)
DaysIn(y, m) == IF m = 2 THEN (IF Leap(y) THEN 29 ELSE 28) ELSE IF m \in {4, 6, 9, 11} THEN 30 ELSE 31
Real(t) == t.m \in 1 .. 12 /\ t.d \in 1 .. DaysIn(t.y, t.m)
NextDay(t) ==
    IF t.d < DaysIn(t.y, t.m) THEN Date(t.y, t.m, t.d + 1)
    ELSE IF t.m < 12 THEN Date(t.y, t.m + 1, 1) ELSE Date(t.y + 1, 1, 1)
Later(a, b) == a.y > b.y \/ (a.y = b.y /\ (a.m > b.m \/ (a.m = b.m /\ a.d > b.d)))

\* The date in a zone that is z hours ahead.
DayAfter[n \in Nat] == IF n = 0 THEN baseDay ELSE NextDay(DayAfter[n - 1])
DateIn(z) == DayAfter[(hour + z) \div 24]
AgeOn(birth, today) ==
    today.y - birth.y - (IF Later([birth EXCEPT !.y = 0], [today EXCEPT !.y = 0]) THEN 1 ELSE 0)

(* ---- the two checks --------------------------------------------------------- *)

AgeDateLocal == DateIn(zone)            \* (mutant: the age on the phone's own date)
AgeDate == DateIn(0)
CheckBirthday(b) ==
    IF Blank \in {b.y, b.m, b.d} THEN "incomplete"
    ELSE IF b.m > 99 \/ b.d > 99 THEN "notReal"
    ELSE IF b.y > 9999 \/ b.y < MinYear THEN "year"
    ELSE IF ~Real(b) THEN "notReal"
    ELSE IF Later(b, DateIn(zone)) THEN "future"
    ELSE IF AgeOn(b, AgeDate) < MinAge THEN "underAge"
    ELSE "ok"
ServerCheck(b) ==
    IF ~Real(b) \/ b.y < MinYear THEN "invalid"
    ELSE IF Later(b, DateIn(Grace)) THEN "future"
    ELSE IF AgeOn(b, DateIn(0)) < MinAge THEN "under_minimum_age"
    ELSE "ok"
Line(b) == IF CheckBirthday(b) = "ok" THEN "none" ELSE CheckBirthday(b)

(* ---- the form, and time ---------------------------------------------------------- *)

Takes == birthdayTaps > 0 /\ birthdayTaps' = birthdayTaps - 1
\* A complete date is judged at once; a shorter one when a message already shows.
SetPart(b) ==
    /\ Takes /\ dateBoxes' = b
    /\ birthdayError' = IF (Blank \notin {b.y, b.m, b.d} /\ b.y > 999) \/ birthdayError # "none"
                        THEN Line(b) ELSE birthdayError
    /\ UNCHANGED <<clock, signUp>>
TypePart ==
    \/ \E m \in Months : SetPart([dateBoxes EXCEPT !.m = m])
    \/ \E d \in MonthDays : SetPart([dateBoxes EXCEPT !.d = d])
    \/ \E y \in Years : SetPart([dateBoxes EXCEPT !.y = y])
\* The year's box, or the last of all three, is left.
Leave ==
    /\ birthdayError' = Line(dateBoxes) /\ birthdayError' # birthdayError
    /\ UNCHANGED <<clock, dateBoxes, signUp, birthdayTaps>>
\* Continue looks at the date again.
SendSignUp ==
    /\ signUp.st = "none" /\ CheckBirthday(dateBoxes) = "ok"
    /\ signUp' = [st |-> "sent", birth |-> dateBoxes, said |-> "none"]
    /\ UNCHANGED <<clock, dateBoxes, birthdayError, birthdayTaps>>
SignUpServed ==
    /\ signUp.st = "sent" /\ signUp' = [signUp EXCEPT !.st = "judged", !.said = ServerCheck(signUp.birth)]
    /\ UNCHANGED <<clock, dateBoxes, birthdayError, birthdayTaps>>
HourPasses ==
    /\ hour < Evening + MaxHours /\ hour' = hour + 1
    /\ UNCHANGED <<baseDay, zone, dateBoxes, birthdayError, signUp, birthdayTaps>>

Init ==
    /\ baseDay \in Days /\ zone \in Zones /\ hour = Evening
    /\ dateBoxes = Date(Blank, Blank, Blank) /\ birthdayError = "none"
    /\ signUp = [st |-> "none", birth |-> Date(Blank, Blank, Blank), said |-> "none"]
    /\ birthdayTaps = MaxBirthdayTaps

Next == TypePart \/ Leave \/ SendSignUp \/ SignUpServed \/ HourPasses
LiveSpec == Init /\ [][Next]_vars /\ WF_vars(SignUpServed)

(* ---- properties -------------------------------------------------------------------- *)

\* A birthday the phone lets through is one the server takes, in every zone and whenever the request
\* arrives; and the phone holds back no full date that the server would take at that moment.
BirthdaysAgree ==
    /\ signUp.st = "judged" => signUp.said = "ok"
    /\ Blank \notin {dateBoxes.y, dateBoxes.m, dateBoxes.d} => (CheckBirthday(dateBoxes) = "ok" <=> ServerCheck(dateBoxes) = "ok")

\* A sign up is judged.
SigningUp == signUp.st = "sent"
SignUpSettles == SigningUp ~> ~SigningUp
=============================================================================
