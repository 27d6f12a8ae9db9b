---------------------------- MODULE TodayScreen ----------------------------
(***************************************************************************)
(* What the server tells the phone about the day, as state functions of    *)
(* DailySpin: the Today screen (todayIn and BuildToday) and the person's   *)
(* own part of the Board (BoardFacts).  The theorems and runs about it say *)
(* that the screens offer what the operations then accept, and nothing else.       *)
(***************************************************************************)
EXTENDS DailySpin

\* The clock changes of the tz database: a clock is put back by less than the
\* 20 hours from midnight to the opening, and forward by less than the four
\* hours of the evening, or else at midnight (Samoa skipped 2011-12-30 from
\* midnight to midnight).  A larger change in the middle of a day would jump
\* over an opening of a date that has begun.
ASSUME ClockChangesAssumption ==
    \A z \in Zones :
        /\ z.before - z.after < OpenHour
        /\ \/ z.after - z.before < DayHours - OpenHour
           \/ (z.shift + z.before) % DayHours = 0

Prev == PrevDate(Today, zone)

NeverSpun == DOMAIN spins = {}

\* The result the screen shows: a posted-day row hides the stored one.
ShownResult(d) == IF d \in DOMAIN posted THEN "posted" ELSE LatestSpin(d).result

\* Posted or skipped after its own window closed.
SettledAfterClose(d) ==
    /\ ShownResult(d) \in {"posted", "skipped"}
    /\ LatestSpin(d).settledAt # NotSettled
    /\ LatestSpin(d).settledAt >= LatestSpin(d).closesAt

StateOfResult(r) == IF r = "open" THEN "result" ELSE r

\* Mutant: the 12 hours are not asked for.
WheelOpensAtEight == NeverSpun \/ now >= OpensAt(Today, zone)

WheelIsOpen ==
    /\ NeverSpun \/ now >= OpensAt(Today, zone)
    /\ GapAllowsSpin(now)

InLateWindow(d) == HasSpin(d) /\ now < LateUntil(d, zone)

\* The first of the rules that holds decides the state of the screen.
TodayState ==
    IF HasSpin(Today) THEN StateOfResult(ShownResult(Today))
    ELSE IF WheelIsOpen THEN "open"
    ELSE IF InLateWindow(Prev) /\ ShownResult(Prev) = "open" THEN "late"
    ELSE IF InLateWindow(Prev) /\ SettledAfterClose(Prev) THEN ShownResult(Prev)
    ELSE "waiting"

\* The date of the spin the screen shows, where it shows one.
ShownDate == IF HasSpin(Today) THEN Today ELSE Prev

CanUseBonus ==
    /\ TodayState = "result"
    /\ ~Settled(Today)
    /\ bonusHeld = 1
    /\ LatestSeq(Today) = 0

\* Mutant: the next opening is 24 hours after this one.
NextOpenADayLater(t) ==
    LET d == LocalDate(t, zone) IN
    IF OpensAt(d, zone) > t THEN OpensAt(d, zone) ELSE OpensAt(d, zone) + DayHours

\* The first opening strictly after t.
NextOpen(t) ==
    LET d == LocalDate(t, zone) IN
    IF OpensAt(d, zone) > t THEN OpensAt(d, zone) ELSE LateUntil(d, zone)

LastDailySpunAt ==
    CHOOSE t \in {spins[k].spunAt : k \in {j \in DOMAIN spins : j[2] = 0}} :
        GapAllowsSpin(t + MinSpinGap)

\* Mutant: the 12 hours and today's own spin are forgotten.
NextOpenOfClock == NextOpen(now)

\* The countdown: at least 12 hours after the last daily spin, and past
\* today's own opening when today is already spun.
NextOpenAt ==
    LET earliest == LastDailySpunAt + MinSpinGap
        next     == IF ~NeverSpun /\ NextOpen(now) < earliest
                    THEN NextOpen(earliest - 1)
                    ELSE NextOpen(now)
    IN  IF HasSpin(Today) /\ next < ClosesAt(Today, zone)
        THEN LateUntil(Today, zone)
        ELSE next

-----------------------------------------------------------------------------
(* The Board.                                                              *)

\* The date of the last 8:00 PM that has passed.
DayInPlay ==
    IF now >= OpensAt(Today, zone) THEN Today ELSE Prev

\* Mutant: a first spin does not bring the Board to today.
BoardDayByClock == DayInPlay

\* Before 8:00 PM the Board is on the evening before, unless today is already
\* posted (a first spin), or the person has never spun.
BoardDay ==
    IF Today \in DOMAIN posted \/ NeverSpun THEN Today ELSE DayInPlay

BoardPosted  == BoardDay \in DOMAIN posted
BoardSkipped == /\ ~BoardPosted
                /\ HasSpin(BoardDay)
                /\ LatestSpin(BoardDay).result = "skipped"

BoardAction == CASE TodayState = "open"                -> "spin"
                 [] TodayState \in {"result", "late"}  -> "log"
                 [] OTHER                              -> "wait"

-----------------------------------------------------------------------------

HasZone == zone # NoZone

\* What Today offers, the server accepts, and what it accepts for today,
\* Today offers: the open wheel, the post and the skip of the shown spin, and
\* the bonus spin.  One offer is not taken: the bonus spin of a day whose
\* other categories are deleted for good, which CanUseBonus does not ask
\* about.  It is refused as "no_other", and nothing else that is offered is.
TodayOffersHold ==
    HasZone =>
        /\ TodayState = "open" <=> SpinAnswer(Today) = "made"
        /\ TodayState \in {"result", "late"} =>
               /\ PostAnswer(ShownDate, LatestSeq(ShownDate)) = "made"
               /\ SkipAnswer(ShownDate, LatestSeq(ShownDate)) = "made"
        /\ CanUseBonus /\ Today \notin othersGone
               <=> \E s \in Seqs : BonusAnswer(s, Today) = "made"
        /\ CanUseBonus /\ Today \in othersGone
               <=> \E s \in Seqs : BonusAnswer(s, Today) = "no_other"

\* The countdown ends at the first 8:00 PM that accepts a daily spin; the
\* one exception is a date that was already spun in a zone ahead of this one.
CountdownIsAnOpening ==
    HasZone /\ TodayState # "open" =>
        /\ NextOpenAt > now
        /\ NextOpenAt = OpensAt(LocalDate(NextOpenAt, zone), zone)
        /\ SpinAnswerAt(NextOpenAt, LocalDate(NextOpenAt, zone))
               \in {"made", "already"}
        /\ \A d \in Dates : OpensAt(d, zone) \in now + 1 .. NextOpenAt - 1
               => SpinAnswerAt(OpensAt(d, zone), d) # "made"

\* "Your next spin opens {weekday} at 8:00 PM" (CountdownBlock.tsx): the wheel
\* is closed until the countdown ends.
ClosedUntilCountdown ==
    HasZone /\ TodayState # "open" =>
        \A t \in now .. NextOpenAt - 1 :
            SpinAnswerAt(t, LocalDate(t, zone)) # "made"

\* The Board and Today speak of one day: a post that Today shows is on the
\* Board, "Spin first" is about the Board's own day, and a Board day that is
\* already posted or skipped is not offered for posting.
BoardAgrees ==
    HasZone =>
        /\ TodayState = "posted" => BoardPosted
        /\ BoardAction = "spin" => BoardDay = Today
        /\ BoardAction = "log" /\ BoardDay = ShownDate
               => ~BoardPosted /\ ~BoardSkipped

\* The Board's "Log your meal" is for the Board's own day (05-02-PLAN.md,
\* decision 3: Action is log "when the date's latest spin exists, is still
\* open and now is before that date's late_until").
LogIsForTheBoardDay ==
    HasZone /\ BoardAction = "log" => BoardDay = ShownDate
=============================================================================
