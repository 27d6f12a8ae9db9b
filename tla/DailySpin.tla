----------------------------- MODULE DailySpin -----------------------------
(***************************************************************************)
(* One person's day: the daily spin, the bonus spin, the post, the skip,   *)
(* the weekly goal that earns the bonus, and the time zone they all read   *)
(* (internal/spin and its PostgreSQL repository).                          *)
(*                                                                         *)
(* Every operation runs in Service.run: one transaction that holds the     *)
(* person's user_spin_state row FOR UPDATE, reads the stored zone and the  *)
(* clock once under that lock, and commits all of its writes or none.  So  *)
(* an operation is one action.  What the phone sends (the date and the     *)
(* spin number it believes in) is chosen freely: it may come from a screen *)
(* that is hours old, from a retry, or from a second phone.                *)
(*                                                                         *)
(* For each operation XxxAnswer is what the server says, with its checks   *)
(* in the order of the code; the action is the one answer that writes      *)
(* ("made").  Every other answer leaves the tables alone.                  *)
(***************************************************************************)
EXTENDS ZoneWindow, FiniteSetsExt, Functions

CONSTANTS
    Zones,      \* the zones the phone may report
    NoZone,     \* no zone stored yet
    Instants,   \* the hours at which something may happen
    Dates,      \* the local dates the requests name
    Seqs,       \* the spin numbers the requests name
    TestDates,  \* the dates the test tools may mark; {} where they are off
    Goal        \* posted days in a week that earn a bonus spin

ASSUME ZonesAssumption ==
    /\ Zones \subseteq Zone
    /\ NoZone \notin Zones

ASSUME InstantsAssumption == Instants \subseteq Nat

\* Dates holds every date the clock can show, and it is finite.
ASSUME DatesAssumption ==
    /\ Dates \subseteq Int
    /\ IsFiniteSet(Dates)
    /\ \A t \in Instants, z \in Zones : LocalDate(t, z) \in Dates

ASSUME TestDatesAssumption == TestDates \subseteq Dates

ASSUME SeqsAssumption == {0, 1} \subseteq Seqs /\ Seqs \subseteq Nat

ASSUME GoalAssumption == Goal \in 1 .. DaysInWeek

VARIABLES
    now,        \* the clock
    zone,       \* user_time_zones.tz_name
    spins,      \* table spins: <<date, seq>> to row; seq 0 is the daily spin
    posted,     \* table posted_days: date to row
    goalWeeks,  \* table goal_weeks: first day of the week to bonus_granted
    bonusHeld,  \* user_spin_state.bonus_held
    entries,    \* table entries: date to the seq of the spin it belongs to
    othersGone  \* dates whose daily spin has no other category left to draw:
                \* their rows of table wheel_categories are deleted

vars == <<now, zone, spins, posted, goalWeeks, bonusHeld, entries, othersGone>>

Results     == {"open", "posted", "skipped"}
NotSettled  == -1
MaxTestDayAge == 60
SpinRow     == [spunAt : Int, closesAt : Int, result : Results, settledAt : Int]
PostedRow   == [source : {"post", "test"}, late : BOOLEAN]

\* The table f with the row v under the key k.
Put(f, k, v) == [x \in DOMAIN f \cup {k} |-> IF x = k THEN v ELSE f[x]]

-----------------------------------------------------------------------------
(* What a transaction reads.                                               *)

Today == LocalDate(now, zone)

SeqsOf(d)     == {s \in Seqs : <<d, s>> \in DOMAIN spins}
HasSpin(d)    == SeqsOf(d) # {}
LatestSeq(d)  == Max(SeqsOf(d))
LatestSpin(d) == spins[<<d, LatestSeq(d)>>]

\* Mutant: a day is settled by its posted row alone.
SettledByPost(d) == d \in DOMAIN posted

\* A posted-day row, or a latest spin that is no longer open.
Settled(d) == d \in DOMAIN posted \/ (HasSpin(d) /\ LatestSpin(d).result # "open")

\* Mutant: a calendar day instead of 12 hours between two daily spins.
GapOfADate(t) == <<LocalDate(t, zone), 0>> \notin DOMAIN spins

\* At least 12 hours since the last daily spin, in whatever zone it was made.
GapAllowsSpin(t) ==
    \A k \in DOMAIN spins : k[2] = 0 => t - spins[k].spunAt >= MinSpinGap

-----------------------------------------------------------------------------
(* What the server answers, at instant t where the answer depends on it.   *)

SpinAnswerAt(t, date) ==
    LET today == LocalDate(t, zone) IN
    IF <<date, 0>> \in DOMAIN spins THEN "already"
    ELSE IF date < today THEN "closed"
    ELSE IF date > today THEN "not_open"
    \* The first spin rule: who never spun need not wait for 8:00 PM.
    ELSE IF t < OpensAt(today, zone) /\ DOMAIN spins # {} THEN "not_open"
    ELSE IF ~GapAllowsSpin(t) THEN "not_open"
    ELSE "made"

SpinAnswer(date) == SpinAnswerAt(now, date)

\* Mutant: the date is refused before the made bonus spin is looked for.
RefusedBonusAnswer(afterSeq, date) == IF date < Today THEN "closed" ELSE "not_open"

OtherDayBonusAnswer(afterSeq, date) ==
    IF HasSpin(date) /\ LatestSeq(date) > afterSeq THEN "already"
    ELSE IF date < Today THEN "closed"
    ELSE "not_open"

BonusAnswer(afterSeq, date) ==
    IF date # Today THEN OtherDayBonusAnswer(afterSeq, date)
    ELSE IF <<date, 0>> \notin DOMAIN spins THEN
        IF now < OpensAt(date, zone) THEN "not_open" ELSE "invalid"
    ELSE IF LatestSeq(date) > afterSeq THEN "already"
    ELSE IF afterSeq > LatestSeq(date) THEN "invalid"
    ELSE IF Settled(date) THEN "day_settled"
    ELSE IF LatestSeq(date) > 0 THEN "no_bonus"   \* the day's bonus is made
    ELSE IF bonusHeld = 0 THEN "no_bonus"
    \* PickOther finds nothing: the spend is rolled back.
    ELSE IF date \in othersGone THEN "no_other"
    ELSE "made"

\* The post of a photo list that no entry holds yet; the others are left out.
PostAnswer(date, seq) ==
    IF ~HasSpin(date) THEN "no_spin"
    ELSE IF Settled(date) THEN "day_settled"
    ELSE IF seq # LatestSeq(date) THEN "spin_changed"
    ELSE IF now >= LateUntil(date, zone) THEN "closed"
    ELSE IF date \in DOMAIN entries THEN "day_settled"
    ELSE IF date > Today THEN "not_open"
    ELSE "made"

SkipAnswer(date, seq) ==
    IF ~HasSpin(date) THEN "no_spin"
    ELSE IF LatestSpin(date).result = "skipped" /\ date \notin DOMAIN posted
         THEN "already"
    ELSE IF Settled(date) THEN "day_settled"
    ELSE IF seq # LatestSeq(date) THEN "spin_changed"
    ELSE IF now >= LateUntil(date, zone) THEN "closed"
    ELSE "made"

-----------------------------------------------------------------------------
(* What the operations write.                                              *)

NewSpin == [spunAt    |-> now,
            closesAt  |-> ClosesAt(Today, zone),
            result    |-> "open",
            settledAt |-> NotSettled]

SettleSpin(date, result) ==
    spins' = [spins EXCEPT ![<<date, LatestSeq(date)>>] =
                 [@ EXCEPT !.result = result, !.settledAt = now]]

PostedOfWeek(dates, w) == dates \cap DatesOfWeek(w)

\* Mutant: the week is counted before the day's own row is inserted.
GoalReachedBefore(w) ==
    Cardinality(PostedOfWeek(DOMAIN posted, w)) >= Goal /\ w \notin DOMAIN goalWeeks

\* The week's days, this one included, reach the goal for the first time.
GoalReached(w) ==
    Cardinality(PostedOfWeek(DOMAIN posted', w)) >= Goal /\ w \notin DOMAIN goalWeeks

\* Mutants: the purse is a counter; the week is recorded as paid either way.
GrantAnother(w) ==
    /\ goalWeeks' = Put(goalWeeks, w, bonusHeld = 0)
    /\ bonusHeld' = bonusHeld + 1
GrantUnasked(w) ==
    /\ goalWeeks' = Put(goalWeeks, w, TRUE)
    /\ bonusHeld' = 1

\* A week is recorded once, and pays a bonus spin only when none is held.
GrantBonus(w) ==
    /\ goalWeeks' = Put(goalWeeks, w, bonusHeld = 0)
    /\ bonusHeld' = 1

MarkPosted(date, source) ==
    /\ posted' = Put(posted, date, [source |-> source,
                                    late   |-> now >= ClosesAt(date, zone)])
    /\ IF GoalReached(WeekStart(date))
       THEN GrantBonus(WeekStart(date))
       ELSE UNCHANGED <<goalWeeks, bonusHeld>>

-----------------------------------------------------------------------------
(* The operations.                                                         *)

Tick ==
    /\ now' \in {t \in Instants : t > now}
    /\ UNCHANGED <<zone, spins, posted, goalWeeks, bonusHeld, entries, othersGone>>

SetTimeZone(z) ==
    /\ zone' = z
    /\ UNCHANGED <<now, spins, posted, goalWeeks, bonusHeld, entries, othersGone>>

Spin(date) ==
    /\ zone # NoZone
    /\ SpinAnswer(date) = "made"
    /\ spins' = Put(spins, <<date, 0>>, NewSpin)
    /\ UNCHANGED <<now, zone, posted, goalWeeks, bonusHeld, entries, othersGone>>

\* Which of the other categories is drawn is left out, not whether one is left.
Bonus(afterSeq, date) ==
    /\ zone # NoZone
    /\ BonusAnswer(afterSeq, date) = "made"
    /\ bonusHeld' = 0
    /\ spins' = Put(spins, <<date, LatestSeq(date) + 1>>, NewSpin)
    /\ UNCHANGED <<now, zone, posted, goalWeeks, entries, othersGone>>

\* A save of the wheel.  It archives what it leaves out, which still can be
\* drawn; at the cap of rows it first deletes for good the archived rows that
\* no spin names.  So what it may take from a day is its other categories,
\* archived by an earlier save, unless a bonus spin of the day keeps one.  Of
\* a settled day nothing is drawn again.
SaveWheel(dates) ==
    /\ \A d \in dates : HasSpin(d) /\ LatestSeq(d) = 0 /\ ~Settled(d)
    /\ othersGone' = othersGone \cup dates
    /\ UNCHANGED <<now, zone, spins, posted, goalWeeks, bonusHeld, entries>>

PostEntry(date, seq) ==
    /\ zone # NoZone
    /\ PostAnswer(date, seq) = "made"
    /\ entries' = Put(entries, date, LatestSeq(date))
    /\ MarkPosted(date, "post")
    /\ SettleSpin(date, "posted")
    /\ UNCHANGED <<now, zone, othersGone>>

SkipDay(date, seq) ==
    /\ zone # NoZone
    /\ SkipAnswer(date, seq) = "made"
    /\ SettleSpin(date, "skipped")
    /\ UNCHANGED <<now, zone, posted, goalWeeks, bonusHeld, entries, othersGone>>

\* Mutant: deleting the entry opens its day again.
DeleteAndReopen(date) ==
    /\ zone # NoZone
    /\ date \in DOMAIN entries
    /\ entries' = Restrict(entries, DOMAIN entries \ {date})
    /\ posted' = Restrict(posted, DOMAIN posted \ {date})
    /\ spins' = [spins EXCEPT ![<<date, LatestSeq(date)>>].result = "open"]
    /\ UNCHANGED <<now, zone, goalWeeks, bonusHeld, othersGone>>

\* The posted day and the spin's result stay: the day is not free again.
DeleteEntry(date) ==
    /\ zone # NoZone
    /\ date \in DOMAIN entries
    /\ entries' = Restrict(entries, DOMAIN entries \ {date})
    /\ UNCHANGED <<now, zone, spins, posted, goalWeeks, bonusHeld, othersGone>>

\* One pretend posted day of the test tools.  A call marks up to seven, one
\* after the other at one instant; nothing of this person can come between.
MarkTestDay(date) ==
    /\ zone # NoZone
    /\ date <= Today
    /\ Today - date <= MaxTestDayAge
    /\ date \notin DOMAIN posted
    /\ MarkPosted(date, "test")
    /\ UNCHANGED <<now, zone, spins, entries, othersGone>>

ResetTestData ==
    /\ entries' = <<>>
    /\ posted' = <<>>
    /\ spins' = <<>>
    /\ goalWeeks' = <<>>
    /\ bonusHeld' = 0
    /\ othersGone' = {}
    /\ UNCHANGED <<now, zone>>

Init ==
    /\ now \in Instants
    /\ zone = NoZone
    /\ spins = <<>>
    /\ posted = <<>>
    /\ goalWeeks = <<>>
    /\ bonusHeld = 0
    /\ entries = <<>>
    /\ othersGone = {}

Next ==
    \/ Tick
    \/ \E z \in Zones : SetTimeZone(z)
    \/ \E d \in Dates : Spin(d)
    \/ \E d \in Dates, s \in Seqs : Bonus(s, d)
    \/ \E ds \in SUBSET {d \in Dates : HasSpin(d)} : SaveWheel(ds)
    \/ \E d \in Dates, s \in Seqs : PostEntry(d, s)
    \/ \E d \in Dates, s \in Seqs : SkipDay(d, s)
    \/ \E d \in Dates : DeleteEntry(d)
    \/ \E d \in TestDates : MarkTestDay(d)
    \/ ResetTestData

Spec == Init /\ [][Next]_vars

-----------------------------------------------------------------------------
(* Type correctness.                                                       *)

TypeOK ==
    /\ now \in Instants
    /\ zone \in Zones \cup {NoZone}
    /\ DOMAIN spins \subseteq Dates \X {0, 1}
    /\ spins \in [DOMAIN spins -> SpinRow]
    /\ DOMAIN posted \subseteq Dates
    /\ posted \in [DOMAIN posted -> PostedRow]
    /\ DOMAIN goalWeeks \subseteq {WeekStart(d) : d \in Dates}
    /\ goalWeeks \in [DOMAIN goalWeeks -> BOOLEAN]
    /\ bonusHeld \in {0, 1}
    /\ DOMAIN entries \subseteq Dates
    /\ entries \in [DOMAIN entries -> {0, 1}]
    /\ othersGone \subseteq Dates

-----------------------------------------------------------------------------
(* Safety.                                                                 *)

\* The bonus purse: the bonus spin held now is the bonus spins ever granted
\* less those ever made.  No retry, second phone, rolled-back spend, week
\* reached while one is held, or reset makes or loses one.
BonusBalance ==
    bonusHeld = Cardinality({w \in DOMAIN goalWeeks : goalWeeks[w]})
                - Cardinality({k \in DOMAIN spins : k[2] > 0})

\* A week is recorded as paid exactly when it has its goal of posted days,
\* whichever of posts, late posts and pretend days filled it, in whatever
\* order, and whatever entries were deleted since.
GoalWeeksExact ==
    \A w \in {WeekStart(d) : d \in Dates} :
        w \in DOMAIN goalWeeks
            <=> Cardinality(PostedOfWeek(DOMAIN posted, w)) >= Goal

\* No two daily spins are less than 12 hours apart, whatever zones they were
\* made in: a change of zone buys no second spin.
SpinsTwelveHoursApart ==
    \A d1, d2 \in Dates :
        /\ d1 # d2
        /\ <<d1, 0>> \in DOMAIN spins
        /\ <<d2, 0>> \in DOMAIN spins
        => LET gap == spins[<<d1, 0>>].spunAt - spins[<<d2, 0>>].spunAt
           IN  gap >= MinSpinGap \/ -gap >= MinSpinGap

\* The tables of a day agree.  Only the latest spin of a day is ever settled;
\* it is posted exactly when the day's posted row came from a post; and an
\* entry hangs on the latest spin, which is posted.
DayAgrees(d) ==
    /\ \A s \in SeqsOf(d) : spins[<<d, s>>].result # "open" => s = LatestSeq(d)
    /\ (HasSpin(d) /\ LatestSpin(d).result = "posted")
           <=> (d \in DOMAIN posted /\ posted[d].source = "post")
    /\ d \in DOMAIN entries =>
           /\ HasSpin(d)
           /\ entries[d] = LatestSeq(d)
           /\ LatestSpin(d).result = "posted"

\* No interleaving of spins, bonus spins, posts, skips and deletions with
\* stale dates and spin numbers leaves the tables of any day in disagreement.
TablesAgree == \A d \in Dates : DayAgrees(d)

\* A settled day stays as it was settled: no later spin, post, skip, delete,
\* retry or zone change gives it another spin, another result or a second
\* entry.  (The test tools' reset clears the person's days altogether.)
SettledForGood ==
    [][ \/ ResetTestData
        \/ \A d \in Dates :
               HasSpin(d) /\ Settled(d) =>
                   /\ HasSpin(d)' /\ Settled(d)'
                   /\ LatestSeq(d)' = LatestSeq(d)
                   /\ LatestSpin(d)' = LatestSpin(d)
                   /\ d \in DOMAIN entries' => d \in DOMAIN entries
      ]_vars

\* A lost answer can be asked for again: once a daily or a bonus spin is
\* made, the same request gets "already" and nothing else, after midnight,
\* after the day is settled, and in any other zone.
RetryIsAnswered ==
    [][ \/ ResetTestData
        \/ \A d \in Dates :
               /\ Spin(d) \/ (zone # NoZone /\ SpinAnswer(d) = "already")
                  => SpinAnswer(d)' = "already"
               /\ \A s \in Seqs :
                      Bonus(s, d) \/ (zone # NoZone /\ BonusAnswer(s, d) = "already")
                      => BonusAnswer(s, d)' = "already"
      ]_vars
=============================================================================
