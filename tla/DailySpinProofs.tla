-------------------------- MODULE DailySpinProofs --------------------------
(***************************************************************************)
(* Theorems about DailySpin, for every set of zones, instants and dates,   *)
(* and every goal, and about what TodayScreen makes of it: what the server *)
(* tells the phone about the day, with the arithmetic of spin windows it   *)
(* rests on.                                                               *)
(***************************************************************************)
EXTENDS TodayScreen, FiniteSetTheorems, TLAPS

-----------------------------------------------------------------------------
(* The helpers.                                                            *)

\* A row put into a table: its keys and its rows.
LEMMA PutFacts ==
    ASSUME NEW f, NEW k, NEW v
    PROVE  /\ DOMAIN Put(f, k, v) = DOMAIN f \cup {k}
           /\ Put(f, k, v)[k] = v
           /\ \A x \in DOMAIN f \ {k} : Put(f, k, v)[x] = f[x]
BY DEF Put

\* A row of the table's type put into it leaves a table of that type.
LEMMA PutType ==
    ASSUME NEW f, NEW k, NEW S, NEW v \in S, f \in [DOMAIN f -> S]
    PROVE  Put(f, k, v) \in [DOMAIN Put(f, k, v) -> S]
BY DEF Put

\* A day has at most a daily and a bonus spin: the greater number is the latest.
LEMMA MaxOfSeqs ==
    ASSUME NEW S \in SUBSET {0, 1}, S # {}
    PROVE  Max(S) = IF 1 \in S THEN 1 ELSE 0
<1>1. CASE 1 \in S
  <2>1. 1 \in S /\ \A y \in S : 1 >= y
    BY <1>1
  <2>2. \A x \in S : (\A y \in S : x >= y) => x = 1
    BY <1>1
  <2> QED BY <2>1, <2>2, <1>1 DEF Max
<1>2. CASE 1 \notin S
  <2>1. S = {0}
    BY <1>2
  <2> QED BY <2>1 DEF Max
<1> QED BY <1>1, <1>2

\* The instants of a zone's days are integers.
LEMMA ZoneWindowType ==
    ASSUME NEW z \in Zone, NEW d \in Int, NEW t \in Int
    PROVE  /\ LocalDate(t, z) \in Int
           /\ DayStart(d, z) \in Int
           /\ OpensAt(d, z) \in Int
           /\ ClosesAt(d, z) \in Int
           /\ WeekStart(d) \in Int
<1>1. z.before \in Int /\ z.after \in Int /\ z.shift \in Int
  BY DEF Zone, Offsets
<1>2. \A c \in Int : FirstAtOrAfter(c, z) \in Int
  BY <1>1 DEF FirstAtOrAfter
<1>3. Reading(t, z) \in Int
  BY <1>1 DEF Reading
<1> QED BY <1>2, <1>3 DEF LocalDate, DayStart, OpensAt, ClosesAt, WeekStart,
                          DayHours, OpenHour, DaysInWeek

-----------------------------------------------------------------------------
(* The inductive invariant.                                                *)

\* A day's bonus spin stands on the day's daily spin, and there are no more.
SpinShape ==
    /\ DOMAIN spins \subseteq Dates \X {0, 1}
    /\ \A d \in Dates : <<d, 1>> \in DOMAIN spins => <<d, 0>> \in DOMAIN spins

IInv == TypeOK /\ SpinShape /\ TablesAgree

\* What the numbers of a day's spins come down to.
LEMMA DayFacts ==
    SpinShape =>
        \A d \in Dates :
            /\ HasSpin(d) <=> <<d, 0>> \in DOMAIN spins
            /\ HasSpin(d) =>
                   /\ LatestSeq(d) = IF <<d, 1>> \in DOMAIN spins THEN 1 ELSE 0
                   /\ LatestSeq(d) \in {0, 1}
                   /\ <<d, LatestSeq(d)>> \in DOMAIN spins
<1> SUFFICES ASSUME SpinShape, NEW d \in Dates
             PROVE  /\ HasSpin(d) <=> <<d, 0>> \in DOMAIN spins
                    /\ HasSpin(d) =>
                           /\ LatestSeq(d) = IF <<d, 1>> \in DOMAIN spins THEN 1 ELSE 0
                           /\ LatestSeq(d) \in {0, 1}
                           /\ <<d, LatestSeq(d)>> \in DOMAIN spins
  OBVIOUS
<1>1. SeqsOf(d) \in SUBSET {0, 1}
  BY DEF SpinShape, SeqsOf
<1>2. \A s \in {0, 1} : s \in SeqsOf(d) <=> <<d, s>> \in DOMAIN spins
  BY SeqsAssumption DEF SeqsOf
<1>3. HasSpin(d) <=> <<d, 0>> \in DOMAIN spins
  BY <1>1, <1>2 DEF HasSpin, SpinShape
<1>4. ASSUME HasSpin(d)
      PROVE  LatestSeq(d) = IF <<d, 1>> \in DOMAIN spins THEN 1 ELSE 0
  BY <1>1, <1>2, <1>4, MaxOfSeqs DEF HasSpin, LatestSeq
<1> QED BY <1>3, <1>4

\* DayAgrees by the rows themselves.
RowsAgree(d) ==
    LET k == <<d, IF <<d, 1>> \in DOMAIN spins THEN 1 ELSE 0>> IN
    /\ <<d, 1>> \in DOMAIN spins => spins[<<d, 0>>].result = "open"
    /\ (k \in DOMAIN spins /\ spins[k].result = "posted")
           <=> (d \in DOMAIN posted /\ posted[d].source = "post")
    /\ d \in DOMAIN entries =>
           k \in DOMAIN spins /\ entries[d] = k[2] /\ spins[k].result = "posted"

LEMMA DayAgreesByRows ==
    SpinShape => \A d \in Dates : DayAgrees(d) <=> RowsAgree(d)
<1> SUFFICES ASSUME SpinShape, NEW d \in Dates
             PROVE  DayAgrees(d) <=> RowsAgree(d)
  OBVIOUS
<1> DEFINE k == <<d, IF <<d, 1>> \in DOMAIN spins THEN 1 ELSE 0>>
<1>1. HasSpin(d) <=> k \in DOMAIN spins
  BY DayFacts DEF SpinShape
<1>2. HasSpin(d) => <<d, LatestSeq(d)>> = k
  BY DayFacts
<1>3. (\A s \in SeqsOf(d) : spins[<<d, s>>].result # "open" => s = LatestSeq(d))
      <=> (<<d, 1>> \in DOMAIN spins => spins[<<d, 0>>].result = "open")
  <2>1. \A s : s \in SeqsOf(d) <=> (s \in {0, 1} /\ <<d, s>> \in DOMAIN spins)
    BY SeqsAssumption DEF SeqsOf, SpinShape
  <2>2. SeqsOf(d) # {} => LatestSeq(d) = IF <<d, 1>> \in DOMAIN spins THEN 1 ELSE 0
    BY DayFacts DEF HasSpin
  <2> QED BY <2>1, <2>2, DayFacts DEF SpinShape
<1> QED BY <1>1, <1>2, <1>3 DEF DayAgrees, RowsAgree, LatestSpin

LEMMA InitIInv == Init => IInv
<1> SUFFICES ASSUME Init PROVE IInv
  OBVIOUS
<1>1. TypeOK
  BY DEF Init, TypeOK
<1>2. SpinShape
  BY DEF Init, SpinShape
<1>3. \A d \in Dates : RowsAgree(d)
  BY DEF Init, RowsAgree
<1> QED BY <1>1, <1>2, <1>3, DayAgreesByRows DEF IInv, TablesAgree

\* The invariant of the next state, by the rows.
LEMMA IInvNext ==
    TypeOK' /\ SpinShape' /\ (\A d \in Dates : RowsAgree(d)') => IInv'
<1>1. (SpinShape => \A d \in Dates : DayAgrees(d) <=> RowsAgree(d))'
  BY DayAgreesByRows, PTL
<1> QED BY <1>1 DEF IInv, TablesAgree

\* What the invariant says of the rows of a day.
DayShape ==
    \A d \in Dates :
        /\ RowsAgree(d)
        /\ HasSpin(d) <=> <<d, 0>> \in DOMAIN spins
        /\ HasSpin(d) =>
               /\ LatestSeq(d) = IF <<d, 1>> \in DOMAIN spins THEN 1 ELSE 0
               /\ <<d, LatestSeq(d)>> \in DOMAIN spins

LEMMA DayShapeHolds == IInv => DayShape
BY DayFacts, DayAgreesByRows DEF IInv, TablesAgree, DayShape

\* The same, day by day.
LEMMA IInvRows ==
    IInv => \A d \in Dates :
        /\ RowsAgree(d)
        /\ HasSpin(d) <=> <<d, 0>> \in DOMAIN spins
        /\ HasSpin(d) =>
               /\ LatestSeq(d) = IF <<d, 1>> \in DOMAIN spins THEN 1 ELSE 0
               /\ <<d, LatestSeq(d)>> \in DOMAIN spins
BY DayShapeHolds DEF DayShape

\* The clock: every operation that needs a zone finds today among the dates.
LEMMA TodayType ==
    ASSUME IInv, zone # NoZone
    PROVE  /\ Today \in Dates
           /\ zone \in Zone
           /\ now \in Int
           /\ NewSpin \in SpinRow
<1>1. now \in Instants /\ zone \in Zones
  BY DEF IInv, TypeOK
<1>2. now \in Int /\ zone \in Zone
  BY <1>1, InstantsAssumption, ZonesAssumption
<1>3. Today \in Dates
  BY <1>1, DatesAssumption DEF Today
<1>4. ClosesAt(Today, zone) \in Int
  BY <1>2, <1>3, DatesAssumption, ZoneWindowType
<1> QED BY <1>2, <1>3, <1>4 DEF NewSpin, SpinRow, Results, NotSettled

-----------------------------------------------------------------------------
(* Each operation keeps the invariant.                                     *)

\* A day whose own rows are left alone.
LEMMA OtherDay ==
    ASSUME SpinShape, NEW d \in Dates, RowsAgree(d),
           \A s \in {0, 1} :
               /\ <<d, s>> \in DOMAIN spins' <=> <<d, s>> \in DOMAIN spins
               /\ <<d, s>> \in DOMAIN spins => spins'[<<d, s>>] = spins[<<d, s>>],
           d \in DOMAIN posted' <=> d \in DOMAIN posted,
           d \in DOMAIN posted => posted'[d].source = posted[d].source,
           d \in DOMAIN entries' => d \in DOMAIN entries /\ entries'[d] = entries[d]
    PROVE  RowsAgree(d)'
<1>1. CASE <<d, 1>> \in DOMAIN spins
  <2>1. <<d, 0>> \in DOMAIN spins
    BY <1>1 DEF SpinShape
  <2> QED BY <1>1, <2>1 DEF RowsAgree
<1>2. CASE <<d, 1>> \notin DOMAIN spins
  BY <1>2 DEF RowsAgree
<1> QED BY <1>1, <1>2

LEMMA SpinKeeps == ASSUME IInv, NEW date \in Dates, Spin(date) PROVE IInv'
<1> USE DEF Spin
<1>1. <<date, 0>> \notin DOMAIN spins /\ date = Today
  BY TodayType, DatesAssumption DEF SpinAnswer, SpinAnswerAt, Today, IInv, TypeOK
<1>2. <<date, 1>> \notin DOMAIN spins
  BY <1>1 DEF IInv, SpinShape
<1>3. /\ DOMAIN spins' = DOMAIN spins \cup {<<date, 0>>}
      /\ spins'[<<date, 0>>] = NewSpin
      /\ \A k \in DOMAIN spins \ {<<date, 0>>} : spins'[k] = spins[k]
  BY DEF Put
<1>4. spins' \in [DOMAIN spins' -> SpinRow]
  BY TodayType, PutType DEF IInv, TypeOK
<1>5. TypeOK'
  BY <1>3, <1>4 DEF IInv, TypeOK
<1>6. SpinShape'
  BY <1>3 DEF IInv, SpinShape
<1>7. ASSUME NEW d \in Dates PROVE RowsAgree(d)'
  <2>1. RowsAgree(d)
    BY IInvRows
  <2>2. CASE d = date
    <3>1. <<d, 1>> \notin DOMAIN spins' /\ spins'[<<d, 0>>].result = "open"
      BY <1>2, <1>3, <2>2 DEF NewSpin
    <3>2. d \notin DOMAIN entries
      BY <1>1, <1>2, <2>1, <2>2 DEF RowsAgree
    <3>3. ~(d \in DOMAIN posted /\ posted[d].source = "post")
      BY <1>1, <1>2, <2>1, <2>2 DEF RowsAgree
    <3> QED BY <3>1, <3>2, <3>3 DEF RowsAgree
  <2>3. CASE d # date
    BY <1>3, <2>1, <2>3, OtherDay DEF IInv
  <2> QED BY <2>2, <2>3
<1> QED BY <1>5, <1>6, <1>7, IInvNext

LEMMA BonusKeeps ==
    ASSUME IInv, NEW date \in Dates, NEW afterSeq \in Seqs, Bonus(afterSeq, date)
    PROVE  IInv'
<1> USE DEF Bonus
<1>1. /\ <<date, 0>> \in DOMAIN spins
      /\ ~Settled(date)
      /\ ~(LatestSeq(date) > 0)
  <2>1. date = Today
    BY DEF BonusAnswer, OtherDayBonusAnswer
  <2> QED BY <2>1 DEF BonusAnswer
<1>2. HasSpin(date) /\ LatestSeq(date) = 0 /\ <<date, 1>> \notin DOMAIN spins
  <2>1. HasSpin(date)
    BY <1>1, IInvRows
  <2>2. LatestSeq(date) = IF <<date, 1>> \in DOMAIN spins THEN 1 ELSE 0
    BY <2>1, IInvRows
  <2> QED BY <1>1, <2>1, <2>2
<1>3. /\ DOMAIN spins' = DOMAIN spins \cup {<<date, 1>>}
      /\ spins'[<<date, 1>>] = NewSpin
      /\ \A k \in DOMAIN spins \ {<<date, 1>>} : spins'[k] = spins[k]
  BY <1>2 DEF Put
<1>4. spins' \in [DOMAIN spins' -> SpinRow]
  BY <1>2, TodayType, PutType DEF IInv, TypeOK
<1>5. TypeOK'
  BY <1>3, <1>4 DEF IInv, TypeOK
<1>6. SpinShape'
  BY <1>1, <1>3 DEF IInv, SpinShape
<1>7. spins[<<date, 0>>].result = "open" /\ date \notin DOMAIN posted
  BY <1>1, <1>2 DEF Settled, LatestSpin
<1>8. ASSUME NEW d \in Dates PROVE RowsAgree(d)'
  <2>1. RowsAgree(d)
    BY IInvRows
  <2>2. CASE d = date
    <3>1. <<d, 1>> \in DOMAIN spins' /\ spins'[<<d, 1>>].result = "open"
      BY <1>3, <2>2 DEF NewSpin
    <3>2. spins'[<<d, 0>>] = spins[<<d, 0>>]
      BY <1>1, <1>3, <2>2
    <3>3. d \notin DOMAIN entries
      BY <1>2, <1>7, <2>1, <2>2 DEF RowsAgree
    <3> QED BY <1>7, <2>2, <3>1, <3>2, <3>3 DEF RowsAgree
  <2>3. CASE d # date
    BY <1>3, <2>1, <2>3, OtherDay DEF IInv
  <2> QED BY <2>2, <2>3
<1> QED BY <1>5, <1>6, <1>8, IInvNext

\* The spin that is settled, and nothing else, changes.
LEMMA SettleFacts ==
    ASSUME IInv, NEW date \in Dates, HasSpin(date), NEW result \in Results,
           SettleSpin(date, result)
    PROVE  LET k == <<date, LatestSeq(date)>> IN
           /\ DOMAIN spins' = DOMAIN spins
           /\ k \in DOMAIN spins
           /\ spins'[k].result = result
           /\ spins'[k].spunAt = spins[k].spunAt
           /\ \A j \in DOMAIN spins \ {k} : spins'[j] = spins[j]
           /\ spins' \in [DOMAIN spins' -> SpinRow]
<1> DEFINE k   == <<date, LatestSeq(date)>>
           row == [spins[k] EXCEPT !.result = result, !.settledAt = now]
<1>1. k \in DOMAIN spins
  BY IInvRows
<1>2. spins' = [spins EXCEPT ![k] = row]
  BY DEF SettleSpin
<1>3. spins[k] \in SpinRow /\ now \in Int /\ spins \in [DOMAIN spins -> SpinRow]
  BY <1>1, InstantsAssumption DEF IInv, TypeOK
<1>4. row \in SpinRow /\ row.result = result /\ row.spunAt = spins[k].spunAt
  BY <1>3 DEF SpinRow
<1> QED BY <1>1, <1>2, <1>3, <1>4

\* The posted day, and the goal it may reach.
LEMMA MarkPostedFacts ==
    ASSUME IInv, zone # NoZone, NEW date \in Dates,
           NEW source \in {"post", "test"}, MarkPosted(date, source)
    PROVE  /\ DOMAIN posted' = DOMAIN posted \cup {date}
           /\ posted'[date].source = source
           /\ \A d \in DOMAIN posted \ {date} : posted'[d] = posted[d]
           /\ posted' \in [DOMAIN posted' -> PostedRow]
           /\ DOMAIN goalWeeks' \subseteq {WeekStart(d) : d \in Dates}
           /\ goalWeeks' \in [DOMAIN goalWeeks' -> BOOLEAN]
           /\ bonusHeld' \in {0, 1}
<1> DEFINE row == [source |-> source, late |-> now >= ClosesAt(date, zone)]
<1>1. posted' = Put(posted, date, row)
  BY DEF MarkPosted
<1>2. row \in PostedRow /\ row.source = source
  BY DEF PostedRow
<1>3. /\ DOMAIN posted' = DOMAIN posted \cup {date}
      /\ posted'[date].source = source
      /\ \A d \in DOMAIN posted \ {date} : posted'[d] = posted[d]
  BY <1>1, <1>2 DEF Put
<1>4. posted' \in [DOMAIN posted' -> PostedRow]
  BY <1>1, <1>2, PutType DEF IInv, TypeOK
<1>5. CASE GoalReached(WeekStart(date))
  <2>1. /\ goalWeeks' = Put(goalWeeks, WeekStart(date), bonusHeld = 0)
        /\ bonusHeld' = 1
    BY <1>5 DEF MarkPosted, GrantBonus
  <2>2. goalWeeks' \in [DOMAIN goalWeeks' -> BOOLEAN]
    BY <2>1, PutType DEF IInv, TypeOK
  <2>3. DOMAIN goalWeeks' = DOMAIN goalWeeks \cup {WeekStart(date)}
    BY <2>1 DEF Put
  <2> QED BY <1>3, <1>4, <2>1, <2>2, <2>3 DEF IInv, TypeOK
<1>6. CASE ~GoalReached(WeekStart(date))
  BY <1>3, <1>4, <1>6 DEF MarkPosted, IInv, TypeOK
<1> QED BY <1>5, <1>6

LEMMA PostKeeps ==
    ASSUME IInv, NEW date \in Dates, NEW seq \in Seqs, PostEntry(date, seq)
    PROVE  IInv'
<1> DEFINE k == <<date, LatestSeq(date)>>
<1> USE DEF PostEntry
<1>1. HasSpin(date) /\ ~Settled(date) /\ date \notin DOMAIN entries
  BY DEF PostAnswer
<1>2. /\ DOMAIN spins' = DOMAIN spins
      /\ k \in DOMAIN spins
      /\ spins'[k].result = "posted"
      /\ \A j \in DOMAIN spins \ {k} : spins'[j] = spins[j]
      /\ spins' \in [DOMAIN spins' -> SpinRow]
  BY <1>1, SettleFacts DEF Results
<1>3. /\ DOMAIN posted' = DOMAIN posted \cup {date}
      /\ posted'[date].source = "post"
      /\ \A d \in DOMAIN posted \ {date} : posted'[d] = posted[d]
      /\ posted' \in [DOMAIN posted' -> PostedRow]
      /\ DOMAIN goalWeeks' \subseteq {WeekStart(d) : d \in Dates}
      /\ goalWeeks' \in [DOMAIN goalWeeks' -> BOOLEAN]
      /\ bonusHeld' \in {0, 1}
  BY MarkPostedFacts
<1>4. LatestSeq(date) = (IF <<date, 1>> \in DOMAIN spins THEN 1 ELSE 0)
  BY <1>1, IInvRows
<1>5. /\ entries' = Put(entries, date, LatestSeq(date))
      /\ LatestSeq(date) \in {0, 1}
      /\ DOMAIN entries' = DOMAIN entries \cup {date}
      /\ entries'[date] = LatestSeq(date)
      /\ \A d \in DOMAIN entries \ {date} : entries'[d] = entries[d]
  BY <1>4 DEF Put
<1>6. TypeOK'
  <2>1. entries' \in [DOMAIN entries' -> {0, 1}]
    BY <1>5 DEF Put, IInv, TypeOK
  <2> QED BY <1>2, <1>3, <1>5, <2>1 DEF IInv, TypeOK
<1>7. SpinShape'
  BY <1>2 DEF IInv, SpinShape
<1>8. ASSUME NEW d \in Dates PROVE RowsAgree(d)'
  <2>1. RowsAgree(d)
    BY IInvRows
  <2>2. CASE d = date
    <3>1. <<d, 1>> \in DOMAIN spins => spins'[<<d, 0>>].result = "open"
      <4> SUFFICES ASSUME <<d, 1>> \in DOMAIN spins
                   PROVE  spins'[<<d, 0>>].result = "open"
        OBVIOUS
      <4>1. <<d, 0>> \in DOMAIN spins /\ <<d, 0>> # k
        BY <1>4, <2>2 DEF IInv, SpinShape
      <4> QED BY <1>2, <2>1, <4>1 DEF RowsAgree
    <3>2. k = <<d, IF <<d, 1>> \in DOMAIN spins' THEN 1 ELSE 0>>
      BY <1>2, <1>4, <2>2
    <3> QED BY <1>2, <1>3, <1>5, <2>2, <3>1, <3>2 DEF RowsAgree
  <2>3. CASE d # date
    <3>1. \A s \in {0, 1} : <<d, s>> # k
      BY <2>3
    <3> QED BY <1>2, <1>3, <1>5, <2>1, <2>3, <3>1, OtherDay DEF IInv
  <2> QED BY <2>2, <2>3
<1> QED BY <1>6, <1>7, <1>8, IInvNext

LEMMA SkipKeeps ==
    ASSUME IInv, NEW date \in Dates, NEW seq \in Seqs, SkipDay(date, seq)
    PROVE  IInv'
<1> DEFINE k == <<date, LatestSeq(date)>>
<1> USE DEF SkipDay
<1>1. HasSpin(date) /\ ~Settled(date)
  BY DEF SkipAnswer
<1>2. /\ DOMAIN spins' = DOMAIN spins
      /\ k \in DOMAIN spins
      /\ spins'[k].result = "skipped"
      /\ \A j \in DOMAIN spins \ {k} : spins'[j] = spins[j]
      /\ spins' \in [DOMAIN spins' -> SpinRow]
  BY <1>1, SettleFacts DEF Results
<1>3. LatestSeq(date) = (IF <<date, 1>> \in DOMAIN spins THEN 1 ELSE 0)
  BY <1>1, IInvRows
<1>4. date \notin DOMAIN posted /\ spins[k].result = "open"
  BY <1>1 DEF Settled, LatestSpin
<1>5. TypeOK'
  BY <1>2 DEF IInv, TypeOK
<1>6. SpinShape'
  BY <1>2 DEF IInv, SpinShape
<1>7. ASSUME NEW d \in Dates PROVE RowsAgree(d)'
  <2>1. RowsAgree(d)
    BY IInvRows
  <2>2. CASE d = date
    <3>1. <<d, 1>> \in DOMAIN spins => spins'[<<d, 0>>].result = "open"
      <4> SUFFICES ASSUME <<d, 1>> \in DOMAIN spins
                   PROVE  spins'[<<d, 0>>].result = "open"
        OBVIOUS
      <4>1. <<d, 0>> \in DOMAIN spins /\ <<d, 0>> # k
        BY <1>3, <2>2 DEF IInv, SpinShape
      <4> QED BY <1>2, <2>1, <4>1 DEF RowsAgree
    <3>2. k = <<d, IF <<d, 1>> \in DOMAIN spins' THEN 1 ELSE 0>>
      BY <1>2, <1>3, <2>2
    <3>3. d \notin DOMAIN entries
      BY <1>3, <1>4, <2>1, <2>2 DEF RowsAgree
    <3> QED BY <1>2, <1>4, <2>2, <3>1, <3>2, <3>3 DEF RowsAgree
  <2>3. CASE d # date
    <3>1. \A s \in {0, 1} : <<d, s>> # k
      BY <2>3
    <3> QED BY <1>2, <2>1, <2>3, <3>1, OtherDay DEF IInv
  <2> QED BY <2>2, <2>3
<1> QED BY <1>5, <1>6, <1>7, IInvNext

LEMMA DeleteKeeps ==
    ASSUME IInv, NEW date \in Dates, DeleteEntry(date) PROVE IInv'
<1> USE DEF DeleteEntry
<1>1. /\ DOMAIN entries' = DOMAIN entries \ {date}
      /\ \A d \in DOMAIN entries' : entries'[d] = entries[d]
      /\ entries' \in [DOMAIN entries' -> {0, 1}]
  BY DEF Restrict, IInv, TypeOK
<1>2. TypeOK'
  BY <1>1 DEF IInv, TypeOK
<1>3. SpinShape'
  BY DEF IInv, SpinShape
<1>4. ASSUME NEW d \in Dates PROVE RowsAgree(d)'
  BY <1>1, IInvRows, OtherDay DEF IInv
<1> QED BY <1>2, <1>3, <1>4, IInvNext

\* A pretend posted day is never the post of a day: its source says so.
LEMMA MarkTestKeeps ==
    ASSUME IInv, NEW date \in TestDates, MarkTestDay(date) PROVE IInv'
<1> USE DEF MarkTestDay
<1>1. date \in Dates /\ date \notin DOMAIN posted
  BY TestDatesAssumption
<1>2. /\ DOMAIN posted' = DOMAIN posted \cup {date}
      /\ posted'[date].source = "test"
      /\ \A d \in DOMAIN posted \ {date} : posted'[d] = posted[d]
      /\ posted' \in [DOMAIN posted' -> PostedRow]
      /\ DOMAIN goalWeeks' \subseteq {WeekStart(d) : d \in Dates}
      /\ goalWeeks' \in [DOMAIN goalWeeks' -> BOOLEAN]
      /\ bonusHeld' \in {0, 1}
  BY <1>1, MarkPostedFacts
<1>3. TypeOK'
  BY <1>1, <1>2 DEF IInv, TypeOK
<1>4. SpinShape'
  BY DEF IInv, SpinShape
<1>5. ASSUME NEW d \in Dates PROVE RowsAgree(d)'
  <2>1. RowsAgree(d)
    BY IInvRows
  <2>2. CASE d = date
    BY <1>1, <1>2, <2>1, <2>2 DEF RowsAgree
  <2>3. CASE d # date
    BY <1>2, <2>1, <2>3, OtherDay DEF IInv
  <2> QED BY <2>2, <2>3
<1> QED BY <1>3, <1>4, <1>5, IInvNext

LEMMA ResetKeeps == ASSUME IInv, ResetTestData PROVE IInv'
<1> USE DEF ResetTestData
<1>1. TypeOK'
  BY DEF IInv, TypeOK
<1>2. SpinShape'
  BY DEF SpinShape
<1>3. \A d \in Dates : RowsAgree(d)'
  BY DEF RowsAgree
<1> QED BY <1>1, <1>2, <1>3, IInvNext

\* A step that leaves the tables alone.
LEMMA ClockAndZoneKeep ==
    ASSUME IInv, UNCHANGED <<spins, posted, goalWeeks, bonusHeld, entries>>,
           now' \in Instants, zone' \in Zones \cup {NoZone},
           othersGone' \subseteq Dates
    PROVE  IInv'
<1>1. TypeOK' /\ SpinShape'
  BY DEF IInv, TypeOK, SpinShape
<1>2. \A d \in Dates : RowsAgree(d)'
  BY IInvRows DEF RowsAgree
<1> QED BY <1>1, <1>2, IInvNext

\* Every step keeps the invariant.
LEMMA NextKeeps == IInv /\ [Next]_vars => IInv'
<1> SUFFICES ASSUME IInv, [Next]_vars PROVE IInv'
  OBVIOUS
<1>0. now \in Instants /\ zone \in Zones \cup {NoZone} /\ othersGone \subseteq Dates
  BY DEF IInv, TypeOK
<1>1. CASE Tick
  BY <1>0, <1>1, ClockAndZoneKeep DEF Tick
<1>2. CASE \E z \in Zones : SetTimeZone(z)
  BY <1>0, <1>2, ClockAndZoneKeep DEF SetTimeZone
<1>3. CASE \E d \in Dates : Spin(d)
  BY <1>3, SpinKeeps
<1>4. CASE \E d \in Dates, s \in Seqs : Bonus(s, d)
  BY <1>4, BonusKeeps
<1>5. CASE \E d \in Dates, s \in Seqs : PostEntry(d, s)
  BY <1>5, PostKeeps
<1>6. CASE \E d \in Dates, s \in Seqs : SkipDay(d, s)
  BY <1>6, SkipKeeps
<1>7. CASE \E d \in Dates : DeleteEntry(d)
  BY <1>7, DeleteKeeps
<1>8. CASE \E d \in TestDates : MarkTestDay(d)
  BY <1>8, MarkTestKeeps
<1>9. CASE ResetTestData
  BY <1>9, ResetKeeps
<1>10. CASE UNCHANGED vars
  BY <1>0, <1>10, ClockAndZoneKeep DEF vars
<1>11. CASE \E ds \in SUBSET {d \in Dates : HasSpin(d)} : SaveWheel(ds)
  BY <1>0, <1>11, ClockAndZoneKeep DEF SaveWheel
<1> QED
  BY <1>1, <1>2, <1>3, <1>4, <1>5, <1>6, <1>7, <1>8, <1>9, <1>10, <1>11 DEF Next

THEOREM Invariance == Spec => []IInv
<1> QED BY InitIInv, NextKeeps, PTL DEF Spec

\* The tables and the clock hold what their columns may hold, for every
\* choice of zones, instants, dates and goal: a day has at most two spins,
\* the purse at most one bonus spin.
THEOREM TypeCorrect == Spec => []TypeOK
<1>1. IInv => TypeOK
  BY DEF IInv
<1> QED BY Invariance, <1>1, PTL

\* The tables of every day agree, always.
THEOREM TablesAlwaysAgree == Spec => []TablesAgree
<1>1. IInv => TablesAgree
  BY DEF IInv
<1> QED BY Invariance, <1>1, PTL

-----------------------------------------------------------------------------
(* Two daily spins are 12 hours apart.                                     *)

\* Only a daily spin and the reset change when the daily spins were made.
LEMMA DailySpinsStand ==
    ASSUME IInv, [Next]_vars, ~ResetTestData, \A d \in Dates : ~Spin(d)
    PROVE  \A d \in Dates :
               /\ <<d, 0>> \in DOMAIN spins' <=> <<d, 0>> \in DOMAIN spins
               /\ <<d, 0>> \in DOMAIN spins =>
                      spins'[<<d, 0>>].spunAt = spins[<<d, 0>>].spunAt
<1>1. ASSUME NEW date \in Dates, NEW s \in Seqs, Bonus(s, date) PROVE
          \A d \in Dates :
              /\ <<d, 0>> \in DOMAIN spins' <=> <<d, 0>> \in DOMAIN spins
              /\ <<d, 0>> \in DOMAIN spins => spins'[<<d, 0>>] = spins[<<d, 0>>]
  <2>1. /\ <<date, 0>> \in DOMAIN spins
        /\ ~(LatestSeq(date) > 0)
    <3>1. date = Today
      BY <1>1 DEF Bonus, BonusAnswer, OtherDayBonusAnswer
    <3> QED BY <1>1, <3>1 DEF Bonus, BonusAnswer
  <2>2. HasSpin(date) /\ LatestSeq(date) = IF <<date, 1>> \in DOMAIN spins THEN 1 ELSE 0
    BY <2>1, IInvRows
  <2>3. LatestSeq(date) + 1 = 1
    BY <2>1, <2>2
  <2> QED BY <1>1, <2>3 DEF Bonus, Put
<1>2. ASSUME NEW date \in Dates, HasSpin(date), NEW r \in Results,
             SettleSpin(date, r)
      PROVE  \A d \in Dates :
               /\ <<d, 0>> \in DOMAIN spins' <=> <<d, 0>> \in DOMAIN spins
               /\ <<d, 0>> \in DOMAIN spins =>
                      spins'[<<d, 0>>].spunAt = spins[<<d, 0>>].spunAt
  BY <1>2, SettleFacts
<1>3. ASSUME NEW date \in Dates, NEW s \in Seqs, PostEntry(date, s) PROVE
          HasSpin(date) /\ SettleSpin(date, "posted")
  BY <1>3 DEF PostEntry, PostAnswer
<1>4. ASSUME NEW date \in Dates, NEW s \in Seqs, SkipDay(date, s) PROVE
          HasSpin(date) /\ SettleSpin(date, "skipped")
  BY <1>4 DEF SkipDay, SkipAnswer
<1>5. CASE spins' = spins
  BY <1>5
<1> QED
  BY <1>1, <1>2, <1>3, <1>4, <1>5
     DEF Next, Tick, SetTimeZone, SaveWheel, DeleteEntry, MarkTestDay, vars, Results

LEMMA ApartKept == IInv /\ SpinsTwelveHoursApart /\ [Next]_vars
                   => SpinsTwelveHoursApart'
<1> SUFFICES ASSUME IInv, SpinsTwelveHoursApart, [Next]_vars
             PROVE  SpinsTwelveHoursApart'
  OBVIOUS
<1>1. CASE ResetTestData
  BY <1>1 DEF ResetTestData, SpinsTwelveHoursApart
<1>2. ASSUME NEW date \in Dates, Spin(date) PROVE SpinsTwelveHoursApart'
  <2>1. /\ DOMAIN spins' = DOMAIN spins \cup {<<date, 0>>}
        /\ spins'[<<date, 0>>].spunAt = now
        /\ \A k \in DOMAIN spins \ {<<date, 0>>} : spins'[k] = spins[k]
    BY <1>2 DEF Spin, Put, NewSpin
  <2>2. GapAllowsSpin(now)
    BY <1>2 DEF Spin, SpinAnswer, SpinAnswerAt
  <2>3. \A d \in Dates : <<d, 0>> \in DOMAIN spins =>
            now - spins[<<d, 0>>].spunAt >= MinSpinGap
    BY <2>2 DEF GapAllowsSpin
  <2>4. now \in Int /\ \A d \in Dates : <<d, 0>> \in DOMAIN spins =>
            spins[<<d, 0>>].spunAt \in Int
    BY InstantsAssumption DEF IInv, TypeOK, SpinRow
  <2> QED BY <2>1, <2>3, <2>4 DEF SpinsTwelveHoursApart, MinSpinGap
<1>3. CASE ~ResetTestData /\ \A d \in Dates : ~Spin(d)
  BY <1>3, DailySpinsStand DEF SpinsTwelveHoursApart
<1> QED BY <1>1, <1>2, <1>3

\* However a person travels, two daily spins are at least 12 hours apart.
THEOREM AlwaysTwelveHoursApart == Spec => []SpinsTwelveHoursApart
<1>1. Init => SpinsTwelveHoursApart
  BY DEF Init, SpinsTwelveHoursApart
<1> QED BY Invariance, <1>1, ApartKept, PTL DEF Spec

-----------------------------------------------------------------------------
(* A settled day stays settled.                                            *)

\* What SettledForGood says of one day in one step.
SettledDayStands(d) ==
    HasSpin(d) /\ Settled(d) =>
        /\ HasSpin(d)' /\ Settled(d)'
        /\ LatestSeq(d)' = LatestSeq(d)
        /\ LatestSpin(d)' = LatestSpin(d)
        /\ d \in DOMAIN entries' => d \in DOMAIN entries

\* A day whose spins are left alone, and whose posted row is not removed.
LEMMA UntouchedDayStands ==
    ASSUME IInv, IInv', NEW d \in Dates,
           \A s \in {0, 1} :
               /\ <<d, s>> \in DOMAIN spins' <=> <<d, s>> \in DOMAIN spins
               /\ <<d, s>> \in DOMAIN spins => spins'[<<d, s>>] = spins[<<d, s>>],
           d \in DOMAIN posted => d \in DOMAIN posted',
           d \in DOMAIN entries' => d \in DOMAIN entries
    PROVE  SettledDayStands(d)
<1>1. (IInv => DayShape)'
  BY DayShapeHolds, PTL
<1>2. HasSpin(d)' <=> HasSpin(d)
  BY <1>1, IInvRows DEF DayShape
<1>3. HasSpin(d) => LatestSeq(d)' = LatestSeq(d) /\ LatestSeq(d) \in {0, 1}
  BY <1>1, <1>2, IInvRows DEF DayShape
<1>4. HasSpin(d) => LatestSpin(d)' = LatestSpin(d)
  BY <1>3, IInvRows DEF LatestSpin
<1> QED BY <1>2, <1>3, <1>4 DEF SettledDayStands, Settled

LEMMA SettledStands ==
    ASSUME IInv, [Next]_vars, ~ResetTestData, NEW d \in Dates
    PROVE  SettledDayStands(d)
<1>0. IInv'
  BY NextKeeps
<1>1. ASSUME NEW date \in Dates, Spin(date) PROVE SettledDayStands(d)
  <2>1. <<date, 0>> \notin DOMAIN spins
    BY <1>1 DEF Spin, SpinAnswer, SpinAnswerAt
  <2>2. \A k \in DOMAIN spins : spins'[k] = spins[k]
    BY <1>1, <2>1 DEF Spin, Put
  <2>3. DOMAIN spins' = DOMAIN spins \cup {<<date, 0>>}
    BY <1>1 DEF Spin, Put
  <2>4. CASE d = date
    BY <2>1, <2>4, IInvRows DEF SettledDayStands
  <2>5. CASE d # date
    BY <1>0, <1>1, <2>2, <2>3, <2>5, UntouchedDayStands DEF Spin
  <2> QED BY <2>4, <2>5
<1>2. ASSUME NEW date \in Dates, NEW s \in Seqs, Bonus(s, date)
      PROVE  SettledDayStands(d)
  <2>1. ~Settled(date)
    <3>1. date = Today
      BY <1>2 DEF Bonus, BonusAnswer, OtherDayBonusAnswer
    <3> QED BY <1>2, <3>1 DEF Bonus, BonusAnswer
  <2>2. DOMAIN spins' = DOMAIN spins \cup {<<date, LatestSeq(date) + 1>>}
    BY <1>2 DEF Bonus, Put
  <2>3. \A k \in DOMAIN spins : k[1] # date => spins'[k] = spins[k]
    BY <1>2 DEF Bonus, Put
  <2>4. CASE d = date
    BY <2>1, <2>4 DEF SettledDayStands
  <2>5. CASE d # date
    BY <1>0, <1>2, <2>2, <2>3, <2>5, UntouchedDayStands DEF Bonus
  <2> QED BY <2>4, <2>5
<1>3. ASSUME NEW date \in Dates, HasSpin(date), ~Settled(date),
             NEW r \in Results, SettleSpin(date, r),
             d \in DOMAIN posted => d \in DOMAIN posted',
             d # date /\ d \in DOMAIN entries' => d \in DOMAIN entries
      PROVE  SettledDayStands(d)
  <2>1. CASE d = date
    BY <1>3, <2>1 DEF SettledDayStands
  <2>2. CASE d # date
    <3>1. \A s \in {0, 1} : <<d, s>> # <<date, LatestSeq(date)>>
      BY <2>2
    <3> QED BY <1>0, <1>3, <2>2, <3>1, SettleFacts, UntouchedDayStands
  <2> QED BY <2>1, <2>2
<1>4. ASSUME NEW date \in Dates, NEW s \in Seqs, PostEntry(date, s)
      PROVE  SettledDayStands(d)
  <2>1. HasSpin(date) /\ ~Settled(date)
    BY <1>4 DEF PostEntry, PostAnswer
  <2>2. d \in DOMAIN posted => d \in DOMAIN posted'
    BY <1>4 DEF PostEntry, MarkPosted, Put
  <2>3. d # date /\ d \in DOMAIN entries' => d \in DOMAIN entries
    BY <1>4 DEF PostEntry, Put
  <2> QED BY <1>3, <1>4, <2>1, <2>2, <2>3 DEF PostEntry, Results
<1>5. ASSUME NEW date \in Dates, NEW s \in Seqs, SkipDay(date, s)
      PROVE  SettledDayStands(d)
  <2>1. HasSpin(date) /\ ~Settled(date)
    BY <1>5 DEF SkipDay, SkipAnswer
  <2> QED BY <1>3, <1>5, <2>1 DEF SkipDay, Results
<1>6. ASSUME NEW date \in Dates, DeleteEntry(date) PROVE SettledDayStands(d)
  <2>1. d \in DOMAIN entries' => d \in DOMAIN entries
    BY <1>6 DEF DeleteEntry, Restrict
  <2> QED BY <1>0, <1>6, <2>1, UntouchedDayStands DEF DeleteEntry
<1>7. ASSUME NEW date \in TestDates, MarkTestDay(date) PROVE SettledDayStands(d)
  <2>1. d \in DOMAIN posted => d \in DOMAIN posted'
    BY <1>7 DEF MarkTestDay, MarkPosted, Put
  <2> QED BY <1>0, <1>7, <2>1, UntouchedDayStands DEF MarkTestDay
<1>8. CASE UNCHANGED <<spins, posted, entries>>
  BY <1>0, <1>8, UntouchedDayStands
<1> QED
  BY <1>1, <1>2, <1>4, <1>5, <1>6, <1>7, <1>8 DEF Next, Tick, SetTimeZone, SaveWheel, vars

\* Only the test tools' reset ever reopens, respins or rewrites a settled day.
THEOREM SettledIsForGood == Spec => SettledForGood
<1>1. IInv /\ [Next]_vars =>
          [ResetTestData \/ \A d \in Dates :
               HasSpin(d) /\ Settled(d) =>
                   /\ HasSpin(d)' /\ Settled(d)'
                   /\ LatestSeq(d)' = LatestSeq(d)
                   /\ LatestSpin(d)' = LatestSpin(d)
                   /\ d \in DOMAIN entries' => d \in DOMAIN entries]_vars
  BY SettledStands DEF SettledDayStands
<1> QED BY Invariance, <1>1, PTL DEF Spec, SettledForGood

-----------------------------------------------------------------------------
(* The bonus purse.                                                        *)

PaidWeeks  == {w \in DOMAIN goalWeeks : goalWeeks[w]}
BonusSpins == {k \in DOMAIN spins : k[2] > 0}

\* The balance, with what makes its two counts numbers.
PurseInv ==
    /\ IsFiniteSet(PaidWeeks)
    /\ IsFiniteSet(BonusSpins)
    /\ bonusHeld = Cardinality(PaidWeeks) - Cardinality(BonusSpins)

\* Marking a day posted pays at most one bonus spin, into an empty purse.
LEMMA MarkPostedKeepsPurse ==
    ASSUME IInv, PurseInv, NEW date, NEW source, MarkPosted(date, source),
           BonusSpins' = BonusSpins
    PROVE  PurseInv'
<1> DEFINE w == WeekStart(date)
<1>0. /\ Cardinality(PaidWeeks) \in Nat
      /\ Cardinality(BonusSpins) \in Nat
      /\ bonusHeld \in {0, 1}
  BY FS_CardinalityType DEF PurseInv, IInv, TypeOK
<1>1. CASE GoalReached(w)
  <2>1. /\ goalWeeks' = Put(goalWeeks, w, bonusHeld = 0)
        /\ bonusHeld' = 1
        /\ w \notin DOMAIN goalWeeks
    BY <1>1 DEF MarkPosted, GrantBonus, GoalReached
  <2>2. /\ DOMAIN goalWeeks' = DOMAIN goalWeeks \cup {w}
        /\ \A x \in DOMAIN goalWeeks : goalWeeks'[x] = goalWeeks[x]
        /\ goalWeeks'[w] = (bonusHeld = 0)
    BY <2>1 DEF Put
  <2>3. CASE bonusHeld = 0
    <3>1. PaidWeeks' = PaidWeeks \cup {w} /\ w \notin PaidWeeks
      BY <2>1, <2>2, <2>3 DEF PaidWeeks
    <3>2. /\ IsFiniteSet(PaidWeeks')
          /\ Cardinality(PaidWeeks') = Cardinality(PaidWeeks) + 1
      BY <3>1, FS_AddElement DEF PurseInv
    <3> QED BY <1>0, <2>1, <2>3, <3>2 DEF PurseInv
  <2>4. CASE bonusHeld # 0
    <3>1. PaidWeeks' = PaidWeeks
      BY <2>1, <2>2, <2>4 DEF PaidWeeks
    <3> QED BY <1>0, <2>1, <2>4, <3>1 DEF PurseInv
  <2> QED BY <2>3, <2>4
<1>2. CASE ~GoalReached(w)
  BY <1>2 DEF MarkPosted, PurseInv, PaidWeeks
<1> QED BY <1>1, <1>2

LEMMA BonusKeepsPurse ==
    ASSUME IInv, PurseInv, NEW date \in Dates, NEW s \in Seqs, Bonus(s, date)
    PROVE  PurseInv'
<1>1. /\ <<date, 0>> \in DOMAIN spins
      /\ ~(LatestSeq(date) > 0)
      /\ bonusHeld # 0
  <2>1. date = Today
    BY DEF Bonus, BonusAnswer, OtherDayBonusAnswer
  <2> QED BY <2>1 DEF Bonus, BonusAnswer
<1>2. LatestSeq(date) = 0 /\ <<date, 1>> \notin DOMAIN spins
  <2>1. HasSpin(date)
    BY <1>1, IInvRows
  <2>2. LatestSeq(date) = IF <<date, 1>> \in DOMAIN spins THEN 1 ELSE 0
    BY <2>1, IInvRows
  <2> QED BY <1>1, <2>1, <2>2
<1>3. DOMAIN spins' = DOMAIN spins \cup {<<date, 1>>}
  BY <1>2 DEF Bonus, Put
<1>4. BonusSpins' = BonusSpins \cup {<<date, 1>>} /\ <<date, 1>> \notin BonusSpins
  BY <1>2, <1>3 DEF BonusSpins
<1>5. /\ IsFiniteSet(BonusSpins')
      /\ Cardinality(BonusSpins') = Cardinality(BonusSpins) + 1
  BY <1>4, FS_AddElement DEF PurseInv
<1>6. PaidWeeks' = PaidWeeks /\ bonusHeld' = 0 /\ bonusHeld = 1
  BY <1>1 DEF Bonus, PaidWeeks, IInv, TypeOK
<1>7. Cardinality(PaidWeeks) \in Nat /\ Cardinality(BonusSpins) \in Nat
  BY FS_CardinalityType DEF PurseInv
<1> QED BY <1>5, <1>6, <1>7 DEF PurseInv

LEMMA PurseKept == IInv /\ PurseInv /\ [Next]_vars => PurseInv'
<1> SUFFICES ASSUME IInv, PurseInv, [Next]_vars PROVE PurseInv'
  OBVIOUS
<1>1. ASSUME NEW date \in Dates, NEW s \in Seqs, Bonus(s, date) PROVE PurseInv'
  BY <1>1, BonusKeepsPurse
<1>2. ASSUME NEW date \in Dates, NEW s \in Seqs, PostEntry(date, s) PROVE PurseInv'
  <2>1. DOMAIN spins' = DOMAIN spins
    BY <1>2 DEF PostEntry, SettleSpin
  <2>2. BonusSpins' = BonusSpins
    BY <2>1 DEF BonusSpins
  <2> QED BY <1>2, <2>2, MarkPostedKeepsPurse DEF PostEntry
<1>3. ASSUME NEW date \in TestDates, MarkTestDay(date) PROVE PurseInv'
  <2>1. BonusSpins' = BonusSpins
    BY <1>3 DEF MarkTestDay, BonusSpins
  <2> QED BY <1>3, <2>1, MarkPostedKeepsPurse DEF MarkTestDay
<1>4. CASE ResetTestData
  <2>1. PaidWeeks' = {} /\ BonusSpins' = {} /\ bonusHeld' = 0
    BY <1>4 DEF ResetTestData, PaidWeeks, BonusSpins
  <2> QED BY <2>1, FS_EmptySet DEF PurseInv
<1>5. ASSUME UNCHANGED <<goalWeeks, bonusHeld>>, BonusSpins' = BonusSpins
      PROVE  PurseInv'
  BY <1>5 DEF PurseInv, PaidWeeks
<1>6. ASSUME NEW date \in Dates, Spin(date) PROVE PurseInv'
  <2>1. DOMAIN spins' = DOMAIN spins \cup {<<date, 0>>}
    BY <1>6 DEF Spin, Put
  <2>2. BonusSpins' = BonusSpins
    BY <2>1 DEF BonusSpins
  <2> QED BY <1>5, <1>6, <2>2 DEF Spin
<1>7. ASSUME NEW date \in Dates, NEW s \in Seqs, SkipDay(date, s) PROVE PurseInv'
  <2>1. DOMAIN spins' = DOMAIN spins
    BY <1>7 DEF SkipDay, SettleSpin
  <2>2. BonusSpins' = BonusSpins
    BY <2>1 DEF BonusSpins
  <2> QED BY <1>5, <1>7, <2>2 DEF SkipDay
<1>8. CASE UNCHANGED <<goalWeeks, bonusHeld, spins>>
  BY <1>5, <1>8 DEF BonusSpins
<1> QED
  BY <1>1, <1>2, <1>3, <1>4, <1>6, <1>7, <1>8
     DEF Next, Tick, SetTimeZone, SaveWheel, DeleteEntry, vars

\* No bonus spin is ever lost or made from nothing.
THEOREM PurseBalances == Spec => []BonusBalance
<1>1. Init => PurseInv
  <2>1. Init => PaidWeeks = {} /\ BonusSpins = {} /\ bonusHeld = 0
    BY DEF Init, PaidWeeks, BonusSpins
  <2> QED BY <2>1, FS_EmptySet DEF PurseInv
<1>2. PurseInv => BonusBalance
  BY DEF PurseInv, BonusBalance, PaidWeeks, BonusSpins
<1> QED BY Invariance, <1>1, <1>2, PurseKept, PTL DEF Spec

-----------------------------------------------------------------------------
(* The weeks that reached their goal.                                      *)

\* A date belongs to the week that starts on its Monday and to no other.
LEMMA WeekOfADate ==
    ASSUME NEW d \in Int, NEW e \in Int
    PROVE  /\ WeekStart(d) \in Int
           /\ d \in DatesOfWeek(WeekStart(d))
           /\ e \in DatesOfWeek(WeekStart(d)) => WeekStart(e) = WeekStart(d)
BY DEF WeekStart, DatesOfWeek, DaysInWeek

\* What is counted is finite.
LEMMA PostedOfWeekIsFinite ==
    ASSUME NEW S \in SUBSET Dates, NEW w
    PROVE  IsFiniteSet(PostedOfWeek(S, w)) /\ Cardinality(PostedOfWeek(S, w)) \in Int
<1>1. IsFiniteSet(S)
  BY FS_Subset, DatesAssumption
<1>2. IsFiniteSet(S \cap DatesOfWeek(w))
  BY <1>1, FS_Intersection
<1> QED BY <1>2, FS_CardinalityType DEF PostedOfWeek

\* Marking a day posted records its own week exactly when that day fills it.
LEMMA MarkPostedKeepsWeeks ==
    ASSUME TypeOK, TypeOK', GoalWeeksExact, NEW date \in Dates, NEW source,
           MarkPosted(date, source)
    PROVE  GoalWeeksExact'
<1> DEFINE Before(w) == PostedOfWeek(DOMAIN posted, w)
           After(w)  == PostedOfWeek(DOMAIN posted', w)
<1>1. DOMAIN posted' = DOMAIN posted \cup {date}
  BY DEF MarkPosted, Put
<1>2. \A v : v = WeekStart(date) =>
        /\ v \notin DOMAIN goalWeeks /\ Cardinality(After(v)) >= Goal
             => DOMAIN goalWeeks' = DOMAIN goalWeeks \cup {v}
        /\ v \in DOMAIN goalWeeks \/ ~(Cardinality(After(v)) >= Goal)
             => goalWeeks' = goalWeeks
  BY DEF MarkPosted, GoalReached, GrantBonus, Put
<1> SUFFICES ASSUME NEW w \in {WeekStart(d) : d \in Dates}
             PROVE  w \in DOMAIN goalWeeks' <=> Cardinality(After(w)) >= Goal
  BY DEF GoalWeeksExact
<1>3. w \in DOMAIN goalWeeks <=> Cardinality(Before(w)) >= Goal
  BY DEF GoalWeeksExact
<1>4. CASE w = WeekStart(date)
  <2>1. Before(w) \in SUBSET After(w)
    BY <1>1 DEF PostedOfWeek
  <2>2. DOMAIN posted \in SUBSET Dates /\ DOMAIN posted' \in SUBSET Dates
    BY DEF TypeOK
  <2>3. /\ IsFiniteSet(After(w))
        /\ Cardinality(Before(w)) \in Int /\ Cardinality(After(w)) \in Int
    BY <2>2, PostedOfWeekIsFinite
  <2>4. Cardinality(Before(w)) <= Cardinality(After(w))
    BY <2>1, <2>3, FS_Subset
  <2>5. Cardinality(Before(w)) >= Goal => Cardinality(After(w)) >= Goal
    BY <2>3, <2>4, GoalAssumption
  <2> QED BY <1>2, <1>3, <1>4, <2>5
<1>5. CASE w # WeekStart(date)
  <2>1. date \notin DatesOfWeek(w)
    BY <1>5, WeekOfADate, DatesAssumption
  <2>2. After(w) = Before(w)
    BY <1>1, <2>1 DEF PostedOfWeek
  <2>3. w \in DOMAIN goalWeeks' <=> w \in DOMAIN goalWeeks
    BY <1>2, <1>5
  <2> QED BY <1>3, <2>2, <2>3
<1> QED BY <1>4, <1>5

LEMMA WeeksKept == IInv /\ GoalWeeksExact /\ [Next]_vars => GoalWeeksExact'
<1> SUFFICES ASSUME IInv, GoalWeeksExact, [Next]_vars PROVE GoalWeeksExact'
  OBVIOUS
<1>0. TypeOK /\ TypeOK'
  BY NextKeeps DEF IInv
<1>1. ASSUME NEW date \in Dates, NEW s \in Seqs, PostEntry(date, s)
      PROVE  GoalWeeksExact'
  BY <1>0, <1>1, MarkPostedKeepsWeeks DEF PostEntry
<1>2. ASSUME NEW date \in TestDates, MarkTestDay(date) PROVE GoalWeeksExact'
  BY <1>0, <1>2, MarkPostedKeepsWeeks, TestDatesAssumption DEF MarkTestDay
<1>3. CASE ResetTestData
  <2>1. DOMAIN posted' = {} /\ DOMAIN goalWeeks' = {}
    BY <1>3 DEF ResetTestData
  <2>2. \A w : Cardinality(PostedOfWeek(DOMAIN posted', w)) = 0
    BY <2>1, FS_EmptySet DEF PostedOfWeek
  <2> QED BY <2>1, <2>2, GoalAssumption DEF GoalWeeksExact
<1>4. CASE UNCHANGED <<posted, goalWeeks>>
  BY <1>4 DEF GoalWeeksExact
<1> QED
  BY <1>1, <1>2, <1>3, <1>4 DEF Next, Tick, SetTimeZone, SaveWheel, Spin, Bonus, SkipDay,
                                DeleteEntry, vars

\* A week is recorded as paid exactly when it has its goal of posted days,
\* whatever filled it, in whatever order, whatever was deleted since.
THEOREM GoalWeeksAreExact == Spec => []GoalWeeksExact
<1>1. Init => GoalWeeksExact
  <2> SUFFICES ASSUME Init PROVE GoalWeeksExact
    OBVIOUS
  <2>1. DOMAIN posted = {} /\ DOMAIN goalWeeks = {}
    BY DEF Init
  <2>2. \A w : Cardinality(PostedOfWeek(DOMAIN posted, w)) = 0
    BY <2>1, FS_EmptySet DEF PostedOfWeek
  <2> QED BY <2>1, <2>2, GoalAssumption DEF GoalWeeksExact
<1> QED BY Invariance, <1>1, WeeksKept, PTL DEF Spec

-----------------------------------------------------------------------------
(* A retry is answered.                                                    *)

\* A day's bonus spin is made after spin s, as the answer to a retry finds.
Followed(s, d) == HasSpin(d) /\ LatestSeq(d) > s

\* A request for a spin is answered "already" exactly when its spin is made.
AlreadyMade ==
    \A d \in Dates :
        /\ SpinAnswer(d) = "already" <=> <<d, 0>> \in DOMAIN spins
        /\ \A s \in Seqs : BonusAnswer(s, d) = "already" <=> Followed(s, d)

LEMMA AlreadyMeans == IInv => AlreadyMade
<1> SUFFICES ASSUME IInv, NEW d \in Dates, NEW s \in Seqs
             PROVE  /\ SpinAnswer(d) = "already" <=> <<d, 0>> \in DOMAIN spins
                    /\ BonusAnswer(s, d) = "already" <=> Followed(s, d)
  BY SeqsAssumption DEF AlreadyMade
<1>1. SpinAnswer(d) = "already" <=> <<d, 0>> \in DOMAIN spins
  BY DEF SpinAnswer, SpinAnswerAt
<1>2. HasSpin(d) <=> <<d, 0>> \in DOMAIN spins
  BY IInvRows
<1>3. BonusAnswer(s, d) = "already" <=> Followed(s, d)
  BY <1>2 DEF BonusAnswer, OtherDayBonusAnswer, Followed
<1> QED BY <1>1, <1>3

\* No operation but the reset takes a spin from the table.
LEMMA SpinsStand ==
    ASSUME IInv, [Next]_vars, ~ResetTestData
    PROVE  DOMAIN spins \subseteq DOMAIN spins'
BY DEF Next, vars, Tick, SetTimeZone, SaveWheel, Spin, Bonus, PostEntry, SkipDay, SettleSpin,
       DeleteEntry, MarkTestDay, Put

\* So the number of a day's latest spin only grows.
LEMMA LatestOnlyGrows ==
    ASSUME IInv, [Next]_vars, ~ResetTestData, NEW d \in Dates, NEW s \in Seqs,
           Followed(s, d)
    PROVE  Followed(s, d)'
<1>1. (IInv => DayShape)'
  BY DayShapeHolds, PTL
<1>2. DayShape /\ DayShape'
  BY <1>1, NextKeeps, DayShapeHolds
<1>3. LatestSeq(d) = (IF <<d, 1>> \in DOMAIN spins THEN 1 ELSE 0) /\ LatestSeq(d) > s
  BY <1>2 DEF DayShape, Followed
<1>4. s = 0 /\ <<d, 1>> \in DOMAIN spins /\ <<d, 0>> \in DOMAIN spins
  BY <1>2, <1>3, SeqsAssumption DEF DayShape, Followed
<1>5. <<d, 1>> \in DOMAIN spins' /\ <<d, 0>> \in DOMAIN spins'
  BY <1>4, SpinsStand
<1>6. HasSpin(d)' /\ LatestSeq(d)' = 1
  BY <1>2, <1>5 DEF DayShape
<1> QED BY <1>4, <1>6 DEF Followed

\* A bonus spin that is made follows the spin it was asked after.
LEMMA BonusFollows ==
    ASSUME IInv, NEW d \in Dates, NEW s \in Seqs, Bonus(s, d)
    PROVE  Followed(s, d)'
<1>1. (IInv => DayShape)'
  BY DayShapeHolds, PTL
<1>2. IInv'
  BY BonusKeeps
<1>3. /\ <<d, 0>> \in DOMAIN spins
      /\ ~(LatestSeq(d) > s) /\ ~(s > LatestSeq(d)) /\ ~(LatestSeq(d) > 0)
  <2>1. d = Today
    BY DEF Bonus, BonusAnswer, OtherDayBonusAnswer
  <2> QED BY <2>1 DEF Bonus, BonusAnswer
<1>4. LatestSeq(d) = 0 /\ s = 0
  <2>1. LatestSeq(d) = IF <<d, 1>> \in DOMAIN spins THEN 1 ELSE 0
    BY <1>3, IInvRows
  <2> QED BY <1>3, <2>1, SeqsAssumption
<1>5. <<d, 0>> \in DOMAIN spins' /\ <<d, 1>> \in DOMAIN spins'
  BY <1>3, <1>4 DEF Bonus, Put
<1>6. HasSpin(d)' /\ LatestSeq(d)' = 1
  BY <1>1, <1>2, <1>5 DEF DayShape
<1> QED BY <1>4, <1>6 DEF Followed

\* The answer "already" to a spin that was made stands until the test tools'
\* reset, past midnight, past the day's post or skip, and in any other zone.
THEOREM RetriesAreAnswered == Spec => RetryIsAnswered
<1>1. ASSUME IInv, [Next]_vars, ~ResetTestData, NEW d \in Dates
      PROVE  /\ Spin(d) \/ (zone # NoZone /\ SpinAnswer(d) = "already")
                => SpinAnswer(d)' = "already"
             /\ \A s \in Seqs :
                    Bonus(s, d) \/ (zone # NoZone /\ BonusAnswer(s, d) = "already")
                    => BonusAnswer(s, d)' = "already"
  <2>0. IInv'
    BY <1>1, NextKeeps
  <2>1. (IInv => AlreadyMade)'
    BY AlreadyMeans, PTL
  <2>2. /\ SpinAnswer(d)' = "already" <=> <<d, 0>> \in DOMAIN spins'
        /\ \A s \in Seqs : BonusAnswer(s, d)' = "already" <=> Followed(s, d)'
    BY <2>0, <2>1 DEF AlreadyMade
  <2>3. Spin(d) => <<d, 0>> \in DOMAIN spins'
    BY DEF Spin, Put
  <2>4. SpinAnswer(d) = "already" => <<d, 0>> \in DOMAIN spins'
    BY <1>1, AlreadyMeans, SpinsStand DEF AlreadyMade
  <2>5. \A s \in Seqs : Bonus(s, d) => Followed(s, d)'
    BY <1>1, BonusFollows
  <2>6. \A s \in Seqs : BonusAnswer(s, d) = "already" => Followed(s, d)'
    BY <1>1, AlreadyMeans, LatestOnlyGrows DEF AlreadyMade
  <2> QED BY <2>2, <2>3, <2>4, <2>5, <2>6
<1>2. IInv /\ [Next]_vars =>
          [ \/ ResetTestData
            \/ \A d \in Dates :
                   /\ Spin(d) \/ (zone # NoZone /\ SpinAnswer(d) = "already")
                      => SpinAnswer(d)' = "already"
                   /\ \A s \in Seqs :
                          Bonus(s, d) \/ (zone # NoZone /\ BonusAnswer(s, d) = "already")
                          => BonusAnswer(s, d)' = "already" ]_vars
  BY <1>1
<1> QED BY Invariance, <1>2, PTL DEF Spec, RetryIsAnswered

-----------------------------------------------------------------------------
(* The window of a date.                                                   *)

\* A zone's numbers, and the readings of its wall clock.
LEMMA ReadingFacts ==
    ASSUME NEW z \in Zone, NEW t \in Int
    PROVE  /\ z.before \in Int /\ z.after \in Int /\ z.shift \in Int
           /\ Reading(t, z) \in Int
           /\ t < z.shift => Reading(t, z) = t + z.before
           /\ t >= z.shift => Reading(t, z) = t + z.after
BY DEF Zone, Offsets, Reading

\* A date is what the clock shows from one midnight to the next.
LEMMA DateFacts ==
    ASSUME NEW z \in Zone, NEW t \in Int, NEW d \in Int
    PROVE  /\ LocalDate(t, z) \in Int
           /\ LocalDate(t, z) = d <=> 24 * d <= Reading(t, z) /\ Reading(t, z) < 24 * d + 24
           /\ LocalDate(t, z) < d <=> Reading(t, z) < 24 * d
<1>1. \A r, e \in Int : /\ r \div 24 \in Int
                        /\ r \div 24 = e <=> 24 * e <= r /\ r < 24 * e + 24
                        /\ r \div 24 < e <=> r < 24 * e
  OBVIOUS
<1>2. LocalDate(t, z) = Reading(t, z) \div 24
  BY DEF LocalDate, DayHours
<1> QED BY <1>1, <1>2, ReadingFacts

\* The answer of firstAtOrAfter is exact: the clock reads civil or later
\* then, and never did before.
THEOREM FirstIsFirst ==
    ASSUME NEW z \in Zone, NEW civil \in Int
    PROVE  LET f == FirstAtOrAfter(civil, z) IN
           /\ f \in Int
           /\ Reading(f, z) >= civil
           /\ \A t \in Int : t < f => Reading(t, z) < civil
BY DEF FirstAtOrAfter, Zone, Offsets, Reading

\* An earlier reading is reached no later.
LEMMA FirstIsMonotone ==
    ASSUME NEW z \in Zone, NEW a \in Int, NEW b \in Int, a <= b
    PROVE  FirstAtOrAfter(a, z) <= FirstAtOrAfter(b, z)
BY DEF FirstAtOrAfter, Zone, Offsets

\* The instants of a date's window as first readings.
LEMMA WindowFacts ==
    ASSUME NEW z \in Zone, NEW d \in Int
    PROVE  /\ DayStart(d, z) = FirstAtOrAfter(24 * d, z)
           /\ OpensAt(d, z) = FirstAtOrAfter(24 * d + 20, z)
           /\ ClosesAt(d, z) = FirstAtOrAfter(24 * d + 24, z)
           /\ LocalDate(ClosesAt(d, z), z) \in Int
           /\ LateUntil(d, z) = FirstAtOrAfter(24 * LocalDate(ClosesAt(d, z), z) + 20, z)
<1>1. 24 * (d + 1) = 24 * d + 24
  OBVIOUS
<1>2. ClosesAt(d, z) = FirstAtOrAfter(24 * d + 24, z)
  BY <1>1 DEF ClosesAt, DayStart, DayHours
<1>3. ClosesAt(d, z) \in Int
  BY <1>2, FirstIsFirst
<1> QED BY <1>2, <1>3, DateFacts DEF DayStart, OpensAt, LateUntil, DayHours, OpenHour

\* And as instants on the wall clock.
LEMMA WindowReadings ==
    ASSUME NEW z \in Zone, NEW d \in Int
    PROVE  /\ DayStart(d, z) \in Int /\ OpensAt(d, z) \in Int /\ ClosesAt(d, z) \in Int
           /\ Reading(DayStart(d, z), z) >= 24 * d
           /\ Reading(OpensAt(d, z), z) >= 24 * d + 20
           /\ Reading(ClosesAt(d, z), z) >= 24 * d + 24
           /\ \A t \in Int : t < DayStart(d, z) => Reading(t, z) < 24 * d
           /\ \A t \in Int : t < OpensAt(d, z) => Reading(t, z) < 24 * d + 20
           /\ \A t \in Int : t < ClosesAt(d, z) => Reading(t, z) < 24 * d + 24
<1> DEFINE a == 24 * d
           b == 24 * d + 20
           c == 24 * d + 24
<1>1. a \in Int /\ b \in Int /\ c \in Int
  OBVIOUS
<1>2. /\ DayStart(d, z) = FirstAtOrAfter(a, z)
      /\ OpensAt(d, z) = FirstAtOrAfter(b, z)
      /\ ClosesAt(d, z) = FirstAtOrAfter(c, z)
  BY WindowFacts
<1> HIDE DEF a, b, c
<1>3. /\ DayStart(d, z) \in Int /\ OpensAt(d, z) \in Int /\ ClosesAt(d, z) \in Int
      /\ Reading(DayStart(d, z), z) >= a
      /\ Reading(OpensAt(d, z), z) >= b
      /\ Reading(ClosesAt(d, z), z) >= c
      /\ \A t \in Int : t < DayStart(d, z) => Reading(t, z) < a
      /\ \A t \in Int : t < OpensAt(d, z) => Reading(t, z) < b
      /\ \A t \in Int : t < ClosesAt(d, z) => Reading(t, z) < c
  BY <1>1, <1>2, FirstIsFirst
<1> QED BY <1>3 DEF a, b, c

\* What ClockChangesAssumption says of one zone.
ClockChangesStand(z) ==
    /\ z.before - z.after < 20
    /\ z.after - z.before < 4 \/ \E m \in Int : z.shift + z.before = 24 * m

LEMMA ClockChanges == \A z \in Zones : z \in Zone /\ ClockChangesStand(z)
<1> SUFFICES ASSUME NEW z \in Zones PROVE z \in Zone /\ ClockChangesStand(z)
  OBVIOUS
<1>1. z \in Zone /\ z.before \in Int /\ z.after \in Int /\ z.shift \in Int
  BY ZonesAssumption DEF Zone, Offsets
<1>2. \A r \in Int : r % 24 = 0 => r = 24 * (r \div 24) /\ r \div 24 \in Int
  OBVIOUS
<1>3. z.before - z.after < 20
  BY ClockChangesAssumption DEF OpenHour
<1>4. z.after - z.before < 4 \/ (z.shift + z.before) % 24 = 0
  BY ClockChangesAssumption DEF OpenHour, DayHours
<1> QED BY <1>1, <1>2, <1>3, <1>4 DEF ClockChangesStand

\* While its date shows, a spin's late window is open: a clock that is put
\* back does not return to a date past its last hour for posting.
LEMMA LateWindowIsAhead ==
    ASSUME NEW z \in Zone, ClockChangesStand(z), NEW t \in Int
    PROVE  t < LateUntil(LocalDate(t, z), z)
<1> DEFINE d == LocalDate(t, z)
           c == ClosesAt(d, z)
           e == LocalDate(c, z)
           l == LateUntil(d, z)
<1>1. d \in Int /\ Reading(t, z) < 24 * d + 24
  BY DateFacts
<1>2. c \in Int /\ Reading(c, z) >= 24 * d + 24 /\ e \in Int
  BY <1>1, WindowFacts, FirstIsFirst
<1>3. Reading(c, z) < 24 * e + 24
  BY <1>2, DateFacts
<1>4. d + 1 <= e
  <2> HIDE DEF d, c, e
  <2> QED BY <1>1, <1>2, <1>3, ReadingFacts
<1>5. l \in Int /\ Reading(l, z) >= 24 * e + 20
  BY <1>1, <1>2, WindowFacts, FirstIsFirst
<1>6. l <= t => Reading(t, z) > Reading(l, z) - 20
  <2> HIDE DEF l
  <2> QED BY <1>5, ReadingFacts DEF ClockChangesStand
<1> HIDE DEF d, c, e, l
<1>7. ~(l <= t)
  BY <1>1, <1>2, <1>4, <1>5, <1>6, ReadingFacts
<1> QED BY <1>5, <1>7 DEF l, d

\* An opening still ahead of a date that has begun is on that date: no clock
\* change jumps over the evening.
LEMMA EveningStands ==
    ASSUME NEW z \in Zone, ClockChangesStand(z), NEW t \in Int,
           NEW d \in Int, LocalDate(t, z) = d, t <= OpensAt(d, z)
    PROVE  LocalDate(OpensAt(d, z), z) = d
<1> DEFINE o == OpensAt(d, z)
<1>1. 24 * d <= Reading(t, z) /\ Reading(t, z) < 24 * d + 24
  BY DateFacts
<1>2. /\ o \in Int /\ Reading(o, z) >= 24 * d + 20
      /\ Reading(o - 1, z) < 24 * d + 20
      /\ t <= o
  <2>1. o \in Int
    BY WindowReadings
  <2>2. \A i \in Int : i - 1 \in Int /\ i - 1 < i
    OBVIOUS
  <2> QED BY <2>1, <2>2, WindowReadings
<1> HIDE DEF o
<1>3. CASE t = o
  BY <1>3 DEF o
<1>4. CASE t < o /\ (o < z.shift \/ o - 1 >= z.shift)
  <2>1. Reading(o, z) = Reading(o - 1, z) + 1
    BY <1>2, <1>4, ReadingFacts
  <2>2. 24 * d <= Reading(o, z) /\ Reading(o, z) < 24 * d + 24
    BY <1>2, <2>1, ReadingFacts
  <2> QED BY <1>2, <2>2, DateFacts DEF o
<1>5. CASE t < o /\ o = z.shift
  <2>1. /\ Reading(t, z) = t + z.before
        /\ Reading(o - 1, z) = z.shift - 1 + z.before
        /\ Reading(o, z) = z.shift + z.after
        /\ z.before \in Int /\ z.after \in Int /\ z.shift \in Int
    BY <1>2, <1>5, ReadingFacts
  <2>2. CASE z.after - z.before < 4
    <3>1. Reading(o, z) < 24 * d + 24
      BY <1>1, <1>2, <1>5, <2>1, <2>2
    <3>2. 24 * d <= Reading(o, z)
      BY <1>2, ReadingFacts
    <3> QED BY <1>2, <3>1, <3>2, DateFacts DEF o
  <2>3. CASE \E m \in Int : z.shift + z.before = 24 * m
    BY <1>1, <1>2, <1>5, <2>1, <2>3
  <2> QED BY <2>2, <2>3 DEF ClockChangesStand
<1> QED BY <1>2, <1>3, <1>4, <1>5, ReadingFacts

\* The end of a late window is an opening, and comes after the close.
LEMMA LateUntilOpens ==
    ASSUME NEW z \in Zone, ClockChangesStand(z), NEW d \in Int
    PROVE  /\ LateUntil(d, z) \in Int
           /\ LateUntil(d, z) >= ClosesAt(d, z)
           /\ LateUntil(d, z) = OpensAt(LocalDate(LateUntil(d, z), z), z)
<1> DEFINE c == ClosesAt(d, z)
           e == LocalDate(c, z)
<1>1. /\ c \in Int /\ e \in Int
      /\ Reading(c, z) >= 24 * d + 24
      /\ c = FirstAtOrAfter(24 * d + 24, z)
      /\ LateUntil(d, z) = FirstAtOrAfter(24 * e + 20, z)
      /\ LateUntil(d, z) = OpensAt(e, z)
  BY WindowFacts, FirstIsFirst DEF LateUntil
<1>2. Reading(c, z) < 24 * e + 24
  BY <1>1, DateFacts
<1>3. 24 * d + 24 <= 24 * e + 20
  <2> HIDE DEF c, e
  <2> QED BY <1>1, <1>2, ReadingFacts
<1>4. LateUntil(d, z) \in Int /\ c <= LateUntil(d, z)
  BY <1>1, <1>3, FirstIsMonotone, FirstIsFirst
<1>5. LocalDate(OpensAt(e, z), z) = e
  BY <1>1, <1>4, EveningStands
<1> QED BY <1>1, <1>4, <1>5

\* No opening shown on its own date falls into the late window of another.
LEMMA NoOpeningWhileLate ==
    ASSUME NEW z \in Zone, NEW d \in Int, NEW p \in Int, NEW b \in Int,
           p = OpensAt(b, z), LocalDate(p, z) = b, d < b
    PROVE  LateUntil(d, z) <= p
<1> DEFINE c == ClosesAt(d, z)
           e == LocalDate(c, z)
<1>1. /\ c \in Int /\ e \in Int
      /\ c = FirstAtOrAfter(24 * d + 24, z)
      /\ LateUntil(d, z) = FirstAtOrAfter(24 * e + 20, z)
      /\ p = FirstAtOrAfter(24 * b + 20, z)
  BY WindowFacts, WindowReadings
<1>2. 24 * e <= Reading(c, z)
  BY <1>1, DateFacts
<1>3. c <= p
  BY <1>1, FirstIsMonotone
<1>4. CASE e <= b
  BY <1>1, <1>4, FirstIsMonotone
<1>5. CASE b < e
  <2>1. p <= c
    <3>1. \A t \in Int : t < p => Reading(t, z) < 24 * b + 20
      BY <1>1, FirstIsFirst
    <3> HIDE DEF c, e
    <3> QED BY <1>1, <1>2, <1>5, <3>1, ReadingFacts
  <2> QED BY <1>1, <1>3, <1>5, <2>1
<1> QED BY <1>1, <1>4, <1>5

\* The late window of the evening before a date that has begun ends at that
\* date's own opening.
LEMMA LateOfTheEveningBefore ==
    ASSUME NEW z \in Zone, NEW t \in Int, NEW d \in Int, LocalDate(t, z) = d
    PROVE  /\ PrevDate(d, z) \in Int
           /\ PrevDate(d, z) < d
           /\ LateUntil(PrevDate(d, z), z) = OpensAt(d, z)
<1> DEFINE s == DayStart(d, z)
           b == PrevDate(d, z)
           c == ClosesAt(b, z)
           e == LocalDate(c, z)
<1>1. /\ s \in Int /\ Reading(s, z) >= 24 * d
      /\ \A u \in Int : u < s => Reading(u, z) < 24 * d
  BY WindowFacts, FirstIsFirst
<1>2. b = LocalDate(s - 1, z) /\ b \in Int /\ b < d
  BY <1>1, DateFacts DEF PrevDate
<1>3. 24 * b <= Reading(s - 1, z) /\ Reading(s - 1, z) < 24 * b + 24
  BY <1>1, <1>2, DateFacts
<1>4. /\ c \in Int /\ e \in Int /\ Reading(c, z) >= 24 * b + 24
      /\ \A u \in Int : u < c => Reading(u, z) < 24 * b + 24
      /\ LateUntil(b, z) = OpensAt(e, z)
  BY <1>2, WindowFacts, WindowReadings DEF LateUntil
<1>5. 24 * e <= Reading(c, z) /\ Reading(c, z) < 24 * e + 24
  BY <1>4, DateFacts
<1>6. 24 * d <= Reading(t, z) /\ Reading(t, z) < 24 * d + 24
  BY DateFacts
<1>7. e = d
  <2> HIDE DEF s, b, c, e
  <2>1. c <= s
    BY <1>1, <1>2, <1>4, ReadingFacts
  <2>2. CASE c = s
    BY <1>1, <1>3, <1>4, <1>5, <1>6, <2>2, ReadingFacts
  <2>3. CASE c < s
    BY <1>1, <1>2, <1>3, <1>4, <1>5, <1>6, <2>3, ReadingFacts
  <2> QED BY <2>1, <2>2, <2>3, <1>1, <1>4
<1> QED BY <1>2, <1>4, <1>7

\* The next opening is ahead, is shown on its own date, and none such is before.
LEMMA NextOpenFacts ==
    ASSUME zone \in Zones, NEW t \in Int
    PROVE  /\ NextOpen(t) \in Int
           /\ NextOpen(t) > t
           /\ NextOpen(t) = OpensAt(LocalDate(NextOpen(t), zone), zone)
           /\ \A d, p \in Int : p > t /\ p = OpensAt(d, zone) /\ LocalDate(p, zone) = d
                  => NextOpen(t) <= p
<1> DEFINE b == LocalDate(t, zone)
<1>0. zone \in Zone /\ ClockChangesStand(zone) /\ b \in Int
  BY ClockChanges, DateFacts
<1>1. OpensAt(b, zone) \in Int /\ LateUntil(b, zone) \in Int
  BY <1>0, WindowReadings, LateUntilOpens
<1>2. CASE OpensAt(b, zone) > t
  <2>1. NextOpen(t) = OpensAt(b, zone)
    BY <1>2 DEF NextOpen
  <2>2. LocalDate(OpensAt(b, zone), zone) = b
    BY <1>0, <1>1, <1>2, EveningStands
  <2>3. ASSUME NEW d \in Int, NEW p \in Int, p > t, p = OpensAt(d, zone), p < OpensAt(b, zone)
        PROVE  FALSE
    <3>1. d < b
      <4>1. ~(b <= d)
        <5>1. b <= d => 24 * b + 20 <= 24 * d + 20
          BY <1>0
        <5> QED BY <1>0, <1>1, <2>3, <5>1, WindowFacts, FirstIsMonotone
      <4> QED BY <1>0, <4>1
    <3>2. 24 * b <= Reading(t, zone) /\ Reading(t, zone) < 24 * d + 20
      BY <1>0, <2>3, DateFacts, WindowReadings
    <3> QED BY <1>0, <3>1, <3>2, ReadingFacts
  <2> QED BY <1>1, <1>2, <2>1, <2>2, <2>3
<1>3. CASE ~(OpensAt(b, zone) > t)
  <2>1. NextOpen(t) = LateUntil(b, zone)
    BY <1>3 DEF NextOpen
  <2>2. LateUntil(b, zone) > t
    BY <1>0, <1>1, LateWindowIsAhead
  <2>3. LateUntil(b, zone) = OpensAt(LocalDate(LateUntil(b, zone), zone), zone)
    BY <1>0, LateUntilOpens
  <2>4. ASSUME NEW d \in Int, NEW p \in Int, p > t, p = OpensAt(d, zone),
               LocalDate(p, zone) = d
        PROVE  LateUntil(b, zone) <= p
    <3>1. b < d
      <4>1. ~(d <= b)
        <5>1. d <= b => 24 * d + 20 <= 24 * b + 20
          BY <1>0
        <5>2. OpensAt(b, zone) < p
          BY <1>1, <1>3, <2>4
        <5> QED BY <1>0, <1>1, <2>4, <5>1, <5>2, WindowFacts, FirstIsMonotone
      <4> QED BY <1>0, <4>1
    <3> QED BY <1>0, <2>4, <3>1, NoOpeningWhileLate
  <2> QED BY <1>1, <2>1, <2>2, <2>3, <2>4
<1> QED BY <1>2, <1>3

-----------------------------------------------------------------------------
(* The screens.                                                            *)

\* The daily spin made last is on record.
LastSpinStands ==
    NeverSpun \/ \E d \in Dates :
        /\ <<d, 0>> \in DOMAIN spins
        /\ \A b \in Dates : <<b, 0>> \in DOMAIN spins
               => spins[<<b, 0>>].spunAt <= spins[<<d, 0>>].spunAt

LEMMA LastSpinKept == IInv /\ LastSpinStands /\ [Next]_vars => LastSpinStands'
<1> SUFFICES ASSUME IInv, LastSpinStands, [Next]_vars PROVE LastSpinStands'
  OBVIOUS
<1>1. CASE ResetTestData
  BY <1>1 DEF ResetTestData, LastSpinStands, NeverSpun
<1>2. ASSUME NEW date \in Dates, Spin(date) PROVE LastSpinStands'
  <2>1. /\ DOMAIN spins' = DOMAIN spins \cup {<<date, 0>>}
        /\ spins'[<<date, 0>>].spunAt = now
        /\ \A k \in DOMAIN spins \ {<<date, 0>>} : spins'[k] = spins[k]
    BY <1>2 DEF Spin, Put, NewSpin
  <2>2. \A b \in Dates : <<b, 0>> \in DOMAIN spins =>
            now - spins[<<b, 0>>].spunAt >= MinSpinGap
    BY <1>2 DEF Spin, SpinAnswer, SpinAnswerAt, GapAllowsSpin
  <2>3. now \in Int /\ \A b \in Dates : <<b, 0>> \in DOMAIN spins =>
            spins[<<b, 0>>].spunAt \in Int
    BY InstantsAssumption DEF IInv, TypeOK, SpinRow
  <2>4. \A b \in Dates : <<b, 0>> \in DOMAIN spins'
            => spins'[<<b, 0>>].spunAt <= spins'[<<date, 0>>].spunAt
    BY <2>1, <2>2, <2>3 DEF MinSpinGap
  <2> QED BY <2>1, <2>4 DEF LastSpinStands
<1>3. CASE ~ResetTestData /\ \A d \in Dates : ~Spin(d)
  <2>1. \A d \in Dates :
            /\ <<d, 0>> \in DOMAIN spins' <=> <<d, 0>> \in DOMAIN spins
            /\ <<d, 0>> \in DOMAIN spins =>
                   spins'[<<d, 0>>].spunAt = spins[<<d, 0>>].spunAt
    BY <1>3, DailySpinsStand
  <2>2. NeverSpun => NeverSpun'
    <3>1. SpinShape'
      BY NextKeeps DEF IInv
    <3>2. ASSUME NeverSpun, NEW k \in DOMAIN spins' PROVE FALSE
      <4>1. PICK d \in Dates, i \in {0, 1} : k = <<d, i>>
        BY <3>1 DEF SpinShape
      <4>2. <<d, 0>> \in DOMAIN spins'
        BY <3>1, <3>2, <4>1 DEF SpinShape
      <4> QED BY <2>1, <3>2, <4>2 DEF NeverSpun
    <3> QED BY <3>2 DEF NeverSpun
  <2> QED BY <2>1, <2>2 DEF LastSpinStands
<1> QED BY <1>1, <1>2, <1>3

\* What the screens read.
ScreenShape ==
    /\ SpinShape
    /\ \A d \in Dates :
           /\ HasSpin(d) <=> <<d, 0>> \in DOMAIN spins
           /\ HasSpin(d) => LatestSpin(d).result \in Results
           /\ HasSpin(d) => LatestSeq(d) \in {0, 1} /\ LatestSeq(d) \in Seqs
           /\ HasSpin(d) /\ LatestSpin(d).result = "posted" => d \in DOMAIN posted
           /\ d \in DOMAIN entries => HasSpin(d) /\ LatestSpin(d).result = "posted"

LEMMA ScreenShapeHolds == IInv => ScreenShape
<1> SUFFICES ASSUME IInv, NEW d \in Dates
             PROVE  /\ HasSpin(d) <=> <<d, 0>> \in DOMAIN spins
                    /\ HasSpin(d) => LatestSpin(d).result \in Results
                    /\ HasSpin(d) => LatestSeq(d) \in {0, 1} /\ LatestSeq(d) \in Seqs
                    /\ HasSpin(d) /\ LatestSpin(d).result = "posted" => d \in DOMAIN posted
                    /\ d \in DOMAIN entries => HasSpin(d) /\ LatestSpin(d).result = "posted"
  BY DEF ScreenShape, IInv
<1>1. /\ HasSpin(d) <=> <<d, 0>> \in DOMAIN spins
      /\ HasSpin(d) => /\ LatestSeq(d) \in {0, 1}
                       /\ <<d, LatestSeq(d)>> \in DOMAIN spins
  BY IInvRows
<1>2. HasSpin(d) => LatestSpin(d).result \in Results
  BY <1>1 DEF LatestSpin, IInv, TypeOK, SpinRow
<1>3. DayAgrees(d)
  BY DEF IInv, TablesAgree
<1> QED BY <1>1, <1>2, <1>3, SeqsAssumption DEF DayAgrees

\* With a zone stored, the clock shows one of the dates.
LEMMA ZoneFacts ==
    ASSUME IInv, HasZone
    PROVE  /\ zone \in Zones /\ zone \in Zone /\ ClockChangesStand(zone)
           /\ now \in Int /\ Today \in Int /\ Today \in Dates
           /\ Prev \in Int /\ Prev < Today
           /\ now < LateUntil(Today, zone)
           /\ LateUntil(Prev, zone) = OpensAt(Today, zone)
           /\ OpensAt(Today, zone) \in Int
<1>1. zone \in Zones /\ now \in Int /\ Today \in Dates
  BY TodayType, InstantsAssumption DEF HasZone, IInv, TypeOK
<1>2. zone \in Zone /\ ClockChangesStand(zone) /\ Today \in Int
  BY <1>1, ClockChanges, DatesAssumption
<1>3. now < LateUntil(Today, zone)
  BY <1>1, <1>2, LateWindowIsAhead DEF Today
<1>4. /\ Prev \in Int /\ Prev < Today
      /\ LateUntil(Prev, zone) = OpensAt(Today, zone)
  BY <1>1, <1>2, LateOfTheEveningBefore DEF Today, Prev
<1> QED BY <1>1, <1>2, <1>3, <1>4, WindowReadings

\* The day and the result of the spin the screen shows.
LEMMA StateFacts ==
    ASSUME IInv, HasZone
    PROVE  /\ TodayState = "open" => ~HasSpin(Today) /\ WheelIsOpen
           /\ TodayState # "open" => HasSpin(Today) \/ ~WheelIsOpen
           /\ TodayState \in {"result", "late"} =>
                  /\ HasSpin(ShownDate) /\ ShownDate \in Dates /\ ShownDate <= Today
                  /\ ShownDate \notin DOMAIN posted
                  /\ LatestSpin(ShownDate).result = "open"
                  /\ now < LateUntil(ShownDate, zone)
           /\ HasSpin(Today) => TodayState = StateOfResult(ShownResult(Today))
           /\ TodayState = "posted" =>
                  \/ HasSpin(Today) /\ Today \in DOMAIN posted
                  \/ /\ HasSpin(Prev) /\ Prev \in DOMAIN posted
                     /\ now < OpensAt(Today, zone)
<1>1. ScreenShape /\ Today \in Dates /\ Today \in Int /\ Prev \in Int /\ Prev < Today
      /\ now < LateUntil(Today, zone)
  BY ScreenShapeHolds, ZoneFacts
<1>2. \A d : HasSpin(d) => d \in Dates
  BY <1>1 DEF ScreenShape, SpinShape, HasSpin, SeqsOf
<1>3. CASE HasSpin(Today)
  <2>1. TodayState = StateOfResult(ShownResult(Today)) /\ ShownDate = Today
    BY <1>3 DEF TodayState, ShownDate
  <2>2. LatestSpin(Today).result \in {"open", "posted", "skipped"}
    BY <1>1, <1>3 DEF ScreenShape, Results
  <2>3. LatestSpin(Today).result = "posted" => Today \in DOMAIN posted
    BY <1>1, <1>3 DEF ScreenShape
  <2> QED BY <1>1, <1>3, <2>1, <2>2, <2>3 DEF StateOfResult, ShownResult
<1>4. CASE ~HasSpin(Today)
  <2>1. ShownDate = Prev
    BY <1>4 DEF ShownDate
  <2>2. CASE WheelIsOpen
    BY <1>4, <2>2 DEF TodayState
  <2>3. CASE ~WheelIsOpen /\ InLateWindow(Prev) /\ ShownResult(Prev) = "open"
    <3>1. TodayState = "late"
      BY <1>4, <2>3 DEF TodayState
    <3> QED BY <1>1, <1>2, <1>4, <2>1, <2>3, <3>1 DEF InLateWindow, ShownResult
  <2>4. CASE /\ ~WheelIsOpen /\ InLateWindow(Prev) /\ ShownResult(Prev) # "open"
             /\ SettledAfterClose(Prev)
    <3>1. TodayState = ShownResult(Prev) /\ ShownResult(Prev) \in {"posted", "skipped"}
      BY <1>4, <2>4 DEF TodayState, SettledAfterClose
    <3>2. HasSpin(Prev) /\ now < OpensAt(Today, zone)
      BY <2>4, ZoneFacts DEF InLateWindow
    <3>3. ShownResult(Prev) = "posted" => Prev \in DOMAIN posted
      BY <1>1, <1>2, <3>2 DEF ShownResult, ScreenShape
    <3> QED BY <1>4, <2>4, <3>1, <3>2, <3>3
  <2>5. CASE /\ ~WheelIsOpen
             /\ ~(InLateWindow(Prev) /\ ShownResult(Prev) = "open")
             /\ ~(InLateWindow(Prev) /\ SettledAfterClose(Prev))
    BY <1>4, <2>5 DEF TodayState
  <2> QED BY <2>2, <2>3, <2>4, <2>5
<1> QED BY <1>3, <1>4

LEMMA OffersHold == IInv => TodayOffersHold
<1> SUFFICES ASSUME IInv, HasZone
             PROVE  /\ TodayState = "open" <=> SpinAnswer(Today) = "made"
                    /\ TodayState \in {"result", "late"} =>
                           /\ PostAnswer(ShownDate, LatestSeq(ShownDate)) = "made"
                           /\ SkipAnswer(ShownDate, LatestSeq(ShownDate)) = "made"
                    /\ CanUseBonus /\ Today \notin othersGone
                           <=> \E s \in Seqs : BonusAnswer(s, Today) = "made"
                    /\ CanUseBonus /\ Today \in othersGone
                           <=> \E s \in Seqs : BonusAnswer(s, Today) = "no_other"
  BY DEF TodayOffersHold
<1>1. ScreenShape /\ Today \in Dates /\ Today \in Int /\ now \in Int
      /\ OpensAt(Today, zone) \in Int
  BY ScreenShapeHolds, ZoneFacts
<1>2. TodayState = "open" <=> SpinAnswer(Today) = "made"
  <2>1. SpinAnswer(Today) = "made"
            <=> <<Today, 0>> \notin DOMAIN spins /\ WheelIsOpen
    <3>1. LocalDate(now, zone) = Today
      BY DEF Today
    <3>2. /\ ~(Today < Today) /\ ~(Today > Today)
          /\ now < OpensAt(Today, zone) <=> ~(now >= OpensAt(Today, zone))
      BY <1>1
    <3> QED BY <3>1, <3>2 DEF SpinAnswer, SpinAnswerAt, WheelIsOpen, NeverSpun
  <2> QED BY <1>1, <2>1, StateFacts DEF ScreenShape
<1>3. ASSUME TodayState \in {"result", "late"}
      PROVE  /\ PostAnswer(ShownDate, LatestSeq(ShownDate)) = "made"
             /\ SkipAnswer(ShownDate, LatestSeq(ShownDate)) = "made"
  <2> DEFINE d == ShownDate
  <2>1. /\ HasSpin(d) /\ d \in Dates /\ d <= Today
        /\ d \notin DOMAIN posted /\ LatestSpin(d).result = "open"
        /\ now < LateUntil(d, zone)
    BY <1>3, StateFacts
  <2>2. d \notin DOMAIN entries
    BY <1>1, <2>1 DEF ScreenShape
  <2>3. d \in Int /\ LateUntil(d, zone) \in Int
    BY <2>1, DatesAssumption, ZoneFacts, LateUntilOpens
  <2>4. ~(now >= LateUntil(d, zone)) /\ ~(d > Today)
    BY <1>1, <2>1, <2>3
  <2> QED BY <2>1, <2>2, <2>4 DEF PostAnswer, SkipAnswer, Settled
<1>4. /\ CanUseBonus /\ Today \notin othersGone
             <=> \E s \in Seqs : BonusAnswer(s, Today) = "made"
      /\ CanUseBonus /\ Today \in othersGone
             <=> \E s \in Seqs : BonusAnswer(s, Today) = "no_other"
  <2> DEFINE answer == IF Today \in othersGone THEN "no_other" ELSE "made"
  <2>1. CanUseBonus => BonusAnswer(0, Today) = answer
    <3> SUFFICES ASSUME CanUseBonus PROVE BonusAnswer(0, Today) = answer
      OBVIOUS
    <3>1. ShownDate = Today \/ ~HasSpin(Today)
      BY DEF ShownDate
    <3>2. HasSpin(Today) /\ <<Today, 0>> \in DOMAIN spins
      <4>1. LatestSeq(Today) = 0 /\ TodayState = "result"
        BY DEF CanUseBonus
      <4>2. HasSpin(Today)
        <5>1. ~HasSpin(Today) => TodayState # "result"
          BY DEF TodayState, ShownResult, StateOfResult, SettledAfterClose
        <5> QED BY <4>1, <5>1
      <4> QED BY <1>1, <4>2 DEF ScreenShape
    <3> QED BY <3>2 DEF BonusAnswer, CanUseBonus
  <2>2. ASSUME NEW s \in Seqs, BonusAnswer(s, Today) \in {"made", "no_other"}
        PROVE  CanUseBonus /\ BonusAnswer(s, Today) = answer
    <3>1. /\ <<Today, 0>> \in DOMAIN spins
          /\ ~Settled(Today)
          /\ ~(LatestSeq(Today) > 0)
          /\ bonusHeld # 0
      BY <2>2 DEF BonusAnswer
    <3>2. HasSpin(Today) /\ LatestSeq(Today) = 0
      BY <1>1, <3>1 DEF ScreenShape
    <3>3. TodayState = "result"
      BY <3>1, <3>2, StateFacts DEF Settled, ShownResult, StateOfResult
    <3>4. bonusHeld = 1
      BY <3>1 DEF IInv, TypeOK
    <3>5. BonusAnswer(s, Today) = answer
      BY <2>2 DEF BonusAnswer
    <3> QED BY <3>1, <3>2, <3>3, <3>4, <3>5 DEF CanUseBonus
  <2> QED BY <2>1, <2>2, SeqsAssumption
<1> QED BY <1>2, <1>3, <1>4

LEMMA BoardIsOfTheDay == IInv => BoardAgrees
<1> SUFFICES ASSUME IInv, HasZone
             PROVE  /\ TodayState = "posted" => BoardPosted
                    /\ BoardAction = "spin" => BoardDay = Today
                    /\ BoardAction = "log" /\ BoardDay = ShownDate
                           => ~BoardPosted /\ ~BoardSkipped
  BY DEF BoardAgrees
<1>1. now \in Int /\ OpensAt(Today, zone) \in Int
  BY ZoneFacts
<1>2. TodayState = "posted" => BoardPosted
  <2>1. CASE Today \in DOMAIN posted
    BY <2>1 DEF BoardPosted, BoardDay
  <2>2. CASE Today \notin DOMAIN posted /\ TodayState = "posted"
    <3>1. HasSpin(Prev) /\ Prev \in DOMAIN posted /\ now < OpensAt(Today, zone)
      BY <2>2, StateFacts
    <3>2. ~NeverSpun
      BY <3>1 DEF HasSpin, SeqsOf, NeverSpun
    <3>3. BoardDay = Prev
      BY <1>1, <2>2, <3>1, <3>2 DEF BoardDay, DayInPlay
    <3> QED BY <3>1, <3>3 DEF BoardPosted
  <2> QED BY <2>1, <2>2
<1>3. BoardAction = "spin" => BoardDay = Today
  <2>1. BoardAction = "spin" => TodayState = "open"
    BY DEF BoardAction
  <2>2. TodayState = "open" => WheelIsOpen
    BY StateFacts
  <2> QED BY <2>1, <2>2 DEF WheelIsOpen, BoardDay, DayInPlay
<1>4. BoardAction = "log" => TodayState \in {"result", "late"}
  BY DEF BoardAction
<1>5. BoardAction = "log" /\ BoardDay = ShownDate => ~BoardPosted /\ ~BoardSkipped
  BY <1>4, StateFacts DEF BoardPosted, BoardSkipped
<1> QED BY <1>2, <1>3, <1>5

\* The last daily spin is the one the countdown counts from.
LEMMA LastSpinFacts ==
    ASSUME IInv, LastSpinStands, ~NeverSpun
    PROVE  /\ LastDailySpunAt \in Int
           /\ \A t \in Int : GapAllowsSpin(t) <=> t >= LastDailySpunAt + MinSpinGap
<1> DEFINE times == {spins[k].spunAt : k \in {j \in DOMAIN spins : j[2] = 0}}
<1>1. \A k \in DOMAIN spins : spins[k].spunAt \in Int
  BY DEF IInv, TypeOK, SpinRow
<1>2. PICK d \in Dates :
          /\ <<d, 0>> \in DOMAIN spins
          /\ \A b \in Dates : <<b, 0>> \in DOMAIN spins
                 => spins[<<b, 0>>].spunAt <= spins[<<d, 0>>].spunAt
  BY DEF LastSpinStands
<1>3. \A k \in DOMAIN spins : k[2] = 0 => \E b \in Dates : k = <<b, 0>>
  BY DEF IInv, TypeOK
<1>4. spins[<<d, 0>>].spunAt \in times /\ times \subseteq Int
  BY <1>1, <1>2
<1>5. GapAllowsSpin(spins[<<d, 0>>].spunAt + MinSpinGap)
  BY <1>1, <1>2, <1>3 DEF GapAllowsSpin, MinSpinGap
<1>6. LastDailySpunAt \in times /\ GapAllowsSpin(LastDailySpunAt + MinSpinGap)
  BY <1>4, <1>5 DEF LastDailySpunAt
<1>7. PICK k \in DOMAIN spins : k[2] = 0 /\ LastDailySpunAt = spins[k].spunAt
  BY <1>6
<1>8. LastDailySpunAt \in Int
  BY <1>1, <1>7
<1>9. \A j \in DOMAIN spins : j[2] = 0 => LastDailySpunAt - spins[j].spunAt >= 0
  BY <1>1, <1>6, <1>8 DEF GapAllowsSpin, MinSpinGap
<1>10. ASSUME NEW t \in Int PROVE GapAllowsSpin(t) <=> t >= LastDailySpunAt + MinSpinGap
  <2>1. GapAllowsSpin(t) => t >= LastDailySpunAt + MinSpinGap
    BY <1>7, <1>8 DEF GapAllowsSpin, MinSpinGap
  <2>2. t >= LastDailySpunAt + MinSpinGap => GapAllowsSpin(t)
    BY <1>1, <1>8, <1>9 DEF GapAllowsSpin, MinSpinGap
  <2> QED BY <2>1, <2>2
<1> QED BY <1>8, <1>10

\* The end of the countdown: after now and the 12 hours, an opening of its own
\* date, and no opening between the two that a spin could use.
LEMMA CountdownFacts ==
    ASSUME IInv, LastSpinStands, HasZone, ~NeverSpun
    PROVE  /\ NextOpenAt \in Int
           /\ NextOpenAt > now
           /\ NextOpenAt >= LastDailySpunAt + MinSpinGap
           /\ NextOpenAt = OpensAt(LocalDate(NextOpenAt, zone), zone)
           /\ \A d, p \in Int :
                  /\ p > now /\ p >= LastDailySpunAt + MinSpinGap
                  /\ p = OpensAt(d, zone) /\ LocalDate(p, zone) = d
                  /\ ~(HasSpin(Today) /\ d = Today)
                  => NextOpenAt <= p
<1> DEFINE earliest == LastDailySpunAt + MinSpinGap
           next     == IF NextOpen(now) < earliest
                       THEN NextOpen(earliest - 1) ELSE NextOpen(now)
<1>0. /\ zone \in Zones /\ zone \in Zone /\ ClockChangesStand(zone)
      /\ now \in Int /\ Today \in Int /\ earliest \in Int /\ earliest - 1 \in Int
  BY ZoneFacts, LastSpinFacts DEF MinSpinGap
<1>1. NextOpenAt = IF HasSpin(Today) /\ next < ClosesAt(Today, zone)
                   THEN LateUntil(Today, zone) ELSE next
  BY DEF NextOpenAt
<1>2. /\ next \in Int /\ next > now /\ next >= earliest
      /\ next = OpensAt(LocalDate(next, zone), zone)
      /\ \A d, p \in Int : /\ p > now /\ p >= earliest
                           /\ p = OpensAt(d, zone) /\ LocalDate(p, zone) = d
                           => next <= p
  <2> HIDE DEF earliest
  <2>1. CASE NextOpen(now) < earliest
    <3>1. earliest - 1 \in Int
      BY <1>0
    <3>2. /\ NextOpen(earliest - 1) \in Int
          /\ NextOpen(earliest - 1) > earliest - 1
          /\ NextOpen(earliest - 1) = OpensAt(LocalDate(NextOpen(earliest - 1), zone), zone)
          /\ \A d, p \in Int : p > earliest - 1 /\ p = OpensAt(d, zone)
                               /\ LocalDate(p, zone) = d => NextOpen(earliest - 1) <= p
      BY <1>0, <3>1, NextOpenFacts
    <3>3. NextOpen(now) \in Int /\ NextOpen(now) > now
      BY <1>0, NextOpenFacts
    <3>4. next = NextOpen(earliest - 1)
      BY <2>1
    <3>5. next \in Int /\ next > now /\ next >= earliest
      BY <1>0, <2>1, <3>2, <3>3, <3>4
    <3>6. \A p \in Int : p >= earliest => p > earliest - 1
      BY <1>0
    <3> QED BY <3>2, <3>4, <3>5, <3>6
  <2>2. CASE ~(NextOpen(now) < earliest)
    <3>1. next = NextOpen(now)
      BY <2>2
    <3> QED BY <1>0, <2>2, <3>1, NextOpenFacts
  <2> QED BY <2>1, <2>2
<1> HIDE DEF earliest, next
<1>3. CASE HasSpin(Today) /\ next < ClosesAt(Today, zone)
  <2>1. NextOpenAt = LateUntil(Today, zone)
    BY <1>1, <1>3
  <2>2. /\ LateUntil(Today, zone) \in Int /\ ClosesAt(Today, zone) \in Int
        /\ LateUntil(Today, zone) >= ClosesAt(Today, zone)
        /\ LateUntil(Today, zone) = OpensAt(LocalDate(LateUntil(Today, zone), zone), zone)
    BY <1>0, LateUntilOpens, WindowReadings
  <2>3. NextOpenAt \in Int /\ NextOpenAt > now /\ NextOpenAt >= earliest
    BY <1>0, <1>2, <1>3, <2>1, <2>2
  <2>4. ASSUME NEW d \in Int, NEW p \in Int, p > now,
               p = OpensAt(d, zone), LocalDate(p, zone) = d, d # Today
        PROVE  LateUntil(Today, zone) <= p
    <3>1. ~(d < Today)
      <4>1. 24 * Today <= Reading(now, zone)
        BY <1>0, DateFacts DEF Today
      <4>2. Reading(now, zone) < 24 * d + 20
        BY <1>0, <2>4, WindowReadings
      <4> QED BY <1>0, <4>1, <4>2, ReadingFacts
    <3>2. Today < d
      BY <1>0, <2>4, <3>1
    <3> QED BY <1>0, <2>4, <3>2, NoOpeningWhileLate
  <2> QED BY <1>3, <2>1, <2>2, <2>3, <2>4 DEF earliest
<1>4. CASE ~(HasSpin(Today) /\ next < ClosesAt(Today, zone))
  <2>1. NextOpenAt = next
    BY <1>1, <1>4
  <2> QED BY <1>2, <2>1 DEF earliest
<1> QED BY <1>3, <1>4

LEMMA CountdownStands == IInv /\ LastSpinStands => CountdownIsAnOpening
<1> SUFFICES ASSUME IInv, LastSpinStands, HasZone, TodayState # "open"
             PROVE  /\ NextOpenAt > now
                    /\ NextOpenAt = OpensAt(LocalDate(NextOpenAt, zone), zone)
                    /\ SpinAnswerAt(NextOpenAt, LocalDate(NextOpenAt, zone))
                           \in {"made", "already"}
                    /\ \A d \in Dates : OpensAt(d, zone) \in now + 1 .. NextOpenAt - 1
                           => SpinAnswerAt(OpensAt(d, zone), d) # "made"
  BY DEF CountdownIsAnOpening
<1>1. ~NeverSpun
  <2>1. NeverSpun => ~HasSpin(Today) /\ WheelIsOpen
    BY DEF NeverSpun, HasSpin, SeqsOf, WheelIsOpen, GapAllowsSpin
  <2> QED BY <2>1, StateFacts
<1>2. /\ NextOpenAt \in Int
      /\ NextOpenAt > now
      /\ NextOpenAt >= LastDailySpunAt + MinSpinGap
      /\ NextOpenAt = OpensAt(LocalDate(NextOpenAt, zone), zone)
  BY <1>1, CountdownFacts
<1>3. /\ zone \in Zones /\ zone \in Zone /\ now \in Int /\ LastDailySpunAt \in Int
      /\ LocalDate(NextOpenAt, zone) \in Int
  BY <1>1, <1>2, ZoneFacts, LastSpinFacts, DateFacts
<1>4. SpinAnswerAt(NextOpenAt, LocalDate(NextOpenAt, zone)) \in {"made", "already"}
  <2> DEFINE d == LocalDate(NextOpenAt, zone)
  <2>1. ~(d < d) /\ ~(d > d) /\ ~(NextOpenAt < OpensAt(d, zone))
    BY <1>2, <1>3
  <2>2. GapAllowsSpin(NextOpenAt)
    BY <1>1, <1>2, LastSpinFacts
  <2> QED BY <2>1, <2>2 DEF SpinAnswerAt
<1>5. ASSUME NEW d \in Dates, OpensAt(d, zone) \in now + 1 .. NextOpenAt - 1,
             SpinAnswerAt(OpensAt(d, zone), d) = "made"
      PROVE  FALSE
  <2> DEFINE p == OpensAt(d, zone)
  <2>1. d \in Int /\ p \in Int /\ LocalDate(p, zone) \in Int /\ p > now /\ p < NextOpenAt
    <3>1. d \in Int /\ p \in Int
      BY <1>3, DatesAssumption, WindowReadings
    <3>2. p \in now + 1 .. NextOpenAt - 1
      BY <1>5
    <3> HIDE DEF p
    <3> QED BY <1>2, <1>3, <3>1, <3>2, DateFacts
  <2>2. /\ <<d, 0>> \notin DOMAIN spins
        /\ ~(d < LocalDate(p, zone)) /\ ~(d > LocalDate(p, zone))
        /\ GapAllowsSpin(p)
    BY <1>5 DEF SpinAnswerAt
  <2>3. LocalDate(p, zone) = d /\ p >= LastDailySpunAt + MinSpinGap
    BY <1>1, <2>1, <2>2, LastSpinFacts
  <2>4. ~(HasSpin(Today) /\ d = Today)
    BY <2>2, IInvRows
  <2>5. NextOpenAt <= p
    BY <1>1, <2>1, <2>3, <2>4, CountdownFacts
  <2> HIDE DEF p
  <2> QED BY <1>2, <2>1, <2>5
<1> QED BY <1>2, <1>4, <1>5

-----------------------------------------------------------------------------

LEMMA ScreenInvariance == Spec => [](IInv /\ LastSpinStands)
<1>1. Init => LastSpinStands
  BY DEF Init, LastSpinStands, NeverSpun
<1> QED BY Invariance, <1>1, LastSpinKept, PTL DEF Spec

\* What the Today screen offers is accepted, and nothing else is for today; a
\* bonus spin that is offered is refused exactly when the other categories of
\* the day's wheel are deleted for good.
THEOREM OffersAlwaysHold == Spec => []TodayOffersHold
BY Invariance, OffersHold, PTL

\* The countdown ends at the first opening that accepts a daily spin.
THEOREM CountdownAlwaysEndsAtAnOpening == Spec => []CountdownIsAnOpening
BY ScreenInvariance, CountdownStands, PTL

\* The Board and the Today screen speak of one day.
THEOREM BoardAlwaysAgrees == Spec => []BoardAgrees
BY Invariance, BoardIsOfTheDay, PTL

=============================================================================
