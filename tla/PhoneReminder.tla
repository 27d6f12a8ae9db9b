--------------------------- MODULE PhoneReminder ---------------------------
(***************************************************************************)
(* The 8 PM reminder of one phone (reminder.ts), its switch (ReminderRow   *)
(* of NotificationSettingsScreen.tsx).                                     *)
(*                                                                         *)
(* An evening is its number.  The phone's schedule is a set of records:    *)
(* the daily one, or one for each evening by its index i, as the ids are;  *)
(* scheduling an id again replaces it.                                     *)
(***************************************************************************)
EXTENDS Integers, Sequences, FiniteSets

CONSTANTS
    DaysAhead,      \* REMINDER_DAYS_AHEAD (30 in the code)
    MaxNights,      \* bound: evenings that pass
    MaxTurns,       \* bound: what the person and the system do
    MaxSlips        \* bound: native calls that fail

Daily == 0
NoJob == [st |-> "idle", dates |-> {}, i |-> 0]
NoToggle == [st |-> "idle", want |-> FALSE, answer |-> FALSE, ahead |-> 0]  \* ahead: rebuilds up to its own

VARIABLES
    evening, nextOpen,              \* the next 8 PM ahead; nextOpenMs (0 is null)
    reminderOn, reminderAsked,      \* the flags of SecureStore
    permission,                     \* of the phone: undetermined, granted, denied
    planned,                        \* what the phone has scheduled
    chain, job,                     \* rebuilds that wait in rebuildChain, and the one that runs
    askStage,                       \* askAtStartOnce, once at the start
    rowOn, rowToggle, rowRead,      \* ReminderRow: what shows, the toggle and the read under way
    failedPlan, until,              \* history: the last rebuild was cut short; the last evening it could set
    turns, slips

clock == <<evening, nextOpen>>
flags == <<reminderOn, reminderAsked, permission>>
plan  == <<planned, chain, job, failedPlan, until>>
row   == <<rowOn, rowToggle, rowRead>>
vars  == <<clock, flags, plan, askStage, row, turns, slips>>

Turns == turns > 0 /\ turns' = turns - 1 /\ UNCHANGED slips
Slips == slips > 0 /\ slips' = slips - 1 /\ UNCHANGED turns
Even == UNCHANGED <<turns, slips>>

(* ---- rebuildReminder ------------------------------------------------------- *)

ShouldSchedule(on, p) == on /\ p = "granted"
\* The first DaysAhead evenings that are still ahead and not before the next opening.
FromToday(next) == evening .. evening + DaysAhead - 1  \* (mutant: an opening already made counts)
ReminderDates(next) ==
    LET first == IF next > evening THEN next ELSE evening IN first .. first + DaysAhead - 1

\* One rebuild of the chain is done.
OneLess ==
    /\ rowToggle' = [rowToggle EXCEPT !.ahead = IF @ > 0 THEN @ - 1 ELSE 0]
    /\ UNCHANGED <<rowOn, rowRead>>
ChainFree == chain > 0 /\ job.st = "idle"
\* cancelAll takes every id there is, the daily one and the dated ones.
AfterCancelDated == {p \in planned : p.i = 0}  \* (mutant: the daily one stays)
AfterCancel == {}
RebuildStarts ==
    /\ ChainFree /\ chain' = chain - 1
    /\ planned' = AfterCancel /\ job' = [NoJob EXCEPT !.st = "reads"]
    /\ UNCHANGED <<clock, flags, failedPlan, until, askStage, row>> /\ Even
\* cancelAll throws: what was scheduled stays, and the next rebuild tries again.
CancelFails ==
    /\ ChainFree /\ Slips /\ chain' = chain - 1 /\ failedPlan' = TRUE /\ OneLess
    /\ UNCHANGED <<clock, flags, planned, job, until, askStage>>
RebuildReads ==
    /\ job.st = "reads"
    /\ IF ~ShouldSchedule(reminderOn, permission)
       THEN job' = NoJob /\ failedPlan' = FALSE /\ OneLess
       ELSE job' = [st |-> "sets", i |-> 1, dates |-> IF nextOpen = 0 THEN {Daily} ELSE ReminderDates(nextOpen)]
            /\ UNCHANGED <<failedPlan, row>>
    /\ until' = evening + DaysAhead - 1
    /\ UNCHANGED <<clock, flags, planned, chain, askStage>> /\ Even
Earliest(S) == CHOOSE e \in S : \A f \in S : e <= f
Plans(e, i) == {p \in planned : p.i # i} \cup {[i |-> i, at |-> e]}
RebuildSets ==
    /\ job.st = "sets" /\ job.dates # {}
    /\ LET e == Earliest(job.dates)
       IN  /\ planned' = Plans(e, IF e = Daily THEN 0 ELSE job.i)
           /\ job' = [job EXCEPT !.dates = @ \ {e}, !.i = @ + 1]
    /\ UNCHANGED <<clock, flags, chain, failedPlan, until, askStage, row>> /\ Even
SetFails ==
    /\ job.st = "sets" /\ job.dates # {} /\ Slips /\ job' = NoJob /\ failedPlan' = TRUE /\ OneLess
    /\ UNCHANGED <<clock, flags, planned, chain, until, askStage>>
RebuildEnds ==
    /\ job.st = "sets" /\ job.dates = {} /\ job' = NoJob /\ failedPlan' = FALSE /\ OneLess
    /\ UNCHANGED <<clock, flags, planned, chain, until, askStage>> /\ Even

(* ---- what asks for a rebuild ----------------------------------------------- *)

Rebuild == chain' = chain + 1
\* noteNextOpen: an answer about today whose opening has moved.
NoteNextOpen(next) ==
    /\ Turns /\ next \in {evening, evening + 1} /\ next # nextOpen
    /\ nextOpen' = next /\ Rebuild
    /\ UNCHANGED <<evening, flags, planned, job, failedPlan, until, askStage, row>>
ToFront ==
    /\ Turns /\ Rebuild
    /\ rowRead' = [st |-> "reads", on |-> FALSE]
    /\ UNCHANGED <<clock, flags, planned, job, failedPlan, until, askStage, rowOn, rowToggle>>
\* In the phone's Settings, which the app is not open in; it comes back to the front next.
SetPermission(p) ==
    /\ Turns /\ permission \in {"granted", "denied"} /\ p \in {"granted", "denied"} \ {permission}
    /\ permission' = p /\ Rebuild /\ rowRead' = [st |-> "reads", on |-> FALSE]
    /\ UNCHANGED <<clock, reminderOn, reminderAsked, planned, job, failedPlan, until, askStage, rowOn, rowToggle>>
\* 8 PM: that evening's reminder shows; a daily one stays.
EveningPasses ==
    /\ evening < MaxNights /\ evening' = evening + 1
    /\ planned' = {p \in planned : p.at # evening}
    /\ job' = [job EXCEPT !.dates = @ \ {evening}]
    /\ UNCHANGED <<nextOpen, flags, chain, failedPlan, until, askStage, row>> /\ Even

\* The system prompt, if it was never answered.
Prompt(p) == p \in (IF permission = "undetermined" THEN {"granted", "denied"} ELSE {permission}) /\ permission' = p
\* askAtStartOnce: marked asked, the prompt, the switch; then rebuilt, and once more after it.
AskStarts ==
    /\ askStage = "start"
    /\ IF reminderAsked THEN askStage' = "rebuild" /\ UNCHANGED reminderAsked
       ELSE askStage' = "prompt" /\ reminderAsked' = TRUE
    /\ UNCHANGED <<clock, reminderOn, permission, plan, row>> /\ Even
AskPrompts ==
    /\ askStage = "prompt" /\ \E p \in {"granted", "denied"} : Prompt(p)
    /\ askStage' = IF permission' = "granted" THEN "write" ELSE "rebuild"
    /\ UNCHANGED <<clock, reminderOn, reminderAsked, plan, row>> /\ Even
AskWrites ==
    /\ askStage = "write" /\ reminderOn' = TRUE /\ askStage' = "rebuild"
    /\ UNCHANGED <<clock, reminderAsked, permission, plan, row>> /\ Even
AskRebuilds ==
    /\ askStage = "rebuild" /\ askStage' = "done" /\ Rebuild
    /\ UNCHANGED <<clock, flags, planned, job, failedPlan, until, row>> /\ Even

(* ---- ReminderRow ------------------------------------------------------------- *)

RowToggles ==
    /\ rowToggle.st = "idle" /\ askStage = "done" /\ Turns
    /\ rowToggle' = [NoToggle EXCEPT !.st = "asks", !.want = ~rowOn] /\ rowOn' = ~rowOn
    /\ UNCHANGED <<clock, flags, plan, askStage, rowRead>>
\* setReminderOn: the permission first, then the flag, then a rebuild that is waited for.
ToggleWrites ==
    /\ rowToggle.st = "asks"
    /\ IF rowToggle.want
       THEN /\ \E p \in {"granted", "denied"} : Prompt(p)
            /\ reminderOn' = (permission' = "granted")
       ELSE reminderOn' = FALSE /\ UNCHANGED permission
    /\ Rebuild
    /\ rowToggle' = [rowToggle EXCEPT !.st = "waits", !.answer = reminderOn',
                                      !.ahead = chain + 1 + IF job.st = "idle" THEN 0 ELSE 1]
    /\ UNCHANGED <<clock, reminderAsked, planned, job, failedPlan, until, askStage, rowOn, rowRead>> /\ Even
ToggleEnds ==
    /\ rowToggle.st = "waits" /\ rowToggle.ahead = 0
    /\ rowOn' = rowToggle.answer /\ rowToggle' = NoToggle
    /\ UNCHANGED <<clock, flags, plan, askStage, rowRead>> /\ Even
RowReads ==
    /\ rowRead.st = "reads" /\ rowRead' = [st |-> "read", on |-> ShouldSchedule(reminderOn, permission)]
    /\ UNCHANGED <<clock, flags, plan, askStage, rowOn, rowToggle>> /\ Even
\* A toggle in flight decides what shows.
RowShows ==
    /\ rowRead.st = "read" /\ rowRead' = [st |-> "idle", on |-> FALSE]
    /\ rowOn' = IF rowToggle.st = "idle" THEN rowRead.on ELSE rowOn
    /\ UNCHANGED <<clock, flags, plan, askStage, rowToggle>> /\ Even

Init ==
    /\ evening = 1 /\ nextOpen = 0 /\ permission \in {"undetermined", "granted"}
    /\ reminderOn = FALSE /\ reminderAsked \in BOOLEAN /\ planned = {} /\ chain = 0 /\ job = NoJob
    /\ askStage = "start" /\ rowOn = FALSE /\ rowToggle = NoToggle /\ rowRead = [st |-> "idle", on |-> FALSE]
    /\ failedPlan = FALSE /\ until = 0
    /\ turns = MaxTurns /\ slips = MaxSlips

Natives ==
    \/ RebuildStarts \/ RebuildReads \/ RebuildSets \/ RebuildEnds \/ ToggleWrites \/ ToggleEnds
    \/ AskStarts \/ AskPrompts \/ AskWrites \/ AskRebuilds \/ RowReads \/ RowShows
Next ==
    \/ Natives \/ CancelFails \/ SetFails \/ ToFront \/ EveningPasses \/ RowToggles
    \/ \E n \in 1 .. MaxNights + 1 : NoteNextOpen(n)
    \/ \E p \in {"granted", "denied"} : SetPermission(p)
LiveSpec == Init /\ [][Next]_vars /\ WF_vars(Natives)

(* ---- properties ----------------------------------------------------------------- *)

Due(e) == {p \in planned : p.at \in {Daily, e}}
Still == chain = 0 /\ job.st = "idle" /\ askStage = "done" /\ rowToggle.st = "idle"
\* What keeps the next one: what is planned is the daily one alone or an evening each, and a rebuild that
\* runs sets no evening that is planned already.
PlannedOnce ==
    /\ evening \in Nat \ {0} /\ nextOpen \in Nat
    /\ \A p \in planned : DOMAIN p = {"i", "at"}
    /\ \A p, q \in planned : p.at = q.at \/ p.at = Daily => p = q
    /\ DOMAIN job = {"st", "dates", "i"} /\ job.dates \subseteq Nat
    /\ job.st = "reads" => planned = {} /\ job.dates = {}
    /\ job.st = "sets" =>
          /\ Daily \in job.dates => job.dates = {Daily} /\ planned = {}
          /\ job.dates # {} => \A p \in planned : p.at # Daily /\ p.at \notin job.dates
\* Never two reminders for one evening, however many rebuilds were asked for at once and wherever
\* one was cut short.
NeverTwice == \A e \in evening .. MaxNights + DaysAhead : \A p, q \in Due(e) : p = q
\* When nothing is under way, the phone reminds of the evenings the switch, the permission and the
\* next opening call for, and of no evening whose spin was made already.
PlanIsRight ==
    (Still /\ ~failedPlan) =>
        IF ~ShouldSchedule(reminderOn, permission) THEN planned = {}
        ELSE IF nextOpen = 0 THEN Due(evening) # {}
        ELSE \A e \in evening .. until : Due(e) # {} <=> e >= nextOpen
\* Every rebuild and every toggle ends.
ReminderSettles == ~Still ~> Still
=============================================================================
