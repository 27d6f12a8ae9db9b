----------------------------- MODULE PhoneToday -----------------------------
(***************************************************************************)
(* The Today tab of one phone: the queue of requests and the timers of     *)
(* lib/wheel/useToday.ts, the store of todayStore.ts, and the screen that  *)
(* holds a turn back until its wheel has landed (TodayScreen.tsx), with    *)
(* the skip and the posts made from it.                                    *)
(*                                                                         *)
(* The server's day is a record whose v counts its changes; an answer is   *)
(* the day as it was when the server made it.  An instant (8:00 PM, or     *)
(* midnight for an open wheel) is due for a moment before the server acts  *)
(* on it: the phone counts from the start of its request.  One person is   *)
(* signed in; the report of the zone never holds a load up and is left     *)
(* out, as is the number of the turn.                                      *)
(***************************************************************************)
EXTENDS Integers, Sequences, FiniteSets, SequencesExt

CONSTANTS
    MaxChanges,     \* bound: changes of the day on the server
    MaxAsks,        \* bound: what the person does
    MaxMisses,      \* bound: answers that are lost
    ZeroRetries     \* ZERO_RETRIES (5 in the code)

NoDay == [st |-> "none", seq |-> 0, v |-> 0, bonus |-> FALSE]
NoFailure == [kind |-> "none", action |-> "none"]
NoCall == [st |-> "none", kind |-> "none", ans |-> NoDay]
NoWrite == [st |-> "none", kind |-> "none", seq |-> 0, ans |-> NoDay]

VARIABLES
    day, due, still,                            \* the server; Reduce Motion
    today, anchor, requesting, failure, spinning, pendingSpin, again,  \* todayStore.ts
    loadFailure, queue, call,                   \* the queue: its head has the call
    retryAt, retryUsed, zeroAt, zeroTries,      \* timers
    phase, bonusActive, sheet, afterSeq, stable,    \* the screen
    write,                                      \* a skip or a post of this phone
    told, asks, misses                          \* newest day heard of; what is left

server == <<day, due, still>>
snap   == <<today, anchor, requesting, failure, spinning, pendingSpin, again, loadFailure>>
jobs   == <<queue, call>>
timers == <<retryAt, retryUsed, zeroAt, zeroTries>>
screen == <<phase, bonusActive, sheet, afterSeq>>
vars   == <<server, snap, jobs, timers, screen, stable, write, told, asks, misses>>

\* Of the trigger of a load only one is told apart: "followup" keeps the message of a failed spin.
Load(trig, then) == [k |-> "load", after |-> 0, keep |-> trig = "followup", then |-> then]
SpinJob(k, after) == [k |-> k, after |-> after, keep |-> FALSE, then |-> {}]

(* ---- what is drawn ------------------------------------------------------ *)

HoldingPhases == ~still /\ phase \in {"turning", "calm"}    \* (mutant: held a render too late)
Holding == ~still /\ (spinning \/ phase \in {"turning", "calm"})
View == IF Holding /\ stable # NoDay THEN stable ELSE today
InResult(d) == d.st \in {"result", "posted", "skipped"}
Comp == IF ~(~still /\ (bonusActive \/ spinning \/ phase \in {"turning", "calm"})) /\ InResult(View)
        THEN "result" ELSE "wheel"
Busy == spinning \/ requesting # "none" \/ phase # "idle"
HubOpen == View.st = "open" /\ ~Busy /\ Comp = "wheel"
LinkShown == Comp = "result" /\ View.st = "result" /\ View.bonus /\ ~Busy
ActionsLive == Comp = "result" /\ View.st = "result" /\ ~Busy /\ write.st = "none"
MessageShown ==                         \* a StatusMessage with "Try again"
    /\ failure.kind # "none"
    /\ requesting = "none"
    /\ IF Comp = "wheel" THEN View.st \in {"waiting", "open"} /\ ~bonusActive /\ phase \in {"idle", "entering"}
       ELSE View.st = "result" /\ failure.action = "bonus"
CountdownShown == View.st \in {"waiting", "posted", "skipped"} /\ ~Busy

\* The instant the phone counts to has come.
DuePast == due \/ day.v # today.v

(* ---- the queue ---------------------------------------------------------- *)

\* A load that waits: the head only until it has started.
Waiting == {i \in 1 .. Len(queue) : queue[i].k = "load" /\ (i > 1 \/ call.st = "none")}

\* runSpin, behind what is queued.
Spun(q, k, after) == Append(q, SpinJob(k, after))

\* What follows a load: consumePendingSpin and afterInstantLoad, on the store the load left.
After(then, q) ==
    LET go == "consume" \in then /\ pendingSpin /\ today'.st = "open" /\ ~spinning' /\ requesting = "none"
        tick == "instant" \in then /\ today'.st = "waiting" /\ anchor' # "none" /\ DuePast
                  /\ zeroTries < ZeroRetries
    IN  /\ pendingSpin' = (pendingSpin /\ "consume" \notin then)
        /\ requesting' = IF go THEN "spin" ELSE requesting
        /\ queue' = IF go THEN Spun(q, "spin", 0) ELSE q
        /\ zeroAt' = (zeroAt \/ tick)
        /\ zeroTries' = IF tick THEN zeroTries + 1 ELSE IF "instant" \in then THEN 0 ELSE zeroTries

\* refetchToday, for a caller that changes nothing else of the queue: q is the queue it finds.
Queued(q, trig, then, started) ==
    LET open == {i \in 1 .. Len(q) : q[i].k = "load" /\ (i > 1 \/ ~started)}
    IN  IF open = {} THEN Append(q, Load(trig, then))
        ELSE [i \in 1 .. Len(q) |-> IF i \in open THEN [q[i] EXCEPT !.then = @ \cup then] ELSE q[i]]
Refetch(trig, then) ==
    IF spinning
    THEN again' = TRUE /\ After(then, queue)
    ELSE /\ queue' = Queued(queue, trig, then, call.st # "none")
         /\ UNCHANGED <<again, pendingSpin, requesting, zeroAt, zeroTries>>

Starts ==
    /\ queue # <<>> /\ call.st = "none"
    /\ UNCHANGED <<server, today, anchor, failure, spinning, loadFailure, retryAt, retryUsed, screen,
                   write, told, asks, misses>>
    /\ IF Head(queue).k = "load" /\ spinning
       THEN again' = TRUE /\ After(Head(queue).then, Tail(queue)) /\ UNCHANGED call
       ELSE /\ call' = [NoCall EXCEPT !.st = "sent"]
            /\ UNCHANGED <<again, queue, pendingSpin, requesting, zeroAt, zeroTries>>

(* ---- the server --------------------------------------------------------- *)

Settles(d, st, seq) == [d EXCEPT !.st = st, !.seq = seq, !.v = @ + 1]

\* POST /spin and /spin/bonus: a retry is answered with the spin there is.
SpinAnswer(j) ==
    IF day.st = "waiting" THEN "refused"
    ELSE IF \/ j.k = "spin"
            \/ j.after + 1 = day.seq
            \/ day.st = "result" /\ day.bonus /\ day.seq = j.after
    THEN "ok"
    ELSE "generic"
SpinMakes(j) ==
    CASE j.k = "spin" /\ day.st = "open" -> Settles(day, "result", 1)
      [] j.k = "bonus" /\ day.st = "result" /\ day.bonus /\ day.seq = j.after ->
            [Settles(day, "result", day.seq + 1) EXCEPT !.bonus = FALSE]
      [] OTHER -> day
CallServed ==
    LET j == Head(queue)
        made == IF j.k = "load" THEN day ELSE SpinMakes(j)
    IN  /\ call.st = "sent"
        /\ day' = made
        /\ due' = (due /\ made = day)
        /\ call' = [st |-> "served", kind |-> IF j.k = "load" THEN "ok" ELSE SpinAnswer(j), ans |-> made]
        /\ UNCHANGED <<still, snap, queue, timers, screen, write, told, asks, misses>>

\* Time, and the person's other phone.
Nears == ~due /\ day.st # "result" /\ due' = TRUE /\ UNCHANGED day
Passes ==
    /\ due
    /\ due' = FALSE
    /\ day' = IF day.st = "open" THEN Settles(day, "waiting", 0) ELSE Settles(day, "open", 0)
Elsewhere(st) ==
    /\ day.st = "result" /\ UNCHANGED due
    /\ day' = IF st = "spun" THEN Settles(day, "waiting", 0) ELSE Settles(day, st, day.seq)
Outside ==
    /\ day.v < MaxChanges
    /\ Nears \/ Passes \/ Elsewhere("skipped") \/ Elsewhere("posted")
    /\ UNCHANGED <<still, snap, jobs, timers, screen, write, told, asks, misses>>

(* ---- answers ------------------------------------------------------------ *)

Newest(d) == told' = IF d.v > told THEN d.v ELSE told
\* applyToday: an open wheel's close is not counted to once it is due.
Apply(d) == today' = d /\ anchor' = (IF d.st = "open" /\ due THEN "fired" ELSE "fresh") /\ loadFailure' = FALSE

LoadAnswered ==
    LET j == Head(queue) IN
    /\ call.st = "served" /\ j.k = "load"
    /\ Apply(call.ans) /\ Newest(call.ans)
    /\ failure' = IF j.keep THEN failure ELSE NoFailure
    /\ retryAt' = FALSE /\ retryUsed' = FALSE
    /\ call' = NoCall
    /\ UNCHANGED <<spinning, again>>
    /\ After(j.then, Tail(queue))
    /\ UNCHANGED <<server, screen, write, asks, misses>>
LoadLost ==
    /\ call.st \in {"sent", "served"} /\ Head(queue).k = "load"
    /\ misses > 0 /\ misses' = misses - 1
    /\ call' = NoCall
    /\ loadFailure' = (loadFailure \/ today = NoDay)
    /\ retryAt' = (retryAt \/ (today # NoDay /\ ~retryUsed))
    /\ UNCHANGED <<today, anchor, failure, spinning, again, retryUsed>>
    /\ After(Head(queue).then, Tail(queue))
    /\ UNCHANGED <<server, screen, write, told, asks>>

SpinAnswered ==
    /\ call.st = "served" /\ Head(queue).k # "load" /\ call.kind = "ok"
    /\ Apply(call.ans) /\ Newest(call.ans)
    /\ requesting' = "none" /\ failure' = NoFailure /\ spinning' = TRUE
    /\ queue' = Tail(queue) /\ call' = NoCall
    /\ UNCHANGED <<server, pendingSpin, again, timers, screen, write, asks, misses>>
SpinFailed(kind) ==
    /\ call.st # "none" /\ Head(queue).k # "load"
    /\ \/ kind = "network" /\ call.st \in {"sent", "served"} /\ misses > 0 /\ misses' = misses - 1
       \/ kind # "network" /\ call.st = "served" /\ call.kind = kind /\ UNCHANGED misses
    /\ requesting' = "none"
    /\ failure' = [kind |-> kind, action |-> Head(queue).k]
    /\ call' = NoCall
    /\ queue' = IF kind = "refused" THEN Queued(Tail(queue), "followup", {}, FALSE) ELSE Tail(queue)
    /\ UNCHANGED <<server, today, anchor, spinning, pendingSpin, again, loadFailure, timers, screen, write,
                   told, asks>>

(* ---- timers and triggers ------------------------------------------------ *)

InstantReached ==
    /\ anchor = "fresh" /\ ~spinning /\ DuePast
    /\ View.st = "open" \/ CountdownShown
    /\ anchor' = "fired"
    /\ today' = today /\ spinning' = spinning
    /\ Refetch("timer", {"instant"})
    /\ UNCHANGED <<server, failure, loadFailure, call, retryAt, retryUsed, screen, write, told, asks, misses>>
ZeroFires ==
    /\ zeroAt /\ ~spinning
    /\ zeroTries = ZeroRetries => ~due          \* bound: the server is not that late
    /\ zeroAt' = FALSE
    /\ queue' = Queued(queue, "zero-retry", {"instant"}, call.st # "none")
    /\ UNCHANGED <<server, snap, call, retryAt, retryUsed, zeroTries, screen, write, told, asks, misses>>
RetryFires ==
    /\ retryAt
    /\ retryAt' = FALSE /\ retryUsed' = TRUE
    /\ today' = today /\ anchor' = anchor /\ spinning' = spinning
    /\ Refetch("retry", {})
    /\ UNCHANGED <<server, failure, loadFailure, call, screen, write, told, asks, misses>>

Asks == asks > 0 /\ ~sheet /\ asks' = asks - 1     \* the sheet covers the screen
Trigger(trig, then) ==
    /\ today' = today /\ spinning' = spinning
    /\ Refetch(trig, then)
    /\ UNCHANGED <<server, failure, loadFailure, call, retryAt, retryUsed, screen, write, told, misses>>
Focus == Asks /\ anchor' = anchor /\ Trigger("focus", {"consume"})
Foreground == Asks /\ anchor' = "none" /\ Trigger("foreground", {})
\* The middle Spin button while Today is on screen: pendingSpin, and the load it asks for.
MiddleSpin ==
    /\ Asks /\ ~pendingSpin
    /\ UNCHANGED <<server, today, anchor, failure, spinning, loadFailure, call, timers, screen, write, told, misses,
                   requesting>>
    /\ IF spinning THEN again' = TRUE /\ UNCHANGED <<queue, pendingSpin>>
       ELSE /\ pendingSpin' = TRUE /\ UNCHANGED again
            /\ queue' = Queued(queue, "pending", {"consume"}, call.st # "none")

(* ---- the screen --------------------------------------------------------- *)

Runs(k, after) ==                       \* runSpin: nothing while one runs
    IF today = NoDay \/ spinning \/ requesting # "none" THEN UNCHANGED <<requesting, failure, queue>>
    ELSE requesting' = k /\ failure' = NoFailure /\ queue' = Spun(queue, k, after)
HubPressed ==
    /\ Asks /\ HubOpen /\ Runs("spin", 0)
    /\ UNCHANGED <<server, today, anchor, spinning, pendingSpin, again, loadFailure, call, timers, screen, write,
                   told, misses>>
OpenBonusSheet ==
    /\ Asks /\ LinkShown /\ ~sheet
    /\ sheet' = TRUE /\ afterSeq' = View.seq
    /\ UNCHANGED <<server, snap, jobs, timers, phase, bonusActive, write, told, misses>>
StartBonus ==
    /\ sheet /\ sheet' = FALSE
    /\ bonusActive' = (bonusActive \/ ~still)
    /\ phase' = IF still THEN phase ELSE "entering"
    /\ Runs("bonus", afterSeq)
    /\ UNCHANGED <<server, today, anchor, spinning, pendingSpin, again, loadFailure, call, timers, afterSeq, write,
                   told, asks, misses>>
KeepWord ==
    /\ sheet /\ sheet' = FALSE
    /\ UNCHANGED <<server, snap, jobs, timers, phase, bonusActive, afterSeq, write, told, asks, misses>>
TryAgain ==
    /\ Asks /\ MessageShown
    /\ failure' = NoFailure
    /\ IF failure.kind = "network"
       THEN /\ requesting' = failure.action
            /\ queue' = Spun(queue, failure.action, IF failure.action = "bonus" THEN afterSeq ELSE 0)
       ELSE queue' = Queued(queue, "manual", {}, call.st # "none") /\ UNCHANGED requesting
    /\ UNCHANGED <<server, today, anchor, spinning, pendingSpin, again, loadFailure, call, timers, screen, write,
                   told, misses>>
\* "Try again" of a first load that failed.
LoadAgain ==
    /\ Asks /\ today = NoDay /\ loadFailure
    /\ queue' = Queued(queue, "manual", {}, call.st # "none")
    /\ UNCHANGED <<server, snap, call, timers, screen, write, told, misses>>

\* The effects and timers of the phases.
Phase(p) == phase' = p /\ UNCHANGED <<server, snap, jobs, timers, sheet, afterSeq, write, told, asks, misses>>
Turning == spinning /\ phase = "idle" /\ Phase("turning") /\ UNCHANGED bonusActive
HasLanded ==
    /\ phase = "turning" /\ ~spinning
    /\ Phase(IF ~still /\ Comp = "wheel" THEN "calm" ELSE "idle") /\ UNCHANGED bonusActive
Calm == phase = "calm" /\ Phase("revealing") /\ bonusActive' = FALSE
Faded == phase \in {"entering", "revealing"} /\ Phase("idle") /\ UNCHANGED bonusActive
BonusFailed ==
    /\ bonusActive /\ failure.action = "bonus"
    /\ bonusActive' = FALSE /\ Phase(phase)
LandingOnReport == spinning /\ ~still /\ phase = "turning" /\ Comp = "wheel"   \* (mutant: no failsafe)
Landing == spinning /\ (phase = "turning" \/ Comp = "result")
\* wheelLanded: the wheel's report, the failsafe, or no wheel on screen.
WheelLanded ==
    /\ Landing /\ spinning' = FALSE /\ again' = FALSE
    /\ queue' = IF again THEN Queued(queue, "landed", {}, call.st # "none") ELSE queue
    /\ UNCHANGED <<server, today, anchor, requesting, failure, pendingSpin, loadFailure, call, timers, screen, write,
                   told, asks, misses>>

(* ---- skip and post ------------------------------------------------------ *)

\* "Skip it" under its alert, or Save on the entry page, for the spin that was on screen.
WriteStarts(kind) ==
    /\ Asks /\ ActionsLive
    /\ write' = [NoWrite EXCEPT !.st = "sent", !.kind = kind, !.seq = View.seq]
    /\ UNCHANGED <<server, snap, jobs, timers, screen, told, misses>>
WriteServed ==
    LET made == IF day.st = "result" /\ day.seq = write.seq THEN Settles(day, write.kind, day.seq) ELSE day
    IN  /\ write.st = "sent"
        /\ day' = made /\ UNCHANGED <<due, still>>
        /\ write' = [write EXCEPT !.ans = made,
                       !.st = IF made.st = write.kind /\ made.seq = write.seq THEN "served" ELSE "refused"]
        /\ UNCHANGED <<snap, jobs, timers, screen, told, asks, misses>>
RefetchNothing(trig, then) ==           \* (mutant: nothing is asked for again)
    UNCHANGED <<again, queue, pendingSpin, requesting, zeroAt, zeroTries>>
RefetchAfterWrite(trig, then) == Refetch(trig, then)
WriteAnswered ==
    /\ write.st \in {"served", "refused"}
    /\ write' = NoWrite
    /\ IF write.st = "served" THEN Apply(write.ans) /\ Newest(write.ans)
       ELSE UNCHANGED <<today, anchor, loadFailure, told>>
    /\ spinning' = spinning
    /\ RefetchAfterWrite("manual", {})
    /\ UNCHANGED <<server, failure, call, retryAt, retryUsed, screen, asks, misses>>
WriteLost ==
    /\ write.st \in {"sent", "served", "refused"}
    /\ misses > 0 /\ misses' = misses - 1
    /\ write' = NoWrite
    /\ UNCHANGED <<server, snap, jobs, timers, screen, told, asks>>

(* ------------------------------------------------------------------------ *)

Init ==
    /\ day \in {[NoDay EXCEPT !.st = "waiting"], [NoDay EXCEPT !.st = "result", !.seq = 1, !.bonus = TRUE]}
    /\ due = FALSE /\ still \in {FALSE, day.st = "result"}
    /\ today = NoDay /\ anchor = "none" /\ requesting = "none" /\ failure = NoFailure
    /\ spinning = FALSE /\ pendingSpin = FALSE /\ again = FALSE /\ loadFailure = FALSE
    /\ queue = <<Load("mount", {"consume"})>> /\ call = NoCall
    /\ retryAt = FALSE /\ retryUsed = FALSE /\ zeroAt = FALSE /\ zeroTries = 0
    /\ phase = "idle" /\ bonusActive = FALSE /\ sheet = FALSE /\ afterSeq = 0 /\ stable = NoDay
    /\ write = NoWrite /\ told = 0 /\ asks = MaxAsks /\ misses = MaxMisses

\* What comes by itself: answers, timers, effects.
Answers == CallServed \/ LoadAnswered \/ SpinAnswered \/ SpinFailed("refused") \/ SpinFailed("generic")
             \/ WriteServed \/ WriteAnswered
Effects == Turning \/ HasLanded \/ BonusFailed
System == Effects \/ Answers \/ Starts \/ InstantReached \/ ZeroFires \/ RetryFires \/ Calm \/ Faded
            \/ WheelLanded
Person == Focus \/ Foreground \/ MiddleSpin \/ HubPressed \/ OpenBonusSheet \/ StartBonus \/ KeepWord
            \/ TryAgain \/ LoadAgain \/ WriteStarts("skipped") \/ WriteStarts("posted")
Step == System \/ Person \/ Outside \/ LoadLost \/ SpinFailed("network") \/ WriteLost

\* An effect runs right after the render that calls for it.  Each render keeps the day of the
\* last one that was not held.
EffectDue ==
    (spinning /\ phase = "idle") \/ (phase = "turning" /\ ~spinning) \/ (bonusActive /\ failure.action = "bonus")
Next == (IF EffectDue THEN Effects ELSE Step) /\ stable' = IF Holding' THEN stable ELSE today'

Spec == Init /\ [][Next]_vars
LiveSpec == Spec /\ WF_vars(System /\ Next) /\ WF_vars(Passes /\ Next)

(* ---- properties --------------------------------------------------------- *)

\* With nothing asked for or left to ask again, the day in the store is the newest the phone was
\* told of, by a load, a spin, a skip or a post, unless the load that would say so was lost.
Quiet == queue = <<>> /\ write.st = "none" /\ ~again /\ ~retryAt /\ ~zeroAt
TodayIsNewest == Quiet /\ misses = MaxMisses => today.v >= told

\* What keeps the next one: the day of the last render is the store's, unless the screen holds it.
RenderedFollows == ~Holding => stable = today

\* A word is not on screen before its wheel has landed: from the step that brings the answer of a
\* spin until then, what is drawn stays what it was (of every step).
HeldWhileTurning == spinning' /\ ~still /\ stable # NoDay => View' = View

Unsettled ==
    \/ Busy \/ queue # <<>> \/ write.st # "none"
    \/ today.st = "waiting" /\ day.st = "open" /\ anchor # "none"
Settled == Unsettled ~> ~Unsettled
=============================================================================
