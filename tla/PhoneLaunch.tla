----------------------------- MODULE PhoneLaunch -----------------------------
(***************************************************************************)
(* The start of the app and its doors: the launch gate (fonts, the         *)
(* restore, the intro flag) under the splash, the redirect of index.tsx to *)
(* the signed-out or the signed-in pages, the log in page, and the taps on *)
(* notifications that open a page.                                         *)
(*                                                                         *)
(* The session is seen from the screens: a restore or a log in is one      *)
(* answer here, PhoneSession has its steps.  A tap is its number; the two  *)
(* hooks of the signed-in layout that listen for taps are "push" and       *)
(* "reminder".                                                             *)
(***************************************************************************)
EXTENDS Integers, FiniteSets

CONSTANTS
    MaxLaunchTaps,      \* bound: notifications tapped
    MaxEntries,         \* bound: sessions begun on this phone
    MaxLaunchFails      \* bound: calls that fail

AuthPages == {"welcome", "choose", "login", "signup", "forgot"}
Tabs      == {"today", "board", "profile"}
Hooks     == {"push", "reminder"}
\* What a notification asks for: a page of pushTarget's, none (null), or the reminder.
TapKinds  == {"entry", "nowhere", "reminder"}

VARIABLES
    status, extrasPending,              \* the session store
    fonts, introResolved, splashUp,     \* the gate's other two parts; the native splash
    restoring,                          \* a restore runs
    rootPage,                           \* "index", one of AuthPages, or "app"
    appTab, top,                           \* the signed-in pages: the tab, the page pushed on Today ("" none)
    loginTyped, loginError, loginFormError, loginCall,  \* the log in page; the call that is out
    launchTaps, lastTap, handled, launchReads,    \* kinds so far; the phone's last tap; the hooks' marks and
                                            \* the values a launch read may answer
    followed, tapOvertaken,                \* history: pages opened by each tap; the taps of a launch read
                                        \* that answered an older tap after a newer one was followed
    entriesLeft, launchFails

session  == <<status, extrasPending>>
gate     == <<fonts, introResolved, splashUp>>
pages    == <<rootPage, appTab, top>>
form     == <<loginTyped, loginError, loginFormError, loginCall>>
tapState == <<launchTaps, lastTap, handled, launchReads, followed, tapOvertaken>>
bounds   == <<entriesLeft, launchFails>>
vars     == <<session, gate, restoring, pages, form, tapState, bounds>>

LaunchFails == launchFails > 0 /\ launchFails' = launchFails - 1

(* ---- the gate and the doors ----------------------------------------------- *)

FontsLoaded == fonts = "loaded"  \* (mutant: fonts that failed to load hold the gate)
FontsSettled == fonts \in {"loaded", "failed"}
GateSettled == status # "loading" /\ FontsSettled /\ introResolved
\* Every account the server makes has a name and a username, so its onboarding is complete.
SignedInDoor == GateSettled /\ status = "authenticated"
SignedOutDoor == GateSettled /\ status # "authenticated"
\* A layout that leaves stops listening; its launch reads answer no one.
Unmounted == [h \in Hooks |-> {}]
\* After a step that moves the doors: the root Stack is at index again once its group is gone.
DoorsMove ==
    /\ rootPage' = CASE rootPage = "app" /\ ~SignedInDoor' -> "index"
                    [] rootPage \in AuthPages /\ ~SignedOutDoor' -> "index"
                    [] OTHER -> rootPage
    /\ launchReads' = IF rootPage = "app" /\ rootPage' # "app" THEN Unmounted ELSE launchReads
    /\ UNCHANGED <<appTab, top, launchTaps, lastTap, handled, followed, tapOvertaken>>

FontsEnd(f) ==
    /\ fonts = "loading" /\ fonts' = f /\ (f = "failed" => LaunchFails) /\ (f # "failed" => UNCHANGED launchFails)
    /\ UNCHANGED <<session, introResolved, splashUp, restoring, pages, form, tapState, entriesLeft>>
\* hasSeenIntro: a failed read counts as not seen; either way the flag is resolved.
IntroRead ==
    /\ ~introResolved /\ introResolved' = TRUE
    /\ UNCHANGED <<session, fonts, splashUp, restoring, pages, form, tapState, bounds>>
SplashHides ==
    /\ GateSettled /\ splashUp /\ splashUp' = FALSE
    /\ UNCHANGED <<session, fonts, introResolved, restoring, pages, form, tapState, bounds>>

\* The restore at launch, of a return to the front, and of Try again on the offline page.
MayRestore == ~restoring /\ loginCall.st # "landing"
AsksRestore ==
    /\ status \in {"unauthenticated", "offline"} /\ MayRestore /\ restoring' = TRUE
    /\ LaunchFails
    /\ UNCHANGED <<session, gate, pages, form, tapState, entriesLeft>>
\* Its answer; nothing when someone signed in meanwhile.
RestoreEnds(outcome) ==
    /\ restoring /\ restoring' = FALSE
    /\ status' = IF status = "authenticated" \/ loginCall.st = "landing" THEN status ELSE outcome
    /\ UNCHANGED <<extrasPending, gate, form, bounds>> /\ DoorsMove

\* index.tsx: one redirect, on every landing; the signed-in layout mounts with it, and both hooks
\* read the tap that started the app.
Redirect ==
    /\ rootPage = "index" /\ GateSettled
    /\ IF SignedInDoor
       THEN /\ rootPage' = "app" /\ appTab' = (IF extrasPending THEN "profile" ELSE "today")
            /\ top' = ""
            /\ launchReads' = [h \in Hooks |-> {lastTap}]
       ELSE rootPage' = "welcome" /\ UNCHANGED <<appTab, top, launchReads>>
    /\ UNCHANGED <<session, gate, restoring, form, launchTaps, lastTap, handled, followed, tapOvertaken, bounds>>

(* ---- the signed-out pages --------------------------------------------------- *)

Before == [choose |-> "welcome", login |-> "choose", signup |-> "choose", forgot |-> "login"]
NoLoginCall == [st |-> "none", extras |-> FALSE]
EmptyForm == loginTyped' = "none" /\ loginError' = "" /\ loginFormError' = ""
\* The offline page lies over everything.
On(page) == rootPage = page /\ ~splashUp /\ status # "offline"
AuthGoes(from, to) ==
    /\ On(from) /\ rootPage' = to
    /\ IF to \in {"choose", "welcome"} THEN EmptyForm ELSE UNCHANGED <<loginTyped, loginError, loginFormError>>
    /\ UNCHANGED <<session, gate, restoring, appTab, top, loginCall, tapState, bounds>>
AuthMoves ==
    \/ AuthGoes("welcome", "choose") \/ AuthGoes("choose", "login") \/ AuthGoes("choose", "signup")
    \/ AuthGoes("login", "forgot")
    \/ \E page \in DOMAIN Before : AuthGoes(page, Before[page])

\* The login box: empty, an address that is none, or something the server is asked about.
TypeLogin(v) ==
    /\ On("login") /\ loginTyped # v /\ loginTyped' = v
    /\ UNCHANGED <<session, gate, restoring, pages, loginError, loginFormError, loginCall, tapState, bounds>>
LoginProblem(v) == CASE v = "none" -> "enter" [] v = "notMail" -> "mail" [] OTHER -> ""
Submit ==
    /\ On("login") /\ loginCall.st = "none" /\ entriesLeft > 0
    /\ loginError' = LoginProblem(loginTyped)
    /\ IF LoginProblem(loginTyped) # ""
       THEN UNCHANGED <<loginFormError, loginCall, entriesLeft>>
       ELSE /\ loginFormError' = "" /\ loginCall' = [NoLoginCall EXCEPT !.st = "sent"]
            /\ entriesLeft' = entriesLeft - 1
    /\ UNCHANGED <<session, gate, restoring, pages, loginTyped, tapState, launchFails>>
\* POST /auth/register of the sign-up form (PhoneProfile): the same signIn, with extras.
SignUpAnswered ==
    /\ On("signup") /\ loginCall.st = "none" /\ entriesLeft > 0 /\ entriesLeft' = entriesLeft - 1
    /\ loginCall' = [st |-> "landing", extras |-> TRUE]
    /\ UNCHANGED <<session, gate, restoring, pages, loginTyped, loginError, loginFormError, tapState, launchFails>>
LoginTaken ==
    /\ loginCall.st = "sent" /\ loginCall' = [loginCall EXCEPT !.st = "landing"]
    /\ UNCHANGED <<session, gate, restoring, pages, loginTyped, loginError, loginFormError, tapState, bounds>>
\* Not taken, or the keychain refused: the boxes keep their text and a line says so.
LoginRefused(why) ==
    /\ loginCall.st = IF why = "keychain" THEN "landing" ELSE "sent"
    /\ LaunchFails /\ loginCall' = NoLoginCall
    /\ IF why = "validation" THEN loginError' = "mail" /\ UNCHANGED loginFormError
       ELSE loginFormError' = why /\ UNCHANGED loginError
    /\ UNCHANGED <<session, gate, restoring, pages, loginTyped, tapState, entriesLeft>>

\* signIn's last writes: the flag of the photo-and-bio page goes first, a plain log in clears it.
SignInLands ==
    /\ loginCall.st = "landing" /\ loginCall' = NoLoginCall
    /\ extrasPending' = loginCall.extras /\ status' = "authenticated"
    /\ UNCHANGED <<gate, restoring, loginTyped, loginError, loginFormError, bounds>> /\ DoorsMove

(* ---- the signed-in pages ----------------------------------------------------- *)

BarlessTodayPages == {"entry", "find-friends"}
BarHiddenPages == appTab = "today" /\ top \in BarlessTodayPages  \* (mutant: the photo-and-bio page shows the bar)
BarHidden == (appTab = "today" /\ top \in BarlessTodayPages) \/ (appTab = "profile" /\ extrasPending)
PressTab(t) ==
    /\ rootPage = "app" /\ ~BarHidden /\ t # appTab /\ appTab' = t
    /\ UNCHANGED <<session, gate, restoring, rootPage, top, form, tapState, bounds>>
PopPage ==
    /\ rootPage = "app" /\ appTab = "today" /\ top # "" /\ top' = ""
    /\ UNCHANGED <<session, gate, restoring, rootPage, appTab, form, tapState, bounds>>
\* Continue or Skip for now: Find your friends on Today, and the flag is cleared.
ExtrasDone ==
    /\ rootPage = "app" /\ appTab = "profile" /\ extrasPending
    /\ appTab' = "today" /\ top' = "find-friends" /\ extrasPending' = FALSE
    /\ UNCHANGED <<status, gate, restoring, rootPage, form, tapState, bounds>>
\* A log out, or a session the server ended.
SessionEnds ==
    /\ status = "authenticated" /\ loginCall.st = "none" /\ entriesLeft > 0
    /\ extrasPending' = FALSE /\ status' = "unauthenticated"
    /\ UNCHANGED <<gate, restoring, form, bounds>> /\ DoorsMove

(* ---- taps on notifications ------------------------------------------------------ *)

Listens(h, t) == t # 0 /\ (launchTaps'[t] = "reminder") = (h = "reminder") /\ launchTaps'[t] # "nowhere"
NewHere(h, t) == TRUE  \* (mutant: no mark of the tap already followed)
NewTap(h, t) == handled[h] # t
\* The page of a tap: pushTarget's pages are pushed on Today, the reminder goes to Today.
Lands(t) ==
    /\ appTab' = "today"
    /\ top' = IF launchTaps'[t] = "reminder" THEN "" ELSE launchTaps'[t]
Open(h, t) ==
    IF Listens(h, t) /\ NewTap(h, t)
    THEN /\ handled' = [handled EXCEPT ![h] = t] /\ Lands(t)
         /\ followed' = [followed EXCEPT ![t] = @ + 1]
         /\ tapOvertaken' = IF t < handled[h] THEN tapOvertaken \cup {t, handled[h]} ELSE tapOvertaken
    ELSE UNCHANGED <<handled, followed, tapOvertaken, appTab, top>>
\* A tap, heard by the hooks of a mounted layout; a launch read still out may answer it too.
Tap(kind) ==
    LET t == lastTap + 1 IN
    /\ t <= MaxLaunchTaps /\ launchTaps' = [launchTaps EXCEPT ![t] = kind] /\ lastTap' = t
    /\ launchReads' = [h \in Hooks |-> IF launchReads[h] = {} THEN {} ELSE launchReads[h] \cup {t}]
    /\ IF rootPage = "app" THEN Open(IF kind = "reminder" THEN "reminder" ELSE "push", t)
       ELSE UNCHANGED <<handled, followed, tapOvertaken, appTab, top>>
    /\ UNCHANGED <<session, gate, restoring, rootPage, form, bounds>>
LaunchRead(h) ==
    /\ launchReads[h] # {} /\ launchReads' = [launchReads EXCEPT ![h] = {}]
    /\ UNCHANGED <<launchTaps, lastTap>>
    /\ \E t \in launchReads[h] : Open(h, t)
    /\ UNCHANGED <<session, gate, restoring, rootPage, form, bounds>>

Init ==
    /\ status = "loading" /\ extrasPending = FALSE
    /\ fonts = "loading" /\ introResolved = FALSE /\ splashUp = TRUE /\ restoring = TRUE
    /\ rootPage = "index" /\ appTab = "today" /\ top = ""
    /\ loginTyped = "none" /\ loginError = "" /\ loginFormError = "" /\ loginCall = NoLoginCall
    /\ launchTaps = [t \in 1 .. MaxLaunchTaps |-> "nowhere"] /\ lastTap = 0
    /\ handled = [h \in Hooks |-> 0] /\ launchReads = Unmounted
    /\ followed = [t \in 1 .. MaxLaunchTaps |-> 0] /\ tapOvertaken = {}
    /\ entriesLeft = MaxEntries /\ launchFails = MaxLaunchFails

LaunchSteps ==
    \/ FontsEnd("loaded") \/ IntroRead \/ SplashHides \/ Redirect \/ LoginTaken \/ SignInLands
    \/ \E outcome \in {"authenticated", "unauthenticated", "offline"} : RestoreEnds(outcome)
    \/ \E h \in Hooks : LaunchRead(h)
Next ==
    \/ LaunchSteps \/ FontsEnd("failed") \/ AsksRestore \/ AuthMoves \/ Submit \/ SignUpAnswered
    \/ PopPage \/ ExtrasDone \/ SessionEnds
    \/ \E v \in {"none", "notMail", "name"} : TypeLogin(v)
    \/ \E why \in {"validation", "wrong", "lost", "keychain"} : LoginRefused(why)
    \/ \E t \in Tabs : PressTab(t)
    \/ \E kind \in TapKinds : Tap(kind)
LiveSpec == Init /\ [][Next]_vars /\ WF_vars(LaunchSteps)

(* ---- properties -------------------------------------------------------------------- *)

\* What keeps the next one: a tap that was followed once is behind the mark of its hook, or no launch
\* read holds it any more.
HookOf(t) == IF launchTaps[t] = "reminder" THEN "reminder" ELSE "push"
TapsMarked ==
    /\ lastTap \in 0 .. MaxLaunchTaps /\ DOMAIN handled = Hooks /\ DOMAIN launchReads = Hooks
    /\ DOMAIN launchTaps = 1 .. MaxLaunchTaps /\ DOMAIN followed = 1 .. MaxLaunchTaps
    /\ \A h \in Hooks : handled[h] \in 0 .. lastTap /\ launchReads[h] \subseteq 0 .. lastTap
    /\ \A t \in 1 .. MaxLaunchTaps :
          /\ followed[t] \in Nat
          /\ t \in tapOvertaken \/ followed[t] = 0 \/
             (/\ followed[t] = 1 /\ t <= lastTap
              /\ handled[HookOf(t)] >= t \/ (t < lastTap /\ t \notin launchReads[HookOf(t)]))
\* A tap opens its page once, however often the signed-in pages go and come back; only a launch read
\* that answers an older tap after a newer one was followed opens one of the two again.
TapOpensOnce == \A t \in 1 .. MaxLaunchTaps : followed[t] <= 1 \/ t \in tapOvertaken
\* What keeps the next one: each hook has a mark of the tap it followed last.
HooksMarked == DOMAIN handled = Hooks
\* The photo-and-bio page of a sign up is left by its own buttons, by a tap or by the session's end,
\* never by the bar, and no other session begins on it (of every step).
ExtrasLeft ==
    (rootPage = "app" /\ appTab = "profile" /\ extrasPending /\ rootPage' = "app" /\ appTab' # "profile")
        => (~extrasPending' \/ handled' # handled)
\* The app leaves its splash, and index sends the person on.
Launching == splashUp \/ rootPage = "index"
LaunchSettles == Launching ~> ~Launching
=============================================================================
