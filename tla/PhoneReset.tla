----------------------------- MODULE PhoneReset -----------------------------
(***************************************************************************)
(* The Forgot password page of a phone (forgot-password.tsx): the email,   *)
(* then the code and the new password, each button sending at most one     *)
(* request, and what the page says when an answer was lost.                *)
(*                                                                         *)
(* A code is the number of the mail it came in; the row of the server is   *)
(* its newest code or 0, with the code that one replaced or 0.  The server *)
(* is PasswordReset's, seen from here: a request it takes is one step,     *)
(* tries and expiry are left out.                                          *)
(***************************************************************************)
EXTENDS Integers, FiniteSets

CONSTANTS
    MaxSends,       \* bound: what the person sends
    MaxHolds        \* bound: answers that are lost

NoReset == [st |-> "idle", code |-> 0, answer |-> ""]

VARIABLES
    codeRow, codeFresh, lastMail,   \* the server: the row's code, under a minute old; the newest mail
    prevRow,                        \* the row's previous_code_hash
    passwordSet,                    \* codes a password was set with, by this page
    step, codeTyped, codeError, resetFormError,
    sendingReset, maybeChanged, codeSpent,  \* sendingRef, maybeChangedRef, spentRef
    forgot, reset,                  \* the request this page waits for
    adrift, lostSince,              \* history: codes of resets given up on and not served yet; codes of
                                    \* resets given up on since the last answer to an ask for a code
    sendsLeft, holds

rows  == <<codeRow, prevRow, codeFresh, lastMail, passwordSet>>
said  == <<codeError, resetFormError>>
refs  == <<sendingReset, maybeChanged, codeSpent>>
calls == <<forgot, reset>>
hist  == <<adrift, lostSince>>
vars  == <<rows, step, codeTyped, said, refs, calls, hist, sendsLeft, holds>>

Sends == sendsLeft > 0 /\ sendsLeft' = sendsLeft - 1 /\ UNCHANGED holds
Holds == holds > 0 /\ holds' = holds - 1 /\ UNCHANGED sendsLeft
Quiet == UNCHANGED <<sendsLeft, holds>>

(* ---- sendCode ------------------------------------------------------------ *)

\* The first button and Send a new code; what is drawn as busy is one render late.
MaySendDrawn == step \in {"email", "code"}  \* (mutant: no mark of a request under way)
MaySend == step \in {"email", "code"} /\ ~sendingReset

SendCode ==
    /\ MaySend /\ Sends
    /\ sendingReset' = TRUE /\ resetFormError' = "" /\ forgot' = "sent"
    /\ UNCHANGED <<rows, step, codeTyped, codeError, maybeChanged, codeSpent, reset, hist>>
\* POST /auth/password/forgot: a code under a minute old stands, and the answer is the same.  A code
\* that is replaced is kept as the previous one; of a row that was spent nothing is left.
ForgotServed ==
    /\ forgot = "sent" /\ forgot' = "ok"
    /\ IF codeRow # 0 /\ codeFresh
       THEN UNCHANGED <<codeRow, prevRow, codeFresh, lastMail>>
       ELSE lastMail' = lastMail + 1 /\ codeRow' = lastMail + 1 /\ codeFresh' = TRUE /\ prevRow' = codeRow
    /\ UNCHANGED <<passwordSet, step, codeTyped, said, refs, reset, hist>> /\ Quiet
ForgotAnswered ==
    /\ forgot = "ok" /\ forgot' = "idle"
    /\ step' = "code" /\ codeError' = "" /\ maybeChanged' = FALSE /\ sendingReset' = FALSE
    /\ lostSince' = {}
    /\ UNCHANGED <<rows, codeTyped, resetFormError, codeSpent, reset, adrift>> /\ Quiet
ForgotLost ==
    /\ forgot # "idle" /\ Holds /\ forgot' = "idle"
    /\ resetFormError' = "failed" /\ sendingReset' = FALSE
    /\ UNCHANGED <<rows, step, codeTyped, codeError, maybeChanged, codeSpent, reset, hist>>

(* ---- reset ---------------------------------------------------------------- *)

\* Any mail the person has, or digits of their own (0).
TypeCode(c) ==
    /\ step = "code" /\ c # codeTyped /\ codeTyped' = c
    /\ UNCHANGED <<rows, step, said, refs, calls, hist>> /\ Quiet
MayReset == MaySend /\ ~codeSpent
Reset ==
    /\ step = "code" /\ MayReset /\ Sends
    /\ sendingReset' = TRUE /\ codeError' = "" /\ resetFormError' = ""
    /\ reset' = [st |-> "sent", code |-> codeTyped, answer |-> ""]
    /\ UNCHANGED <<rows, step, codeTyped, maybeChanged, codeSpent, forgot, hist>>

\* POST /auth/password/reset, for the code c; ok spends the row, its previous code with it.  A code that
\* was spent is wrong, or used when it was right as the request looked and spent by another meanwhile.
Judged(c) == IF c # 0 /\ c = codeRow THEN {"ok"}
             ELSE IF c # 0 /\ c = prevRow THEN {"replaced"}
             ELSE IF c \in passwordSet THEN {"wrong", "used"} ELSE {"wrong"}
Takes(c, answer) ==
    /\ answer \in Judged(c)
    /\ IF answer = "ok"
       THEN passwordSet' = passwordSet \cup {c} /\ codeRow' = 0 /\ prevRow' = 0
       ELSE UNCHANGED <<passwordSet, codeRow, prevRow>>
    /\ UNCHANGED <<codeFresh, lastMail>>
ResetServed ==
    /\ reset.st = "sent"
    /\ \E answer \in {"ok", "replaced", "wrong", "used"} :
           Takes(reset.code, answer) /\ reset' = [reset EXCEPT !.st = "answered", !.answer = answer]
    /\ UNCHANGED <<step, codeTyped, said, refs, forgot, hist>> /\ Quiet
RemembersNot == UNCHANGED maybeChanged  \* (mutant: a lost answer leaves no mark)
Remembers == maybeChanged' = TRUE
\* The phone's time limit, or no connection: what was sent may be served all the same, later.
ResetLost ==
    /\ reset.st \in {"sent", "answered"} /\ Holds /\ reset' = NoReset
    /\ lostSince' = lostSince \cup {reset.code}
    /\ adrift' = IF reset.st = "sent" THEN adrift \cup {reset.code} ELSE adrift
    /\ Remembers /\ resetFormError' = "maybe" /\ sendingReset' = FALSE
    /\ UNCHANGED <<rows, step, codeTyped, codeError, codeSpent, forgot>>
LateReset(c) ==
    /\ \E answer \in Judged(c) : Takes(c, answer)
    /\ adrift' = adrift \ {c}
    /\ UNCHANGED <<step, codeTyped, said, refs, calls, lostSince>> /\ Quiet
ResetRefused ==
    /\ reset.st = "answered" /\ reset.answer # "ok" /\ reset' = NoReset /\ sendingReset' = FALSE
    /\ IF maybeChanged /\ reset.answer # "replaced"
       THEN resetFormError' = "maybe" /\ UNCHANGED codeError
       ELSE codeError' = reset.answer /\ UNCHANGED resetFormError
    /\ UNCHANGED <<rows, step, codeTyped, maybeChanged, codeSpent, forgot, hist>> /\ Quiet
\* The code is spent before signIn is waited for.
ResetTaken ==
    /\ reset.st = "answered" /\ reset.answer = "ok"
    /\ codeSpent' = TRUE /\ reset' = [reset EXCEPT !.st = "signin"]
    /\ UNCHANGED <<rows, step, codeTyped, said, sendingReset, maybeChanged, forgot, hist>> /\ Quiet
\* signIn lands: the guard leaves the page; or the keychain failed, and the page offers Log in.
SignedIn ==
    /\ reset.st = "signin" /\ reset' = NoReset /\ sendingReset' = FALSE /\ step' = "gone"
    /\ UNCHANGED <<rows, codeTyped, said, maybeChanged, codeSpent, forgot, hist>> /\ Quiet
SignInFails ==
    /\ reset.st = "signin" /\ reset' = NoReset /\ sendingReset' = FALSE
    /\ step' = "done" /\ resetFormError' = "set"
    /\ UNCHANGED <<rows, codeTyped, codeError, maybeChanged, codeSpent, forgot, hist>> /\ Quiet
MinutePasses ==
    /\ codeFresh /\ codeFresh' = FALSE
    /\ UNCHANGED <<codeRow, prevRow, lastMail, passwordSet, step, codeTyped, said, refs, calls, hist>> /\ Quiet

Init ==
    /\ codeRow = 0 /\ prevRow = 0 /\ codeFresh = FALSE /\ lastMail = 0 /\ passwordSet = {}
    /\ step = "email" /\ codeTyped = 0 /\ codeError = "" /\ resetFormError = ""
    /\ sendingReset = FALSE /\ maybeChanged = FALSE /\ codeSpent = FALSE
    /\ forgot = "idle" /\ reset = NoReset /\ adrift = {} /\ lostSince = {}
    /\ sendsLeft = MaxSends /\ holds = MaxHolds

ResetSteps ==
    \/ ForgotServed \/ ForgotAnswered \/ ResetServed \/ ResetRefused \/ ResetTaken \/ SignedIn \/ SignInFails
Next ==
    \/ ResetSteps \/ SendCode \/ Reset \/ ForgotLost \/ ResetLost \/ MinutePasses
    \/ \E c \in 0 .. lastMail : TypeCode(c)
    \/ \E c \in adrift : LateReset(c)
LiveSpec == Init /\ [][Next]_vars /\ WF_vars(ResetSteps)

(* ---- properties ------------------------------------------------------------ *)

\* The plain line that a code is wrong or used, whichever code was typed, is never on the page while a
\* reset that it gave up on, since a code was last sent, has set the password, then or late (the comment
\* of maybeChangedRef).  Of resets given up on before that it says nothing: the page forgets them.
NeverMisled ==
    codeError \in {"wrong", "used"} /\ step = "code" => lostSince \cap passwordSet = {}
\* What keeps the next one: the page is busy as long as a request of its own is open, and a code is spent
\* only when its answer is there.
RequestMarked ==
    /\ DOMAIN reset = {"st", "code", "answer"}
    /\ forgot # "idle" \/ reset.st # "idle" => sendingReset
    /\ forgot = "idle" \/ reset.st = "idle"
    /\ reset.st \in {"sent", "answered"} => ~codeSpent
\* A code that worked is not sent again by this page, and one request is open at a time.
OneRequestOpen ==
    /\ ~(forgot # "idle" /\ reset.st # "idle")
    /\ ~(codeSpent /\ reset.st = "sent")
\* Every wait of the page ends.
ResetBusy == sendingReset
ResetSettles == ResetBusy ~> ~ResetBusy
=============================================================================
