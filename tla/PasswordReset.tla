--------------------------- MODULE PasswordReset ---------------------------
(***************************************************************************)
(* The Forgot password code of one account: asked for (forgot, Issue),     *)
(* typed with a new password (reset: Try, then SpendAndChangePassword),    *)
(* and deleted when an admin disables the account (SetDisabled).           *)
(*                                                                         *)
(* A request is a process.  Its statements run under READ COMMITTED as in  *)
(* Sessions: one reads when it starts, may wait for the row, and looks at  *)
(* the row again once it has it.  A row deleted meanwhile is gone for it,  *)
(* and one inserted since is not in its snapshot.                          *)
(*                                                                         *)
(* Left out: the wording of the answers and their timing, the email, the   *)
(* rate limits, and what changePassword does to the sessions (Sessions).   *)
(* Two codes drawn are never alike.                                        *)
(***************************************************************************)
EXTENDS Integers

CONSTANTS
    Procs,      \* the requests that may run at once
    Codes,      \* the codes that may be drawn
    None,       \* no row, no code
    MaxTries,   \* resetMaxAttempts
    Life,       \* resetCodeTTL, in resends
    Resend,     \* resetResendAfter
    MaxTime     \* bound: the last instant looked at

ASSUME ResetAssumption ==
    /\ None \notin Codes
    /\ MaxTries \in Nat /\ Resend \in Nat \ {0}
    /\ Life \in Nat /\ Life >= Resend
    /\ MaxTime \in Nat

VARIABLES
    code,       \* the account's row of password_resets, or None
    disabled,   \* users.disabled_at is set
    now,        \* the clock of the handler
    proc        \* the requests

vars == <<code, disabled, now, proc>>

CodeRow == [code : Codes, previous : Codes \cup {None}, tries : 0 .. MaxTries,
            created : Nat, expires : Nat]

\* `sees`: the statement found the row, or the transaction holds it deleted.
Idle == [kind |-> "none", at |-> "idle", code |-> None, time |-> 0, sees |-> FALSE]

Goto(p, r) == proc' = [proc EXCEPT ![p] = r]
Done(p)    == Goto(p, Idle)

Begin(kind, at, c, time) ==
    [kind |-> kind, at |-> at, code |-> c, time |-> time, sees |-> FALSE]

-----------------------------------------------------------------------------
(* The rows a transaction holds: the code's first, then the account's.     *)

HoldsCode(p) == proc[p].at \in {"account", "commit"} /\ proc[p].sees

\* Mutant: a disable updates users before it deletes the code.
HoldsAccountFirst(p) ==
    proc[p].at = "commit" \/ (proc[p].kind = "disable" /\ proc[p].at = "deleting")

HoldsAccount(p) == proc[p].at = "commit"

Blockers(p) ==
    {q \in Procs \ {p} :
        \/ proc[p].at \in {"issue", "trying", "deleting"} /\ HoldsCode(q)
        \/ proc[p].at = "account" /\ HoldsAccount(q)}

Runs(p, at) == proc[p].at = at /\ Blockers(p) = {}

-----------------------------------------------------------------------------
(* Ask for a code.                                                         *)

Drawn == {proc[q].code : q \in Procs}
             \cup (IF code = None THEN {} ELSE {code.code, code.previous})

\* sendCode: the account is looked up, a code is drawn and the clock read.
Forgot(p, c) ==
    /\ proc[p] = Idle
    /\ ~disabled
    /\ c \notin Drawn
    /\ Goto(p, Begin("forgot", "read", c, now))
    /\ UNCHANGED <<code, disabled, now>>

\* The one statement of Issue reads the account as it starts.
StartIssue(p) ==
    /\ Runs(p, "read")
    /\ IF disabled THEN Done(p) ELSE Goto(p, [proc[p] EXCEPT !.at = "issue"])
    /\ UNCHANGED <<code, disabled, now>>

Expired(at) == code.expires <= at

\* Mutant: a code a moment old may be replaced.
UsedUpStands(at) == Expired(at) \/ code.tries < MaxTries

MayReplace(at) ==
    Expired(at) \/ (code.tries < MaxTries /\ code.created <= at - Resend)

\* Mutant: a new code starts from zero.
NoTries(at) == 0

KeptTries(at) == IF Expired(at) THEN 0 ELSE code.tries

NewCode(c, at) ==
    [code |-> c, created |-> at, expires |-> at + Life,
     previous |-> IF code = None THEN None
                  ELSE IF Expired(at) THEN None ELSE code.code,
     tries |-> IF code = None THEN 0 ELSE KeptTries(at)]

Issue(p) ==
    /\ Runs(p, "issue")
    /\ LET r == proc[p] IN
       code' = IF code = None THEN NewCode(r.code, r.time)
               ELSE IF MayReplace(r.time) THEN NewCode(r.code, r.time)
               ELSE code
    /\ Done(p)
    /\ UNCHANGED <<disabled, now>>

-----------------------------------------------------------------------------
(* Try a code.  A request for a disabled account tries no row at all.      *)

Reset(p, c) ==
    /\ proc[p] = Idle
    /\ ~disabled
    /\ Goto(p, Begin("reset", "try", c, now))
    /\ UNCHANGED <<code, disabled, now>>

\* Mutant: one try too many.
LiveOnceMore(at) == code # None /\ code.tries <= MaxTries /\ ~Expired(at)

Live(at) == code # None /\ code.tries < MaxTries /\ ~Expired(at)

StartTry(p) ==
    /\ Runs(p, "try")
    /\ IF Live(proc[p].time)
       THEN Goto(p, [proc[p] EXCEPT !.at = "trying", !.sees = TRUE])
       ELSE Done(p)
    /\ UNCHANGED <<code, disabled, now>>

Try(p) ==
    /\ Runs(p, "trying")
    /\ LET r    == proc[p]
           live == r.sees /\ Live(r.time)
       IN  /\ IF live /\ r.code \notin {code.code, code.previous}
              THEN code' = [code EXCEPT !.tries = @ + 1]
              ELSE code' = code
           /\ IF live /\ r.code = code.code
              THEN Goto(p, [r EXCEPT !.at = "delete", !.sees = FALSE, !.time = 0])
              ELSE Done(p)
    /\ UNCHANGED <<disabled, now>>

-----------------------------------------------------------------------------
(* Spend it and change the password, or delete it and disable the account. *)

SetDisabled(p, kind) ==
    /\ proc[p] = Idle
    /\ Goto(p, Begin(kind, IF kind = "disable" THEN "delete" ELSE "account", None, 0))
    /\ UNCHANGED <<code, disabled, now>>

\* Mutant: the row is deleted whatever code it now holds.
AnyCode(r) == code # None

\* The rows of the delete: a disable takes whatever code there is.
Wanted(r) == code # None /\ (r.kind = "reset" => code.code = r.code)

\* Nothing to spend: whyNotSpent only reads.
Unfound(p) ==
    IF proc[p].kind = "reset" THEN Done(p)
    ELSE Goto(p, [proc[p] EXCEPT !.at = "account", !.sees = FALSE])

StartDelete(p) ==
    /\ Runs(p, "delete")
    /\ IF Wanted(proc[p])
       THEN Goto(p, [proc[p] EXCEPT !.at = "deleting", !.sees = TRUE])
       ELSE Unfound(p)
    /\ UNCHANGED <<code, disabled, now>>

Delete(p) ==
    /\ Runs(p, "deleting")
    /\ IF proc[p].sees /\ Wanted(proc[p])
       THEN Goto(p, [proc[p] EXCEPT !.at = "account"])
       ELSE Unfound(p)
    /\ UNCHANGED <<code, disabled, now>>

\* changePassword refuses a disabled account, and all is rolled back.
Account(p) ==
    /\ Runs(p, "account")
    /\ IF proc[p].kind = "enable"
       THEN disabled' = FALSE /\ Done(p)
       ELSE /\ IF proc[p].kind = "reset" /\ disabled
               THEN Done(p)
               ELSE Goto(p, [proc[p] EXCEPT !.at = "commit"])
            /\ UNCHANGED disabled
    /\ UNCHANGED <<code, now>>

\* The row goes, also for the statements that wait for it.
CommitDelete(p) ==
    /\ code' = None
    /\ proc' = [q \in Procs |-> IF q = p THEN Idle
                                ELSE [proc[q] EXCEPT !.sees = FALSE]]

CommitReset(p) ==
    /\ Runs(p, "commit") /\ proc[p].kind = "reset"
    /\ CommitDelete(p)
    /\ UNCHANGED <<disabled, now>>

CommitDisable(p) ==
    /\ Runs(p, "commit") /\ proc[p].kind = "disable"
    /\ disabled' = TRUE
    /\ IF proc[p].sees THEN CommitDelete(p) ELSE Done(p) /\ UNCHANGED code
    /\ UNCHANGED now

\* A statement fails, or the request is given up: everything is rolled back.
GiveUp(p) ==
    /\ proc[p] # Idle
    /\ Done(p)
    /\ UNCHANGED <<code, disabled, now>>

Tick ==
    /\ now < MaxTime
    /\ now' = now + 1
    /\ UNCHANGED <<code, disabled, proc>>

-----------------------------------------------------------------------------

Init ==
    /\ code = None
    /\ disabled = FALSE
    /\ now = 0
    /\ proc = [p \in Procs |-> Idle]

Step(p) ==
    \/ \E c \in Codes : Forgot(p, c) \/ Reset(p, c)
    \/ \E kind \in {"disable", "enable"} : SetDisabled(p, kind)
    \/ StartIssue(p) \/ Issue(p)
    \/ StartTry(p) \/ Try(p)
    \/ StartDelete(p) \/ Delete(p) \/ Account(p)
    \/ CommitReset(p) \/ CommitDisable(p)
    \/ GiveUp(p)

Next == Tick \/ \E p \in Procs : Step(p)

Spec == Init /\ [][Next]_vars

-----------------------------------------------------------------------------
(* Type correctness.                                                       *)

Request ==
    [kind : {"none", "forgot", "reset", "disable", "enable"},
     at   : {"idle", "read", "issue", "try", "trying", "delete", "deleting",
             "account", "commit"},
     code : Codes \cup {None},
     time : Nat,
     sees : BOOLEAN]

TypeOK ==
    /\ code \in CodeRow \cup {None}
    /\ disabled \in BOOLEAN
    /\ now \in Nat
    /\ proc \in [Procs -> Request]

-----------------------------------------------------------------------------
(* Safety.                                                                 *)

\* A password is only ever changed with the newest code, which is still there
\* to spend, and for an account that is not disabled: not with one replaced,
\* spent or deleted between its try and its delete, nor by a reset in flight
\* when the account is disabled (SpendAndChangePassword).
OnlyTheNewestCode ==
    [][\A p \in Procs :
           CommitReset(p) => /\ code # None
                             /\ code.code = proc[p].code
                             /\ ~disabled]_vars

\* Asking again never buys more guesses: while a code is unexpired its tries
\* are never taken back, and a used-up one is not replaced, whatever code and
\* whoever's clock the requests that race carry (Issue, Try).
GuessesAreNeverGivenBack ==
    [][code # None /\ code' # None =>
           \/ code'.created >= code.expires
           \/ /\ code'.tries >= code.tries
              /\ code.tries = MaxTries => code' = code]_vars

\* A code on its way by email stands for a minute: a second tap, or a request
\* that read its clock earlier, does not replace it (Issue's freshSince).
CodeStandsForAMinute ==
    [][code # None /\ code' # None /\ code'.code # code.code =>
           code'.created >= code.created + Resend]_vars

\* Resets, codes asked for and disables never wait on each other in a circle
\* (session_locks.go: password_resets, then users).
NoWaitCycle ==
    \A waiting \in (SUBSET Procs) \ {{}} :
        \E p \in waiting : Blockers(p) \cap waiting = {}

\* A disabled account has no code: Issue gives it none, and a disable deletes
\* the one there is.
DisabledHasNoCode == disabled => code = None
=============================================================================
