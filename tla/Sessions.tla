------------------------------ MODULE Sessions ------------------------------
(***************************************************************************)
(* Sessions and the phones tied to them: log in, refresh (Rotate), log out *)
(* and the end of a session whose token comes twice (RevokeByHash), a      *)
(* password change, an admin's disable, and a phone that saves or deletes  *)
(* its push token (PushRepo).                                              *)
(*                                                                         *)
(* A request is a process that runs its SQL one statement at a time under  *)
(* READ COMMITTED: a statement reads what is committed when it starts,     *)
(* takes its rows one by one, waits for a row another transaction holds,   *)
(* and then looks at that row again.  Writes are seen at the commit, which *)
(* also lets the rows go.  A last statement that can wait for nothing more *)
(* is one step with its commit.                                            *)
(*                                                                         *)
(* Left out: expiry, access tokens that name no session, a statement that  *)
(* fails, and the Forgot password code, taken before users (PasswordReset). *)
(***************************************************************************)
EXTENDS Integers, FiniteSetsExt

CONSTANTS
    Ids,            \* ids of refresh tokens; uuids, so no order of creation
    Phones,         \* ids of push token rows, one a phone
    Users,          \* accounts
    Procs,          \* the requests that may run at once
    Kinds,          \* the kinds of request they may be
    None,           \* no row
    Owner,          \* the sessions there are at first: token id to account
    MaxReuseSteps   \* how far RevokeByHash follows rotated_to

ASSUME RowsAssumption ==
    /\ Ids \subseteq Int /\ Phones \subseteq Int /\ Ids \cap Phones = {}
    /\ None \notin Ids \cup Phones \cup Users
    /\ Users \cap (Ids \cup Phones) = {}
    /\ DOMAIN Owner \subseteq Ids
    /\ \A i \in DOMAIN Owner : Owner[i] \in Users
    /\ MaxReuseSteps \in Nat

\* The rows of a statement are finitely many: one of them is taken first.
ASSUME FirstRowAssumption ==
    \A S \in SUBSET (Ids \cup Phones) : S # {} => \E i \in S : \A j \in S : i =< j

\* The pool's connections are finitely many.
ASSUME ProcsAssumption == IsFiniteSet(Procs)

ASSUME KindsAssumption ==
    Kinds \subseteq {"login", "refresh", "logout", "change", "disable",
                     "enable", "save", "remove"}

VARIABLES
    token,      \* table refresh_tokens: id to row, None where there is none
    push,       \* table push_tokens: phone to row, None where there is none
    disabled,   \* users.disabled_at is set
    proc        \* the requests

vars == <<token, push, disabled, proc>>

\* created_at is kept as `older`, the tokens begun before this one's request;
\* `session`, the token the log in made, only serves the properties.
TokenRow == [user : Users, live : BOOLEAN, next : Ids \cup {None},
             older : SUBSET Ids, session : Ids]
PushRow  == [user : Users, tok : Ids \cup {None}]

ASSUME NoRowAssumption == None \notin TokenRow \cup PushRow

Idle == [kind |-> "none", at |-> "idle", user |-> None, from |-> None,
         tok |-> None, steps |-> 0, phone |-> None, new |-> None, older |-> {},
         taking |-> FALSE, todo |-> {}, hits |-> {}, seen |-> {},
         exc |-> {}, shr |-> {}]

Rows         == {i \in Ids : token[i] # None}
LiveOf(u)    == {i \in Rows : token[i].user = u /\ token[i].live}
PushOf(u)    == {f \in Phones : push[f] # None /\ push[f].user = u}
BoundTo(t)   == {f \in Phones : push[f] # None /\ push[f].tok = t}
IsLive(t)    == t # None /\ token[t].live
\* An id a rolled-back insert had drawn may come back as a later token's.
Newer(t, s)  == s \in token[t].older /\ t \notin token[s].older
Begun        == (Rows \cup {proc[q].new : q \in Procs}) \ {None}

NewToken(u, i, older, s) ==
    [user |-> u, live |-> TRUE, next |-> None, older |-> older, session |-> s]

Goto(p, r) == proc' = [proc EXCEPT ![p] = r]
Done(p)    == Goto(p, Idle)

-----------------------------------------------------------------------------
(* Row locks.  Every exclusive one keeps out the others and for share.     *)

\* Mutant: a password change goes back to the refresh tokens with the push
\* tokens in its hands.
PushBeforeSecond ==
    [first |-> "push", push |-> "second", second |-> "commit", move |-> "commit"]

\* The statement after this one, among those that take several rows.
NextStatement ==
    [first |-> "second", second |-> "push", push |-> "commit", move |-> "commit"]

\* Mutant: RevokeByHash revokes what it read without waiting for the row.
WantsNotToFollow(p) ==
    CASE proc[p].taking                              -> Min(proc[p].todo)
      [] proc[p].at = "account"                      -> proc[p].user
      [] proc[p].at \in {"rotate", "share"}          -> proc[p].tok
      [] proc[p].at = "phone"                        -> proc[p].phone
      [] OTHER                                       -> None

\* The row the next step takes, None where it takes none.
Wants(p) ==
    CASE proc[p].taking                              -> Min(proc[p].todo)
      [] proc[p].at = "account"                      -> proc[p].user
      [] proc[p].at \in {"rotate", "follow", "share"} -> proc[p].tok
      [] proc[p].at = "phone"                        -> proc[p].phone
      [] OTHER                                       -> None

Blockers(p) ==
    {q \in Procs \ {p} :
        \/ Wants(p) \in proc[q].exc
        \/ proc[p].at # "share" /\ Wants(p) \in proc[q].shr}

Runs(p, at) == proc[p].at = at /\ ~proc[p].taking /\ Blockers(p) = {}

Holding(r, i) == [r EXCEPT !.exc = @ \cup {i}]

\* Mutant: a plain read, no for share.
ReadingOnly(r, i) == r

Sharing(r, i) == [r EXCEPT !.shr = @ \cup {i}]

Begin(kind, u, at) == [Idle EXCEPT !.kind = kind, !.user = u, !.at = at]

-----------------------------------------------------------------------------
(* Requests that begin.                                                    *)

Arrives(p, kind) == proc[p] = Idle /\ kind \in Kinds

\* The password is right and the account not disabled: read before the insert.
Login(p, u) ==
    /\ Arrives(p, "login")
    /\ ~disabled[u]
    /\ Goto(p, Begin("login", u, "insert"))
    /\ UNCHANGED <<token, push, disabled>>

\* Any token ever handed out may come, and come again.  A live one will be
\* rotated: new is the id the insert draws.
Refresh(p, t, new) ==
    /\ Arrives(p, "refresh")
    /\ token[t].live
    /\ Goto(p, [Begin("refresh", token[t].user, "rotate") EXCEPT
                   !.from = t, !.tok = t, !.new = new, !.older = Begun])
    /\ UNCHANGED <<token, push, disabled>>

\* Any other ends its session.
RefreshAgain(p, t) ==
    /\ Arrives(p, "refresh")
    /\ ~token[t].live
    /\ Goto(p, [Begin("refresh", token[t].user, "walk") EXCEPT
                   !.from = t, !.tok = t])
    /\ UNCHANGED <<token, push, disabled>>

Logout(p, t) ==
    /\ Arrives(p, "logout")
    /\ Goto(p, [Begin("logout", token[t].user, "walk") EXCEPT
                   !.from = t, !.tok = t])
    /\ UNCHANGED <<token, push, disabled>>

\* RequireUser refuses a disabled account.  The access token is not looked up.
ChangePassword(p, u, new) ==
    /\ Arrives(p, "change")
    /\ ~disabled[u]
    /\ Goto(p, [Begin("change", u, "account") EXCEPT
                   !.new = new, !.older = Begun])
    /\ UNCHANGED <<token, push, disabled>>

SetDisabled(p, u, kind) ==
    /\ Arrives(p, kind)
    /\ Goto(p, Begin(kind, u, "account"))
    /\ UNCHANGED <<token, push, disabled>>

\* SaveToken and DeleteToken, with an access token of the session t.
PushToken(p, kind, t, f) ==
    /\ Arrives(p, kind)
    /\ ~disabled[token[t].user]
    /\ Goto(p, [Begin(kind, token[t].user, "share") EXCEPT
                   !.from = t, !.tok = t, !.phone = f])
    /\ UNCHANGED <<token, push, disabled>>

-----------------------------------------------------------------------------
(* Log in and refresh.                                                     *)

InsertToken(p, new) ==
    /\ Runs(p, "insert")
    /\ token' = [token EXCEPT ![new] = NewToken(proc[p].user, new, Begun, new)]
    /\ Done(p)
    /\ UNCHANGED <<push, disabled>>

\* Mutant: Rotate trusts GetActiveByHash and does not look at the row again.
StillThere(t) == token[t] # None

StillLive(t) == token[t].live

\* update ... where id = old and revoked_at is null: no row, and the insert is
\* rolled back and the session ended in a transaction of its own.
Rotate(p) ==
    /\ Runs(p, "rotate")
    /\ Goto(p, IF StillLive(proc[p].tok)
               THEN [Holding(proc[p], proc[p].tok) EXCEPT !.at = "move"]
               ELSE [proc[p] EXCEPT !.at = "walk", !.new = None, !.older = {}])
    /\ UNCHANGED <<token, push, disabled>>

CommitRotate(p) ==
    /\ Runs(p, "commit") /\ proc[p].kind = "refresh"
    /\ LET r == proc[p]
           old == token[r.tok]
       IN  /\ token' = [token EXCEPT
                           ![r.tok].live = FALSE, ![r.tok].next = r.new,
                           ![r.new] = NewToken(r.user, r.new, r.older, old.session)]
           /\ push' = [f \in Phones |->
                          IF f \in r.hits THEN [push[f] EXCEPT !.tok = r.new]
                                          ELSE push[f]]
    /\ Done(p)
    /\ UNCHANGED disabled

-----------------------------------------------------------------------------
(* RevokeByHash: a log out, or the end of a session.                       *)

\* The chain from t along rotated_to, as far as MaxReuseSteps, in one read; it
\* stays at its end.
Chains(t) ==
    {chain \in [0 .. MaxReuseSteps -> Rows] :
        /\ chain[0] = t
        /\ \A k \in 1 .. MaxReuseSteps :
               chain[k] = IF token[chain[k - 1]].next = None THEN chain[k - 1]
                                                             ELSE token[chain[k - 1]].next}

Walk(p) ==
    /\ Runs(p, "walk")
    /\ \E chain \in Chains(proc[p].tok), k \in 0 .. MaxReuseSteps :
           /\ chain[k] = chain[MaxReuseSteps]
           /\ \A j \in 0 .. k - 1 : chain[j] # chain[k]
           /\ Goto(p, [proc[p] EXCEPT !.at = "follow", !.tok = chain[k], !.steps = k])
    /\ UNCHANGED <<token, push, disabled>>

\* Mutant: what the read found is revoked, and not followed.
NothingToFollow(p) == FALSE

MoreToFollow(p) == token[proc[p].tok].next # None

\* Mutant: one step too many.
LimitPassed(p) == proc[p].steps > MaxReuseSteps

LimitReached(p) == proc[p].steps = MaxReuseSteps

\* Hold the row; follow it if a refresh has rotated it meanwhile, give up past
\* the limit, revoke it if it is live.
Follow(p) ==
    /\ Runs(p, "follow")
    /\ IF MoreToFollow(p)
       THEN /\ IF LimitReached(p)
               THEN Done(p)
               ELSE Goto(p, [Holding(proc[p], proc[p].tok) EXCEPT
                                !.tok = token[proc[p].tok].next, !.steps = @ + 1])
            /\ UNCHANGED token
       ELSE /\ token' = [token EXCEPT ![proc[p].tok].live = FALSE]
            /\ Done(p)
    /\ UNCHANGED <<push, disabled>>

-----------------------------------------------------------------------------
(* A password change and a disable.                                        *)

\* The account's row is held from here on.
Account(p) ==
    /\ Runs(p, "account")
    /\ CASE proc[p].kind = "enable" ->
                /\ disabled' = [disabled EXCEPT ![proc[p].user] = FALSE]
                /\ Done(p)
         [] proc[p].kind = "change" /\ disabled[proc[p].user] ->
                Done(p) /\ UNCHANGED disabled
         [] OTHER ->
                /\ Goto(p, [Holding(proc[p], proc[p].user) EXCEPT !.at = "first"])
                /\ UNCHANGED disabled
    /\ UNCHANGED <<token, push>>

\* What a statement selects when it starts, its own writes included.
Selected(p) ==
    CASE proc[p].at \in {"first", "second"} -> LiveOf(proc[p].user) \ proc[p].hits
      [] proc[p].at = "push"                -> PushOf(proc[p].user)
      [] proc[p].at = "move"                -> BoundTo(proc[p].tok)

\* What it finds of the row i once it holds it.
StillSelected(p, i) == i \in Selected(p)

\* Mutant: one revoke only.
Unrevoked(p) == IF proc[p].at = "second" THEN {} ELSE Selected(p)

ToTake(p) == Selected(p)

Select(p) ==
    /\ proc[p].at \in DOMAIN NextStatement /\ Runs(p, proc[p].at)
    /\ LET rows == ToTake(p)
           r == [proc[p] EXCEPT !.seen = IF proc[p].at = "first" THEN rows ELSE @]
       IN  Goto(p, IF rows = {} THEN [r EXCEPT !.at = NextStatement[r.at]]
                   ELSE [r EXCEPT !.taking = TRUE, !.todo = rows])
    /\ UNCHANGED <<token, push, disabled>>

\* Rows are taken in the order of their ids.
TakeRow(p) ==
    /\ proc[p].taking /\ Blockers(p) = {}
    /\ LET i    == Wants(p)
           held == [Holding(proc[p], i) EXCEPT
                       !.todo = @ \ {i},
                       !.hits = IF StillSelected(p, i) THEN @ \cup {i} ELSE @]
       IN  Goto(p, IF held.todo # {} THEN held
                   ELSE [held EXCEPT !.taking = FALSE, !.at = NextStatement[held.at]])
    /\ UNCHANGED <<token, push, disabled>>

CommitAccount(p) ==
    /\ Runs(p, "commit") /\ proc[p].kind \in {"change", "disable"}
    /\ LET r == proc[p]
           revoked == [i \in Ids |-> IF i \in r.hits
                                     THEN [token[i] EXCEPT !.live = FALSE]
                                     ELSE token[i]]
       IN  /\ token' = IF r.kind = "change"
                       THEN [revoked EXCEPT
                                ![r.new] = NewToken(r.user, r.new, r.older, r.new)]
                       ELSE revoked
           /\ push' = [f \in Phones |-> IF f \in r.hits THEN None ELSE push[f]]
           /\ disabled' = [disabled EXCEPT ![r.user] = @ \/ r.kind = "disable"]
    /\ Done(p)

-----------------------------------------------------------------------------
(* A phone's push token.                                                   *)

\* currentSession: hold for share each token from the session named to the
\* one it holds now.
ShareToken(p) ==
    /\ Runs(p, "share")
    /\ LET next == token[proc[p].tok].next
           r    == Sharing(proc[p], proc[p].tok)
       IN  Goto(p, IF next = None THEN [r EXCEPT !.at = "phone"]
                                  ELSE [r EXCEPT !.tok = next])
    /\ UNCHANGED <<token, push, disabled>>

Save(p) == push' = [push EXCEPT ![proc[p].phone] =
                       [user |-> proc[p].user, tok |-> proc[p].tok]]
Drop(p) == push' = [push EXCEPT ![proc[p].phone] = None]

\* Insert the row, or hold it.  One tied to nothing or to this session is
\* written at once; for another session, bound, there is a read to make.
HoldPhone(p) ==
    /\ Runs(p, "phone")
    /\ LET row == push[proc[p].phone] IN
       IF row # None /\ row.tok \notin {None, proc[p].tok}
          /\ (proc[p].kind = "remove" => row.user = proc[p].user)
       THEN /\ Goto(p, [Holding(proc[p], proc[p].phone) EXCEPT !.at = "bound"])
            /\ UNCHANGED push
       ELSE /\ Done(p)
            /\ IF proc[p].kind = "save" THEN Save(p)
               ELSE IF row # None /\ row.user = proc[p].user THEN Drop(p)
               ELSE UNCHANGED push
    /\ UNCHANGED <<token, disabled>>

\* Mutant: any live session may take the phone from another.
StaysWithTheLive(p, bound) == IsLive(bound) /\ ~IsLive(proc[p].tok)

\* The token stays with its live session when the caller's has ended, or when
\* both are live and of one person and its session is the newer.
StaysBound(p, bound) ==
    /\ IsLive(bound)
    /\ \/ ~IsLive(proc[p].tok)
       \/ token[bound].user = proc[p].user /\ Newer(bound, proc[p].tok)

DecidePhone(p) ==
    /\ Runs(p, "bound")
    /\ LET bound == push[proc[p].phone].tok IN
       IF proc[p].kind = "save"
       THEN IF StaysBound(p, bound) THEN UNCHANGED push ELSE Save(p)
       ELSE IF IsLive(bound) THEN UNCHANGED push ELSE Drop(p)
    /\ Done(p)
    /\ UNCHANGED <<token, disabled>>

-----------------------------------------------------------------------------

Init ==
    /\ token = [i \in Ids |-> IF i \in DOMAIN Owner
                              THEN NewToken(Owner[i], i, {j \in DOMAIN Owner : j < i}, i)
                              ELSE None]
    /\ push = [f \in Phones |-> None]
    /\ disabled = [u \in Users |-> FALSE]
    /\ proc = [p \in Procs |-> Idle]

Free == Ids \ Begun

Arrival(p) ==
    \/ \E u \in Users : Login(p, u)
    \/ \E t \in Rows, new \in Free : Refresh(p, t, new)
    \/ \E t \in Rows : RefreshAgain(p, t) \/ Logout(p, t)
    \/ \E u \in Users, new \in Free : ChangePassword(p, u, new)
    \/ \E u \in Users, kind \in {"disable", "enable"} : SetDisabled(p, u, kind)
    \/ \E t \in Rows, f \in Phones, kind \in {"save", "remove"} :
           PushToken(p, kind, t, f)

Step(p) ==
    \/ \E new \in Free : InsertToken(p, new)
    \/ Rotate(p) \/ CommitRotate(p)
    \/ Walk(p) \/ Follow(p)
    \/ Account(p) \/ Select(p) \/ TakeRow(p) \/ CommitAccount(p)
    \/ ShareToken(p) \/ HoldPhone(p) \/ DecidePhone(p)

Next == \E p \in Procs : Arrival(p) \/ Step(p)

Spec == Init /\ [][Next]_vars

-----------------------------------------------------------------------------
(* Type correctness.                                                       *)

Request ==
    [kind  : Kinds \cup {"none"},
     at    : {"idle", "insert", "rotate", "move", "walk", "follow", "account",
              "first", "second", "push", "commit", "share", "phone", "bound"},
     user  : Users \cup {None},
     from  : Ids \cup {None},
     tok   : Ids \cup {None},
     steps : 0 .. MaxReuseSteps,
     phone : Phones \cup {None},
     new   : Ids \cup {None},
     older : SUBSET Ids,
     taking : BOOLEAN,
     todo  : SUBSET (Ids \cup Phones),
     hits  : SUBSET (Ids \cup Phones),
     seen  : SUBSET Ids,
     exc   : SUBSET (Ids \cup Phones \cup Users),
     shr   : SUBSET Ids]

TypeOK ==
    /\ token \in [Ids -> TokenRow \cup {None}]
    /\ push \in [Phones -> PushRow \cup {None}]
    /\ disabled \in [Users -> BOOLEAN]
    /\ proc \in [Procs -> Request]

-----------------------------------------------------------------------------
(* Safety.                                                                 *)

SessionLive(s) == \E i \in Rows : token[i].session = s /\ token[i].live

\* Two refreshes with one token, at once or one after the other, never leave
\* their session with two live tokens (Rotate looks at the row it holds).
SessionHasOneLiveToken ==
    \A i, j \in Rows :
        token[i].session = token[j].session /\ token[i].live /\ token[j].live => i = j

\* A session that has ended stays ended: no refresh that was in flight when it
\* was logged out, reused, changed away or disabled brings it back.
EndedStaysEnded ==
    [][\A s \in {token[i].session : i \in Rows} :
           ~SessionLive(s) => ~SessionLive(s)']_vars

\* When a log out is answered, or a refresh with a token that came before, its
\* session is over, however many refreshes it met on the way; only a token
\* more than MaxReuseSteps refreshes old ends nothing (RevokeByHash).
RevokeEndsTheSession ==
    [][\A p \in Procs, s \in Ids :
           /\ proc[p].at = "follow" /\ proc'[p] = Idle
           /\ s = token[proc[p].from].session
           /\ \E chain \in Chains(proc[p].from) : token[chain[MaxReuseSteps]].next = None
           => ~SessionLive(s)']_vars

\* A password change or a disable ends every session it found, also one whose
\* refresh was in flight: neither the token it found nor the one such a
\* refresh made of it is live afterwards (the second revoke).
RefreshInFlightDies ==
    [][\A p \in Procs :
           CommitAccount(p) =>
               \A i \in proc[p].seen :
                   /\ ~token'[i].live
                   /\ token'[i].next # None => ~token'[token'[i].next].live]_vars

\* No requests ever wait on each other in a circle (session_locks.go).
NoWaitCycle ==
    \A waiting \in (SUBSET Procs) \ {{}} :
        \E p \in waiting : Blockers(p) \cap waiting = {}

\* A phone's push token is tied to a session of its own account, and to the
\* token that session holds now: no save that races a refresh leaves it on the
\* one before, where its pushes would stop.
PushOnCurrentToken ==
    \A f \in Phones :
        push[f] # None /\ push[f].tok # None =>
            /\ token[push[f].tok].next = None
            /\ token[push[f].tok].user = push[f].user

\* A live session keeps its phone.  It loses it to a change or disable of the
\* account, to its own delete, or to a live session: another person's, or one
\* of the same person that is not older.  A late save or delete of a session
\* that ended, or was left, takes nothing.
LiveSessionKeepsPhone ==
    [][\A f \in Phones :
           push[f] # None /\ IsLive(push[f].tok) /\ push'[f] # push[f] =>
               \/ \E p \in Procs : CommitAccount(p) /\ proc[p].user = push[f].user
               \/ \E p \in Procs : proc[p].kind = "remove" /\ proc[p].phone = f
                                    /\ proc[p].tok = push[f].tok /\ proc'[p] = Idle
               \/ /\ push'[f] # None
                  /\ \/ push'[f].tok = token'[push[f].tok].next
                     \/ /\ IsLive(push'[f].tok)
                        /\ push'[f].user = push[f].user
                               => ~Newer(push[f].tok, push'[f].tok)]_vars
=============================================================================
