----------------------------- MODULE PhonePush -----------------------------
(***************************************************************************)
(* What one phone leaves on the server and must take back: its push token  *)
(* (lib/notifications/pushToken.ts) and the sessions whose log out could   *)
(* not reach the server (lib/session/store.ts).                            *)
(*                                                                         *)
(* Sessions are numbered by the sign in that made them; 0 is none.  The    *)
(* phone has one token, and the server keeps it for one session, row.  A   *)
(* call lands on the server, or is lost, before its answer is heard, and   *)
(* none lands after the phone gave it up or was closed.  Refreshes are     *)
(* PhoneSession's: here a session is in place or over.                     *)
(***************************************************************************)
EXTENDS Integers, Sequences, SequencesExt

CONSTANTS
    People,
    MaxSessions,    \* bound: sign ins on this phone
    MaxEvents,      \* bound: calls lost, keychain writes that fail, sessions ended
                    \* elsewhere, returns to the front and closes, together
    Limit           \* PENDING_LOGOUT_LIMIT (10 in the code)

NoToken == [u |-> 0, sent |-> FALSE]
NoSignIn == [loggedOut |-> FALSE, user |-> 0, registered |-> NoToken]
NoPost == [st |-> "none", s |-> 0, u |-> 0, mine |-> FALSE]
NoRun == [pc |-> "none", u |-> 0]
NoEnd == [pc |-> "none", s |-> 0, u |-> 0, same |-> FALSE, has |-> FALSE, unsent |-> FALSE, bearer |-> 0]
NoDrain == [pc |-> "none", todo |-> <<>>]
Counts == 0 .. MaxSessions
Ends == {"log", "fail"} \X Counts

VARIABLES
    live, who, row,                         \* the server: sessions, whose, the token's session
    kc, mem, count, writing,                \* the session store
    loggedOut, user, registered, before,    \* pushToken.ts
    reg, post,                              \* its registration, and its POST
    en,                                     \* log outs, by the count they began under
    pending, mayHave, kept, drain,          \* log outs kept for later
    over, dropped,                          \* logged out of and live; fell off the list
    left                                    \* what is left of MaxEvents

server == <<live, who, row>>
store  == <<kc, mem, count, writing>>
push   == <<loggedOut, user, registered, before>>
list   == <<pending, mayHave, kept, over, dropped>>
vars   == <<server, store, push, reg, post, en, list, drain, left>>

Since(e) == count # e                       \* signedInSince

(* ---- calls of the token ------------------------------------------------ *)

\* The server (push_repo.go): a token stays with a newer session of its person,
\* and with a live one when the caller's has ended; a DELETE takes only the
\* caller's own or one that nothing live holds.
RowAfterPost(s) ==
    IF \/ row = 0
       \/ s \in live /\ ~(row \in live /\ row > s /\ who[row] = who[s])
       \/ s \notin live /\ row \notin live
    THEN s ELSE row
RowAfterDelete(s) ==
    IF row # 0 /\ who[row] = who[s] /\ (row = s \/ row \notin live) THEN 0 ELSE row

\* Where the row may stand once a call sent for session s has been answered, or
\* given up ("lost": on the way there or back; "no": its access token is refused).
AfterCall(s, st, after) ==
    /\ st = "no" => s \notin live
    /\ s = 0 => st = "no"
    /\ st = "lost" => left > 0
    /\ left' = IF st = "lost" THEN left - 1 ELSE left
    /\ row' \in CASE st = "ok" -> {after} [] st = "no" -> {row} [] OTHER -> {row, after}
Posted(s) == IF s = 0 THEN row ELSE RowAfterPost(s)
Deleted(s) == IF s = 0 THEN row ELSE RowAfterDelete(s)

\* unanswered: what a POST must wait for.
Unanswered == post.st # "none" \/ drain.pc = "delete" \/ \E x \in Ends : en[x].pc = "delete"

(* ---- registrations ----------------------------------------------------- *)

\* registerPushToken: shared while one runs for the same person.  A run begun
\* before a sign in sends nothing more: the sign in drops it.
Registers(u) ==
    /\ reg' = IF reg.pc = "none" THEN [pc |-> "wait", u |-> u] ELSE reg
    /\ user' = IF user = 0 THEN u ELSE user
\* One that gets no token in time ends; the others send it once every call of
\* it is answered, unless it was sent within 12 hours (recent).
RegisterEnds ==
    /\ reg.pc = "wait"
    /\ reg' = NoRun
    /\ UNCHANGED <<server, store, push, post, en, list, drain, left>>
RegisterPosts(recent) ==
    /\ reg.pc = "wait"
    /\ ~Unanswered
    /\ recent => registered.u = reg.u /\ registered.sent
    /\ IF loggedOut \/ recent
       THEN reg' = NoRun /\ UNCHANGED <<registered, post>>
       ELSE /\ reg' = [reg EXCEPT !.pc = "posted"]
            /\ registered' = [u |-> reg.u, sent |-> FALSE]
            /\ post' = [st |-> IF writing # 0 THEN "queued" ELSE "sent",
                        s |-> mem, u |-> reg.u, mine |-> TRUE]
    /\ UNCHANGED <<server, store, loggedOut, user, before, en, list, drain, left>>
PostAnswered(st) ==
    /\ post.st = "sent"
    /\ AfterCall(post.s, st, Posted(post.s))
    /\ registered' = IF st = "ok" /\ post.mine THEN [registered EXCEPT !.sent = TRUE]
                     ELSE registered
    /\ post' = NoPost
    /\ reg' = IF reg.pc = "posted" THEN NoRun ELSE reg
    /\ UNCHANGED <<live, who, store, loggedOut, user, before, en, list, drain>>

(* ---- log outs kept for later ------------------------------------------- *)

Drains == drain' = IF drain.pc = "none" THEN [NoDrain EXCEPT !.pc = "list"] ELSE drain
ForgetLast(s) ==                            \* (mutant: the newest entry is forgotten)
    IF pending = <<>> THEN pending ELSE Front(pending)
\* The list without the entries of session s.
Forget(s) ==
    LET first[n \in 0 .. Len(pending)] ==
            IF n = 0 THEN <<>>
            ELSE IF pending[n].s # s THEN Append(first[n - 1], pending[n]) ELSE first[n - 1]
    IN  first[Len(pending)]
KeptList(e) == LET all == Append(pending, e)
               IN  SubSeq(all, IF Len(all) > Limit THEN Len(all) - Limit + 1 ELSE 1, Len(all))

DrainReads ==
    /\ drain.pc = "list"
    /\ drain' = [drain EXCEPT !.pc = "next", !.todo = pending]
    /\ UNCHANGED <<server, store, push, reg, post, en, list, left>>
\* The push token goes first, only while nobody is signed in (signedOutNow).
\* The list is read a last time behind every change asked for before.
DrainNext ==
    /\ drain.pc = "next"
    /\ IF drain.todo = <<>>
       THEN /\ \A x \in Ends : en[x].pc # "keeps"
            /\ drain' = [drain EXCEPT !.pc = "last"]
            /\ kept' = FALSE
       ELSE /\ drain' = IF Head(drain.todo).del /\ kc = 0 /\ mem = 0 /\ writing = 0
                        THEN [drain EXCEPT !.pc = "delete"]
                        ELSE [drain EXCEPT !.pc = "post"]
            /\ UNCHANGED kept
    /\ UNCHANGED <<server, store, push, reg, post, en, pending, mayHave, over, dropped, left>>
DrainDeleted(st) ==
    /\ drain.pc = "delete"
    /\ AfterCall(Head(drain.todo).s, st, Deleted(Head(drain.todo).s))
    /\ drain' = [drain EXCEPT !.pc = "post"]
    /\ UNCHANGED <<live, who, store, push, reg, post, en, list>>
\* POST /auth/logout: answered, or no answer and the rest waits too.
DrainPosts(reached, answered) ==
    LET s == Head(drain.todo).s IN
    /\ drain.pc = "post"
    /\ answered => reached
    /\ answered \/ left > 0
    /\ left' = IF answered THEN left ELSE left - 1
    /\ live' = IF reached THEN live \ {s} ELSE live
    /\ drain' = IF answered THEN [drain EXCEPT !.pc = "next", !.todo = Tail(@)] ELSE NoDrain
    /\ pending' = IF answered THEN Forget(s) ELSE pending
    /\ over' = over \cap live'
    /\ UNCHANGED <<who, row, store, push, reg, post, en, mayHave, kept, dropped>>
DrainEnds ==
    /\ drain.pc = "last"
    /\ mayHave' = (pending # <<>> \/ kept)
    /\ kept' = FALSE
    /\ drain' = NoDrain
    /\ UNCHANGED <<server, store, push, reg, post, en, pending, over, dropped, left>>
\* A request of any page worked, and the last drain is 30 seconds ago.
Worked ==
    /\ mayHave
    /\ drain.pc = "none"
    /\ Drains
    /\ UNCHANGED <<server, store, push, reg, post, en, list, left>>

(* ---- log outs ---------------------------------------------------------- *)

LogOut ==
    /\ mem # 0
    /\ en[<<"log", count>>].pc = "none"
    /\ en' = [en EXCEPT ![<<"log", count>>] = [NoEnd EXCEPT !.pc = "wait"]]
    /\ UNCHANGED <<server, store, push, reg, post, list, drain, left>>
\* The server refused to refresh the session in place.
FailedRefresh ==
    /\ kc # 0 /\ kc \notin live
    /\ writing = 0
    /\ \A kind \in {"log", "fail"} : en[<<kind, count>>].pc = "none"
    /\ en' = [en EXCEPT ![<<"fail", count>>] = [NoEnd EXCEPT !.pc = "wait"]]
    /\ UNCHANGED <<server, store, push, reg, post, list, drain, left>>

\* endSession up to unregisterPushToken: nothing more is registered.  After a
\* failed refresh the DELETE goes out at once, else it waits for the POSTs of
\* the person leaving; with no POST in this run the phone is asked for the token.
ToLogOut(s, unsent) == [NoEnd EXCEPT !.pc = "logout", !.s = s, !.unsent = unsent]
EndBegins(x, found) ==
    LET has == registered.u # 0 \/ (x[1] = "log" /\ found) IN
    /\ en[x].pc = "wait"
    /\ found => registered.u = 0 /\ x[1] = "log" /\ ~Since(x[2])
    /\ IF Since(x[2])
       THEN en' = [en EXCEPT ![x] = NoEnd] /\ UNCHANGED <<loggedOut, registered, post>>
       ELSE /\ writing = 0
            /\ loggedOut' = TRUE
            /\ registered' = NoToken
            /\ post' = [post EXCEPT !.mine = FALSE]
            /\ en' = [en EXCEPT ![x] =
                 CASE x[1] = "log" ->
                        [NoEnd EXCEPT !.pc = "posts", !.s = kc, !.same = TRUE, !.has = has,
                                      !.u = IF registered.u # 0 THEN registered.u ELSE user]
                   [] x[1] = "fail" /\ has ->
                        [NoEnd EXCEPT !.pc = "delete", !.s = kc, !.bearer = mem]
                   [] OTHER -> ToLogOut(kc, FALSE)]
    /\ UNCHANGED <<server, store, user, before, reg, list, drain, left>>
SameRunAlways(p) == TRUE                    \* (mutant: a sign in meanwhile is not looked for)
SameRun(p) == p.same
EndDeletes(x) ==
    LET p == en[x] IN
    /\ p.pc = "posts"
    /\ post.st = "none" \/ post.u # p.u
    /\ en' = [en EXCEPT ![x] =
                IF p.has /\ SameRun(p) THEN [p EXCEPT !.pc = "delete", !.bearer = mem]
                ELSE ToLogOut(p.s, FALSE)]
    /\ UNCHANGED <<server, store, push, reg, post, list, drain, left>>
EndDeleted(x, st) ==
    /\ en[x].pc = "delete"
    /\ AfterCall(en[x].bearer, st, Deleted(en[x].bearer))
    /\ en' = [en EXCEPT ![x] = ToLogOut(en[x].s, st = "lost")]
    /\ UNCHANGED <<live, who, store, push, reg, post, list, drain>>

\* POST /auth/logout; one with no answer is kept, not after a failed refresh.
EndPosts(x, reached, answered) ==
    LET p == en[x]
        keeps == ~answered /\ x[1] = "log"
    IN
    /\ p.pc = "logout"
    /\ answered => reached
    /\ answered \/ (left > 0 /\ p.s # 0)
    /\ left' = IF answered THEN left ELSE left - 1
    /\ live' = IF reached THEN live \ {p.s} ELSE live
    /\ en' = [en EXCEPT ![x].pc = IF keeps THEN "keeps" ELSE "clear",
                        ![x].unsent = p.unsent /\ keeps]
    /\ mayHave' = (mayHave \/ keeps)
    /\ kept' = (kept \/ (keeps /\ drain.pc = "last"))
    /\ over' = over \cap live'
    /\ UNCHANGED <<who, row, store, push, reg, post, pending, dropped, drain>>
EndKeeps(x, ok) ==
    LET e == [s |-> en[x].s, del |-> en[x].unsent]
    IN
    /\ en[x].pc = "keeps"
    /\ ok \/ left > 0
    /\ left' = IF ok THEN left ELSE left - 1
    /\ pending' = IF ok THEN KeptList(e) ELSE pending
    /\ dropped' = IF ok THEN dropped \cup ({f.s : f \in Range(pending)} \ {f.s : f \in Range(KeptList(e))})
                  ELSE dropped \cup {e.s}
    /\ en' = [en EXCEPT ![x].pc = "clear", ![x].unsent = FALSE]
    /\ UNCHANGED <<server, store, push, reg, post, mayHave, kept, over, drain>>
\* The keychain is cleared, unless someone signed in since.  When it cannot be,
\* the person stays signed in and the log out is not sent later.
EndClears(x, ok) ==
    LET p == en[x] IN
    /\ p.pc = "clear"
    /\ ok \/ (left > 0 /\ ~Since(x[2]))
    /\ left' = IF ok THEN left ELSE left - 1
    /\ en' = [en EXCEPT ![x] = NoEnd]
    /\ over' = IF ok /\ x[1] = "log" THEN (over \cup {p.s}) \cap live ELSE over
    /\ IF ok /\ ~Since(x[2]) THEN kc' = 0 /\ mem' = 0 ELSE UNCHANGED <<kc, mem>>
    /\ loggedOut' = (loggedOut /\ ok)
    /\ pending' = IF ok THEN pending ELSE Forget(p.s)
    /\ UNCHANGED <<server, count, writing, user, registered, before, reg, post,
                   mayHave, kept, dropped, drain>>

(* ---- sign ins ---------------------------------------------------------- *)

\* The generation moves on: what runs from before is no longer its.
NewRun == [x \in Ends |-> [en[x] EXCEPT !.same = FALSE]]

\* beginSignIn: a log in from the signed out pages, or a password change, which
\* ends every other session of the account and forgets its tokens.
SignIn(u) ==
    LET s == count + 1
        own(t) == t # 0 /\ who[t] = u
    IN
    /\ count < MaxSessions
    /\ u <= count + 1                       \* people are numbered as they come
    /\ writing = 0
    /\ (kc = 0 /\ mem = 0) \/ (mem # 0 /\ who[mem] = u /\ mem \in live)
    /\ who' = [who EXCEPT ![s] = u]
    /\ live' = (IF mem = 0 THEN live ELSE {t \in live : ~own(t)}) \cup {s}
    /\ row' = IF mem # 0 /\ own(row) THEN 0 ELSE row
    /\ count' = s /\ writing' = s
    /\ before' = [loggedOut |-> loggedOut, user |-> user, registered |-> registered]
    /\ en' = NewRun
    /\ loggedOut' = FALSE
    /\ user' = u
    /\ registered' = IF registered.u = u THEN [registered EXCEPT !.sent = FALSE] ELSE NoToken
    /\ reg' = NoRun
    /\ post' = [post EXCEPT !.mine = FALSE]
    /\ UNCHANGED <<kc, mem, list, drain, left>>

\* A POST that waited for the sign in goes out with the session now in place.
Released(s) == IF post.st = "queued" THEN [post EXCEPT !.st = "sent", !.s = s] ELSE post
SignInPlaced ==
    /\ writing # 0
    /\ writing' = 0 /\ kc' = count /\ mem' = count
    /\ post' = Released(count)
    /\ before' = NoSignIn
    /\ Registers(who[count])
    /\ Drains
    /\ UNCHANGED <<server, count, loggedOut, registered, en, list, left>>
SignInFails ==
    /\ writing # 0
    /\ left > 0
    /\ left' = left - 1
    /\ writing' = 0
    /\ en' = NewRun
    /\ loggedOut' = before.loggedOut /\ user' = before.user /\ registered' = before.registered
    /\ reg' = NoRun
    /\ post' = [Released(mem) EXCEPT !.mine = FALSE]
    /\ before' = NoSignIn
    /\ UNCHANGED <<server, kc, mem, count, list, drain>>

(* ---- launch and return to the front ------------------------------------ *)

Restored ==
    /\ kc # 0 /\ mem = 0 /\ kc \in live
    /\ writing = 0
    /\ \A x \in Ends : en[x].pc = "none"
    /\ mem' = kc
    /\ Registers(who[kc])
    /\ Drains
    /\ UNCHANGED <<server, kc, count, writing, loggedOut, registered, before, post, en, list, left>>
ToFront ==
    /\ left > 0
    /\ left' = left - 1
    /\ IF mem # 0 THEN Registers(who[mem]) ELSE UNCHANGED <<reg, user>>
    /\ Drains
    /\ UNCHANGED <<server, store, loggedOut, registered, before, post, en, list>>
\* Closed and opened again: the keychain stays, also with the tokens of a sign
\* in that had just been written, and what was in memory is gone.
Close ==
    /\ left > 0
    /\ left' = left - 1
    /\ kc' \in {kc} \cup ({writing} \ {0})
    /\ mem' = 0 /\ writing' = 0
    /\ loggedOut' = FALSE /\ user' = 0 /\ registered' = NoToken
    /\ before' = NoSignIn
    /\ reg' = NoRun /\ post' = NoPost /\ en' = [x \in Ends |-> NoEnd]
    /\ mayHave' = TRUE /\ kept' = FALSE
    /\ drain' = [NoDrain EXCEPT !.pc = "list"]
    /\ row' \in {row} \cup {Posted(s) : s \in {post.s} \ {0}}
               \cup {Deleted(en[x].bearer) : x \in {y \in Ends : en[y].pc = "delete"}}
    /\ UNCHANGED <<live, who, count, pending, over, dropped>>
\* An administrator, or a password change on another phone, ends the session
\* in place.
EndedElsewhere ==
    /\ left > 0 /\ mem \in live
    /\ left' = left - 1
    /\ live' = live \ {mem}
    /\ row' = IF row = mem THEN 0 ELSE row
    /\ UNCHANGED <<who, store, push, reg, post, en, list, drain>>

(* ---- specification ----------------------------------------------------- *)

Init ==
    /\ live = {} /\ who = [s \in Counts |-> 0] /\ row = 0
    /\ kc = 0 /\ mem = 0 /\ count = 0 /\ writing = 0
    /\ loggedOut = FALSE /\ user = 0 /\ registered = NoToken
    /\ before = NoSignIn
    /\ reg = NoRun /\ post = NoPost /\ en = [x \in Ends |-> NoEnd]
    /\ pending = <<>> /\ mayHave = TRUE /\ kept = FALSE
    /\ drain = [NoDrain EXCEPT !.pc = "list"]
    /\ over = {} /\ dropped = {}
    /\ left = MaxEvents

System ==
    \/ \E st \in {"ok", "no", "lost"} : \/ PostAnswered(st) \/ DrainDeleted(st)
                                        \/ \E x \in Ends : EndDeleted(x, st)
    \/ RegisterEnds \/ \E recent \in BOOLEAN : RegisterPosts(recent)
    \/ DrainReads \/ DrainNext \/ DrainEnds
    \/ \E reached, answered \in BOOLEAN : DrainPosts(reached, answered)
    \/ FailedRefresh
    \/ \E x \in Ends, yes \in BOOLEAN : EndBegins(x, yes) \/ EndKeeps(x, yes) \/ EndClears(x, yes)
    \/ \E x \in Ends : EndDeletes(x)
    \/ \E x \in Ends, reached, answered \in BOOLEAN : EndPosts(x, reached, answered)
    \/ SignInPlaced \/ SignInFails \/ Restored
Next ==
    \/ System \/ Worked
    \/ LogOut \/ ToFront \/ Close \/ EndedElsewhere
    \/ \E u \in People : SignIn(u)

Spec == Init /\ [][Next]_vars
\* What is on its way goes on, and as long as log outs are kept some request of
\* the app works.
LiveSpec == Spec /\ WF_vars(System) /\ WF_vars(Worked)

(* ---- properties -------------------------------------------------------- *)

\* A token counted as sent is the server's for the session signed in now: no
\* call of a session before, and no log out's or kept log out's DELETE, lands
\* after the POST that was counted (for 12 hours nothing would send it again).
LiveSessionKeepsPush ==
    (mem # 0 /\ mem \in live /\ writing = 0 /\ registered.sent) => row = mem

\* A session someone logged out of is ended on the server in the end, however
\* often the call is lost or the app closed, unless its entry fell off the list.
LeftBehind == over \ dropped # {}
KeptLogOutsSent == LeftBehind ~> ~LeftBehind

=============================================================================
