---------------------------- MODULE PhoneSession ----------------------------
(***************************************************************************)
(* The session kept by one phone: lib/session/store.ts, and the requests   *)
(* of lib/api/client.ts that refresh it or end it.  Sign ins, refreshes,   *)
(* log outs, the restore of a launch and requests run at once, each        *)
(* stopped at its awaits; an action is what runs between two of them.      *)
(*                                                                         *)
(* A token is [s, g]: the g-th pair of tokens of session s, where s is the *)
(* count of the sign in that made the session (0: one from before).  The   *)
(* keychain serves its calls one after another, so a call takes effect     *)
(* when it is made and the caller hears of it later.  The access token's   *)
(* own keychain entry is never read back: only whether the call failed     *)
(* matters.  A network error is an answer the client's timer gives when    *)
(* nothing else does, so every request is answered.                        *)
(***************************************************************************)
EXTENDS Integers, FiniteSets

CONSTANTS
    MaxSignIns,     \* bound: sign ins on this phone
    MaxEvents       \* bound: requests of the pages, 401 answers to sent tokens,
                    \* keychain calls that fail, returns to the front and closes
                    \* of the app, together

ASSUME PhoneSessionBounds == MaxSignIns \in Nat /\ MaxEvents \in Nat

Epochs == 0 .. MaxSignIns
None == -1                                  \* no count of sign ins
NoToken == [s |-> None, g |-> 0]
Idle == [pc |-> "none", e |-> None, tok |-> NoToken, got |-> NoToken,
         res |-> "ok", run |-> None]

Ends  == {"log", "fail"} \X Epochs          \* endSession(false), endSession(true)
Any   == <<"any", 0>>                       \* a page's request
Me    == <<"me", 0>>                        \* GET /me of the restore
Slots == Ends \cup {Any, Me}                \* and the DELETE of each log out

VARIABLES
    \* the server, and what has happened to its sessions: whose answer was lost
    \* (excused), whose new tokens a refresh dropped as a sign in began (dropped)
    alive, gen, reused, excused, dropped, asked,
    \* the store's own variables
    mem, epoch, inPlace, writing, ending, unsaved, status, inFlight, leaving,
    \* the refresh token in the keychain
    kc,
    \* what is running: sign ins, refreshes, log outs, requests, restore, saveUnsaved
    sign, rf, en, req, rs, sv,
    left                                    \* what is left of MaxEvents

server  == <<alive, gen, reused, excused, dropped>>
counts  == <<epoch, inPlace, writing>>
running == <<sign, rf, en, req, rs, sv>>
vars == <<server, asked, mem, counts, ending, unsaved, status, inFlight,
          leaving, kc, running, left>>

SinceNever(e) == FALSE                      \* (mutant: sign ins are not counted)
Since(e) == epoch # e                    \* signedInSince
IsEnding(e) == ending.e = e
SameSession(a, b) == a = b \/ (writing = None /\ inPlace <= a /\ inPlace <= b)
Rotated(e) == IF IsEnding(e) THEN ending.tok ELSE NoToken

Landing == {e \in Epochs : rf[e].pc \in {"access", "refresh"}}
LandedAlways == TRUE                        \* (mutant: nothing waits for a refresh's writes)
Landed == Landing = {} /\ sv.pc = "none"   \* refreshWritesLanded

\* one keychain call: it works, or uses up one failure
Calls(ok) ==
    /\ ok \/ left > 0
    /\ left' = IF ok THEN left ELSE left - 1
KeychainOnly == kc                          \* (mutant: unsaved tokens are forgotten)
\* sessionRefreshToken: unsaved tokens are in memory and cannot fail
Stored == IF unsaved # NoToken THEN unsaved ELSE kc
Reads(ok) == Calls(ok) /\ (unsaved # NoToken => ok)

MarkEnding(e) ==
    ending' = IF IsEnding(e) THEN ending
              ELSE [e |-> e, tok |-> NoToken]

\* A request waits for a sign in still writing, then reads the count of sign
\* ins and the access token together.  The log out of a failed refresh sends
\* its DELETE with retry, so that a 401 never refreshes again.
Sent == [Idle EXCEPT !.pc = "sent", !.e = epoch, !.tok = mem, !.res = "first"]
BeginAtOnce(again) ==                       \* (mutant: no wait for a sign in)
    [Sent EXCEPT !.res = IF again THEN "again" ELSE "first"]
BeginFirst(again) ==                        \* (mutant: a failed refresh's DELETE refreshes)
    IF writing = None THEN Sent ELSE [Idle EXCEPT !.pc = "queued", !.res = "first"]
Begin(again) ==
    IF writing = None THEN [Sent EXCEPT !.res = IF again THEN "again" ELSE "first"]
    ELSE [Idle EXCEPT !.pc = "queued", !.res = IF again THEN "again" ELSE "first"]

(* ---- refreshes ------------------------------------------------------- *)

\* What the run in flight, or a new one, will be called by its waiters.
RunFor(e) == IF inFlight # None /\ SameSession(inFlight, e) THEN inFlight ELSE e

\* doRefreshSession: join the run of this session or begin one.
AskRefresh(e, ok, budget) ==
    IF RunFor(e) = inFlight
    THEN /\ ok
         /\ left' = budget
         /\ UNCHANGED <<rf, inFlight>>
    ELSE /\ inFlight' = e
         /\ IF Rotated(e) # NoToken
            THEN /\ ok
                 /\ rf' = [rf EXCEPT ![e] = [Idle EXCEPT !.pc = "asked", !.e = e,
                                                         !.tok = Rotated(e)]]
                 /\ left' = budget
            ELSE /\ ok \/ (budget > 0 /\ unsaved = NoToken)
                 /\ left' = IF ok THEN budget ELSE budget - 1
                 /\ rf' = [rf EXCEPT ![e] =
                        [Idle EXCEPT !.pc = IF ok THEN "read" ELSE "unread",
                                     !.e = e, !.tok = IF ok THEN Stored ELSE NoToken]]

\* Run k is over: what waited for it goes on with its result.
Told(p, k, res, tok) ==
    IF p.pc = "waits" /\ p.run = k
    THEN [p EXCEPT !.pc = "got", !.res = res, !.got = tok]
    ELSE p
Finish(k, res, tok) ==
    /\ rf' = [rf EXCEPT ![k] = Idle]
    /\ inFlight' = IF inFlight = k THEN None ELSE inFlight
    /\ req' = [x \in Slots |-> Told(req[x], k, res, tok)]
    /\ rs' = Told(rs, k, res, tok)

\* endSession(true, e), begun by a refresh
EndFailed(k, e) ==
    /\ MarkEnding(e)
    /\ en' = [en EXCEPT ![<<"fail", e>>] = [Idle EXCEPT !.pc = "waits", !.e = e]]
    /\ rf' = [rf EXCEPT ![k].pc = "ends"]
    /\ UNCHANGED <<inFlight, req, rs>>

RefreshRead(k) ==
    LET r == rf[k] IN
    /\ r.pc \in {"read", "unread"}
    /\ CASE r.pc = "unread"    -> Finish(k, "failed", NoToken) /\ UNCHANGED <<en, ending>>
         [] r.pc = "read" /\ Since(r.e)
                               -> Finish(k, "ok", NoToken) /\ UNCHANGED <<en, ending>>
         [] r.pc = "read" /\ ~Since(r.e) /\ r.tok # NoToken
                               -> /\ rf' = [rf EXCEPT ![k].pc = "asked"]
                                  /\ UNCHANGED <<en, ending, inFlight, req, rs>>
         [] r.pc = "read" /\ ~Since(r.e) /\ r.tok = NoToken /\ ~IsEnding(r.e)
                               -> EndFailed(k, r.e)
         [] OTHER              -> Finish(k, "refused", NoToken) /\ UNCHANGED <<en, ending>>
    /\ UNCHANGED <<server, asked, mem, counts, unsaved, status, leaving, kc,
                   sign, sv, left>>

\* The server redeems a refresh token (Sessions): the newest one of a live
\* session rotates, an older one ends the session.  The answer may be lost,
\* and an admin or another phone may have ended the session (over).
ServerRefresh(k) ==
    LET r == rf[k]
        newest == r.tok.g = gen[r.tok.s]
    IN
    /\ r.pc = "asked"
    /\ \E lost, over \in BOOLEAN :
         LET works == newest /\ r.tok.s \in alive /\ ~over IN
         /\ rf' = [rf EXCEPT ![k].pc = "answered",
                             ![k].res = IF lost THEN "failed"
                                        ELSE IF works THEN "ok" ELSE "refused",
                             ![k].got = IF works /\ ~lost THEN [r.tok EXCEPT !.g = @ + 1]
                                        ELSE NoToken]
         /\ gen' = IF works THEN [gen EXCEPT ![r.tok.s] = @ + 1] ELSE gen
         /\ alive' = IF works THEN alive ELSE alive \ {r.tok.s}
         /\ reused' = IF newest \/ r.tok.s \notin alive THEN reused ELSE reused \cup {r.tok.s}
         /\ excused' = IF works /\ lost THEN excused \cup {r.tok.s} ELSE excused
    /\ UNCHANGED <<dropped, asked, mem, counts, ending, unsaved, status, inFlight,
                   leaving, kc, sign, en, req, rs, sv, left>>
RefreshUnreachable(k) ==
    /\ rf[k].pc = "asked"
    /\ Finish(k, "failed", NoToken)
    /\ UNCHANGED <<server, asked, mem, counts, ending, unsaved, status, leaving,
                   kc, sign, en, sv, left>>

KeepForLogOut(k, got) ==
    /\ ending' = [ending EXCEPT !.tok = got]
    /\ Finish(k, "ok", got)

\* The answer arrives.  One that worked waits for a sign in still writing.
RefreshAnswered(k, ok) ==
    LET r == rf[k]
        now == IF Since(r.e) /\ r.res = "ok" THEN epoch ELSE r.e
    IN
    /\ r.pc = "answered"
    /\ r.res = "ok" /\ Since(r.e) => writing = None
    /\ CASE r.res = "failed" \/ (r.res = "refused" /\ (Since(r.e) \/ IsEnding(r.e))) ->
              ok /\ Finish(k, r.res, NoToken) /\ UNCHANGED <<ending, left>>
         [] r.res = "refused" /\ ~Since(r.e) /\ ~IsEnding(r.e) ->
              /\ Reads(ok)
              /\ rf' = [rf EXCEPT ![k].pc = "recheck",
                                  ![k].got = IF ok THEN Stored ELSE r.tok]
              /\ UNCHANGED <<ending, inFlight, req, rs>>
         [] r.res = "ok" /\ ~SameSession(r.e, epoch) ->
              ok /\ Finish(k, "ok", NoToken) /\ UNCHANGED <<ending, left>>
         [] r.res = "ok" /\ SameSession(r.e, epoch) /\ (IsEnding(r.e) \/ IsEnding(now)) ->
              ok /\ KeepForLogOut(k, r.got) /\ UNCHANGED left
         [] OTHER ->
              /\ Reads(ok)
              /\ rf' = [rf EXCEPT ![k].pc = IF ok /\ Stored # r.tok THEN "moved" ELSE "current",
                                  ![k].e = now]
              /\ UNCHANGED <<ending, inFlight, req, rs>>
    /\ UNCHANGED <<server, asked, mem, counts, unsaved, status, leaving, kc,
                   sign, en, sv>>

\* Signs out only while the refused token is still the stored one.
RefreshRefused(k) ==
    LET r == rf[k] IN
    /\ r.pc = "recheck"
    /\ IF r.got = r.tok /\ ~Since(r.e) /\ ~IsEnding(r.e)
       THEN EndFailed(k, r.e)
       ELSE Finish(k, "refused", NoToken) /\ UNCHANGED <<en, ending>>
    /\ UNCHANGED <<server, asked, mem, counts, unsaved, status, leaving, kc,
                   sign, sv, left>>
RefreshEnded(k) ==
    LET r == rf[k] IN
    /\ r.pc = "ends"
    /\ en[<<"fail", r.e>>].pc = "none"
    /\ Finish(k, IF en[<<"fail", r.e>>].res = "ok" THEN "refused" ELSE "failed", NoToken)
    /\ UNCHANGED <<server, asked, mem, counts, ending, unsaved, status, leaving,
                   kc, sign, en, sv, left>>

\* Its own token is still the stored one: the access token is written first.
RefreshKeeps(k, ok) ==
    LET r == rf[k] IN
    /\ r.pc \in {"current", "moved"}
    /\ CASE ~Since(r.e) /\ IsEnding(r.e) ->
              ok /\ KeepForLogOut(k, r.got) /\ UNCHANGED left
         [] Since(r.e) \/ (r.pc = "moved" /\ ~IsEnding(r.e)) ->
              ok /\ Finish(k, "ok", NoToken) /\ UNCHANGED <<ending, left>>
         [] OTHER ->
              /\ Calls(ok)
              /\ rf' = [rf EXCEPT ![k].pc = "access",
                                  ![k].res = IF ok THEN "ok" ELSE "failed"]
              /\ UNCHANGED <<ending, inFlight, req, rs>>
    /\ dropped' = IF r.pc = "current" /\ Since(r.e) THEN dropped \cup {r.tok.s} ELSE dropped
    /\ UNCHANGED <<alive, gen, reused, excused, asked, mem, counts, unsaved, status,
                   leaving, kc, sign, en, sv>>

\* Then the refresh token, unless a sign in or a log out began.
RefreshWrites(k, ok) ==
    LET r == rf[k] IN
    /\ r.pc = "access"
    /\ r.res = "ok"
    /\ ~Since(r.e) /\ ~IsEnding(r.e)
    /\ Calls(ok)
    /\ kc' = IF ok THEN r.got ELSE kc
    /\ rf' = [rf EXCEPT ![k].pc = "refresh", ![k].res = IF ok THEN "ok" ELSE "failed"]
    /\ UNCHANGED <<server, asked, mem, counts, ending, unsaved, status, inFlight,
                   leaving, sign, en, req, rs, sv>>

\* The writes have landed: tokens the keychain would not keep stay in memory.
RefreshDone(k) ==
    LET r == rf[k] IN
    /\ \/ r.pc = "refresh"
       \/ r.pc = "access" /\ (r.res = "failed" \/ Since(r.e) \/ IsEnding(r.e))
    /\ unsaved' = CASE r.res = "failed" -> r.got
                    [] r.res = "ok" /\ ~Since(r.e) /\ ~IsEnding(r.e) -> NoToken
                    [] OTHER -> unsaved
    /\ CASE Since(r.e) -> Finish(k, "ok", NoToken) /\ UNCHANGED <<ending, mem>>
         [] ~Since(r.e) /\ IsEnding(r.e) -> KeepForLogOut(k, r.got) /\ UNCHANGED mem
         [] OTHER -> mem' = r.got /\ Finish(k, "ok", r.got) /\ UNCHANGED ending
    /\ dropped' = IF /\ Since(r.e) /\ r.res = "ok"
                     /\ r.pc = "access" \/ unsaved # NoToken
                  THEN dropped \cup {r.tok.s} ELSE dropped
    /\ UNCHANGED <<alive, gen, reused, excused, asked, counts, status, leaving, kc,
                   sign, en, sv, left>>

(* ---- sign ins -------------------------------------------------------- *)

\* A log in from the signed out pages, or a password change that ends every
\* other session of the account.
SignIn ==
    LET e == epoch + 1 IN
    /\ epoch < MaxSignIns
    /\ status = "unauthenticated" \/ (status = "authenticated" /\ writing = None)
    /\ epoch' = e
    /\ writing' = e
    /\ leaving' = None
    /\ sign' = [sign EXCEPT ![e] = "landing"]
    /\ alive' = IF status = "authenticated" THEN {e} ELSE alive \cup {e}
    /\ gen' = [gen EXCEPT ![e] = 1]
    /\ UNCHANGED <<reused, excused, dropped, asked, mem, inPlace, ending, unsaved, status,
                   inFlight, kc, rf, en, req, rs, sv, left>>

\* A sign in is over, and tok is the access token in memory.  The requests that
\* waited for it go out at once, before anything else runs.  The keychain serves
\* its calls in order, so a sign in overtaken by this one has ended already:
\* nothing waits for that one any more.
EndSign(e, tok) ==
    /\ sign' = [sign EXCEPT ![e] = "none"]
    /\ writing' = IF writing = e THEN None ELSE writing
    /\ req' = [x \in Slots |-> IF req[x].pc = "queued" /\ writing = e
                              THEN [Sent EXCEPT !.tok = tok, !.res = req[x].res]
                              ELSE req[x]]

\* The writes in their order; a later sign in has the last word.
SignInWrites(e, ok) ==
    /\ sign[e] \in {"landing", "access", "failed access", "failed refresh"}
    /\ sign[e] = "landing" => Landed
    /\ CASE Since(e) \/ sign[e] = "failed access" ->
              ok /\ EndSign(e, mem) /\ UNCHANGED <<kc, left>>
         [] ~Since(e) /\ sign[e] = "landing" ->
              /\ Calls(ok)
              /\ sign' = [sign EXCEPT ![e] = IF ok THEN "access" ELSE "failed access"]
              /\ UNCHANGED <<writing, req, kc>>
         [] ~Since(e) /\ sign[e] = "access" ->
              /\ Calls(ok)
              /\ sign' = [sign EXCEPT ![e] = IF ok THEN "refresh" ELSE "failed refresh"]
              /\ kc' = IF ok THEN [s |-> e, g |-> 1] ELSE kc
              /\ UNCHANGED <<writing, req>>
         [] OTHER ->                         \* the access token is put back
              /\ ok
              /\ sign' = [sign EXCEPT ![e] = "undo"]
              /\ UNCHANGED <<writing, req, kc, left>>
    /\ UNCHANGED <<server, asked, mem, epoch, inPlace, ending, unsaved, status,
                   inFlight, leaving, rf, en, rs, sv>>

SignInEnds(e) ==
    /\ sign[e] \in {"refresh", "undo"}
    /\ IF sign[e] = "refresh" /\ ~Since(e)
       THEN /\ inPlace' = e
            /\ unsaved' = NoToken
            /\ mem' = [s |-> e, g |-> 1]
            /\ status' = "authenticated"
       ELSE UNCHANGED <<inPlace, unsaved, mem, status>>
    /\ EndSign(e, mem')
    /\ UNCHANGED <<server, asked, epoch, ending, inFlight, leaving, kc, rf, en, rs, sv, left>>

(* ---- log outs -------------------------------------------------------- *)

\* doSignOut: one at a time, forgotten by a sign in.
SignOut ==
    /\ asked' = asked \cup ({mem.s, writing} \ {None})
    /\ IF leaving # None THEN UNCHANGED <<leaving, ending, en>>
       ELSE /\ leaving' = epoch
            /\ MarkEnding(epoch)
            /\ en' = [en EXCEPT ![<<"log", epoch>>] =
                        [Idle EXCEPT !.pc = "waits", !.e = epoch, !.run = writing]]

LogOut ==
    /\ status = "authenticated"
    /\ leaving = None
    /\ SignOut
    /\ UNCHANGED <<server, mem, counts, unsaved, status, inFlight, kc, sign, rf, req, rs, sv, left>>

EndOver(x, res) ==
    /\ en' = [en EXCEPT ![x] = IF x[1] = "fail" THEN [Idle EXCEPT !.res = res] ELSE Idle]
    /\ leaving' = IF x = <<"log", leaving>> THEN None ELSE leaving

\* Waits for the sign in it found, and for a refresh's writes, then reads
\* the session's refresh token.
EndReads(x, ok) ==
    LET p == en[x] IN
    /\ p.pc = "waits"
    /\ p.run \notin {e \in Epochs : sign[e] # "none"}
    /\ IF Since(p.e) THEN ok /\ EndOver(x, "ok") /\ UNCHANGED left
       ELSE /\ Landed
            /\ Reads(ok)
            /\ en' = [en EXCEPT ![x].pc = "read", ![x].tok = IF ok THEN Stored ELSE NoToken]
            /\ UNCHANGED leaving
    /\ UNCHANGED <<server, asked, mem, counts, ending, unsaved, status, inFlight,
                   kc, sign, rf, req, rs, sv>>

\* unregisterPushToken: a DELETE with the session's own request.  After a
\* failed refresh it never refreshes.  (A phone with no token sends none: to
\* the rest that is a DELETE answered at once.)
EndUnregisters(x) ==
    /\ en[x].pc = "read"
    /\ IF Since(en[x].e) THEN EndOver(x, "ok") /\ UNCHANGED req
       ELSE /\ en' = [en EXCEPT ![x].pc = "unregisters"]
            /\ req' = [req EXCEPT ![x] = Begin(x[1] = "fail")]
            /\ UNCHANGED leaving
    /\ UNCHANGED <<server, asked, mem, counts, ending, unsaved, status, inFlight,
                   kc, sign, rf, rs, sv, left>>
\* POST /auth/logout with the newest token, answered or not: it ends the
\* session whichever of its tokens it carries (Sessions).  One that failed is
\* kept to be sent again.
EndPosts(x) ==
    LET p == en[x]
        tok == IF Rotated(p.e) # NoToken THEN Rotated(p.e) ELSE p.tok
    IN
    /\ p.pc = "unregisters"
    /\ req[x].pc = "back"
    /\ req' = [req EXCEPT ![x] = Idle]
    /\ \E reached \in BOOLEAN :
         /\ tok = NoToken => ~reached
         /\ alive' = IF reached THEN alive \ {tok.s} ELSE alive
         /\ en' = [en EXCEPT ![x].pc = "posted", ![x].tok = tok]
    /\ UNCHANGED <<gen, reused, excused, dropped, asked, mem, counts, ending, unsaved, leaving,
                   status, inFlight, kc, sign, rf, rs, sv, left>>

\* saveUnsaved: both writes go out together; it may begin only while nothing
\* else writes.
SaveStarts(toks, over) ==
    /\ toks # NoToken
    /\ writing = None
    /\ Landed
    /\ over.e = None \/ over.e < inPlace
Save(toks, ok1, ok2) ==
    /\ IF ok1 /\ ok2 THEN UNCHANGED left ELSE Calls(FALSE)
    /\ kc' = IF ok1 THEN toks ELSE kc
    /\ sv' = [Idle EXCEPT !.pc = "landing", !.tok = toks,
                          !.res = IF ok1 /\ ok2 THEN "ok" ELSE "failed"]
SaveDone ==
    /\ sv.pc = "landing"
    /\ sv' = Idle
    /\ unsaved' = IF sv.res = "ok" /\ unsaved = sv.tok THEN NoToken ELSE unsaved
    /\ UNCHANGED <<server, asked, mem, counts, ending, status, inFlight, leaving,
                   kc, sign, rf, en, req, rs, left>>

\* The keychain is cleared: first the access token, then the refresh token.
\* Neither a log out nor a failed refresh touches a session signed in since.
EndClears(x, ok) ==
    LET p == en[x] IN
    /\ p.pc \in {"posted", "cleared access"}
    /\ IF Since(p.e) THEN ok /\ EndOver(x, "ok") /\ UNCHANGED <<kc, left>>
       ELSE /\ Calls(ok)
            /\ en' = [en EXCEPT ![x].pc = CASE ~ok -> "uncleared"
                                            [] ok /\ p.pc # "cleared access" -> "cleared access"
                                            [] OTHER -> "cleared"]
            /\ kc' = IF ok /\ p.pc = "cleared access" THEN NoToken ELSE kc
            /\ UNCHANGED leaving
    /\ UNCHANGED <<server, asked, mem, counts, ending, unsaved, status, inFlight,
                   sign, rf, req, rs, sv>>
EndSession(x) ==
    /\ en[x].pc = "cleared"
    /\ EndOver(x, "ok")
    /\ IF Since(en[x].e) THEN UNCHANGED <<unsaved, mem, status>>
       ELSE unsaved' = NoToken /\ mem' = NoToken /\ status' = "unauthenticated"
    /\ UNCHANGED <<server, asked, counts, ending, inFlight, kc, sign, rf,
                   req, rs, sv, left>>

\* The keychain could not be cleared: still signed in, with the tokens a
\* refresh got meanwhile, and the log out is not sent later.
EndUndone(x, ok1, ok2) ==
    LET p == en[x]
        got == Rotated(p.e)
    IN
    /\ p.pc = "uncleared"
    /\ EndOver(x, "failed")
    /\ IF Since(p.e)
       THEN ok1 /\ ok2 /\ UNCHANGED <<ending, unsaved, mem, kc, sv, left>>
       ELSE /\ ending' = IF IsEnding(p.e) THEN [e |-> None, tok |-> NoToken] ELSE ending
            /\ unsaved' = IF got # NoToken THEN got ELSE unsaved
            /\ mem' = IF got # NoToken THEN got ELSE mem
            /\ IF SaveStarts(got, ending')
               THEN Save(got, ok1, ok2)
               ELSE ok1 /\ ok2 /\ UNCHANGED <<kc, sv, left>>
    /\ UNCHANGED <<server, asked, counts, status, inFlight, sign, rf, req, rs>>

(* ---- requests (lib/api/client.ts) ------------------------------------ *)

Request ==
    /\ req[Any].pc = "none"
    /\ status = "authenticated"
    /\ left > 0
    /\ left' = left - 1
    /\ req' = [req EXCEPT ![Any] = Begin(FALSE)]
    /\ UNCHANGED <<server, asked, mem, counts, ending, unsaved, status, inFlight,
                   leaving, kc, sign, rf, en, rs, sv>>

\* The request is over: its caller takes the result (a page's has none here).
Return(x, res) ==
    req' = [req EXCEPT ![x] = CASE x = Any -> Idle
                                [] x = Me  -> [Idle EXCEPT !.pc = "back", !.res = res]
                                [] OTHER   -> [Idle EXCEPT !.pc = "back"]]
Answer(x) ==
    /\ req[x].pc = "sent"
    /\ \E a \in {"ok", "failed", "refused"} :
         /\ (a = "refused") <=> (req[x].tok = NoToken)
         /\ Return(x, a)
    /\ UNCHANGED <<server, asked, mem, counts, ending, unsaved, status, inFlight,
                   leaving, kc, sign, rf, en, rs, sv, left>>
\* 401 account_disabled: signed out at once, unless someone signed in since.
Disabled(x) ==
    LET r == req[x] IN
    /\ r.pc = "sent"
    /\ r.tok # NoToken
    /\ left > 0 /\ left' = left - 1
    /\ alive' = alive \ {r.tok.s}
    /\ Return(x, "refused")
    /\ IF Since(r.e) THEN UNCHANGED <<asked, leaving, ending, en>> ELSE SignOut
    /\ UNCHANGED <<gen, reused, excused, dropped, mem, counts, unsaved, status, inFlight, kc,
                   sign, rf, rs, sv>>
\* 401 token_expired: one shared refresh for the session it was sent for,
\* once.
Expired(x, ok) ==
    LET r == req[x] IN
    /\ r.pc = "sent"
    /\ r.tok # NoToken
    /\ left > 0
    /\ IF Since(r.e) \/ r.res = "again"
       THEN /\ ok
            /\ Return(x, "refused")
            /\ left' = left - 1
            /\ UNCHANGED <<rf, inFlight>>
       ELSE /\ req' = [req EXCEPT ![x].pc = "waits", ![x].run = RunFor(r.e)]
            /\ AskRefresh(r.e, ok, left - 1)
    /\ UNCHANGED <<server, asked, mem, counts, ending, unsaved, status, leaving,
                   kc, sign, en, rs, sv>>
\* Sent again with the token the refresh got.
Retry(x) ==
    LET r == req[x] IN
    /\ r.pc = "got"
    /\ IF Since(r.e) THEN Return(x, "refused")
       ELSE IF r.res # "ok" THEN Return(x, r.res)
       ELSE req' = [req EXCEPT ![x].pc = "sent", ![x].res = "again", ![x].got = NoToken,
                               ![x].run = None,
                               ![x].tok = IF r.got # NoToken THEN r.got ELSE mem]
    /\ UNCHANGED <<server, asked, mem, counts, ending, unsaved, status, inFlight,
                   leaving, kc, sign, rf, en, rs, sv, left>>

(* ---- launch and return to the front ---------------------------------- *)

AuthBusy == (\E e \in Epochs : sign[e] # "none")
            \/ \E x \in Ends : en[x].pc \notin {"none", "waits"}
RestoreStarts(ok) ==
    rs' = [Idle EXCEPT !.pc = IF ok THEN "read" ELSE "unread", !.e = epoch,
                       !.tok = IF ok THEN Stored ELSE NoToken]
MayRestore == rs.pc = "none" /\ ~AuthBusy

\* restore: no token is signed out, an unreadable keychain is not.
RestoreRead(ok) ==
    /\ rs.pc \in {"read", "unread"}
    /\ IF ~Since(rs.e) /\ rs.pc = "read" /\ rs.tok # NoToken
       THEN /\ AskRefresh(rs.e, ok, left)
            /\ rs' = [rs EXCEPT !.pc = "waits", !.run = RunFor(rs.e)]
            /\ UNCHANGED status
       ELSE /\ ok
            /\ rs' = Idle
            /\ status' = CASE Since(rs.e) -> status
                           [] ~Since(rs.e) /\ rs.pc = "read" -> "unauthenticated"
                           [] OTHER -> IF status = "loading" THEN "offline" ELSE status
            /\ UNCHANGED <<rf, inFlight, left>>
    /\ UNCHANGED <<server, asked, mem, counts, ending, unsaved, leaving, kc,
                   sign, en, req, sv>>
\* The catch of restore reads the keychain before it sets the status.
RestoreFails(res, ok) ==
    /\ Reads(ok)
    /\ rs' = [rs EXCEPT !.pc = "recheck", !.res = res,
                        !.tok = IF ok THEN Stored ELSE [s |-> 0, g |-> 0]]
\* With the session refreshed, GET /me.
RestoreGot(ok) ==
    /\ rs.pc = "got"
    /\ CASE rs.res # "ok" /\ ~Since(rs.e) -> RestoreFails(rs.res, ok) /\ UNCHANGED req
         [] rs.res = "ok" /\ ~Since(rs.e) /\ ~IsEnding(rs.e) ->
              /\ ok
              /\ rs' = [rs EXCEPT !.pc = "me"]
              /\ req' = [req EXCEPT ![Me] = Begin(FALSE)]
              /\ UNCHANGED left
         [] OTHER -> ok /\ rs' = Idle /\ UNCHANGED <<req, left>>
    /\ UNCHANGED <<server, asked, mem, counts, ending, unsaved, status, inFlight,
                   leaving, kc, sign, rf, en, sv>>
RestoreMe(ok) ==
    /\ rs.pc = "me"
    /\ req[Me].pc = "back"
    /\ req' = [req EXCEPT ![Me] = Idle]
    /\ IF req[Me].res # "ok" /\ ~Since(rs.e)
       THEN RestoreFails(req[Me].res, ok) /\ UNCHANGED status
       ELSE /\ ok
            /\ rs' = Idle
            /\ status' = IF Since(rs.e) \/ IsEnding(rs.e) THEN status ELSE "authenticated"
            /\ UNCHANGED left
    /\ UNCHANGED <<server, asked, mem, counts, ending, unsaved, inFlight, leaving,
                   kc, sign, rf, en, sv>>
RestoreFailed ==
    /\ rs.pc = "recheck"
    /\ rs' = Idle
    /\ status' = IF Since(rs.e) THEN status
                 ELSE IF rs.res = "failed" /\ rs.tok # NoToken THEN "offline"
                 ELSE "unauthenticated"
    /\ UNCHANGED <<server, asked, mem, counts, ending, unsaved, inFlight, leaving,
                   kc, sign, rf, en, req, sv, left>>

\* The app comes back to the front, or Try again is tapped on the offline page.
Front(ok, ok1, ok2) ==
    LET saves == SaveStarts(unsaved, ending)
        tries == status \in {"unauthenticated", "offline"} /\ MayRestore
        fails == (IF saves /\ ~(ok1 /\ ok2) THEN 1 ELSE 0) + (IF tries /\ ~ok THEN 1 ELSE 0)
    IN
    /\ left > 0
    /\ saves \/ tries
    /\ ~saves => ok1 /\ ok2
    /\ tries \/ ok
    /\ unsaved # NoToken => ok
    /\ fails < left
    /\ left' = left - 1 - fails
    /\ UNCHANGED ending
    /\ IF saves THEN /\ kc' = IF ok1 THEN unsaved ELSE kc
                     /\ sv' = [Idle EXCEPT !.pc = "landing", !.tok = unsaved,
                                           !.res = IF ok1 /\ ok2 THEN "ok" ELSE "failed"]
       ELSE UNCHANGED <<kc, sv>>
    /\ IF tries THEN RestoreStarts(ok) ELSE UNCHANGED rs
    /\ UNCHANGED <<server, asked, mem, counts, unsaved, status, inFlight, leaving,
                   sign, rf, en, req>>

\* The app is closed and opened again: what was in memory is gone.
Close ==
    /\ left > 0
    /\ left' = left - 1
    /\ excused' = excused \cup {s \in Epochs : kc.s = s /\ kc.g < gen[s]}
    /\ mem' = NoToken /\ unsaved' = NoToken /\ ending' = [e |-> None, tok |-> NoToken]
    /\ inPlace' = epoch /\ writing' = None
    /\ status' = "loading" /\ inFlight' = None /\ leaving' = None
    /\ sign' = [e \in Epochs |-> "none"]
    /\ rf' = [e \in Epochs |-> Idle]
    /\ en' = [x \in Ends |-> Idle]
    /\ req' = [x \in Slots |-> Idle]
    /\ sv' = Idle
    /\ rs' = [Idle EXCEPT !.pc = "read", !.e = epoch, !.tok = kc]
    /\ UNCHANGED <<alive, gen, reused, dropped, asked, epoch, kc>>

(* ---- specification --------------------------------------------------- *)

Init ==
    /\ kc \in {NoToken, [s |-> 0, g |-> 1]}
    /\ alive = IF kc = NoToken THEN {} ELSE {0}
    /\ gen = [e \in Epochs |-> IF e = 0 THEN 1 ELSE 0]
    /\ reused = {} /\ excused = {} /\ dropped = {} /\ asked = {}
    /\ mem = NoToken /\ unsaved = NoToken
    /\ epoch = 0 /\ inPlace = 0 /\ writing = None
    /\ ending = [e |-> None, tok |-> NoToken]
    /\ status = "loading" /\ inFlight = None /\ leaving = None
    /\ sign = [e \in Epochs |-> "none"]
    /\ rf = [e \in Epochs |-> Idle]
    /\ en = [x \in Ends |-> Idle]
    /\ req = [x \in Slots |-> Idle]
    /\ sv = Idle
    /\ rs = [Idle EXCEPT !.pc = "read", !.e = 0, !.tok = kc]
    /\ left = MaxEvents

\* What the phone and the network do by themselves.
System ==
    \/ \E k \in {e \in Epochs : rf[e].pc # "none"} :
         \/ RefreshRead(k) \/ ServerRefresh(k) \/ RefreshRefused(k) \/ RefreshEnded(k)
         \/ RefreshDone(k) \/ RefreshUnreachable(k)
         \/ \E ok \in BOOLEAN : RefreshAnswered(k, ok) \/ RefreshKeeps(k, ok) \/ RefreshWrites(k, ok)
    \/ \E k \in {e \in Epochs : sign[e] # "none"} :
         SignInEnds(k) \/ \E ok \in BOOLEAN : SignInWrites(k, ok)
    \/ \E x \in {y \in Ends : en[y].pc # "none"} :
         \/ EndUnregisters(x) \/ EndPosts(x) \/ EndSession(x)
         \/ \E ok \in BOOLEAN : EndReads(x, ok) \/ EndClears(x, ok)
         \/ \E ok1, ok2 \in BOOLEAN : EndUndone(x, ok1, ok2)
    \/ SaveDone
    \/ \E x \in {y \in Slots : req[y].pc # "none"} :
         \/ Answer(x) \/ Disabled(x) \/ Retry(x)
         \/ \E ok \in BOOLEAN : Expired(x, ok)
    \/ /\ rs.pc # "none"
       /\ \/ \E ok \in BOOLEAN : RestoreRead(ok) \/ RestoreGot(ok) \/ RestoreMe(ok)
          \/ RestoreFailed
\* What people and administrators do.
People ==
    \/ SignIn \/ LogOut \/ Request \/ Close
    \/ \E ok, ok1, ok2 \in BOOLEAN : Front(ok, ok1, ok2)
Next == System \/ People

Spec == Init /\ [][Next]_vars
LiveSpec == Spec /\ WF_vars(System)

(* ---- properties ------------------------------------------------------ *)

\* The phone never sends the server a refresh token that it replaced, which
\* ends the session: not when the keychain would not keep the new one, nor when
\* a refresh, a log out and a sign in overlap.  Only a lost answer, a close
\* before the keychain has it, or a sign in begun between the refresh's last
\* look at the store and its last write does that.
NoReuse == reused \subseteq excused \cup dropped

\* What the comment at the wait for a sign in promises: a refresh whose sign in
\* failed keeps the tokens it got for the session still in place.
RotatedIsKept == reused \subseteq excused
\* Where its run looks: one sign in fails while a refresh is under way, and nothing else disturbs the
\* session: no log out, no lost answer, no end of it on the server, no close, no page.
OneSignInFails ==
    /\ asked = {} /\ excused = {}
    /\ 0 \in alive
    /\ \A x \in Ends : en[x] = Idle
Undisturbed == req'[Any] = Idle /\ ~Close

\* The phone stops using a session it has, or forgets the refresh token that
\* would open it again, only when the person logged out of that session or the
\* server had ended it: a refresh or a log out of one before never takes it.
SignedOutForCause ==
    [][/\ status = "authenticated" /\ mem # NoToken /\ mem' = NoToken /\ status' # "loading"
            => mem.s \in asked \/ mem.s \notin alive
       /\ Stored # NoToken /\ Stored' = NoToken
            => Stored.s \in asked \/ Stored.s \notin alive]_vars

\* While no sign in writes, everything in use by a signed in phone is of one session;
\* and once a log out is over nothing of it is left, also not of a refresh that
\* was on its way.
InUse == {mem, Stored} \cup {req[x].tok : x \in {y \in Slots : req[y].pc = "sent" /\ ~Since(req[y].e)}}
         \cup {rf[k].tok : k \in {l \in Epochs : rf[l].pc = "asked" /\ ~Since(rf[l].e)}}
LoggedOut == status = "unauthenticated" /\ IsEnding(epoch) /\ \A x \in Ends : en[x].pc = "none"
OneSession ==
    writing = None =>
        /\ status = "authenticated" => \A a, b \in InUse \ {NoToken} : a.s = b.s
        /\ LoggedOut => mem = NoToken /\ kc = NoToken /\ unsaved = NoToken

\* The launch always ends on a page, and a log out always ends: no refresh,
\* request or log out waits for itself.
Settled == status # "loading" /\ \A x \in Ends : en[x].pc = "none"
Settles == []<>Settled

=============================================================================
