-------------------------- MODULE PhoneTokenProofs --------------------------
(***************************************************************************)
(* What PhoneSession keeps, for every number of sign ins and of events,    *)
(* and the steps that make tokens: refreshes and sign ins.                 *)
(* PhoneSessionProofs goes on with every other step, and has the theorems. *)
(*                                                                         *)
(* The argument.  A token is safe to send when it is the newest of its     *)
(* session, so the invariant says where the newest one is at every await:  *)
(* stored (in the keychain or unsaved), with a log out that takes it over, *)
(* or with the one refresh in flight, which has had the server's answer    *)
(* and has not written it yet (CurNewest, RunIsCur).  Refreshes of an      *)
(* earlier sign in still run, but each of an older session than all that   *)
(* is stored (Above, Apart), so none sends or writes what is in use.  The  *)
(* rest says why: a sign in takes no session over before its writes have   *)
(* landed, a log out clears nothing before a refresh's have (Writers,      *)
(* EndAfter), a session taken from the phone was ended by the server       *)
(* (Dead), and a refresh begun for a session that is no longer used has    *)
(* somebody waiting who will take nothing from it (Begun, OldAlone).       *)
(*                                                                         *)
(* CauseInv adds what a phone may be without: where the keychain is empty, *)
(* or a log out has begun, what the phone has, and what it could still get *)
(* from a refresh, is of a session that was ended for cause; and so is     *)
(* what is stored where a signed in phone has no access token.             *)
(*                                                                         *)
(* After the invariant come the values that the steps handle, then one     *)
(* lemma per step, or per thing that several steps do, that it keeps IInv, *)
(* and a short one that it keeps CauseInv too (Kept).  In the first, the   *)
(* parts that the step leaves alone come first, and then one step for each *)
(* part that it could break.                                               *)
(***************************************************************************)
EXTENDS PhoneSession, TLAPS

(* ---- The values of the variables ------------------------------------- *)

Count == Epochs \cup {None}
Token == {t \in [s : Count, g : Nat] : t.s = None => t.g = 0}
Pcs == {"none", "read", "unread", "asked", "answered", "recheck", "ends", "current", "moved", "access", "refresh",
        "waits", "got", "queued", "sent", "back", "unregisters", "posted", "cleared access", "cleared", "uncleared",
        "me", "landing"}
Results == {"ok", "failed", "refused", "first", "again"}
Run == [pc : Pcs, e : Count, tok : Token, got : Token, res : Results, run : Count]
Signs == {"none", "landing", "access", "failed access", "failed refresh", "refresh", "undo"}
Statuses == {"loading", "offline", "unauthenticated", "authenticated"}

TypeOK ==
    /\ alive \in SUBSET Epochs /\ excused \in SUBSET Epochs /\ dropped \in SUBSET Epochs
    /\ reused \in SUBSET Epochs
    /\ gen \in [Epochs -> Nat]
    /\ mem \in Token /\ unsaved \in Token /\ kc \in Token
    /\ ending \in [e : Count, tok : Token]
    /\ epoch \in Epochs /\ inPlace \in Epochs
    /\ writing \in Count /\ inFlight \in Count /\ leaving \in Count
    /\ status \in Statuses
    /\ sign \in [Epochs -> Signs]
    /\ rf \in [Epochs -> Run]
    /\ en \in [Ends -> Run]
    /\ req \in [Slots -> Run]
    /\ rs \in Run /\ sv \in Run
    /\ left \in Nat

\* The same as far as the proofs use it: a count is None or a number, and only
\* NoToken is of no session.
Counted(e) == e = None \/ e \in Epochs
CountsTyped ==
    /\ None \in Int /\ None \notin Epochs /\ \A e \in Epochs : e \in Nat /\ None < e
    /\ epoch \in Epochs /\ inPlace \in Epochs
    /\ Counted(writing) /\ Counted(inFlight) /\ Counted(leaving) /\ Counted(ending.e)
    /\ \A s \in Epochs : gen[s] \in Nat
    /\ \A s \in alive : s \in Epochs
Typed(t) == Counted(t.s) /\ t.g \in Nat /\ (t = NoToken <=> t.s = None)
TokensTyped == Typed(mem) /\ Typed(kc) /\ Typed(unsaved) /\ Typed(ending.tok) /\ Typed(sv.tok)
RunsTyped == \A k \in Epochs : Counted(rf[k].e) /\ Typed(rf[k].tok) /\ Typed(rf[k].got)
ReqsTyped ==
    /\ \A x \in Slots : Counted(req[x].e) /\ Counted(req[x].run) /\ Typed(req[x].tok) /\ Typed(req[x].got)
    /\ \A x \in Ends : Counted(en[x].e) /\ Counted(en[x].run) /\ x \in Slots /\ x[2] \in Epochs
    /\ Counted(rs.e) /\ Counted(rs.run) /\ Typed(rs.tok) /\ Any \in Slots /\ Me \in Slots

(* ---- What the parts of the invariant speak of ------------------------ *)

\* Refresh k runs; it is of the session in place, and not of one before.
Busy(k) == rf[k].pc # "none"
InP(k) == Busy(k) /\ k >= inPlace
\* Session s works, and NoReuse excuses nothing of it.
Good(s) == s \in alive /\ s \notin excused /\ s \notin dropped
\* Refresh k has had the answer with the new tokens, and has not given them up.
Got(k) == rf[k].pc \in {"current", "moved", "access", "refresh"} \/ (rf[k].pc = "answered" /\ rf[k].res = "ok")
\* The refresh token that a refresh begun now would send.
Cur == IF Rotated(epoch) # NoToken THEN Rotated(epoch) ELSE Stored
\* What runs for the sign in of now: request x, log out x, some log out, the
\* restore, the restore after it got a session.
Act(x) == req[x].pc \in {"sent", "waits", "got"} /\ ~Since(req[x].e)
EnAct(x) == en[x].pc # "none" /\ ~Since(en[x].e)
EnOn == \E x \in Ends : EnAct(x)
RsOn == rs.pc # "none" /\ ~Since(rs.e)
RsOk == RsOn /\ (rs.pc = "me" \/ (rs.pc = "got" /\ rs.res = "ok"))
Auth == status = "authenticated"
\* Token t opens no session; refresh k can bring back none; nothing can.
Gone(t) == t.s \notin alive
DeadRun(k) ==
    /\ k = epoch
    /\ rf[k].pc \in {"read", "unread", "asked", "answered", "recheck", "ends"}
    /\ ~Got(k)
    /\ Gone(rf[k].tok)
Dead == /\ \A k \in Epochs : InP(k) => DeadRun(k)
        /\ Gone(Stored)
        /\ IsEnding(epoch) => ending.tok = NoToken

(* ---- The invariant: where each run stands ----------------------------- *)

RunPcs == \A k \in Epochs :
    /\ rf[k].pc \in {"none", "read", "unread", "asked", "answered", "recheck", "ends", "current", "moved", "access",
                     "refresh"}
    /\ rf[k].pc \in {"access", "refresh"} => rf[k].res \in {"ok", "failed"}
    /\ rf[k].pc = "answered" => rf[k].res \in {"ok", "failed", "refused"}
EnPcs == \A x \in Ends :
    en[x].pc \in {"none", "waits", "read", "unregisters", "posted", "cleared access", "cleared", "uncleared"}
RsPcs == rs.pc \in {"none", "read", "unread", "waits", "got", "me", "recheck"}
ReqPcs == \A x \in Slots : req[x].pc \in {"none", "queued", "sent", "waits", "got", "back"}

(* ---- The invariant: counts of sign ins --------------------------------- *)

\* Only the newest sign in writes, and nothing of a later one exists.
Counts ==
    /\ inPlace <= epoch /\ writing \in {None, epoch}
    /\ writing # None <=> sign[epoch] # "none"
    /\ writing # None => inPlace < epoch /\ gen[epoch] = 1
    /\ leaving \in {None, epoch}
    /\ leaving # None <=> en[<<"log", epoch>>].pc # "none"
    /\ ending.e <= epoch
    /\ ending.e = None => ending.tok = NoToken
Unborn == \A e \in Epochs : e > epoch => gen[e] = 0 /\ e \notin alive /\ sign[e] = "none" /\ ~Busy(e)

\* A log out is of the sign in it began under, and waits for one still writing.
EndsCount == \A x \in Ends : en[x].pc # "none" => en[x].e = x[2] /\ x[2] <= epoch
EndsWait == \A x \in Ends : EnAct(x) /\ writing # None =>
    x[1] = "log" /\ en[x].pc = "waits" /\ en[x].run = epoch /\ IsEnding(epoch)

\* A refresh keeps the count it began under until its answer has come.
RunsCount == \A k \in Epochs : Busy(k) =>
    /\ k <= rf[k].e /\ rf[k].e <= epoch
    /\ writing # None => rf[k].e < epoch
    /\ rf[k].pc \notin {"current", "moved", "access", "refresh"} => rf[k].e = k
    /\ rf[k].e >= inPlace => k >= inPlace
\* One refresh at a time for the session in place.
OneFlight == \A k \in Epochs : InP(k) => k = inFlight
FlightBusy == inFlight # None => Busy(inFlight)

(* ---- The invariant: the tokens there are ------------------------------- *)

\* Every token held was given out by the server, and none by a sign in whose
\* writes have not landed.
Known(t) == /\ t.s = None => t.g = 0
            /\ t.s # None => t.s <= epoch /\ t.g >= 1 /\ t.g <= gen[t.s]
TokensKnown == Known(kc) /\ Known(mem) /\ Known(unsaved) /\ Known(ending.tok) /\ Known(sv.tok)
RunsKnown == \A k \in Epochs : Known(rf[k].tok) /\ Known(rf[k].got)
Fresh == writing # None =>
    /\ mem.s < epoch /\ unsaved.s < epoch /\ ending.tok.s < epoch /\ sv.tok.s < epoch
    /\ \A k \in Epochs : rf[k].tok.s < epoch /\ rf[k].got.s < epoch
    /\ sign[epoch] # "refresh" => kc.s < epoch
    /\ sign[epoch] = "refresh" => kc.s = epoch /\ kc.g = 1
\* A refresh that has asked sent a token, of no later sign in than its own, and
\* got the next one of the same session.
RunTok == \A k \in Epochs : Busy(k) =>
    /\ rf[k].pc \notin {"read", "unread", "ends"} => rf[k].tok # NoToken
    /\ rf[k].tok.s <= k
GotNext == \A k \in Epochs : Got(k) => rf[k].got.s = rf[k].tok.s /\ rf[k].got.g = rf[k].tok.g + 1
\* A sign in writes only when no refresh and no save does.
Writers ==
    /\ Landing # {} \/ sv.pc # "none" => sign[epoch] \in {"none", "landing"}
    /\ \A k \in Landing : k >= inPlace /\ (Since(rf[k].e) => writing # None)
    /\ sv.pc # "none" => sv.tok # NoToken

(* ---- The invariant: who holds the newest token -------------------------- *)

\* A refresh of a session before the one in place is below everything in use.
Above == \A l \in Epochs : Busy(l) /\ l < inPlace =>
    /\ kc # NoToken => l < kc.s
    /\ unsaved # NoToken => l < unsaved.s
    /\ IsEnding(epoch) /\ ending.tok # NoToken => l < ending.tok.s
    /\ \A k \in Epochs : InP(k) /\ rf[k].tok # NoToken => l < rf[k].tok.s
Apart == \A k, l \in Epochs : k # l /\ Busy(k) /\ Busy(l) /\ rf[k].tok # NoToken => rf[k].tok.s # rf[l].tok.s

\* What a refresh got is the newest, what it is about to send is the newest,
\* and what is stored is, unless a refresh got a newer one and still has it.
GotNewest == \A k \in Epochs : Got(k) /\ Good(rf[k].tok.s) => rf[k].got.g = gen[rf[k].tok.s]
AskedNewest == \A k \in Epochs :
    /\ rf[k].pc = "asked" \/ (rf[k].pc = "read" /\ ~Since(rf[k].e) /\ rf[k].tok # NoToken)
    /\ Good(rf[k].tok.s)
    => rf[k].tok.g = gen[rf[k].tok.s]
CurNewest == Cur # NoToken /\ Good(Cur.s) /\ Cur.g # gen[Cur.s] =>
    \E k \in Epochs : InP(k) /\ Got(k) /\ rf[k].pc # "moved" /\ rf[k].tok.s = Cur.s

\* Where the tokens of the refresh in flight stand in the store meanwhile: it
\* sent the current one, and nobody else holds what it got.
GotUnshared == \A k \in Epochs : Got(k) => rf[k].got # unsaved /\ rf[k].got # sv.tok /\ rf[k].got # ending.tok
KcWritten == \A k \in Epochs : rf[k].pc = "refresh" /\ rf[k].res = "ok" => kc = rf[k].got \/ kc = NoToken
UnsavedOwn == \A k \in Epochs :
    InP(k) /\ rf[k].pc \in {"current", "access", "refresh"} => unsaved = NoToken \/ unsaved = rf[k].tok
EndNotKept == \A k \in Epochs :
    /\ InP(k) /\ rf[k].pc \in {"current", "moved", "access", "refresh"} /\ ~Since(rf[k].e)
    /\ IsEnding(epoch)
    => ending.tok = NoToken
RunIsCur == \A k \in Epochs : InP(k) /\ rf[k].tok # NoToken /\ Cur # NoToken =>
    /\ k = epoch => Cur.s = rf[k].tok.s
    /\ (k = epoch \/ (Cur.s = rf[k].tok.s /\ Good(Cur.s))) /\ rf[k].pc \notin {"refresh", "ends"}
        => Cur = rf[k].tok \/ (rf[k].pc = "moved" /\ k # epoch)
MovedOff == \A k \in Epochs : InP(k) /\ rf[k].pc = "moved" /\ k = epoch => Stored = NoToken
NoTokRun == \A k \in Epochs :
    InP(k) /\ k = epoch /\ (rf[k].pc \in {"read", "ends"}) /\ rf[k].tok = NoToken => Cur = NoToken

\* What saving the unsaved tokens leaves in the keychain is still theirs.
SaveLands == sv.pc # "none" /\ sv.res = "ok" /\ unsaved = sv.tok =>
    /\ kc.s \in {None, unsaved.s}
    /\ \/ kc = NoToken \/ kc = sv.tok
       \/ \E k \in Epochs : InP(k) /\ rf[k].pc = "refresh" /\ rf[k].res = "ok" /\ kc = rf[k].got
       \/ ~Good(kc.s) /\ writing # None
       \/ Rotated(epoch) # NoToken /\ ending.tok # sv.tok
SaveOther == sv.pc # "none" /\ IsEnding(epoch) => ending.tok # sv.tok

(* ---- The invariant: sessions ended, and log outs ------------------------ *)

\* The server refused only what it had ended, and a failed refresh logs out
\* only when nothing the phone has opens a session.
Refused == \A k \in Epochs :
    InP(k) /\ (rf[k].pc \in {"recheck", "ends"} \/ (rf[k].pc = "answered" /\ rf[k].res = "refused"))
    => Gone(rf[k].tok)
FailDead == \A x \in Ends : EnAct(x) /\ x[1] = "fail" => Dead /\ InP(epoch) /\ rf[epoch].pc = "ends"
\* A log out is marked until it is over; past its wait no write is under way;
\* what it cleared stays clear.
EndMarked == \A x \in Ends : EnAct(x) => IsEnding(epoch) \/ Dead
EndAfter == \A x \in Ends : EnAct(x) /\ en[x].pc # "waits" => \A k \in Landing : Since(rf[k].e)
Cleared == \A x \in Ends : EnAct(x) /\ en[x].pc = "cleared" => kc = NoToken \/ (Dead /\ kc = Stored)
ClearedNow == \A x \in Ends : EnAct(x) /\ en[x].pc = "cleared" /\ IsEnding(epoch) =>
    kc = NoToken \/ \E y \in Ends : EnAct(y) /\ en[y].pc # "cleared"
EndsInSign == IsEnding(epoch) /\ writing # None => Auth /\ ending.tok = NoToken /\ EnAct(<<"log", epoch>>)
OldNoTok == \A k \in Epochs : InP(k) /\ k < epoch /\ IsEnding(epoch) => ending.tok = NoToken
\* What opens a session is of a later sign in than the last log out, or the
\* log out goes on.
StoredLater == ~Gone(Stored) /\ ending.e # None => Stored.s > ending.e \/ (Auth /\ IsEnding(epoch))
RunLater == \A k \in Epochs :
    InP(k) /\ ~Gone(rf[k].tok) /\ ending.e # None => rf[k].tok.s > ending.e \/ ending.e = rf[k].e
LandLater == \A k \in Landing :
    ~Gone(rf[k].tok) /\ ending.e # None => rf[k].tok.s > ending.e \/ (Auth /\ IsEnding(epoch))
\* A log out that is over leaves nothing, and nothing on its way.
AfterEnd == IsEnding(epoch) /\ (\A x \in Ends : ~EnAct(x)) =>
    /\ mem = NoToken /\ kc = NoToken /\ unsaved = NoToken /\ ~Auth
    /\ \A k \in Landing : Since(rf[k].e)

(* ---- The invariant: requests and the restore ---------------------------- *)

\* Whose each request is, and of which sign in.
ReqOf == /\ \A x \in Ends : req[x].pc # "none" <=> en[x].pc = "unregisters"
         /\ \A x \in Ends : req[x].pc # "queued"
         /\ \A x \in Ends : req[x].pc \in {"sent", "waits", "got"} => req[x].e = x[2]
         /\ req[Me].pc # "queued" /\ req[Any].pc # "back"
         /\ req[Me].pc # "none" <=> rs.pc = "me"
         /\ req[Me].pc \in {"sent", "waits", "got"} => req[Me].e = rs.e
         /\ req[Any].pc = "queued" => writing # None /\ Auth
ReqCount == /\ \A x \in Slots : Act(x) => writing = None
            /\ \A x \in Slots : req[x].pc \in {"sent", "waits", "got"} => req[x].e <= epoch
            /\ rs.pc # "none" => rs.e <= epoch
            /\ \A x \in Ends : rs.pc # "none" /\ en[x].pc = "unregisters" => rs.e <= x[2]
RsOut == RsOn => ~Auth /\ writing = None
\* Who waits for a refresh waits for one that runs.
RestoreWaits ==
    rs.pc = "waits" => rs.run \in Epochs /\ Busy(rs.run) /\ (~Since(rs.e) => rs.run >= inPlace)
ReqsWait == \A x \in Slots :
    req[x].pc = "waits" => req[x].run \in Epochs /\ Busy(req[x].run) /\ (~Since(req[x].e) => req[x].run >= inPlace)
\* A refresh in flight was begun by somebody who still waits: a page's request,
\* or a restore, a log out's DELETE or the restore's GET, which hold up more.
ByAny(k) == req[Any].pc = "waits" /\ req[Any].run = k /\ req[Any].e = k
Blocked(k) == \/ rs.pc = "waits" /\ rs.run = k /\ rs.e = k
              \/ req[Me].pc = "waits" /\ req[Me].run = k /\ req[Me].e = k
              \/ \E x \in Ends : req[x].pc = "waits" /\ req[x].run = k /\ x[2] = k
Begun == \A k \in Epochs : InP(k) => Blocked(k) \/ ByAny(k)
PageBegun == \A k \in Epochs : InP(k) /\ ByAny(k) => Auth \/ mem = NoToken \/ Blocked(k)
\* A page's request left over from a log out finds nothing to take.
LateEnded == /\ IsEnding(epoch) /\ (\A x \in Ends : ~EnAct(x)) /\ Stored = NoToken
             /\ RsOn => rs.pc \notin {"waits", "got", "me"} /\ (rs.pc = "read" => rs.tok = NoToken)
LatePage == Act(Any) /\ ~Auth =>
    /\ mem = NoToken /\ ~RsOk
    /\ LateEnded \/ Dead
\* A refresh begun before a sign in that failed: nothing else goes on with the
\* session, so its answer cannot cross anything.
OldAlone == \A k \in Epochs : InP(k) /\ k < epoch /\ ~Gone(rf[k].tok) =>
    /\ ~Auth /\ ~IsEnding(epoch) /\ (\A x \in Slots : ~Act(x)) /\ (\A x \in Ends : ~EnAct(x)) /\ ~RsOk
    /\ rs.pc = "waits" /\ RsOn => rs.run = k

(* ---- The invariant: one session ------------------------------------------ *)

\* While the phone uses a session, all it holds, has sent and waits for is of
\* one and the same; a sign in's last write is the moment between two of them.
Of(t, s) == t.s = None \/ t.s = s
AllOf(s) ==
    /\ Of(mem, s) /\ Of(Stored, s)
    /\ IsEnding(epoch) => Of(ending.tok, s)
    /\ \A x \in Slots : Act(x) => /\ req[x].pc = "sent" => Of(req[x].tok, s)
                                  /\ req[x].pc = "got" => Of(req[x].got, s)
    /\ \A k \in Epochs : InP(k) => Of(rf[k].tok, s)
Using == Auth \/ RsOk \/ (IsEnding(epoch) /\ ~Dead)
OneInUse == Using /\ sign[epoch] # "refresh" => \E s \in Epochs : AllOf(s)

IInv ==
    /\ TypeOK
    /\ Counts /\ Unborn /\ EndsCount /\ EndsWait /\ RunsCount /\ OneFlight /\ FlightBusy
    /\ TokensKnown /\ RunsKnown /\ Fresh /\ RunTok /\ GotNext /\ Writers
    /\ Above /\ Apart /\ GotNewest /\ AskedNewest /\ CurNewest /\ GotUnshared /\ KcWritten /\ UnsavedOwn
    /\ EndNotKept /\ SaveLands /\ SaveOther /\ RunIsCur /\ MovedOff /\ NoTokRun
    /\ Refused /\ FailDead /\ EndMarked /\ EndAfter /\ Cleared /\ ClearedNow /\ RsOut
    /\ StoredLater /\ RunLater /\ LandLater /\ EndsInSign /\ OldNoTok
    /\ ReqPcs /\ ReqOf /\ ReqCount /\ RestoreWaits /\ ReqsWait /\ Begun /\ PageBegun /\ LatePage /\ OldAlone
    /\ OneInUse /\ AfterEnd /\ RunPcs /\ EnPcs /\ RsPcs

(* ---- Signed out for cause ----------------------------------------------- *)

\* The person logged out of token t's session, or the server knows it no more.
Cause(t) == t.s \in asked \/ t.s \notin alive
\* So it is with all that the phone could open a session with.
ForCause == Cause(Stored) /\ \A k \in Epochs : InP(k) => Cause(rf[k].tok)
\* Nothing opens a session, and no refresh has the answer that would.
Lost == /\ Gone(Stored)
        /\ IsEnding(epoch) => ending.tok = NoToken
        /\ \A k \in Epochs : InP(k) => Gone(rf[k].tok) /\ ~Got(k)
\* The keychain is not just now a new sign in's; a log out clears it or has cleared it.
Placed == sign[epoch] # "refresh"
Shut == Placed /\ (IsEnding(epoch) \/ kc = NoToken)
\* The restore asks GET /me with an access token.
Mine == /\ rs.pc = "me" /\ RsOn
        /\ \/ req[Me].pc \in {"waits", "got"}
           \/ req[Me].tok # NoToken
           \/ req[Me].pc = "back" /\ req[Me].res = "ok"

\* A log out during a sign in is of that sign in too; what a refresh wrote is in the
\* keychain until a log out or a sign in comes; what a log out takes from the phone,
\* and what is left where it took something, was ended for cause.
AskedNew == EnOn /\ writing # None => writing \in asked
KcHasIt == \A k \in Epochs :
    rf[k].pc = "refresh" /\ rf[k].res = "ok" /\ ~Since(rf[k].e) /\ ~IsEnding(epoch) => kc = rf[k].got
ShutForCause == Shut =>
    /\ ForCause /\ (Cause(mem) \/ Lost)
    /\ IsEnding(epoch) => Cause(ending.tok)
NoMemForCause == mem = NoToken /\ Placed /\ (Auth \/ Mine) => ForCause
MemForCause == Placed /\ (Auth \/ RsOk) /\ (kc = NoToken \/ EnOn) => Cause(mem)
CauseInv == AskedNew /\ KcHasIt /\ ShutForCause /\ NoMemForCause /\ MemForCause

\* The step that SignedOutForCause allows.
Taken == /\ status = "authenticated" /\ mem # NoToken /\ mem' = NoToken /\ status' # "loading" => Cause(mem)
         /\ Stored # NoToken /\ Stored' = NoToken => Cause(Stored)

Kept == IInv' /\ (CauseInv => CauseInv' /\ Taken)

(* ---- Values, and what the steps change -------------------------------- *)

\* Counts of sign ins are numbers, and None is not one of them.
LEMMA EpochsAre == Epochs = 0 .. MaxSignIns /\ Epochs \subseteq Nat /\ 0 \in Epochs /\ None \notin Epochs /\
  None = -1
BY PhoneSessionBounds DEF Epochs, None

\* A token is its session and its number.
LEMMA TokenFacts ==
    /\ NoToken \in Token /\ NoToken.s = None /\ NoToken.g = 0
    /\ \A a \in Token : a.s \in Count /\ a.g \in Nat /\ (a = NoToken <=> a.s = None)
    /\ \A a, b \in Token : a = b <=> a.s = b.s /\ a.g = b.g
    /\ \A a \in Token, n \in Nat : a.s # None => [a EXCEPT !.g = n] \in Token /\ [a EXCEPT !.g = n].s = a.s /\
         [a EXCEPT !.g = n].g = n
BY EpochsAre DEF Token, NoToken, Count

\* Nothing runs in Idle.
LEMMA IdleFacts ==
    /\ Idle \in Run /\ Idle.pc = "none" /\ Idle.e = None /\ Idle.tok = NoToken /\ Idle.got = NoToken /\
         Idle.res = "ok" /\ Idle.run = None
BY TokenFacts, EpochsAre DEF Idle, Run, Count, Pcs, Results

\* A page's request, the restore's GET and the DELETE of each log out are different slots.
LEMMA SlotFacts ==
    /\ Any \in Slots /\ Me \in Slots /\ Any # Me /\ Any \notin Ends /\ Me \notin Ends /\ Ends \subseteq Slots
    /\ \A x \in Ends : x[1] \in {"log", "fail"} /\ x[2] \in Epochs
    /\ \A e \in Epochs : <<"log", e>> \in Ends /\ <<"fail", e>> \in Ends /\ <<"log", e>> # <<"fail", e>>
    /\ \A x \in Ends, e \in Epochs : x = <<"log", e>> <=> x[1] = "log" /\ x[2] = e
    /\ \A x \in Ends, e \in Epochs : x = <<"fail", e>> <=> x[1] = "fail" /\ x[2] = e
    /\ \A x \in Slots : x = Any \/ x = Me \/ x \in Ends
    /\ \A e \in Epochs : <<"log", e>>[1] = "log" /\ <<"log", e>>[2] = e /\ <<"fail", e>>[1] = "fail" /\
         <<"fail", e>>[2] = e
BY EpochsAre DEF Slots, Ends, Any, Me

\* What a proof needs of TypeOK, before and after a step.
LEMMA Types ==
    /\ TypeOK => CountsTyped /\ TokensTyped /\ RunsTyped /\ ReqsTyped
    /\ TypeOK' => CountsTyped' /\ TokensTyped' /\ RunsTyped' /\ ReqsTyped'
<1>1. ASSUME TypeOK PROVE CountsTyped
  BY <1>1, EpochsAre DEF TypeOK, CountsTyped, Counted, Count
<1>2. ASSUME TypeOK PROVE TokensTyped
  BY <1>2, TokenFacts DEF TypeOK, TokensTyped, Counted, Typed, Run, Count
<1>3. ASSUME TypeOK PROVE RunsTyped
  BY <1>3, TokenFacts DEF TypeOK, RunsTyped, Counted, Typed, Run, Count
<1>4. ASSUME TypeOK PROVE ReqsTyped
  BY <1>4, TokenFacts, SlotFacts DEF TypeOK, ReqsTyped, Counted, Typed, Run, Count
<1>5. ASSUME TypeOK' PROVE CountsTyped'
  <2>1. \A s \in alive' : s \in Epochs
    BY <1>5 DEF TypeOK
  <2> QED
    BY <1>5, <2>1, EpochsAre DEF TypeOK, CountsTyped, Counted, Count
<1>6. ASSUME TypeOK' PROVE TokensTyped'
  BY <1>6, TokenFacts DEF TypeOK, TokensTyped, Counted, Typed, Run, Count
<1>7. ASSUME TypeOK' PROVE RunsTyped'
  BY <1>7, TokenFacts DEF TypeOK, RunsTyped, Counted, Typed, Run, Count
<1>8. ASSUME TypeOK' PROVE ReqsTyped'
  BY <1>8, TokenFacts, SlotFacts DEF TypeOK, ReqsTyped, Counted, Typed, Run, Count
<1> QED
  BY <1>1, <1>2, <1>3, <1>4, <1>5, <1>6, <1>7, <1>8

\* The server's answer to refresh k: new tokens, new tokens that are lost, or an ended session.
LEMMA ServerRefreshEffect ==
    ASSUME TypeOK, RunsKnown, RunTok, NEW k \in Epochs, ServerRefresh(k)
    PROVE  /\ TypeOK'
           /\ rf[k].pc = "asked" /\ rf'[k].pc = "answered" /\ rf'[k].e = rf[k].e /\ rf'[k].tok = rf[k].tok
           /\ \A l \in Epochs : l # k => rf'[l] = rf[l]
           /\ rf[k].tok.s \in Epochs
           /\ \A s \in Epochs : s # rf[k].tok.s => gen'[s] = gen[s] /\ (s \in alive' <=> s \in alive) /\
                (s \in excused' <=> s \in excused)
           /\ \/ /\ rf'[k].res = "ok" /\ rf'[k].got.s = rf[k].tok.s /\ rf'[k].got.g = rf[k].tok.g + 1
                 /\ rf[k].tok.g = gen[rf[k].tok.s] /\ gen'[rf[k].tok.s] = gen[rf[k].tok.s] + 1
                 /\ alive' = alive /\ rf[k].tok.s \in alive /\ excused' = excused
              \/ /\ rf'[k].res = "failed" /\ rf'[k].got = NoToken
                 /\ gen'[rf[k].tok.s] = gen[rf[k].tok.s] + 1
                 /\ alive' = alive /\ excused' = excused \cup {rf[k].tok.s} /\ rf[k].tok.s \in alive
              \/ /\ rf'[k].res \in {"failed", "refused"} /\ rf'[k].got = NoToken
                 /\ gen' = gen /\ alive' = alive \ {rf[k].tok.s} /\ excused' = excused
<1> DEFINE t == rf[k].tok
           newest == t.g = gen[t.s]
<1>0. rf[k] \in Run /\ t \in Token /\ t.s \in Epochs /\ t.s # None /\ gen[t.s] \in Nat /\ t.g \in Nat
  <2>1. rf[k] \in Run /\ rf[k].pc = "asked"
    BY DEF TypeOK, ServerRefresh
  <2>2. t \in Token /\ t # NoToken /\ Known(t)
    BY <2>1 DEF Run, RunTok, RunsKnown, Busy
  <2> QED
    BY <2>1, <2>2, TokenFacts, EpochsAre DEF TypeOK, Known, Count
<1>1. PICK lost, over \in BOOLEAN :
         LET works == newest /\ t.s \in alive /\ ~over IN
         /\ rf' = [rf EXCEPT ![k].pc = "answered",
                             ![k].res = IF lost THEN "failed"
                                        ELSE IF works THEN "ok" ELSE "refused",
                             ![k].got = IF works /\ ~lost THEN [t EXCEPT !.g = @ + 1]
                                        ELSE NoToken]
         /\ gen' = IF works THEN [gen EXCEPT ![t.s] = @ + 1] ELSE gen
         /\ alive' = IF works THEN alive ELSE alive \ {t.s}
         /\ reused' = IF newest \/ t.s \notin alive THEN reused ELSE reused \cup {t.s}
         /\ excused' = IF works /\ lost THEN excused \cup {t.s} ELSE excused
  BY DEF ServerRefresh
<1> DEFINE works == newest /\ t.s \in alive /\ ~over
           res == IF lost THEN "failed" ELSE IF works THEN "ok" ELSE "refused"
           got == IF works /\ ~lost THEN [t EXCEPT !.g = t.g + 1] ELSE NoToken
<1>2. res \in Results /\ got \in Token /\ (works /\ ~lost => got.s = t.s /\ got.g = t.g + 1)
  <2>1. t.g + 1 \in Nat
    BY <1>0
  <2>2. PICK u : u = [t EXCEPT !.g = t.g + 1]
    OBVIOUS
  <2>3. u \in Token /\ u.s = t.s /\ u.g = t.g + 1
    BY <1>0, <2>1, <2>2, TokenFacts
  <2>4. got = IF works /\ ~lost THEN u ELSE NoToken
    BY <2>2
  <2>5. res \in Results
    BY DEF Results
  <2> QED
    BY <2>3, <2>4, <2>5, TokenFacts
<1>3. rf' = [rf EXCEPT ![k] = [rf[k] EXCEPT !.pc = "answered", !.res = res, !.got = got]]
  BY <1>1
<1> HIDE DEF res, got
<1>4. /\ rf' \in [Epochs -> Run]
      /\ rf[k].pc = "asked" /\ rf'[k].pc = "answered" /\ rf'[k].e = rf[k].e /\ rf'[k].tok = t
      /\ rf'[k].res = res /\ rf'[k].got = got
      /\ \A l \in Epochs : l # k => rf'[l] = rf[l]
  BY <1>0, <1>2, <1>3 DEF TypeOK, Run, Pcs, ServerRefresh
<1>5. TypeOK'
  BY <1>0, <1>1, <1>4 DEF TypeOK, ServerRefresh, counts
<1> QED
  <2>1. CASE works /\ ~lost
    BY <2>1, <1>0, <1>1, <1>2, <1>4, <1>5 DEF res, TypeOK
  <2>2. CASE works /\ lost
    BY <2>2, <1>0, <1>1, <1>2, <1>4, <1>5 DEF res, got, TypeOK
  <2>3. CASE ~works
    BY <2>3, <1>0, <1>1, <1>2, <1>4, <1>5 DEF res, got, TypeOK
  <2> QED
    BY <2>1, <2>2, <2>3

\* What the end of a run changes.
Hears(p, q, k, res, tok) ==
    IF p.pc = "waits" /\ p.run = k
    THEN /\ q.pc = "got" /\ q.e = p.e /\ q.tok = p.tok /\ q.run = p.run
         /\ q.res = res /\ q.got = tok
    ELSE q = p

\* Refresh k is over.
RunOver(k, res, tok) ==
    /\ rf'[k].pc = "none" /\ rf'[k].tok = NoToken /\ rf'[k].got = NoToken
    /\ \A l \in Epochs : l # k => rf'[l] = rf[l]
    /\ IF inFlight = k THEN inFlight' = None ELSE inFlight' = inFlight
    /\ \A x \in Slots : Hears(req[x], req'[x], k, res, tok)
    /\ Hears(rs, rs', k, res, tok)

\* Told does that.
LEMMA ToldHears ==
    ASSUME NEW p \in Run, NEW k \in Epochs, NEW res \in Results, NEW tok \in Token
    PROVE  Told(p, k, res, tok) \in Run /\ Hears(p, Told(p, k, res, tok), k, res, tok)
BY DEF Told, Hears, Run, Pcs

\* Finish ends run k and tells those that wait for it.
LEMMA FinishEffect ==
    ASSUME TypeOK, NEW k \in Epochs, NEW res \in Results, NEW tok \in Token, Finish(k, res, tok)
    PROVE  /\ RunOver(k, res, tok)
           /\ rf' \in [Epochs -> Run] /\ inFlight' \in Count /\ req' \in [Slots -> Run] /\ rs' \in Run
<1>1. rf' \in [Epochs -> Run] /\ rf'[k] = Idle /\ \A l \in Epochs : l # k => rf'[l] = rf[l]
  BY IdleFacts DEF Finish, TypeOK
<1>2. \A x \in Slots : req[x] \in Run /\ req'[x] = Told(req[x], k, res, tok)
  BY DEF Finish, TypeOK
<1>3. \A x \in Slots : req'[x] \in Run /\ Hears(req[x], req'[x], k, res, tok)
  BY <1>2, ToldHears
<1>4. req' \in [Slots -> Run]
  BY <1>3 DEF Finish
<1>5. rs' \in Run /\ Hears(rs, rs', k, res, tok)
  BY ToldHears DEF Finish, TypeOK
<1> QED
  BY <1>1, <1>3, <1>4, <1>5, IdleFacts DEF Finish, RunOver, TypeOK, Count

\* Run k goes on.
RunMoves(k, pc, e, got, res) ==
    /\ rf' \in [Epochs -> Run]
    /\ rf'[k].pc = pc /\ rf'[k].e = e /\ rf'[k].got = got /\ rf'[k].res = res /\ rf'[k].tok = rf[k].tok
    /\ \A l \in Epochs : l # k => rf'[l] = rf[l]

\* Changing fields of a run is going on with it.
LEMMA RunMovesEffect ==
    ASSUME TypeOK, NEW k \in Epochs, NEW pc \in Pcs, NEW e \in Count, NEW got \in Token, NEW res \in Results,
           rf' = [rf EXCEPT ![k] = [rf[k] EXCEPT !.pc = pc, !.e = e, !.got = got, !.res = res]]
    PROVE  RunMoves(k, pc, e, got, res)
<1>1. rf[k] \in Run /\ rf \in [Epochs -> Run]
  BY DEF TypeOK
<1> DEFINE r == [rf[k] EXCEPT !.pc = pc, !.e = e, !.got = got, !.res = res]
<1>2. r \in Run /\ r.pc = pc /\ r.e = e /\ r.got = got /\ r.res = res /\ r.tok = rf[k].tok
  BY <1>1 DEF Run
<1>3. rf' = [rf EXCEPT ![k] = r]
  OBVIOUS
<1> HIDE DEF r
<1> QED
  BY <1>1, <1>2, <1>3 DEF RunMoves

\* The fields of a run have their types.
LEMMA RunFields ==
    ASSUME TypeOK, NEW k \in Epochs
    PROVE  /\ rf[k] \in Run /\ rf[k].pc \in Pcs /\ rf[k].e \in Count /\ rf[k].tok \in Token /\ rf[k].got \in Token
           /\ rf[k].res \in Results
           /\ \A pc \in Pcs : [rf[k] EXCEPT !.pc = pc] = [rf[k] EXCEPT !.pc = pc, !.e = rf[k].e,
                !.got = rf[k].got, !.res = rf[k].res]
           /\ \A pc \in Pcs, e \in Count : [rf[k] EXCEPT !.pc = pc, !.e = e]
                    = [rf[k] EXCEPT !.pc = pc, !.e = e, !.got = rf[k].got, !.res = rf[k].res]
           /\ \A pc \in Pcs, got \in Token : [rf[k] EXCEPT !.pc = pc, !.got = got]
                    = [rf[k] EXCEPT !.pc = pc, !.e = rf[k].e, !.got = got, !.res = rf[k].res]
           /\ \A pc \in Pcs, res \in Results : [rf[k] EXCEPT !.pc = pc, !.res = res]
                    = [rf[k] EXCEPT !.pc = pc, !.e = rf[k].e, !.got = rf[k].got, !.res = res]
BY DEF TypeOK, Run

\* The page's request that waited for the sign in goes out.
ReqSent(tok) ==
    /\ \A x \in Slots : x # Any => req'[x] = req[x]
    /\ IF req[Any].pc = "queued"
       THEN /\ req'[Any].pc = "sent" /\ req'[Any].e = epoch /\ req'[Any].tok = tok
            /\ req'[Any].got = NoToken /\ req'[Any].run = None
       ELSE req'[Any] = req[Any]

\* A request just sent is of the sign in of now.
LEMMA SentFacts ==
    ASSUME TypeOK, NEW t \in Token, NEW res \in Results, NEW r, r = [Sent EXCEPT !.tok = t, !.res = res]
    PROVE  r \in Run /\ r.pc = "sent" /\ r.e = epoch /\ r.tok = t /\ r.got = NoToken /\ r.run = None
BY IdleFacts DEF Sent, Run, Pcs, TypeOK, Count

\* The end of a sign in sends what waited for it.
LEMMA EndSignEffect ==
    ASSUME TypeOK, ReqOf, NEW e \in Epochs, NEW t \in Token, EndSign(e, t), writing = e => e = epoch
    PROVE  /\ sign' \in [Epochs -> Signs] /\ sign'[e] = "none" /\ \A l \in Epochs : l # e => sign'[l] = sign[l]
           /\ writing' = IF writing = e THEN None ELSE writing
           /\ req' \in [Slots -> Run]
           /\ writing = e => ReqSent(t)
           /\ writing # e => req' = req
<1>1. sign' \in [Epochs -> Signs] /\ sign'[e] = "none" /\ \A l \in Epochs : l # e => sign'[l] = sign[l]
  BY DEF EndSign, TypeOK, Signs
<1>2. ASSUME NEW x \in Slots, req[x].pc = "queued", writing = e
      PROVE  /\ x = Any /\ req'[x] \in Run /\ req'[x].pc = "sent" /\ req'[x].e = epoch /\ req'[x].tok = t
             /\ req'[x].got = NoToken /\ req'[x].run = None
  <2>1. x = Any
    BY <1>2, SlotFacts DEF ReqOf
  <2>2. req[x].res \in Results /\ req'[x] = [Sent EXCEPT !.tok = t, !.res = req[x].res]
    BY <1>2 DEF EndSign, TypeOK, Run
  <2> QED
    BY <2>1, <2>2, IdleFacts DEF Sent, Run, Pcs, TypeOK, Count
<1>3. ASSUME NEW x \in Slots, ~(req[x].pc = "queued" /\ writing = e)
      PROVE  req'[x] = req[x] /\ req'[x] \in Run
  BY <1>3 DEF EndSign, TypeOK
<1>4. req' \in [Slots -> Run]
  BY <1>2, <1>3 DEF EndSign
<1>5. writing = e => ReqSent(t)
  BY <1>2, <1>3, SlotFacts DEF ReqSent
<1>6. writing # e => req' = req
  BY <1>3, <1>4 DEF TypeOK
<1> QED
  BY <1>1, <1>4, <1>5, <1>6 DEF EndSign

(* ---- What a step does to the sessions ended for cause ------------------ *)

\* What a step may do to the refreshes of the session in place: none gets an answer for
\* a session that is over, and a new one has the current token or none.
RunsStep == \A k \in Epochs : InP(k)' =>
    \/ InP(k) /\ rf'[k].tok = rf[k].tok /\ (Got(k)' => Got(k) \/ ~Gone(rf[k].tok))
    \/ ~Got(k)' /\ rf'[k].tok \in {NoToken, Cur}

\* None is no session; what the phone holds is of no sign in to come.
LEMMA Held ==
    ASSUME IInv
    PROVE  /\ epoch \in Epochs /\ epoch \in Nat /\ NoToken.s = None /\ NoToken.s # epoch + 1
           /\ None \notin alive /\ epoch + 1 \notin alive
           /\ Gone(NoToken) /\ Cause(NoToken)
           /\ mem.s # epoch + 1 /\ kc.s # epoch + 1 /\ unsaved.s # epoch + 1 /\ Stored.s # epoch + 1
           /\ ending.tok.s # epoch + 1 /\ \A k \in Epochs : rf[k].tok.s # epoch + 1
<1>1. TypeOK /\ CountsTyped /\ TokensTyped /\ RunsTyped /\ TokensKnown /\ RunsKnown /\ Unborn
  BY Types DEF IInv
<1>2. epoch \in Epochs /\ epoch \in Nat /\ None = -1 /\ None \notin alive /\ NoToken.s = None
  BY <1>1, EpochsAre, TokenFacts DEF CountsTyped
<1>3. \A t : Known(t) /\ Typed(t) => t.s # epoch + 1
  BY <1>2, EpochsAre DEF Known, Typed, Counted
<1>4. epoch + 1 \notin alive
  BY <1>1, <1>2, EpochsAre DEF Unborn, CountsTyped
<1>5. mem.s # epoch + 1 /\ kc.s # epoch + 1 /\ unsaved.s # epoch + 1 /\ ending.tok.s # epoch + 1
  BY <1>1, <1>3 DEF TokensTyped, TokensKnown
<1>6. \A k \in Epochs : rf[k].tok.s # epoch + 1
  BY <1>1, <1>3 DEF RunsTyped, RunsKnown
<1> QED
  BY <1>2, <1>4, <1>5, <1>6 DEF Stored, Gone, Cause

\* What is for cause is so for the token that a refresh would send.
LEMMA CurForCause ==
    ASSUME IInv, CauseInv, Placed, ForCause
    PROVE  Cause(Cur)
<1>1. IsEnding(epoch) => Cause(ending.tok)
  BY DEF CauseInv, ShutForCause, Shut
<1> QED
  BY <1>1 DEF ForCause, Cur, Rotated

\* It stays so, if what the step stores is so.
LEMMA ForCauseStays ==
    ASSUME IInv, ForCause, Cause(Cur), RunsStep, asked \subseteq asked', alive' \subseteq alive \cup {epoch + 1},
           NEW u, u = Stored', Cause(u), u.s # epoch + 1, Cur.s # epoch + 1
    PROVE  ForCause'
<1>1. ASSUME NEW t, Cause(t), t.s # epoch + 1
      PROVE  t.s \in asked' \/ t.s \notin alive'
  BY <1>1 DEF Cause
<1>2. Cause(Stored)'
  BY <1>1 DEF Cause
<1>3. ASSUME NEW k \in Epochs, InP(k)'
      PROVE  Cause(rf[k].tok)'
  <2>1. (InP(k) /\ rf'[k].tok = rf[k].tok) \/ rf'[k].tok = NoToken \/ rf'[k].tok = Cur
    BY <1>3 DEF RunsStep
  <2>2. Cause(rf'[k].tok) /\ rf'[k].tok.s # epoch + 1
    <3>1. CASE InP(k) /\ rf'[k].tok = rf[k].tok
      BY <3>1, Held DEF ForCause
    <3>2. CASE rf'[k].tok = NoToken
      BY <3>2, Held
    <3>3. CASE rf'[k].tok = Cur
      BY <3>3
    <3> QED
      BY <2>1, <3>1, <3>2, <3>3
  <2>3. rf'[k].tok.s \in asked' \/ rf'[k].tok.s \notin alive'
    BY <1>1, <2>2
  <2> QED
    BY <2>3 DEF Cause
<1> QED
  BY <1>2, <1>3 DEF ForCause

\* What is lost stays lost, but for a sign in.
LEMMA LostStays ==
    ASSUME IInv, Lost, RunsStep, alive' \subseteq alive, epoch' = epoch,
           NEW u, u = Stored', Gone(u), IsEnding(epoch)' => ending'.tok = NoToken
    PROVE  Lost'
<1>1. Cur = Stored /\ Gone(Cur) /\ Gone(NoToken)
  BY Held DEF Lost, Cur, Rotated
<1>2. Gone(Stored)'
  BY DEF Gone
<1>3. ASSUME NEW k \in Epochs, InP(k)'
      PROVE  Gone(rf[k].tok)' /\ ~Got(k)'
  <2>1. CASE InP(k) /\ rf'[k].tok = rf[k].tok /\ (Got(k)' => Got(k) \/ ~Gone(rf[k].tok))
    BY <2>1 DEF Lost, Gone
  <2>2. CASE ~Got(k)' /\ rf'[k].tok \in {NoToken, Cur}
    BY <2>2, <1>1 DEF Gone
  <2> QED
    BY <1>3, <2>1, <2>2 DEF RunsStep
<1> QED
  BY <1>2, <1>3 DEF Lost

LEMMA LostIsForCause == Lost => ForCause
BY DEF Lost, ForCause, Gone, Cause

\* A phone with nothing that opens a session has lost what it had.
LEMMA DeadIsLost == Dead => Lost
BY DEF Dead, DeadRun, Lost

\* What a step must see to under the sign in of now.
LEMMA StepKeepsCause ==
    ASSUME IInv, CauseInv, RunsStep, epoch' = epoch, asked \subseteq asked', alive' \subseteq alive,
           Placed' => Placed, AskedNew', KcHasIt',
           NEW u, u = Stored', u.s # epoch + 1, ForCause /\ Placed => Cause(u), Lost => Gone(u),
           Lost /\ IsEnding(epoch)' => ending'.tok = NoToken,
           NEW m, m = mem', Shut' => m = mem \/ Cause(m),
           Shut' => Shut \/ Lost,
           NEW n, n = ending'.tok, Shut' /\ IsEnding(epoch)' => Cause(n),
           mem' = NoToken /\ Placed /\ (Auth' \/ Mine') => (mem = NoToken /\ (Auth \/ Mine)) \/ Shut \/ Lost,
           Placed' /\ (Auth' \/ RsOk') /\ (kc' = NoToken \/ EnOn') =>
               Cause(m) \/ (m = mem /\ (Auth \/ RsOk) /\ (kc = NoToken \/ EnOn))
    PROVE  CauseInv'
<1>1. ASSUME ForCause, Placed PROVE ForCause'
  <2>1. Cause(Cur) /\ Cur.s # epoch + 1
    BY <1>1, CurForCause, Held DEF Cur, Rotated
  <2>2. alive' \subseteq alive \cup {epoch + 1}
    OBVIOUS
  <2> QED
    BY <1>1, <2>1, <2>2, ForCauseStays
<1>2. Lost => Lost'
  BY LostStays
<1>3. \A t : Cause(t) => t.s \in asked' \/ t.s \notin alive'
  BY DEF Cause
<1>4. Cause(m) => Cause(mem)'
  BY <1>3 DEF Cause
<1>5. ShutForCause'
  <2> SUFFICES ASSUME Shut' PROVE ForCause' /\ (Cause(mem)' \/ Lost') /\ (IsEnding(epoch)' => Cause(ending.tok)')
    BY DEF ShutForCause
  <2>1. Placed /\ ForCause /\ (Cause(mem) \/ Lost)
    BY LostIsForCause DEF CauseInv, ShutForCause, Shut
  <2>2. Cause(mem)' \/ Lost'
    BY <2>1, <1>2, <1>4
  <2>3. IsEnding(epoch)' => Cause(ending.tok)'
    BY <1>3 DEF Cause
  <2> QED
    BY <1>1, <2>1, <2>2, <2>3
<1>6. NoMemForCause'
  <2> SUFFICES ASSUME mem' = NoToken, Placed', Auth' \/ Mine' PROVE ForCause'
    BY DEF NoMemForCause
  <2>1. ForCause /\ Placed
    BY LostIsForCause DEF CauseInv, ShutForCause, NoMemForCause
  <2> QED
    BY <1>1, <2>1
<1>7. MemForCause'
  <2> SUFFICES ASSUME Placed', Auth' \/ RsOk', kc' = NoToken \/ EnOn' PROVE Cause(mem)'
    BY DEF MemForCause
  <2>1. Cause(m)
    BY DEF CauseInv, MemForCause
  <2> QED
    BY <2>1, <1>4
<1> QED
  BY <1>5, <1>6, <1>7 DEF CauseInv

\* Most steps leave the tokens in memory and in the keychain alone, and what signs out.
Still == /\ UNCHANGED <<mem, kc, unsaved, ending, epoch>>
         /\ asked \subseteq asked' /\ alive' \subseteq alive /\ writing' \in {writing, None}
         /\ \A k \in Epochs : rf'[k].pc = "refresh" => rf'[k] = rf[k]
         /\ EnOn' => EnOn
         /\ Placed' => Placed
LEMMA StillKeepsCause ==
    ASSUME IInv, CauseInv, RunsStep, Still,
           mem = NoToken /\ (Auth' \/ Mine') => Auth \/ Mine,
           (Auth' \/ RsOk') /\ (kc = NoToken \/ EnOn) => Auth \/ RsOk \/ Cause(mem)
    PROVE  CauseInv' /\ Taken
<1>1. Stored' = Stored /\ (IsEnding(epoch)' <=> IsEnding(epoch)) /\ (Shut' => Shut)
  BY DEF Still, Stored, IsEnding, Shut
<1>2. AskedNew'
  BY DEF Still, CauseInv, AskedNew
<1>3. KcHasIt'
  <2> SUFFICES ASSUME NEW k \in Epochs, rf'[k].pc = "refresh", rf'[k].res = "ok", ~Since(rf[k].e)', ~IsEnding(epoch)'
               PROVE  kc' = rf'[k].got
    BY DEF KcHasIt
  <2>1. rf'[k] = rf[k] /\ epoch' = epoch /\ ending' = ending /\ kc' = kc
    BY DEF Still
  <2> QED
    BY <2>1 DEF CauseInv, KcHasIt, Since, IsEnding
<1>4. Taken
  BY <1>1 DEF Still, Taken
<1> QED
  <2>1. /\ epoch' = epoch /\ asked \subseteq asked' /\ alive' \subseteq alive
        /\ mem' = mem /\ kc' = kc /\ ending' = ending
        /\ (EnOn' => EnOn) /\ (Placed' => Placed)
    BY DEF Still
  <2>2. (ForCause => Cause(Stored)) /\ (Lost => Gone(Stored)) /\ Stored.s # epoch + 1
    BY Held DEF ForCause, Lost
  <2>3. Lost /\ IsEnding(epoch)' => ending'.tok = NoToken
    BY <1>1, <2>1 DEF Lost
  <2>4. Shut' /\ IsEnding(epoch)' => Cause(ending.tok)
    BY <1>1 DEF CauseInv, ShutForCause
  <2> QED
    BY <1>1, <1>2, <1>3, <1>4, <2>1, <2>2, <2>3, <2>4, StepKeepsCause

\* A refresh in flight goes on, or is over; it is still of the session in place, or is not.
LEMMA RunsStayInPlace ==
    ASSUME NEW k \in Epochs, inPlace' = inPlace, \A l \in Epochs : l # k => rf'[l] = rf[l],
           \/ rf'[k].pc = "none"
           \/ rf[k].pc # "none" /\ rf'[k].tok = rf[k].tok /\ (Got(k)' => Got(k) \/ ~Gone(rf[k].tok))
    PROVE  RunsStep
<1> SUFFICES ASSUME NEW l \in Epochs, InP(l)'
             PROVE  InP(l) /\ rf'[l].tok = rf[l].tok /\ (Got(l)' => Got(l) \/ ~Gone(rf[l].tok))
  BY DEF RunsStep
<1> QED
  BY DEF InP, Busy, Got

\* Nothing of the refreshes changes.
LEMMA RunsAreLeft == rf' = rf /\ inPlace' = inPlace => RunsStep
BY DEF RunsStep, InP, Busy, Got

\* Who heard the end of refresh k: the restore has its session only if k brought it one.
LEMMA HeardIsMine ==
    ASSUME NEW k, NEW res, NEW tok, RunOver(k, res, tok), epoch' = epoch
    PROVE  /\ Mine' => Mine
           /\ RsOk' => RsOk \/ (RsOn /\ rs.pc = "waits" /\ rs.run = k /\ res = "ok")
<1>1. Hears(req[Me], req'[Me], k, res, tok) /\ Hears(rs, rs', k, res, tok)
  BY SlotFacts DEF RunOver
<1> QED
  BY <1>1 DEF Hears, Mine, RsOk, RsOn, Since

\* A restore that hears of new tokens for a session given up had none in memory, or knows.
LEMMA ToldForCause ==
    ASSUME IInv, CauseInv, NEW k \in Epochs, Busy(k), RsOn, rs.pc = "waits", rs.run = k,
           k = epoch => Got(k) /\ (IsEnding(epoch) \/ kc = NoToken)
    PROVE  Cause(mem)
<1>1. TypeOK /\ CountsTyped /\ RestoreWaits /\ Unborn /\ Begun /\ PageBegun /\ ReqOf /\ ReqCount /\ RsOut /\ Counts
  BY Types DEF IInv
<1>2. InP(k) /\ k <= epoch /\ rs.e = epoch /\ ~Auth /\ writing = None /\ Placed
  BY <1>1 DEF RestoreWaits, RsOn, Since, InP, RsOut, Unborn, CountsTyped, Counts, Placed
<1>3. CASE k = epoch
  <2>1. Shut /\ ~Lost
    BY <1>2, <1>3 DEF Shut, Lost
  <2> QED
    BY <2>1 DEF CauseInv, ShutForCause
<1>4. CASE k # epoch
  <2>1. ~Blocked(k)
    <3>1. rs.e # k
      BY <1>2, <1>4
    <3>2. req[Me].pc # "waits"
      BY <1>1 DEF ReqOf
    <3>3. ASSUME NEW x \in Ends, req[x].pc = "waits", x[2] = k PROVE FALSE
      <4>1. en[x].pc = "unregisters"
        BY <3>3, <1>1 DEF ReqOf
      <4>2. rs.e <= x[2]
        BY <4>1, <1>1 DEF ReqCount
      <4> QED
        BY <4>2, <3>3, <1>2, <1>4, <1>1 DEF CountsTyped
    <3> QED
      BY <3>1, <3>2, <3>3 DEF Blocked
  <2>2. mem = NoToken
    BY <1>1, <1>2, <2>1 DEF Begun, PageBegun
  <2> QED
    BY <2>2, Held
<1> QED
  BY <1>3, <1>4

\* A refresh goes on, and nothing else changes.
LEMMA GoesOnForCause ==
    ASSUME IInv, CauseInv, NEW k \in Epochs, NEW pc \in Pcs \ {"none", "refresh"}, rf[k].pc # "none",
           NEW e, NEW got, NEW res, RunMoves(k, pc, e, got, res), Got(k)' => Got(k),
           UNCHANGED <<alive, asked, mem, epoch, inPlace, writing, ending, unsaved, status, kc, sign, en, req, rs>>
    PROVE  CauseInv' /\ Taken
<1>1. RunsStep
  BY RunsStayInPlace DEF RunMoves
<1>2. Still
  BY DEF Still, EnOn, EnAct, Since, Placed, RunMoves
<1>3. (Mine' => Mine) /\ (Auth' <=> Auth) /\ (RsOk' <=> RsOk)
  BY DEF Mine, Auth, RsOk, RsOn, Since
<1> QED
  BY <1>1, <1>2, <1>3, StillKeepsCause

\* The tokens that a refresh got are of the session of the one it sent.
LEMMA GotIsToken ==
    ASSUME IInv, NEW k \in Epochs, Got(k)
    PROVE  rf[k].got.s = rf[k].tok.s /\ rf[k].got # NoToken /\ rf[k].got \in Token /\ rf[k].tok # NoToken
<1>1. TypeOK /\ GotNext /\ RunTok
  BY DEF IInv
<1>2. rf[k].got.s = rf[k].tok.s /\ rf[k].tok # NoToken
  BY <1>1 DEF GotNext, RunTok, Busy, Got
<1> QED
  BY <1>1, <1>2, RunFields, TokenFacts

\* A log out goes on or is over, and nothing that the phone has changes.
LEMMA EndsForCause ==
    ASSUME IInv, CauseInv, EnOn' => EnOn, req'[Me] = req[Me], alive' \subseteq alive,
           UNCHANGED <<asked, mem, epoch, inPlace, writing, ending, unsaved, status, kc, sign, rf, rs>>
    PROVE  CauseInv' /\ Taken
<1>1. RunsStep
  BY RunsAreLeft
<1>2. Still
  BY DEF Still, Placed
<1>3. (Mine' => Mine) /\ (Auth' <=> Auth) /\ (RsOk' <=> RsOk)
  BY DEF Mine, Auth, RsOk, RsOn, Since
<1> QED
  BY <1>1, <1>2, <1>3, StillKeepsCause

\* While a log out of the sign in of now goes on past its wait, no sign in writes, and what
\* the phone has was ended for cause.
LEMMA EndingForCause ==
    ASSUME IInv, CauseInv, NEW x \in Ends, EnAct(x), writing = None \/ en[x].pc # "waits"
    PROVE  /\ writing = None /\ Placed /\ EnOn /\ (Shut \/ Lost) /\ Cause(Stored) /\ ForCause
           /\ ~IsEnding(epoch) => Dead
<1>1. writing = None /\ Placed
  BY DEF IInv, EndsWait, Counts, Placed
<1>2. EnOn /\ (IsEnding(epoch) \/ Dead)
  BY DEF EnOn, IInv, EndMarked
<1>3. Shut \/ Lost
  BY <1>1, <1>2, DeadIsLost DEF Shut
<1>4. ForCause
  BY <1>3, LostIsForCause DEF CauseInv, ShutForCause
<1> QED
  BY <1>1, <1>2, <1>3, <1>4 DEF ForCause

(* ---- Refreshes: the answer of the server, and the end of a run -------- *)

\* The server's answer: only the newest token of a session in use was sent, so what it
\* made newer is in the run's hands, or its loss is excused.
LEMMA ServerRefreshKeepsInv ==
    ASSUME IInv, NEW k \in Epochs, ServerRefresh(k)
    PROVE  IInv'
<1>1. /\ TypeOK'
      /\ rf[k].pc = "asked" /\ rf'[k].pc = "answered" /\ rf'[k].e = rf[k].e /\ rf'[k].tok = rf[k].tok
      /\ \A l \in Epochs : l # k => rf'[l] = rf[l]
      /\ rf[k].tok.s \in Epochs
      /\ \A s \in Epochs : s # rf[k].tok.s => gen'[s] = gen[s] /\ (s \in alive' <=> s \in alive) /\
           (s \in excused' <=> s \in excused)
      /\ \/ /\ rf'[k].res = "ok" /\ rf'[k].got.s = rf[k].tok.s /\ rf'[k].got.g = rf[k].tok.g + 1
            /\ rf[k].tok.g = gen[rf[k].tok.s] /\ gen'[rf[k].tok.s] = gen[rf[k].tok.s] + 1
            /\ alive' = alive /\ rf[k].tok.s \in alive /\ excused' = excused
         \/ /\ rf'[k].res = "failed" /\ rf'[k].got = NoToken
            /\ gen'[rf[k].tok.s] = gen[rf[k].tok.s] + 1
            /\ alive' = alive /\ excused' = excused \cup {rf[k].tok.s} /\ rf[k].tok.s \in alive
         \/ /\ rf'[k].res \in {"failed", "refused"} /\ rf'[k].got = NoToken
            /\ gen' = gen /\ alive' = alive \ {rf[k].tok.s} /\ excused' = excused
  BY ServerRefreshEffect DEF IInv
<1>2. UNCHANGED <<dropped, asked, mem, epoch, inPlace, writing, ending, unsaved, status, inFlight,
                   leaving, kc, sign, en, req, rs, sv, left>>
  BY DEF ServerRefresh, counts
<1>t. /\ CountsTyped /\ TokensTyped /\ RunsTyped /\ ReqsTyped
      /\ CountsTyped' /\ TokensTyped' /\ RunsTyped' /\ ReqsTyped'
  BY <1>1, Types DEF IInv
<1>3. /\ alive' \subseteq alive /\ excused \subseteq excused'
      /\ \A s \in Epochs : gen'[s] >= gen[s]
  BY <1>1, <1>t DEF CountsTyped
<1>100. EndsCount' /\ EndsWait' /\ SaveOther' /\ ClearedNow' /\ RsOut'
  BY <1>2 DEF IInv, EndsCount, EndsWait, EnAct, Since, IsEnding, SaveOther, ClearedNow, RsOut, RsOn, Auth
<1>101. EndsInSign' /\ ReqPcs' /\ ReqOf' /\ ReqCount' /\ EnPcs'
  BY <1>2 DEF IInv, EndsInSign, IsEnding, Auth, EnAct, Since, ReqPcs, ReqOf, ReqCount, Act, EnPcs
<1>102. RsPcs'
  BY <1>2 DEF IInv, RsPcs
<1>103. Counts'
  BY <1>t, <1>1, <1>2, <1>3 DEF IInv, Counts, Fresh, TypeOK, CountsTyped, Counted, TokensTyped, Typed
<1>104. Unborn'
  BY <1>t, <1>1, <1>2, <1>3 DEF IInv, Unborn, Busy, RunTok, RunsCount, CountsTyped, Counted
<1>105. RunsCount'
  BY <1>t, <1>1, <1>2, <1>3 DEF IInv, RunsCount, Busy, CountsTyped, Counted, RunsTyped, Typed
<1>106. OneFlight'
  BY <1>t, <1>1, <1>2, <1>3 DEF IInv, OneFlight, InP, Busy, CountsTyped, Counted
<1>107. FlightBusy'
  BY <1>t, <1>1, <1>2, <1>3 DEF IInv, FlightBusy, Busy, CountsTyped, Counted
<1>108. TokensKnown'
  BY <1>t, <1>2, <1>3 DEF IInv, TokensKnown, Known, CountsTyped, Counted, TokensTyped, Typed
<1>109. RunsKnown'
  <2>1. \A t : Typed(t) /\ Known(t) => /\ t.s = None => t.g = 0
                                       /\ t.s # None => t.s <= epoch' /\ t.g >= 1 /\ t.g <= gen'[t.s]
    <3>1. SUFFICES ASSUME NEW t, Typed(t), Known(t), t.s # None PROVE t.s <= epoch' /\ t.g >= 1 /\ t.g <= gen'[t.s]
      BY DEF Known
    <3>2. t.s \in Epochs /\ t.g \in Nat
      BY <3>1 DEF Typed, Counted
    <3>3. gen'[t.s] >= gen[t.s] /\ gen'[t.s] \in Nat /\ gen[t.s] \in Nat
      BY <3>2, <1>3, <1>t DEF CountsTyped
    <3> QED
      BY <3>1, <3>2, <3>3, <1>2 DEF Known
  <2>2. \A l \in Epochs : l # k => Known(rf[l].tok)' /\ Known(rf[l].got)'
    BY <2>1, <1>t, <1>1 DEF IInv, RunsKnown, RunsTyped, Known
  <2>3. Known(rf[k].tok)'
    BY <2>1, <1>t, <1>1 DEF IInv, RunsKnown, RunsTyped, Known
  <2>4. Known(rf[k].got)'
    <3>1. CASE rf'[k].got = NoToken
      BY <3>1, TokenFacts DEF Known
    <3>2. CASE /\ rf'[k].got.s = rf[k].tok.s /\ rf'[k].got.g = rf[k].tok.g + 1
               /\ rf[k].tok.g = gen[rf[k].tok.s] /\ gen'[rf[k].tok.s] = gen[rf[k].tok.s] + 1
      BY <3>2, <1>t, <1>1, <1>2 DEF IInv, RunsKnown, RunsTyped, Typed, Known
    <3> QED
      BY <3>1, <3>2, <1>1
  <2> QED
    BY <2>2, <2>3, <2>4 DEF RunsKnown
<1>110. Fresh'
  BY <1>t, <1>1, <1>2, <1>3 DEF IInv, Fresh, CountsTyped, Counted, RunsTyped, Typed, TokensTyped
<1>111. RunTok'
  BY <1>t, <1>1, <1>2, <1>3 DEF IInv, RunTok, Busy, CountsTyped, Counted, RunsTyped, Typed
<1>112. GotNext'
  BY <1>t, <1>1, <1>2, <1>3 DEF IInv, GotNext, Got, CountsTyped, Counted, RunsTyped, Typed
<1>113. Writers'
  BY <1>t, <1>1, <1>2, <1>3 DEF IInv, Writers, Landing, Since, CountsTyped, Counted
<1>114. Above'
  BY <1>t, <1>1, <1>2, <1>3 DEF IInv, Above, Busy, InP, IsEnding, CountsTyped, Counted, RunsTyped, Typed,
      TokensTyped
<1>115. Apart'
  BY <1>t, <1>1, <1>2, <1>3 DEF IInv, Apart, Busy, CountsTyped, Counted, RunsTyped, Typed
<1>116. GotNewest'
  BY <1>t, <1>1, <1>2, <1>3 DEF IInv, GotNewest, Got, Good, Apart, Busy, RunTok, CountsTyped, Counted, RunsTyped,
      Typed
<1>117. AskedNewest'
  BY <1>t, <1>1, <1>2, <1>3 DEF IInv, AskedNewest, Good, Since, Apart, Busy, CountsTyped, Counted, RunsTyped, Typed
<1>118. CurNewest'
  BY <1>t, <1>1, <1>2, <1>3 DEF IInv, CurNewest, Cur, Rotated, IsEnding, Stored, Good, InP, Busy, Got, Above,
      RunTok, CountsTyped, Counted, RunsTyped, Typed, TokensTyped
<1>119. GotUnshared'
  BY <1>t, <1>1, <1>2, <1>3 DEF IInv, GotUnshared, Got, TokensKnown, Known, CountsTyped, Counted, RunsTyped,
      Typed, TokensTyped
<1>120. KcWritten'
  BY <1>t, <1>1, <1>2, <1>3 DEF IInv, KcWritten, CountsTyped, Counted, RunsTyped, Typed, TokensTyped
<1>121. UnsavedOwn'
  BY <1>t, <1>1, <1>2, <1>3 DEF IInv, UnsavedOwn, InP, Busy, CountsTyped, Counted, RunsTyped, Typed, TokensTyped
<1>122. EndNotKept'
  BY <1>t, <1>1, <1>2, <1>3 DEF IInv, EndNotKept, InP, Busy, Since, IsEnding, CountsTyped, Counted
<1>123. SaveLands'
  BY <1>t, <1>1, <1>2, <1>3 DEF IInv, SaveLands, InP, Busy, Good, Rotated, IsEnding, CountsTyped, Counted,
      RunsTyped, Typed, TokensTyped
<1>124. RunIsCur'
  BY <1>t, <1>1, <1>2, <1>3 DEF IInv, RunIsCur, InP, Busy, Cur, Rotated, IsEnding, Stored, Good, CountsTyped,
      Counted, RunsTyped, Typed, TokensTyped
<1>125. MovedOff'
  BY <1>t, <1>1, <1>2, <1>3 DEF IInv, MovedOff, InP, Busy, Stored, CountsTyped, Counted, TokensTyped, Typed
<1>126. NoTokRun'
  BY <1>t, <1>1, <1>2, <1>3 DEF IInv, NoTokRun, InP, Busy, Cur, Rotated, IsEnding, Stored, CountsTyped, Counted,
      RunsTyped, Typed, TokensTyped
<1>127. Refused'
  BY <1>t, <1>1, <1>2, <1>3 DEF IInv, Refused, InP, Busy, Gone, CountsTyped, Counted
<1>128. FailDead'
  BY <1>t, <1>1, <1>2, <1>3 DEF IInv, FailDead, EnAct, Since, Dead, InP, Busy, DeadRun, Got, Gone, Stored,
      IsEnding, RunPcs, CountsTyped, Counted
<1>129. EndMarked'
  BY <1>t, <1>1, <1>2, <1>3 DEF IInv, EndMarked, EnAct, Since, IsEnding, Dead, InP, Busy, DeadRun, Got, Gone,
      Stored, CountsTyped, Counted
<1>130. EndAfter'
  BY <1>t, <1>1, <1>2, <1>3 DEF IInv, EndAfter, EnAct, Since, Landing, CountsTyped, Counted
<1>131. Cleared'
  BY <1>t, <1>1, <1>2, <1>3 DEF IInv, Cleared, EnAct, Since, Dead, InP, Busy, DeadRun, Got, Gone, Stored,
      IsEnding, CountsTyped, Counted
<1>132. StoredLater'
  BY <1>t, <1>1, <1>2, <1>3 DEF IInv, StoredLater, Gone, Stored, Auth, IsEnding, CountsTyped, Counted,
      TokensTyped, Typed
<1>133. RunLater'
  BY <1>t, <1>1, <1>2, <1>3 DEF IInv, RunLater, InP, Busy, Gone, CountsTyped, Counted, RunsTyped, Typed
<1>134. LandLater'
  BY <1>t, <1>1, <1>2, <1>3 DEF IInv, LandLater, Landing, Gone, Auth, IsEnding, CountsTyped, Counted, RunsTyped,
      Typed
<1>135. OldNoTok'
  BY <1>t, <1>1, <1>2, <1>3 DEF IInv, OldNoTok, InP, Busy, IsEnding, CountsTyped, Counted, TokensTyped, Typed
<1>136. RestoreWaits'
  BY <1>t, <1>1, <1>2, <1>3 DEF IInv, RestoreWaits, Busy, Since, CountsTyped, Counted, ReqsTyped, Typed
<1>137. ReqsWait'
  BY <1>t, <1>1, <1>2 DEF IInv, ReqsWait, Busy, Since, CountsTyped, Counted, ReqsTyped, Typed
<1>138. Begun'
  BY <1>t, <1>1, <1>2, <1>3 DEF IInv, Begun, InP, Busy, Blocked, ByAny, CountsTyped, Counted, ReqsTyped, Typed
<1>139. PageBegun'
  BY <1>t, <1>1, <1>2, <1>3 DEF IInv, PageBegun, InP, Busy, Blocked, ByAny, Auth, CountsTyped, Counted,
      ReqsTyped, Typed
<1>140. LatePage'
  BY <1>t, <1>1, <1>2, <1>3 DEF IInv, LatePage, Act, Since, Auth, RsOk, RsOn, LateEnded, IsEnding, EnAct, Stored,
      Dead, InP, Busy, DeadRun, Got, Gone, CountsTyped, Counted, ReqsTyped, Typed
<1>141. OldAlone'
  BY <1>t, <1>1, <1>2, <1>3 DEF IInv, OldAlone, InP, Busy, Gone, Auth, IsEnding, Act, Since, EnAct, RsOk, RsOn,
      CountsTyped, Counted
<1>142. OneInUse'
  <2>1. Using' => Using
    BY <1>t, <1>1, <1>2, <1>3 DEF IInv, Using, Auth, RsOk, RsOn, Since, IsEnding, Dead, InP, Busy, DeadRun, Got,
        Gone, Stored
  <2>2. \A s \in Epochs : AllOf(s) => AllOf(s)'
    BY <1>t, <1>1, <1>2, <1>3 DEF IInv, AllOf, Of, Stored, IsEnding, Act, Since, InP, Busy, ReqsTyped, Typed,
        Counted
  <2> QED
    BY <2>1, <2>2, <1>1, <1>2, <1>3 DEF IInv, OneInUse
<1>143. AfterEnd'
  BY <1>t, <1>1, <1>2, <1>3 DEF IInv, AfterEnd, IsEnding, EnAct, Since, Auth, Landing, CountsTyped, Counted,
      TokensTyped, Typed
<1>144. RunPcs'
  BY <1>t, <1>1, <1>2, <1>3 DEF IInv, RunPcs, CountsTyped, Counted
<1> QED
  BY <1>1, <1>100, <1>101, <1>102, <1>103, <1>104, <1>105, <1>106, <1>107, <1>108, <1>109, <1>110, <1>111,
      <1>112, <1>113, <1>114, <1>115, <1>116, <1>117, <1>118, <1>119, <1>120, <1>121, <1>122, <1>123,
      <1>124, <1>125, <1>126, <1>127, <1>128, <1>129, <1>130, <1>131, <1>132, <1>133, <1>134, <1>135,
      <1>136, <1>137, <1>138, <1>139, <1>140, <1>141, <1>142, <1>143, <1>144 DEF IInv

\* The server gives new tokens only for a session that lives: one that is lost stays lost.
LEMMA ServerRefreshKeeps ==
    ASSUME IInv, NEW k \in Epochs, ServerRefresh(k)
    PROVE  Kept
<1>1. IInv'
  BY ServerRefreshKeepsInv
<1>2. ASSUME CauseInv PROVE CauseInv' /\ Taken
  <2>1. UNCHANGED <<asked, mem, epoch, inPlace, writing, ending, unsaved, status, kc, sign, en, req, rs>>
    BY DEF ServerRefresh, counts
  <2>2. /\ rf[k].pc = "asked" /\ rf'[k].pc = "answered" /\ rf'[k].tok = rf[k].tok
        /\ \A l \in Epochs : l # k => rf'[l] = rf[l]
        /\ alive' \subseteq alive /\ (rf'[k].res = "ok" => rf[k].tok.s \in alive)
    BY ServerRefreshEffect DEF IInv
  <2>3. RunsStep
    BY <2>1, <2>2, RunsStayInPlace DEF Got, Gone
  <2>4. Still
    BY <2>1, <2>2 DEF Still, EnOn, EnAct, Since, Placed
  <2>5. (Mine' => Mine) /\ (Auth' <=> Auth) /\ (RsOk' <=> RsOk)
    BY <2>1 DEF Mine, Auth, RsOk, RsOn, Since
  <2> QED
    BY <1>2, <2>3, <2>4, <2>5, StillKeepsCause
<1> QED
  BY <1>1, <1>2 DEF Kept

\* A refresh that ends without tokens leaves the newest one where it was, or gave it up as dropped.
LEMMA FinishKeepsInv ==
    ASSUME IInv, NEW k \in Epochs, NEW res \in {"ok", "failed", "refused"}, Finish(k, res, NoToken),
           rf[k].pc \notin {"none", "access", "refresh"},
           InP(k) /\ Got(k) /\ rf[k].pc # "moved" => rf[k].tok.s \in dropped',
           res = "ok" => k < epoch \/ (rf[k].pc = "moved" /\ ~IsEnding(epoch)),
           rf[k].pc = "ends" => en[<<"fail", k>>].pc = "none",
           dropped' \in {dropped, dropped \cup {rf[k].tok.s}}, dropped' \in SUBSET Epochs, left' \in Nat,
           UNCHANGED <<asked, alive, gen, reused, excused, mem, counts, ending, unsaved, status, leaving,
             kc, sign, en, sv>>
    PROVE  IInv'
<1>1. TypeOK' /\ RunOver(k, res, NoToken)
  <2>1. res \in Results /\ TypeOK
    BY DEF IInv, Results
  <2>2. RunOver(k, res, NoToken) /\ rf' \in [Epochs -> Run] /\ inFlight' \in Count /\ req' \in [Slots -> Run] /\
          rs' \in Run
    BY <2>1, FinishEffect, TokenFacts
  <2> QED
    BY <2>1, <2>2 DEF TypeOK, counts
<1>2. /\ UNCHANGED <<alive, gen, excused, mem, epoch, inPlace, writing, ending, unsaved, status, leaving, kc,
           sign, en, sv>>
      /\ \A s \in Epochs : s \notin dropped' => s \notin dropped
  BY DEF counts
<1>3. /\ rf'[k].pc = "none" /\ rf'[k].tok = NoToken /\ rf'[k].got = NoToken /\ Busy(k)
      /\ \A l \in Epochs : l # k => rf'[l] = rf[l]
      /\ IF inFlight = k THEN inFlight' = None ELSE inFlight' = inFlight
  BY <1>1 DEF RunOver, Busy
<1>4. /\ \A x \in Slots : Hears(req[x], req'[x], k, res, NoToken)
      /\ Hears(rs, rs', k, res, NoToken)
  BY <1>1 DEF RunOver
<1>t. /\ CountsTyped /\ TokensTyped /\ RunsTyped /\ ReqsTyped
      /\ CountsTyped' /\ TokensTyped' /\ RunsTyped' /\ ReqsTyped'
  BY <1>1, Types DEF IInv
<1>5. NoToken.s = None /\ NoToken.g = 0 /\ NoToken \in Token /\
        \A s \in alive : s \notin dropped' => s \notin dropped
  BY <1>2, <1>t, TokenFacts DEF CountsTyped
<1>100. Counts' /\ EndsCount' /\ EndsWait'
  BY <1>2 DEF IInv, Counts, EndsCount, EndsWait, EnAct, Since, IsEnding
<1>101. TokensKnown' /\ SaveOther' /\ ClearedNow'
  BY <1>2 DEF IInv, TokensKnown, Known, SaveOther, IsEnding, ClearedNow, EnAct, Since
<1>102. StoredLater' /\ EndsInSign' /\ EnPcs'
  BY <1>2 DEF IInv, StoredLater, Gone, Stored, Auth, IsEnding, EndsInSign, EnAct, Since, EnPcs
<1>103. Unborn'
  BY <1>t, <1>2, <1>3, <1>5 DEF IInv, Unborn, Busy, CountsTyped, Counted
<1>104. RunsCount'
  BY <1>t, <1>2, <1>3, <1>5 DEF IInv, RunsCount, Busy, CountsTyped, Counted, RunsTyped, Typed
<1>105. OneFlight'
  BY <1>t, <1>2, <1>3, <1>5 DEF IInv, OneFlight, InP, Busy, CountsTyped, Counted
<1>106. FlightBusy'
  BY <1>t, <1>2, <1>3, <1>5 DEF IInv, FlightBusy, Busy, CountsTyped, Counted
<1>107. RunsKnown'
  BY <1>t, <1>2, <1>3, <1>5 DEF IInv, RunsKnown, Known, CountsTyped, Counted, RunsTyped, Typed
<1>108. Fresh'
  BY <1>t, <1>2, <1>3, <1>5 DEF IInv, Fresh, CountsTyped, Counted, RunsTyped, Typed, TokensTyped
<1>109. RunTok'
  BY <1>t, <1>2, <1>3, <1>5 DEF IInv, RunTok, Busy, CountsTyped, Counted, RunsTyped, Typed
<1>110. GotNext'
  BY <1>t, <1>2, <1>3, <1>5 DEF IInv, GotNext, Got, CountsTyped, Counted, RunsTyped, Typed
<1>111. Writers'
  BY <1>t, <1>2, <1>3, <1>5 DEF IInv, Writers, Landing, Since, CountsTyped, Counted
<1>112. Above'
  BY <1>t, <1>2, <1>3, <1>5 DEF IInv, Above, Busy, InP, IsEnding, CountsTyped, Counted, RunsTyped, Typed,
      TokensTyped
<1>113. Apart'
  BY <1>t, <1>2, <1>3, <1>5 DEF IInv, Apart, Busy, CountsTyped, Counted, RunsTyped, Typed
<1>114. GotNewest'
  BY <1>t, <1>2, <1>3, <1>5 DEF IInv, GotNewest, Got, Good, CountsTyped, Counted, RunsTyped, Typed
<1>115. AskedNewest'
  BY <1>t, <1>2, <1>3, <1>5 DEF IInv, AskedNewest, Good, Since, CountsTyped, Counted, RunsTyped, Typed
<1>116. CurNewest'
  BY <1>t, <1>2, <1>3, <1>5 DEF IInv, CurNewest, Cur, Rotated, IsEnding, Stored, Good, InP, Busy, Got, OneFlight,
      CountsTyped, Counted, RunsTyped, Typed, TokensTyped
<1>117. GotUnshared'
  BY <1>t, <1>2, <1>3, <1>5 DEF IInv, GotUnshared, Got, CountsTyped, Counted, RunsTyped, Typed, TokensTyped
<1>118. KcWritten'
  BY <1>t, <1>2, <1>3, <1>5 DEF IInv, KcWritten, CountsTyped, Counted, RunsTyped, Typed, TokensTyped
<1>119. UnsavedOwn'
  BY <1>t, <1>2, <1>3, <1>5 DEF IInv, UnsavedOwn, InP, Busy, CountsTyped, Counted, RunsTyped, Typed, TokensTyped
<1>120. EndNotKept'
  BY <1>t, <1>2, <1>3, <1>5 DEF IInv, EndNotKept, InP, Busy, Since, IsEnding, CountsTyped, Counted
<1>121. SaveLands'
  BY <1>t, <1>2, <1>3, <1>5 DEF IInv, SaveLands, InP, Busy, Good, Rotated, IsEnding, CountsTyped, Counted,
      RunsTyped, Typed, TokensTyped
<1>122. RunIsCur'
  BY <1>t, <1>2, <1>3, <1>5 DEF IInv, RunIsCur, InP, Busy, Cur, Rotated, IsEnding, Stored, Good, CountsTyped,
      Counted, RunsTyped, Typed, TokensTyped
<1>123. MovedOff'
  BY <1>t, <1>2, <1>3, <1>5 DEF IInv, MovedOff, InP, Busy, Stored, CountsTyped, Counted, TokensTyped, Typed
<1>124. NoTokRun'
  BY <1>t, <1>2, <1>3, <1>5 DEF IInv, NoTokRun, InP, Busy, Cur, Rotated, IsEnding, Stored, CountsTyped, Counted,
      RunsTyped, Typed, TokensTyped
<1>125. Refused'
  BY <1>t, <1>2, <1>3, <1>5 DEF IInv, Refused, InP, Busy, Gone, CountsTyped, Counted
<1>126. FailDead'
  BY <1>t, <1>2, <1>3, <1>5, SlotFacts DEF IInv, FailDead, EnAct, Since, Dead, InP, Busy, DeadRun, Got, Gone,
      Stored, IsEnding, RunsCount, EndsCount, CountsTyped, Counted
<1>127. EndMarked'
  BY <1>t, <1>2, <1>3, <1>5 DEF IInv, EndMarked, EnAct, Since, IsEnding, Dead, InP, Busy, DeadRun, Got, Gone,
      Stored, CountsTyped, Counted
<1>128. EndAfter'
  BY <1>t, <1>2, <1>3, <1>5 DEF IInv, EndAfter, EnAct, Since, Landing, CountsTyped, Counted
<1>129. Cleared'
  BY <1>t, <1>2, <1>3, <1>5 DEF IInv, Cleared, EnAct, Since, Dead, InP, Busy, DeadRun, Got, Gone, Stored,
      IsEnding, CountsTyped, Counted
<1>130. RsOut'
  BY <1>t, <1>2, <1>3, <1>4, <1>5 DEF IInv, RsOut, RsOn, Since, Auth, CountsTyped, Counted, Hears
<1>131. RunLater'
  BY <1>t, <1>2, <1>3, <1>5 DEF IInv, RunLater, InP, Busy, Gone, CountsTyped, Counted, RunsTyped, Typed
<1>132. LandLater'
  BY <1>t, <1>2, <1>3, <1>5 DEF IInv, LandLater, Landing, Gone, Auth, IsEnding, CountsTyped, Counted, RunsTyped,
      Typed
<1>133. OldNoTok'
  BY <1>t, <1>2, <1>3, <1>5 DEF IInv, OldNoTok, InP, Busy, IsEnding, CountsTyped, Counted, TokensTyped, Typed
<1>134. ReqPcs'
  BY <1>t, <1>2, <1>3, <1>4, <1>5 DEF IInv, ReqPcs, CountsTyped, Counted, Hears
<1>135. ReqOf'
  BY <1>t, <1>2, <1>3, <1>4, <1>5 DEF IInv, ReqOf, Auth, CountsTyped, Counted, ReqsTyped, Typed, Hears
<1>136. ReqCount'
  BY <1>t, <1>2, <1>3, <1>4, <1>5 DEF IInv, ReqCount, Act, Since, CountsTyped, Counted, ReqsTyped, Typed, Hears
<1>137. RestoreWaits'
  BY <1>t, <1>2, <1>3, <1>4, <1>5 DEF IInv, RestoreWaits, Busy, Since, CountsTyped, Counted, ReqsTyped, Typed, Hears
<1>138. ReqsWait'
  BY <1>t, <1>2, <1>3, <1>4, <1>5 DEF IInv, ReqsWait, Busy, Since, CountsTyped, Counted, ReqsTyped, Typed, Hears
<1>139. Begun'
  BY <1>t, <1>2, <1>3, <1>4, <1>5 DEF IInv, Begun, InP, Busy, Blocked, ByAny, CountsTyped, Counted, ReqsTyped,
      Typed, Hears
<1>140. PageBegun'
  BY <1>t, <1>2, <1>3, <1>4, <1>5 DEF IInv, PageBegun, InP, Busy, Blocked, ByAny, Auth, CountsTyped, Counted,
      ReqsTyped, Typed, Hears
<1>141. LatePage'
  <2>1. Dead => Dead'
    BY <1>t, <1>2, <1>3 DEF IInv, Dead, InP, Busy, DeadRun, Got, Gone, Stored, IsEnding
  <2>2. Act(Any)' => Act(Any)
    BY <1>t, <1>2, <1>4 DEF Act, Since, Hears, ReqsTyped
  <2>3. LateEnded => LateEnded'
    BY <1>t, <1>2, <1>4 DEF LateEnded, IsEnding, EnAct, Since, Stored, RsOn, Hears
  <2>4. ASSUME LateEnded \/ Dead, ~RsOk PROVE ~RsOk'
    <3>1. SUFFICES ASSUME RsOk' PROVE FALSE
      OBVIOUS
    <3>2. RsOn /\ rs.pc = "waits" /\ rs.run = k /\ res = "ok"
      BY <2>4, <3>1, <1>2, <1>4 DEF RsOk, RsOn, Since, Hears
    <3>3. InP(k)
      BY <3>2 DEF IInv, RestoreWaits, InP, RsOn
    <3> QED
      BY <2>4, <3>2, <3>3, <1>t DEF LateEnded, Dead, DeadRun, Got, CountsTyped
  <2> QED
    BY <2>1, <2>2, <2>3, <2>4, <1>2 DEF IInv, LatePage, Auth
<1>142. OldAlone'
  BY <1>t, <1>2, <1>3, <1>4, <1>5 DEF IInv, OldAlone, InP, Busy, Gone, Auth, IsEnding, Act, Since, EnAct, RsOk,
      RsOn, CountsTyped, Counted, Hears
<1>143. OneInUse'
  <2>1. Dead => Dead'
    BY <1>t, <1>2, <1>3 DEF IInv, Dead, InP, Busy, DeadRun, Got, Gone, Stored, IsEnding
  <2>2. ASSUME NEW s \in Epochs, AllOf(s) PROVE AllOf(s)'
    BY <2>2, <1>t, <1>2, <1>3, <1>4, <1>5 DEF IInv, AllOf, Of, Stored, IsEnding, Act, Since, InP, Busy, Hears,
        ReqsTyped
  <2>3. CASE ~Using /\ Using'
    <3>1. RsOn /\ rs.pc = "waits" /\ rs.run = k /\ res = "ok" /\ (IsEnding(epoch) => Dead) /\ ~Auth
      BY <2>1, <2>3, <1>t, <1>2, <1>4 DEF Using, Auth, RsOk, RsOn, IsEnding, Since, Hears
    <3>2. InP(k) /\ ~Dead /\ ~IsEnding(epoch) /\ rs.e = epoch /\ k = inFlight
      <4>1. InP(k) /\ rs.e = epoch
        BY <3>1 DEF IInv, RestoreWaits, InP, RsOn, Since
      <4>2. ~Dead
        BY <4>1, <3>1, <1>t DEF Dead, DeadRun, Got, CountsTyped
      <4> QED
        BY <4>1, <4>2, <3>1 DEF IInv, OneFlight
    <3>3. /\ \A x \in Slots : ~Act(x)
          /\ \A x \in Ends : en[x].pc = "unregisters" => x[2] >= epoch
      <4>1. \A x \in Ends : ~Act(x)
        BY <3>2 DEF IInv, EndMarked, ReqOf, Act, EnAct, Since, EndsCount
      <4>2. ~Act(Me) /\ ~Act(Any)
        BY <3>1, <3>2 DEF IInv, ReqOf, LatePage, LateEnded, Act
      <4> QED
        BY <4>1, <4>2, <3>1, <3>2, SlotFacts DEF IInv, ReqCount
    <3>4. k < epoch => mem = NoToken
      <4>1. ASSUME k < epoch PROVE ~Blocked(k)
        <5>1. req[Me].pc = "none"
          BY <3>1 DEF IInv, ReqOf
        <5>2. \A x \in Ends : req[x].pc = "waits" => x[2] >= epoch
          BY <3>3 DEF IInv, ReqOf
        <5> QED
          BY <4>1, <5>1, <5>2, <3>2, <1>t DEF Blocked, CountsTyped, ReqsTyped
      <4> QED
        BY <4>1, <3>1, <3>2 DEF IInv, Begun, PageBegun
    <3>5. k = epoch => Stored = NoToken
      BY <3>1, <3>2, <1>t DEF IInv, MovedOff, CountsTyped
    <3>6. \A l \in Epochs : ~InP(l)'
      BY <3>2, <1>2, <1>3 DEF IInv, OneFlight, InP, Busy
    <3>7. \A x \in Slots : ~Act(x)'
      BY <3>3, <1>2, <1>4 DEF Act, Since, Hears
    <3>8. ~IsEnding(epoch)' /\ mem' = mem /\ Stored' = Stored
      BY <3>2, <1>2 DEF IsEnding, Stored
    <3>9. Counted(mem.s) /\ Counted(Stored.s)
      BY <1>t DEF TokensTyped, Typed, Stored
    <3>10. \E s \in Epochs : Of(mem, s) /\ Of(Stored, s)
      BY <3>4, <3>5, <3>9, <1>t, <1>5, <1>3 DEF IInv, Of, Counted, CountsTyped, Unborn
    <3> QED
      BY <3>6, <3>7, <3>8, <3>10 DEF AllOf, OneInUse
  <2> QED
    BY <2>2, <2>3, <1>2 DEF IInv, OneInUse
<1>144. AfterEnd'
  BY <1>t, <1>2, <1>3, <1>5 DEF IInv, AfterEnd, IsEnding, EnAct, Since, Auth, Landing, CountsTyped, Counted,
      TokensTyped, Typed
<1>145. RunPcs'
  BY <1>t, <1>2, <1>3, <1>5 DEF IInv, RunPcs, CountsTyped, Counted
<1>146. RsPcs'
  BY <1>t, <1>2, <1>3, <1>4, <1>5 DEF IInv, RsPcs, CountsTyped, Counted, Hears
<1> QED
  BY <1>1, <1>100, <1>101, <1>102, <1>103, <1>104, <1>105, <1>106, <1>107, <1>108, <1>109, <1>110, <1>111,
      <1>112, <1>113, <1>114, <1>115, <1>116, <1>117, <1>118, <1>119, <1>120, <1>121, <1>122, <1>123,
      <1>124, <1>125, <1>126, <1>127, <1>128, <1>129, <1>130, <1>131, <1>132, <1>133, <1>134, <1>135,
      <1>136, <1>137, <1>138, <1>139, <1>140, <1>141, <1>142, <1>143, <1>144, <1>145, <1>146 DEF IInv

\* A refresh that ends without tokens takes nothing from the phone.
LEMMA FinishKeeps ==
    ASSUME IInv, NEW k \in Epochs, NEW res \in {"ok", "failed", "refused"}, Finish(k, res, NoToken),
           rf[k].pc \notin {"none", "access", "refresh"},
           InP(k) /\ Got(k) /\ rf[k].pc # "moved" => rf[k].tok.s \in dropped',
           res = "ok" => k < epoch \/ (rf[k].pc = "moved" /\ ~IsEnding(epoch)),
           rf[k].pc = "ends" => en[<<"fail", k>>].pc = "none",
           dropped' \in {dropped, dropped \cup {rf[k].tok.s}}, dropped' \in SUBSET Epochs, left' \in Nat,
           UNCHANGED <<asked, alive, gen, reused, excused, mem, counts, ending, unsaved, status, leaving, kc, sign,
             en, sv>>
    PROVE  Kept
<1>1. IInv'
  BY FinishKeepsInv
<1>2. UNCHANGED <<alive, asked, mem, epoch, inPlace, writing, ending, unsaved, status, kc, sign, en>>
  BY DEF counts
<1>3. ASSUME CauseInv PROVE CauseInv' /\ Taken
  <2>1. RunOver(k, res, NoToken)
    BY FinishEffect, TokenFacts DEF IInv, Results
  <2>2. RunsStep
    BY <1>2, <2>1, RunsStayInPlace DEF RunOver
  <2>3. Still
    BY <1>2, <2>1 DEF Still, EnOn, EnAct, Since, Placed, RunOver
  <2>4. (Mine' => Mine) /\ (Auth' <=> Auth)
    BY <1>2, <2>1, HeardIsMine DEF Auth
  <2>5. RsOk' => RsOk \/ Cause(mem)
    <3>1. SUFFICES ASSUME RsOn, rs.pc = "waits", rs.run = k, res = "ok" PROVE Cause(mem)
      BY <1>2, <2>1, HeardIsMine
    <3>2. k = epoch => Got(k) /\ kc = NoToken
      <4> SUFFICES ASSUME k = epoch PROVE Got(k) /\ kc = NoToken
        OBVIOUS
      <4>1. rf[k].pc = "moved" /\ InP(k) /\ MovedOff
        BY <3>1, EpochsAre DEF IInv, RestoreWaits, RsOn, InP
      <4>2. Stored = NoToken
        BY <4>1 DEF MovedOff
      <4> QED
        BY <4>1, <4>2 DEF Got, Stored
    <3> QED
      BY <1>3, <3>1, <3>2, ToldForCause DEF Busy
  <2> QED
    BY <1>3, <2>2, <2>3, <2>4, <2>5, StillKeepsCause
<1> QED
  BY <1>1, <1>3 DEF Kept

\* A refresh that meets a log out hands its tokens to it.
LEMMA KeepKeepsInv ==
    ASSUME IInv, NEW k \in Epochs, KeepForLogOut(k, rf[k].got), InP(k), Got(k), writing = None,
           IsEnding(epoch) \/ (IsEnding(k) /\ k < epoch /\ rf[k].pc = "answered"),
           \/ unsaved' = unsaved
           \/ unsaved' = rf[k].got /\ k \in Landing /\ ~Since(rf[k].e) /\ IsEnding(epoch),
           UNCHANGED <<asked, alive, gen, reused, excused, dropped, mem, counts, status, leaving,
             kc, sign, en, sv, left>>
    PROVE  IInv'
<1>0. /\ rf[k].got \in Token /\ rf[k].got.s = rf[k].tok.s /\ rf[k].got # NoToken /\ rf[k].tok # NoToken
      /\ Typed(rf[k].got) /\ TypeOK
  <2>1. TypeOK /\ rf[k] \in Run /\ RunsTyped
    BY Types DEF IInv, TypeOK
  <2>2. rf[k].tok # NoToken /\ rf[k].got.s = rf[k].tok.s
    BY DEF IInv, GotNext, RunTok, Got, InP
  <2> QED
    BY <2>1, <2>2, TokenFacts DEF IInv, RunsTyped, Typed, Run, RunsKnown, Known
<1>1. TypeOK' /\ RunOver(k, "ok", rf[k].got)
  <2>1. RunOver(k, "ok", rf[k].got) /\ rf' \in [Epochs -> Run] /\ inFlight' \in Count /\
          req' \in [Slots -> Run] /\ rs' \in Run
    BY <1>0, FinishEffect DEF KeepForLogOut, Results
  <2>2. ending' \in [e : Count, tok : Token]
    BY <1>0 DEF KeepForLogOut, TypeOK
  <2> QED
    BY <1>0, <2>1, <2>2 DEF TypeOK, counts
<1>2. UNCHANGED <<alive, gen, excused, dropped, mem, epoch, inPlace, writing, status, leaving, kc, sign, en, sv>>
  BY DEF counts
<1>3. /\ rf'[k].pc = "none" /\ rf'[k].tok = NoToken /\ rf'[k].got = NoToken /\ Busy(k)
      /\ \A l \in Epochs : l # k => rf'[l] = rf[l]
      /\ IF inFlight = k THEN inFlight' = None ELSE inFlight' = inFlight
  BY <1>1 DEF RunOver, InP
<1>4. /\ \A x \in Slots : Hears(req[x], req'[x], k, "ok", rf[k].got)
      /\ Hears(rs, rs', k, "ok", rf[k].got)
  BY <1>1 DEF RunOver
<1>t. /\ CountsTyped /\ TokensTyped /\ RunsTyped /\ ReqsTyped
      /\ CountsTyped' /\ TokensTyped' /\ RunsTyped' /\ ReqsTyped'
  BY <1>1, Types DEF IInv
<1>5. NoToken.s = None /\ NoToken.g = 0 /\ NoToken \in Token
  BY TokenFacts
<1>6. ending'.e = ending.e /\ ending'.tok = rf[k].got
  BY <1>0 DEF KeepForLogOut, TypeOK
<1>7. /\ \A l \in Epochs : ~InP(l)'
      /\ ~Dead /\ k <= epoch /\ rf[k].tok.s <= k
      /\ IsEnding(epoch) => Using /\ sign[epoch] # "refresh"
  <2>1. \A l \in Epochs : ~InP(l)'
    BY <1>2, <1>3 DEF IInv, OneFlight, InP, Busy
  <2>2. ~Dead
    BY <1>t DEF IInv, Dead, DeadRun
  <2> QED
    BY <2>1, <2>2, <1>t, <1>3 DEF IInv, Using, Counts, CountsTyped, RunTok, Unborn
<1>100. EndsCount' /\ EnPcs'
  BY <1>2 DEF IInv, EndsCount, EnPcs
<1>101. Counts'
  BY <1>t, <1>0, <1>2, <1>3, <1>5, <1>6, <1>7 DEF IInv, Counts, IsEnding, CountsTyped, Counted, TokensTyped, Typed
<1>102. Unborn'
  BY <1>t, <1>0, <1>2, <1>3, <1>5, <1>6, <1>7 DEF IInv, Unborn, Busy, CountsTyped, Counted
<1>103. EndsWait'
  BY <1>t, <1>0, <1>2, <1>3, <1>5, <1>6, <1>7 DEF IInv, EndsWait, EnAct, Since, IsEnding, CountsTyped, Counted,
      ReqsTyped, Typed
<1>104. RunsCount'
  BY <1>t, <1>0, <1>2, <1>3, <1>5, <1>6, <1>7 DEF IInv, RunsCount, Busy, CountsTyped, Counted, RunsTyped, Typed
<1>105. OneFlight'
  BY <1>t, <1>0, <1>2, <1>3, <1>5, <1>6, <1>7 DEF IInv, OneFlight, InP, Busy, CountsTyped, Counted
<1>106. FlightBusy'
  BY <1>t, <1>0, <1>2, <1>3, <1>5, <1>6, <1>7 DEF IInv, FlightBusy, Busy, CountsTyped, Counted
<1>107. TokensKnown'
  BY <1>t, <1>0, <1>2, <1>3, <1>5, <1>6, <1>7 DEF IInv, TokensKnown, Known, RunsKnown, CountsTyped, Counted,
      TokensTyped, Typed
<1>108. RunsKnown'
  BY <1>t, <1>0, <1>2, <1>3, <1>5, <1>6, <1>7 DEF IInv, RunsKnown, Known, CountsTyped, Counted, RunsTyped, Typed
<1>109. Fresh'
  BY <1>t, <1>0, <1>2, <1>3, <1>5, <1>6, <1>7 DEF IInv, Fresh, CountsTyped, Counted, RunsTyped, Typed, TokensTyped
<1>110. RunTok'
  BY <1>t, <1>0, <1>2, <1>3, <1>5, <1>6, <1>7 DEF IInv, RunTok, Busy, CountsTyped, Counted, RunsTyped, Typed
<1>111. GotNext'
  BY <1>t, <1>0, <1>2, <1>3, <1>5, <1>6, <1>7 DEF IInv, GotNext, Got, CountsTyped, Counted, RunsTyped, Typed
<1>112. Writers'
  BY <1>t, <1>0, <1>2, <1>3, <1>5, <1>6, <1>7 DEF IInv, Writers, Landing, Since, CountsTyped, Counted
<1>113. Above'
  BY <1>t, <1>0, <1>2, <1>3, <1>5, <1>6, <1>7 DEF IInv, Above, Busy, InP, IsEnding, CountsTyped, Counted,
      RunsTyped, Typed, TokensTyped
<1>114. Apart'
  BY <1>t, <1>0, <1>2, <1>3, <1>5, <1>6, <1>7 DEF IInv, Apart, Busy, CountsTyped, Counted, RunsTyped, Typed
<1>115. GotNewest'
  BY <1>t, <1>0, <1>2, <1>3, <1>5, <1>6, <1>7 DEF IInv, GotNewest, Got, Good, CountsTyped, Counted, RunsTyped, Typed
<1>116. AskedNewest'
  BY <1>t, <1>0, <1>2, <1>3, <1>5, <1>6, <1>7 DEF IInv, AskedNewest, Good, Since, CountsTyped, Counted,
      RunsTyped, Typed
<1>117. CurNewest'
  BY <1>t, <1>0, <1>2, <1>3, <1>5, <1>6, <1>7 DEF IInv, CurNewest, Cur, Rotated, IsEnding, Stored, Good, InP,
      Busy, Got, GotNewest, StoredLater, Gone, Auth, RunTok, CountsTyped, Counted, RunsTyped, Typed, TokensTyped
<1>118. GotUnshared'
  BY <1>t, <1>0, <1>2, <1>3, <1>5, <1>6, <1>7 DEF IInv, GotUnshared, Got, Apart, Busy, GotNext, CountsTyped,
      Counted, RunsTyped, Typed, TokensTyped
<1>119. KcWritten'
  BY <1>t, <1>0, <1>2, <1>3, <1>5, <1>6, <1>7 DEF IInv, KcWritten, CountsTyped, Counted, RunsTyped, Typed,
      TokensTyped
<1>120. UnsavedOwn'
  BY <1>t, <1>0, <1>2, <1>3, <1>5, <1>6, <1>7 DEF IInv, UnsavedOwn, InP, Busy, CountsTyped, Counted, RunsTyped,
      Typed, TokensTyped
<1>121. EndNotKept'
  BY <1>t, <1>0, <1>2, <1>3, <1>5, <1>6, <1>7 DEF IInv, EndNotKept, InP, Busy, Since, IsEnding, CountsTyped, Counted
<1>122. SaveLands'
  BY <1>t, <1>0, <1>2, <1>3, <1>5, <1>6, <1>7 DEF IInv, SaveLands, InP, Busy, Good, Rotated, IsEnding,
      GotUnshared, Got, CountsTyped, Counted, RunsTyped, Typed, TokensTyped
<1>123. SaveOther'
  BY <1>2, <1>6 DEF IInv, SaveOther, GotUnshared
<1>124. RunIsCur'
  BY <1>t, <1>0, <1>2, <1>3, <1>5, <1>6, <1>7 DEF IInv, RunIsCur, InP, Busy, Cur, Rotated, IsEnding, Stored,
      Good, CountsTyped, Counted, RunsTyped, Typed, TokensTyped
<1>125. MovedOff'
  BY <1>t, <1>0, <1>2, <1>3, <1>5, <1>6, <1>7 DEF IInv, MovedOff, InP, Busy, Stored, CountsTyped, Counted,
      TokensTyped, Typed
<1>126. NoTokRun'
  BY <1>t, <1>0, <1>2, <1>3, <1>5, <1>6, <1>7 DEF IInv, NoTokRun, InP, Busy, Cur, Rotated, IsEnding, Stored,
      CountsTyped, Counted, RunsTyped, Typed, TokensTyped
<1>127. Refused'
  BY <1>t, <1>0, <1>2, <1>3, <1>5, <1>6, <1>7 DEF IInv, Refused, InP, Busy, Gone, CountsTyped, Counted
<1>128. FailDead'
  BY <1>t, <1>0, <1>2, <1>3, <1>5, <1>6, <1>7 DEF IInv, FailDead, EnAct, Since, Dead, InP, Busy, DeadRun, Got,
      Gone, Stored, IsEnding, CountsTyped, Counted
<1>129. EndMarked'
  BY <1>t, <1>0, <1>2, <1>3, <1>5, <1>6, <1>7 DEF IInv, EndMarked, EnAct, Since, IsEnding, Dead, InP, Busy,
      DeadRun, Got, Gone, Stored, CountsTyped, Counted
<1>130. EndAfter'
  BY <1>t, <1>0, <1>2, <1>3, <1>5, <1>6, <1>7 DEF IInv, EndAfter, EnAct, Since, Landing, CountsTyped, Counted
<1>131. Cleared'
  BY <1>t, <1>0, <1>2, <1>3, <1>5, <1>6, <1>7 DEF IInv, Cleared, EnAct, Since, Dead, InP, Busy, DeadRun, Got,
      Gone, Stored, IsEnding, CountsTyped, Counted
<1>132. ClearedNow'
  BY <1>t, <1>0, <1>2, <1>3, <1>5, <1>6, <1>7 DEF IInv, ClearedNow, EnAct, Since, IsEnding, CountsTyped, Counted
<1>133. RsOut'
  BY <1>t, <1>2, <1>3, <1>4, <1>5, <1>6, <1>7 DEF IInv, RsOut, RsOn, Since, Auth, CountsTyped, Counted, Hears
<1>134. StoredLater'
  BY <1>t, <1>0, <1>2, <1>3, <1>5, <1>6, <1>7 DEF IInv, StoredLater, Gone, Stored, Auth, IsEnding, LandLater,
      Landing, RunTok, Busy, CountsTyped, Counted, TokensTyped, Typed
<1>135. RunLater'
  BY <1>t, <1>0, <1>2, <1>3, <1>5, <1>6, <1>7 DEF IInv, RunLater, InP, Busy, Gone, CountsTyped, Counted,
      RunsTyped, Typed
<1>136. LandLater'
  BY <1>t, <1>0, <1>2, <1>3, <1>5, <1>6, <1>7 DEF IInv, LandLater, Landing, Gone, Auth, IsEnding, CountsTyped,
      Counted, RunsTyped, Typed
<1>137. EndsInSign'
  BY <1>t, <1>0, <1>2, <1>3, <1>5, <1>6, <1>7 DEF IInv, EndsInSign, IsEnding, Auth, EnAct, Since, CountsTyped,
      Counted
<1>138. OldNoTok'
  BY <1>t, <1>0, <1>2, <1>3, <1>5, <1>6, <1>7 DEF IInv, OldNoTok, InP, Busy, IsEnding, CountsTyped, Counted,
      TokensTyped, Typed
<1>139. ReqPcs'
  BY <1>t, <1>2, <1>3, <1>4, <1>5, <1>6, <1>7 DEF IInv, ReqPcs, CountsTyped, Counted, Hears
<1>140. ReqOf'
  BY <1>t, <1>2, <1>3, <1>4, <1>5, <1>6, <1>7 DEF IInv, ReqOf, Auth, CountsTyped, Counted, ReqsTyped, Typed, Hears
<1>141. ReqCount'
  BY <1>t, <1>2, <1>3, <1>4, <1>5, <1>6, <1>7 DEF IInv, ReqCount, Act, Since, CountsTyped, Counted, ReqsTyped,
      Typed, Hears
<1>142. RestoreWaits'
  BY <1>t, <1>2, <1>3, <1>4, <1>5, <1>6, <1>7 DEF IInv, RestoreWaits, Busy, Since, CountsTyped, Counted,
      ReqsTyped, Typed, Hears
<1>143. ReqsWait'
  BY <1>t, <1>2, <1>3, <1>4, <1>5, <1>6, <1>7 DEF IInv, ReqsWait, Busy, Since, CountsTyped, Counted, ReqsTyped,
      Typed, Hears
<1>144. Begun'
  BY <1>t, <1>2, <1>3, <1>4, <1>5, <1>6, <1>7 DEF IInv, Begun, InP, Busy, Blocked, ByAny, CountsTyped, Counted,
      ReqsTyped, Typed, Hears
<1>145. PageBegun'
  BY <1>t, <1>2, <1>3, <1>4, <1>5, <1>6, <1>7 DEF IInv, PageBegun, InP, Busy, Blocked, ByAny, Auth, CountsTyped,
      Counted, ReqsTyped, Typed, Hears
<1>146. LatePage'
  <2>1. SUFFICES ASSUME Act(Any)', ~Auth' PROVE mem' = NoToken /\ ~RsOk' /\ LateEnded'
    BY DEF LatePage
  <2>2. Act(Any) /\ ~Auth
    BY <2>1, <1>t, <1>2, <1>4 DEF Act, Since, Hears, ReqsTyped, Auth
  <2>3. LateEnded /\ mem = NoToken /\ ~RsOk
    BY <2>2, <1>7 DEF IInv, LatePage
  <2>4. unsaved' = unsaved
    BY <2>3 DEF IInv, AfterEnd, LateEnded
  <2>5. ~RsOk'
    BY <2>3, <1>2, <1>4 DEF LateEnded, RsOk, RsOn, Since, Hears
  <2> QED
    BY <2>3, <2>4, <2>5, <1>t, <1>2, <1>4, <1>6 DEF LateEnded, IsEnding, EnAct, Since, Stored, RsOn, Hears
<1>147. OldAlone'
  BY <1>t, <1>2, <1>3, <1>4, <1>5, <1>6, <1>7 DEF IInv, OldAlone, InP, Busy, Gone, Auth, IsEnding, Act, Since,
      EnAct, RsOk, RsOn, CountsTyped, Counted, Hears
<1>148. OneInUse'
  <2>2. ASSUME NEW s \in Epochs, AllOf(s), Of(rf[k].tok, s) PROVE AllOf(s)'
    BY <2>2, <1>t, <1>2, <1>3, <1>4, <1>5, <1>0, <1>6, <1>7 DEF IInv, AllOf, Of, Stored, IsEnding, Act, Since,
        InP, Busy, Hears, ReqsTyped
  <2>3. CASE ~Using /\ Using'
    <3>1. RsOn /\ rs.pc = "waits" /\ rs.run = k /\ (IsEnding(epoch) => Dead) /\ ~Auth
      BY <2>3, <1>t, <1>2, <1>4, <1>6, <1>7 DEF Using, Auth, RsOk, RsOn, IsEnding, Since, Hears
    <3>2. InP(k) /\ ~Dead /\ ~IsEnding(epoch) /\ rs.e = epoch /\ k = inFlight
      <4>1. InP(k) /\ rs.e = epoch
        BY <3>1 DEF IInv, RestoreWaits, InP, RsOn, Since
      <4>2. ~Dead
        BY <1>7
      <4> QED
        BY <4>1, <4>2, <3>1 DEF IInv, OneFlight
    <3>3. /\ \A x \in Slots : ~Act(x)
          /\ \A x \in Ends : en[x].pc = "unregisters" => x[2] >= epoch
      <4>1. \A x \in Ends : ~Act(x)
        BY <3>2 DEF IInv, EndMarked, ReqOf, Act, EnAct, Since, EndsCount
      <4>2. ~Act(Me) /\ ~Act(Any)
        BY <3>1, <3>2 DEF IInv, ReqOf, LatePage, LateEnded, Act
      <4> QED
        BY <4>1, <4>2, <3>1, <3>2, SlotFacts DEF IInv, ReqCount
    <3>4. k < epoch => mem = NoToken
      <4>1. ASSUME k < epoch PROVE ~Blocked(k)
        <5>1. req[Me].pc = "none"
          BY <3>1 DEF IInv, ReqOf
        <5>2. \A x \in Ends : req[x].pc = "waits" => x[2] >= epoch
          BY <3>3 DEF IInv, ReqOf
        <5> QED
          BY <4>1, <5>1, <5>2, <3>2, <1>t DEF Blocked, CountsTyped, ReqsTyped
      <4> QED
        BY <4>1, <3>1, <3>2 DEF IInv, Begun, PageBegun
    <3>5. k < epoch
      BY <3>1, <3>2, <1>7
    <3>6. \A l \in Epochs : ~InP(l)'
      BY <3>2, <1>2, <1>3 DEF IInv, OneFlight, InP, Busy
    <3>7. \A x \in Slots : ~Act(x)'
      BY <3>3, <1>2, <1>4 DEF Act, Since, Hears
    <3>8. ~IsEnding(epoch)' /\ mem' = mem /\ Stored' = Stored
      BY <3>2, <1>2, <1>6 DEF IsEnding, Stored
    <3>9. Counted(mem.s) /\ Counted(Stored.s)
      BY <1>t DEF TokensTyped, Typed, Stored
    <3>10. \E s \in Epochs : Of(mem, s) /\ Of(Stored, s)
      BY <3>4, <3>5, <3>9, <1>t, <1>5, <1>3 DEF IInv, Of, Counted, CountsTyped, Unborn
    <3> QED
      BY <3>6, <3>7, <3>8, <3>10 DEF AllOf, OneInUse
  <2>4. ASSUME NEW s \in Epochs, AllOf(s) PROVE Of(rf[k].tok, s)
    BY <2>4 DEF AllOf, InP
  <2> QED
    BY <2>2, <2>3, <2>4, <1>2 DEF IInv, OneInUse
<1>149. AfterEnd'
  BY <1>t, <1>0, <1>2, <1>3, <1>5, <1>6, <1>7 DEF IInv, AfterEnd, IsEnding, EnAct, Since, Auth, Landing,
      CountsTyped, Counted, TokensTyped, Typed
<1>150. RunPcs'
  BY <1>t, <1>0, <1>2, <1>3, <1>5, <1>6, <1>7 DEF IInv, RunPcs, CountsTyped, Counted
<1>151. RsPcs'
  BY <1>t, <1>2, <1>3, <1>4, <1>5, <1>6, <1>7 DEF IInv, RsPcs, CountsTyped, Counted, Hears
<1> QED
  BY <1>1, <1>100, <1>101, <1>102, <1>103, <1>104, <1>105, <1>106, <1>107, <1>108, <1>109, <1>110, <1>111,
      <1>112, <1>113, <1>114, <1>115, <1>116, <1>117, <1>118, <1>119, <1>120, <1>121, <1>122, <1>123,
      <1>124, <1>125, <1>126, <1>127, <1>128, <1>129, <1>130, <1>131, <1>132, <1>133, <1>134, <1>135,
      <1>136, <1>137, <1>138, <1>139, <1>140, <1>141, <1>142, <1>143, <1>144, <1>145, <1>146, <1>147,
      <1>148, <1>149, <1>150, <1>151 DEF IInv

\* A refresh that meets a log out hands it tokens of the session that is being logged out.
LEMMA KeepKeeps ==
    ASSUME IInv, NEW k \in Epochs, KeepForLogOut(k, rf[k].got), InP(k), Got(k), writing = None,
           IsEnding(epoch) \/ (IsEnding(k) /\ k < epoch /\ rf[k].pc = "answered"),
           \/ unsaved' = unsaved
           \/ unsaved' = rf[k].got /\ k \in Landing /\ ~Since(rf[k].e) /\ IsEnding(epoch),
           UNCHANGED <<asked, alive, gen, reused, excused, dropped, mem, counts, status, leaving, kc, sign, en, sv,
             left>>
    PROVE  Kept
<1>1. IInv'
  BY KeepKeepsInv
<1>2. UNCHANGED <<alive, asked, mem, epoch, inPlace, writing, status, kc, sign, en>>
  BY DEF counts
<1>3. ASSUME CauseInv PROVE CauseInv' /\ Taken
  <2> DEFINE got == rf[k].got
  <2>1. TypeOK /\ CountsTyped /\ Counts 
    BY Types DEF IInv
  <2>2. got.s = rf[k].tok.s /\ got # NoToken /\ got \in Token /\ rf[k].tok # NoToken
    BY GotIsToken
  <2>3. RunOver(k, "ok", got) /\ ending' = [ending EXCEPT !.tok = got]
    BY <2>1, <2>2, FinishEffect DEF KeepForLogOut, Results
  <2>4. ending'.e = ending.e /\ ending'.tok = got
    BY <2>1, <2>3 DEF TypeOK
  <2>5. Placed /\ (Placed' <=> Placed) /\ (IsEnding(epoch)' <=> IsEnding(epoch)) /\ (EnOn' <=> EnOn)
    BY <1>2, <2>1, <2>4 DEF Placed, Counts, IsEnding, EnOn, EnAct, Since
  <2>6. RunsStep
    BY <1>2, <2>3, RunsStayInPlace DEF RunOver
  <2>7. ~Lost /\ (ForCause => Cause(got)) /\ got.s # epoch + 1
    BY <2>2, Held DEF Lost, ForCause, Cause
  <2>8. Stored' = got \/ Stored' = Stored
    BY <1>2, <2>2 DEF Stored
  <2>9. (Mine' => Mine) /\ (Auth' <=> Auth)
    BY <1>2, <2>3, HeardIsMine DEF Auth
  <2>10. (RsOk' => RsOk \/ Cause(mem))
    <3>1. SUFFICES ASSUME RsOn, rs.pc = "waits", rs.run = k PROVE Cause(mem)
      BY <1>2, <2>3, HeardIsMine
    <3> QED
      BY <1>3, <3>1, ToldForCause, <2>1 DEF InP, CountsTyped
  <2>11. KcHasIt'
    <3> SUFFICES ASSUME NEW l \in Epochs, rf'[l].pc = "refresh", rf'[l].res = "ok", ~Since(rf[l].e)',
                        ~IsEnding(epoch)'
                 PROVE  kc' = rf'[l].got
      BY DEF KcHasIt
    <3>1. rf'[l] = rf[l]
      BY <2>3 DEF RunOver
    <3> QED
      BY <1>2, <1>3, <2>5, <3>1 DEF CauseInv, KcHasIt, Since
  <2>12. Shut' => Shut
    BY <1>2, <2>5 DEF Shut
  <2>13. AskedNew'
    BY <1>2 DEF AskedNew
  <2>14. (ForCause => Cause(Stored)) /\ Stored.s # epoch + 1
    BY Held DEF ForCause
  <2>15. ForCause /\ Placed => Cause(Stored')
    BY <2>7, <2>8, <2>14
  <2>16. Stored'.s # epoch + 1
    BY <2>7, <2>8, <2>14
  <2>17. Shut' /\ IsEnding(epoch)' => Cause(ending'.tok)
    BY <1>3, <2>4, <2>7, <2>12 DEF CauseInv, ShutForCause
  <2>18. Taken
    BY <1>2, <2>2, <2>8 DEF Taken
  <2>19. PICK u : u = Stored'
    OBVIOUS
  <2>20. PICK n : n = ending'.tok
    OBVIOUS
  <2>21. epoch' = epoch /\ asked \subseteq asked' /\ alive' \subseteq alive /\ mem' = mem /\ kc' = kc
    BY <1>2
  <2> HIDE DEF got
  <2> QED
    BY <1>3, <2>5, <2>6, <2>7, <2>9, <2>10, <2>11, <2>12, <2>13, <2>15, <2>16, <2>17, <2>18, <2>19, <2>20, <2>21,
       StepKeepsCause
<1> QED
  BY <1>1, <1>3 DEF Kept

\* A refresh signs out only when nothing the phone has opens a session.
LEMMA EndFailedKeepsInv ==
    ASSUME IInv, NEW k \in Epochs, EndFailed(k, k), ~Since(rf[k].e), ~IsEnding(k), rf[k].e = k,
           rf[k].pc = "recheck" \/ (rf[k].pc = "read" /\ rf[k].tok = NoToken),
           UNCHANGED <<server, asked, mem, counts, unsaved, status, leaving, kc, sign, sv, left>>
    PROVE  IInv'
<1>0. TypeOK /\ Idle \in Run /\ NoToken \in Token /\ <<"fail", k>> \in Ends /\ rf[k] \in Run
  BY IdleFacts, TokenFacts, SlotFacts DEF IInv, TypeOK
<1>1. TypeOK'
  <2>1. rf' \in [Epochs -> Run]
    BY <1>0 DEF EndFailed, TypeOK, Run, Pcs
  <2>2. en' \in [Ends -> Run]
    BY <1>0, IdleFacts DEF EndFailed, TypeOK, Run, Pcs, Count
  <2>3. ending' \in [e : Count, tok : Token]
    BY <1>0 DEF EndFailed, MarkEnding, TypeOK, Count
  <2> QED
    BY <1>0, <2>1, <2>2, <2>3 DEF EndFailed, TypeOK, counts, server
<1>2. UNCHANGED <<alive, gen, excused, dropped, mem, epoch, inPlace, writing, status, leaving, kc, sign, sv,
        inFlight, req, rs, unsaved>>
  BY DEF counts, server, EndFailed
<1>3. /\ rf'[k].pc = "ends" /\ rf'[k].tok = rf[k].tok /\ rf'[k].got = rf[k].got /\ rf'[k].e = rf[k].e /\ Busy(k)
      /\ \A l \in Epochs : l # k => rf'[l] = rf[l]
  BY <1>0 DEF EndFailed, TypeOK, Run, Busy
<1>4. /\ en'[<<"fail", k>>].pc = "waits" /\ en'[<<"fail", k>>].e = k
      /\ \A x \in Ends : x # <<"fail", k>> => en'[x] = en[x]
  BY <1>0, IdleFacts DEF EndFailed, TypeOK, Run
<1>5. ending'.e = k /\ ending'.tok = NoToken
  BY <1>0 DEF EndFailed, MarkEnding, IsEnding
<1>t. /\ CountsTyped /\ TokensTyped /\ RunsTyped /\ ReqsTyped
      /\ CountsTyped' /\ TokensTyped' /\ RunsTyped' /\ ReqsTyped'
  BY <1>1, Types DEF IInv
<1>6. NoToken.s = None /\ NoToken.g = 0 /\ NoToken.s \notin alive /\ None \notin alive
  BY <1>t, TokenFacts DEF CountsTyped, Typed, RunsTyped
<1>7. k = epoch /\ InP(k) /\ writing = None /\ ~IsEnding(epoch) /\ Cur = Stored /\ ~Got(k)
  BY <1>t, <1>3, <1>6 DEF IInv, RunsCount, InP, Busy, Since, Counts, CountsTyped, Cur, Rotated, IsEnding, Got
<1>8. Gone(rf[k].tok) /\ Gone(Stored)
  <2>1. Gone(rf[k].tok)
    BY <1>6, <1>7 DEF IInv, Refused, Gone
  <2>2. rf[k].tok = NoToken => Stored = NoToken
    BY <1>7 DEF IInv, NoTokRun, RunTok, Busy, InP
  <2> QED
    BY <1>6, <1>7, <2>1, <2>2 DEF IInv, RunIsCur, Gone
<1>9. Dead' /\ \A l \in Epochs : InP(l)' => l = k
  <2>1. \A l \in Epochs : InP(l)' => l = k
    BY <1>2, <1>3, <1>7 DEF IInv, OneFlight, InP, Busy
  <2>2. DeadRun(k)' /\ Gone(Stored)'
    BY <1>2, <1>3, <1>7, <1>8 DEF DeadRun, Got, Gone, Stored
  <2> QED
    BY <2>1, <2>2, <1>5 DEF Dead
<1>10. /\ en[<<"fail", k>>].pc = "none" /\ <<"fail", k>>[1] = "fail" /\ <<"fail", k>>[2] = k /\
            <<"fail", k>> \in Ends
       /\ <<"fail", k>> # <<"log", k>> /\ <<"log", k>> \in Ends
       /\ \A x \in Ends : x[1] = "fail" /\ x[2] = epoch => x = <<"fail", k>>
       /\ IsEnding(epoch)'
  BY <1>7, <1>5, <1>2, SlotFacts DEF IInv, FailDead, EnAct, Since, EndsCount, IsEnding
<1>100. RsOut' /\ ReqPcs' /\ RsPcs'
  BY <1>2 DEF IInv, RsOut, RsOn, Since, Auth, ReqPcs, RsPcs
<1>101. Counts'
  BY <1>t, <1>2, <1>3, <1>5, <1>6, <1>7, <1>9, <1>4, <1>10 DEF IInv, Counts, CountsTyped, Counted, TokensTyped,
      Typed
<1>102. Unborn'
  BY <1>t, <1>2, <1>3, <1>5, <1>6, <1>7, <1>9 DEF IInv, Unborn, Busy, CountsTyped, Counted
<1>103. EndsCount'
  BY <1>t, <1>2, <1>3, <1>5, <1>6, <1>7, <1>9, <1>4, <1>10 DEF IInv, EndsCount, CountsTyped, Counted, ReqsTyped,
      Typed
<1>104. EndsWait'
  BY <1>t, <1>2, <1>3, <1>5, <1>6, <1>7, <1>9, <1>4, <1>10 DEF IInv, EndsWait, EnAct, Since, IsEnding,
      CountsTyped, Counted, ReqsTyped, Typed
<1>105. RunsCount'
  BY <1>t, <1>2, <1>3, <1>5, <1>6, <1>7, <1>9 DEF IInv, RunsCount, Busy, CountsTyped, Counted, RunsTyped, Typed
<1>106. OneFlight'
  BY <1>t, <1>2, <1>3, <1>5, <1>6, <1>7, <1>9 DEF IInv, OneFlight, InP, Busy, CountsTyped, Counted
<1>107. FlightBusy'
  BY <1>t, <1>2, <1>3, <1>5, <1>6, <1>7, <1>9 DEF IInv, FlightBusy, Busy, CountsTyped, Counted
<1>108. TokensKnown'
  BY <1>t, <1>2, <1>3, <1>5, <1>6, <1>7, <1>9 DEF IInv, TokensKnown, Known, CountsTyped, Counted, TokensTyped, Typed
<1>109. RunsKnown'
  BY <1>t, <1>2, <1>3, <1>5, <1>6, <1>7, <1>9 DEF IInv, RunsKnown, Known, CountsTyped, Counted, RunsTyped, Typed
<1>110. Fresh'
  BY <1>t, <1>2, <1>3, <1>5, <1>6, <1>7, <1>9 DEF IInv, Fresh, CountsTyped, Counted, RunsTyped, Typed, TokensTyped
<1>111. RunTok'
  BY <1>t, <1>2, <1>3, <1>5, <1>6, <1>7, <1>9 DEF IInv, RunTok, Busy, CountsTyped, Counted, RunsTyped, Typed
<1>112. GotNext'
  BY <1>t, <1>2, <1>3, <1>5, <1>6, <1>7, <1>9 DEF IInv, GotNext, Got, CountsTyped, Counted, RunsTyped, Typed
<1>113. Writers'
  BY <1>t, <1>2, <1>3, <1>5, <1>6, <1>7, <1>9 DEF IInv, Writers, Landing, Since, CountsTyped, Counted
<1>114. Above'
  BY <1>t, <1>2, <1>3, <1>5, <1>6, <1>7, <1>9 DEF IInv, Above, Busy, InP, IsEnding, CountsTyped, Counted,
      RunsTyped, Typed, TokensTyped
<1>115. Apart'
  BY <1>t, <1>2, <1>3, <1>5, <1>6, <1>7, <1>9 DEF IInv, Apart, Busy, CountsTyped, Counted, RunsTyped, Typed
<1>116. GotNewest'
  BY <1>t, <1>2, <1>3, <1>5, <1>6, <1>7, <1>9 DEF IInv, GotNewest, Got, Good, CountsTyped, Counted, RunsTyped, Typed
<1>117. AskedNewest'
  BY <1>t, <1>2, <1>3, <1>5, <1>6, <1>7, <1>9 DEF IInv, AskedNewest, Good, Since, CountsTyped, Counted,
      RunsTyped, Typed
<1>118. CurNewest'
  BY <1>t, <1>2, <1>3, <1>5, <1>6, <1>7, <1>9 DEF IInv, CurNewest, Cur, Rotated, IsEnding, Stored, Good, InP,
      Busy, Got, CountsTyped, Counted, RunsTyped, Typed, TokensTyped
<1>119. GotUnshared'
  BY <1>t, <1>2, <1>3, <1>5, <1>6, <1>7, <1>9 DEF IInv, GotUnshared, Got, GotNext, CountsTyped, Counted,
      RunsTyped, Typed, TokensTyped
<1>120. KcWritten'
  BY <1>t, <1>2, <1>3, <1>5, <1>6, <1>7, <1>9 DEF IInv, KcWritten, CountsTyped, Counted, RunsTyped, Typed,
      TokensTyped
<1>121. UnsavedOwn'
  BY <1>t, <1>2, <1>3, <1>5, <1>6, <1>7, <1>9 DEF IInv, UnsavedOwn, InP, Busy, CountsTyped, Counted, RunsTyped,
      Typed, TokensTyped
<1>122. EndNotKept'
  BY <1>t, <1>2, <1>3, <1>5, <1>6, <1>7, <1>9 DEF IInv, EndNotKept, InP, Busy, Since, IsEnding, CountsTyped, Counted
<1>123. SaveLands'
  BY <1>t, <1>2, <1>3, <1>5, <1>6, <1>7, <1>9 DEF IInv, SaveLands, InP, Busy, Good, Rotated, IsEnding,
      CountsTyped, Counted, RunsTyped, Typed, TokensTyped
<1>124. SaveOther'
  BY <1>2, <1>5 DEF IInv, SaveOther, Writers
<1>125. RunIsCur'
  BY <1>t, <1>2, <1>3, <1>5, <1>6, <1>7, <1>9 DEF IInv, RunIsCur, InP, Busy, Cur, Rotated, IsEnding, Stored,
      Good, CountsTyped, Counted, RunsTyped, Typed, TokensTyped
<1>126. MovedOff'
  BY <1>t, <1>2, <1>3, <1>5, <1>6, <1>7, <1>9 DEF IInv, MovedOff, InP, Busy, Stored, CountsTyped, Counted,
      TokensTyped, Typed
<1>127. NoTokRun'
  BY <1>t, <1>2, <1>3, <1>5, <1>6, <1>7, <1>9 DEF IInv, NoTokRun, InP, Busy, Cur, Rotated, IsEnding, Stored,
      RunTok, CountsTyped, Counted, RunsTyped, Typed, TokensTyped
<1>128. Refused'
  BY <1>t, <1>2, <1>3, <1>5, <1>6, <1>7, <1>9 DEF IInv, Refused, InP, Busy, Gone, Dead, DeadRun, Got, Stored,
      IsEnding, CountsTyped, Counted
<1>129. FailDead'
  BY <1>t, <1>2, <1>3, <1>5, <1>6, <1>7, <1>9, <1>4, <1>10 DEF IInv, FailDead, EnAct, Since, Dead, InP, Busy,
      DeadRun, Got, Gone, Stored, IsEnding, EndsCount, CountsTyped, Counted
<1>130. EndMarked'
  BY <1>10 DEF EndMarked
<1>131. EndAfter'
  BY <1>t, <1>2, <1>3, <1>5, <1>6, <1>7, <1>9, <1>4, <1>10 DEF IInv, EndAfter, EnAct, Since, Landing,
      CountsTyped, Counted
<1>132. Cleared'
  BY <1>t, <1>2, <1>3, <1>5, <1>6, <1>7, <1>9, <1>4, <1>10 DEF IInv, Cleared, EnAct, Since, Dead, InP, Busy,
      DeadRun, Got, Gone, Stored, IsEnding, CountsTyped, Counted
<1>133. ClearedNow'
  BY <1>4, <1>10, <1>7, <1>2 DEF ClearedNow, EnAct, Since
<1>134. StoredLater'
  BY <1>t, <1>2, <1>3, <1>5, <1>6, <1>7, <1>9 DEF IInv, StoredLater, Gone, Stored, Auth, IsEnding, Dead, InP,
      Busy, DeadRun, Got, CountsTyped, Counted, TokensTyped, Typed
<1>135. RunLater'
  BY <1>t, <1>2, <1>3, <1>5, <1>6, <1>7, <1>9 DEF IInv, RunLater, InP, Busy, Gone, Dead, DeadRun, Got, Stored,
      IsEnding, CountsTyped, Counted, RunsTyped, Typed
<1>136. LandLater'
  BY <1>t, <1>2, <1>3, <1>5, <1>6, <1>7, <1>9 DEF IInv, LandLater, Landing, Gone, Auth, IsEnding, Writers, Since,
      Busy, OneFlight, InP, CountsTyped, Counted, RunsTyped, Typed
<1>137. EndsInSign'
  BY <1>t, <1>2, <1>3, <1>5, <1>6, <1>7, <1>9, <1>4, <1>10 DEF IInv, EndsInSign, IsEnding, Auth, EnAct, Since,
      CountsTyped, Counted
<1>138. OldNoTok'
  BY <1>t, <1>2, <1>3, <1>5, <1>6, <1>7, <1>9 DEF IInv, OldNoTok, InP, Busy, IsEnding, CountsTyped, Counted,
      TokensTyped, Typed
<1>139. ReqOf'
  BY <1>t, <1>2, <1>3, <1>5, <1>6, <1>7, <1>9, <1>4, <1>10 DEF IInv, ReqOf, Auth, CountsTyped, Counted,
      ReqsTyped, Typed
<1>140. ReqCount'
  BY <1>t, <1>2, <1>3, <1>5, <1>6, <1>7, <1>9, <1>4, <1>10 DEF IInv, ReqCount, Act, Since, CountsTyped, Counted,
      ReqsTyped, Typed
<1>141. RestoreWaits'
  BY <1>t, <1>2, <1>3, <1>5, <1>6, <1>7, <1>9 DEF IInv, RestoreWaits, Busy, Since, CountsTyped, Counted,
      ReqsTyped, Typed
<1>142. ReqsWait'
  BY <1>t, <1>2, <1>3, <1>5, <1>6, <1>7, <1>9 DEF IInv, ReqsWait, Busy, Since, CountsTyped, Counted, ReqsTyped,
      Typed
<1>143. Begun'
  BY <1>t, <1>2, <1>3, <1>5, <1>6, <1>7, <1>9 DEF IInv, Begun, InP, Busy, Blocked, ByAny, CountsTyped, Counted,
      ReqsTyped, Typed
<1>144. PageBegun'
  BY <1>t, <1>2, <1>3, <1>5, <1>6, <1>7, <1>9 DEF IInv, PageBegun, InP, Busy, Blocked, ByAny, Auth, CountsTyped,
      Counted, ReqsTyped, Typed
<1>145. LatePage'
  BY <1>2, <1>9 DEF IInv, LatePage, Act, Since, Auth, RsOk, RsOn
<1>146. OldAlone'
  BY <1>t, <1>2, <1>3, <1>5, <1>6, <1>7, <1>9, <1>4, <1>10 DEF IInv, OldAlone, InP, Busy, Gone, Auth, IsEnding,
      Act, Since, EnAct, RsOk, RsOn, CountsTyped, Counted
<1>147. OneInUse'
  <2>1. Using' => Using
    BY <1>2, <1>9 DEF Using, Auth, RsOk, RsOn, Since
  <2>2. \A s \in Epochs : AllOf(s) => AllOf(s)'
    BY <1>2, <1>3, <1>5, <1>6, <1>7, <1>9 DEF AllOf, Of, Stored, IsEnding, Act, Since, InP
  <2> QED
    BY <1>2, <2>1, <2>2 DEF IInv, OneInUse
<1>148. AfterEnd'
  BY <1>4, <1>10, <1>7, <1>2 DEF AfterEnd, EnAct, Since
<1>149. RunPcs'
  BY <1>t, <1>2, <1>3, <1>5, <1>6, <1>7, <1>9 DEF IInv, RunPcs, CountsTyped, Counted
<1>150. EnPcs'
  BY <1>t, <1>2, <1>3, <1>5, <1>6, <1>7, <1>9, <1>4, <1>10 DEF IInv, EnPcs, CountsTyped, Counted
<1> QED
  BY <1>1, <1>100, <1>101, <1>102, <1>103, <1>104, <1>105, <1>106, <1>107, <1>108, <1>109, <1>110, <1>111,
      <1>112, <1>113, <1>114, <1>115, <1>116, <1>117, <1>118, <1>119, <1>120, <1>121, <1>122, <1>123,
      <1>124, <1>125, <1>126, <1>127, <1>128, <1>129, <1>130, <1>131, <1>132, <1>133, <1>134, <1>135,
      <1>136, <1>137, <1>138, <1>139, <1>140, <1>141, <1>142, <1>143, <1>144, <1>145, <1>146, <1>147,
      <1>148, <1>149, <1>150 DEF IInv

\* A refresh signs out when it had no token to send, or the server has ended its session.
LEMMA EndFailedKeeps ==
    ASSUME IInv, NEW k \in Epochs, EndFailed(k, k), ~Since(rf[k].e), ~IsEnding(k), rf[k].e = k,
           rf[k].pc = "recheck" \/ (rf[k].pc = "read" /\ rf[k].tok = NoToken),
           UNCHANGED <<server, asked, mem, counts, unsaved, status, leaving, kc, sign, sv, left>>
    PROVE  Kept
<1>1. IInv'
  BY EndFailedKeepsInv
<1>2. UNCHANGED <<alive, asked, mem, epoch, inPlace, writing, unsaved, status, kc, sign, req, rs>>
  BY DEF server, counts, EndFailed
<1>3. ASSUME CauseInv PROVE CauseInv' /\ Taken
  <2>1. TypeOK /\ CountsTyped /\ Counts /\ k = epoch /\ InP(k)
    BY Types DEF IInv, Since, InP, Busy, Counts
  <2>2. ending'.e = epoch /\ ending'.tok = NoToken /\ IsEnding(epoch)' /\ ~IsEnding(epoch)
    BY <1>2, <2>1 DEF EndFailed, MarkEnding, IsEnding
  <2>3. rf'[k].pc = "ends" /\ rf'[k].tok = rf[k].tok /\ \A l \in Epochs : l # k => rf'[l] = rf[l]
    BY <2>1 DEF EndFailed, TypeOK, Run
  <2>4. Cur = Stored
    BY <2>2 DEF Cur, Rotated
  <2>5. Gone(rf[k].tok) /\ (rf[k].tok = NoToken => Stored = NoToken) /\ (rf[k].tok # NoToken => Gone(Stored))
    <3>1. CASE rf[k].pc = "recheck"
      <4>1. Gone(rf[k].tok) /\ rf[k].tok # NoToken
        BY <2>1, <3>1 DEF IInv, Refused, RunTok, InP
      <4>2. Stored = NoToken \/ Stored.s = rf[k].tok.s
        BY <2>1, <2>4, <4>1 DEF IInv, RunIsCur
      <4> QED
        BY <4>1, <4>2, Held DEF Gone
    <3>2. CASE rf[k].pc = "read" /\ rf[k].tok = NoToken
      BY <2>1, <2>4, <3>2, Held DEF IInv, NoTokRun
    <3> QED
      BY <3>1, <3>2
  <2>6. Lost
    <3>1. \A l \in Epochs : InP(l) => l = k
      BY <2>1 DEF IInv, OneFlight
    <3>2. ~Got(k)
      BY DEF Got
    <3> QED
      BY <2>2, <2>5, <3>1, <3>2, Held DEF Lost
  <2>7. RunsStep
    BY <1>2, <2>3, RunsStayInPlace DEF Got
  <2>8. (Placed' <=> Placed) /\ (Auth' <=> Auth) /\ (RsOk' <=> RsOk) /\ (Mine' <=> Mine) /\ Stored' = Stored
    BY <1>2 DEF Placed, Auth, RsOk, RsOn, Since, Mine, Stored
  <2>9. AskedNew'
    <3>1. \A x \in Ends : x = <<"fail", k>> => EnAct(x)'
      BY <1>2, <2>1 DEF EndFailed, EnAct, Since, TypeOK
    <3>2. writing' = None
      BY <1>1, <3>1, SlotFacts DEF IInv, EndsWait
    <3> QED
      BY <3>2 DEF AskedNew
  <2>10. KcHasIt'
    BY <2>2 DEF KcHasIt
  <2>11. ASSUME Placed, Auth \/ RsOk PROVE Cause(mem)
    <3>1. CASE rf[k].tok = NoToken
      <4>1. kc = NoToken
        BY <3>1, <2>5 DEF Stored
      <4> QED
        BY <1>3, <2>11, <4>1 DEF CauseInv, MemForCause
    <3>2. CASE rf[k].tok # NoToken
      <4>1. PICK s \in Epochs : AllOf(s)
        BY <2>11 DEF IInv, OneInUse, Using, Placed
      <4>2. rf[k].tok.s = s \/ rf[k].tok.s = None
        BY <2>1, <4>1 DEF AllOf, Of
      <4>3. rf[k].tok.s # None
        BY <3>2, <2>1, Types DEF RunsTyped, Typed
      <4> QED
        BY <2>5, <4>1, <4>2, <4>3, Held DEF AllOf, Of, Gone, Cause
    <3> QED
      BY <3>1, <3>2
  <2>12. Taken
    BY <1>2, <2>8 DEF Taken
  <2>13. (ForCause => Cause(Stored)) /\ Stored.s # epoch + 1 /\ Gone(Stored) /\ Cause(NoToken)
    BY <2>6, Held DEF ForCause, Lost
  <2>14. epoch' = epoch /\ asked \subseteq asked' /\ alive' \subseteq alive /\ mem' = mem /\ kc' = kc
    BY <1>2
  <2> QED
    BY <1>3, <2>2, <2>6, <2>7, <2>8, <2>9, <2>10, <2>11, <2>12, <2>13, <2>14, StepKeepsCause
<1> QED
  BY <1>1, <1>3 DEF Kept

(* ---- Refreshes: read, refused, answered ------------------------------- *)

\* A refresh sends the token it read.
LEMMA AskKeepsInv ==
    ASSUME IInv, NEW k \in Epochs, rf[k].pc = "read", ~Since(rf[k].e), rf[k].tok # NoToken,
           RunMoves(k, "asked", rf[k].e, rf[k].got, rf[k].res),
           UNCHANGED <<server, asked, mem, counts, unsaved, status, leaving, kc, sign, sv, left, en, ending,
             inFlight, req, rs>>
    PROVE  IInv'
<1>0. TypeOK
  BY DEF IInv
<1>1. TypeOK'
  BY <1>0 DEF TypeOK, server, counts, RunMoves
<1>2. UNCHANGED <<alive, gen, excused, dropped, mem, epoch, inPlace, writing, ending, status, leaving, kc, sign,
        en, sv, inFlight, req, rs, unsaved>>
  BY DEF counts, server
<1>3. /\ rf'[k].pc = "asked" /\ rf'[k].tok = rf[k].tok /\ rf'[k].got = rf[k].got /\ rf'[k].e = rf[k].e
      /\ \A l \in Epochs : l # k => rf'[l] = rf[l]
  BY DEF RunMoves
<1>t. /\ CountsTyped /\ TokensTyped /\ RunsTyped /\ ReqsTyped
      /\ CountsTyped' /\ TokensTyped' /\ RunsTyped' /\ ReqsTyped'
  BY <1>1, Types DEF IInv
<1>100. Counts' /\ EndsCount' /\ EndsWait' /\ TokensKnown' /\ SaveOther'
  BY <1>2 DEF IInv, Counts, EndsCount, EndsWait, EnAct, Since, IsEnding, TokensKnown, Known, SaveOther
<1>101. ClearedNow' /\ RsOut' /\ StoredLater' /\ EndsInSign' /\ ReqPcs'
  BY <1>2 DEF IInv, ClearedNow, EnAct, Since, IsEnding, RsOut, RsOn, Auth, StoredLater, Gone, Stored, EndsInSign,
      ReqPcs
<1>102. ReqOf' /\ ReqCount' /\ EnPcs' /\ RsPcs'
  BY <1>2 DEF IInv, ReqOf, Auth, ReqCount, Act, Since, EnPcs, RsPcs
<1>103. Unborn'
  BY <1>t, <1>2, <1>3 DEF IInv, Unborn, Busy, CountsTyped, Counted
<1>104. RunsCount'
  BY <1>t, <1>2, <1>3 DEF IInv, RunsCount, Busy, CountsTyped, Counted, RunsTyped, Typed
<1>105. OneFlight'
  BY <1>t, <1>2, <1>3 DEF IInv, OneFlight, InP, Busy, CountsTyped, Counted
<1>106. FlightBusy'
  BY <1>t, <1>2, <1>3 DEF IInv, FlightBusy, Busy, CountsTyped, Counted
<1>107. RunsKnown'
  BY <1>t, <1>2, <1>3 DEF IInv, RunsKnown, Known, CountsTyped, Counted, RunsTyped, Typed
<1>108. Fresh'
  BY <1>t, <1>2, <1>3 DEF IInv, Fresh, CountsTyped, Counted, RunsTyped, Typed, TokensTyped
<1>109. RunTok'
  BY <1>t, <1>2, <1>3 DEF IInv, RunTok, Busy, CountsTyped, Counted, RunsTyped, Typed
<1>110. GotNext'
  BY <1>t, <1>2, <1>3 DEF IInv, GotNext, Got, CountsTyped, Counted, RunsTyped, Typed
<1>111. Writers'
  BY <1>t, <1>2, <1>3 DEF IInv, Writers, Landing, Since, CountsTyped, Counted
<1>112. Above'
  BY <1>t, <1>2, <1>3 DEF IInv, Above, Busy, InP, IsEnding, CountsTyped, Counted, RunsTyped, Typed, TokensTyped
<1>113. Apart'
  BY <1>t, <1>2, <1>3 DEF IInv, Apart, Busy, CountsTyped, Counted, RunsTyped, Typed
<1>114. GotNewest'
  BY <1>t, <1>2, <1>3 DEF IInv, GotNewest, Got, Good, CountsTyped, Counted, RunsTyped, Typed
<1>115. AskedNewest'
  BY <1>t, <1>2, <1>3 DEF IInv, AskedNewest, Good, Since, CountsTyped, Counted, RunsTyped, Typed
<1>116. CurNewest'
  BY <1>t, <1>2, <1>3 DEF IInv, CurNewest, Cur, Rotated, IsEnding, Stored, Good, InP, Busy, Got, CountsTyped,
      Counted, RunsTyped, Typed, TokensTyped
<1>117. GotUnshared'
  BY <1>t, <1>2, <1>3 DEF IInv, GotUnshared, Got, CountsTyped, Counted, RunsTyped, Typed, TokensTyped
<1>118. KcWritten'
  BY <1>t, <1>2, <1>3 DEF IInv, KcWritten, CountsTyped, Counted, RunsTyped, Typed, TokensTyped
<1>119. UnsavedOwn'
  BY <1>t, <1>2, <1>3 DEF IInv, UnsavedOwn, InP, Busy, CountsTyped, Counted, RunsTyped, Typed, TokensTyped
<1>120. EndNotKept'
  BY <1>t, <1>2, <1>3 DEF IInv, EndNotKept, InP, Busy, Since, IsEnding, CountsTyped, Counted
<1>121. SaveLands'
  BY <1>t, <1>2, <1>3 DEF IInv, SaveLands, InP, Busy, Good, Rotated, IsEnding, CountsTyped, Counted, RunsTyped,
      Typed, TokensTyped
<1>122. RunIsCur'
  BY <1>t, <1>2, <1>3 DEF IInv, RunIsCur, InP, Busy, Cur, Rotated, IsEnding, Stored, Good, CountsTyped, Counted,
      RunsTyped, Typed, TokensTyped
<1>123. MovedOff'
  BY <1>t, <1>2, <1>3 DEF IInv, MovedOff, InP, Busy, Stored, CountsTyped, Counted, TokensTyped, Typed
<1>124. NoTokRun'
  BY <1>t, <1>2, <1>3 DEF IInv, NoTokRun, InP, Busy, Cur, Rotated, IsEnding, Stored, CountsTyped, Counted,
      RunsTyped, Typed, TokensTyped
<1>125. Refused'
  BY <1>t, <1>2, <1>3 DEF IInv, Refused, InP, Busy, Gone, CountsTyped, Counted
<1>126. FailDead'
  BY <1>t, <1>2, <1>3 DEF IInv, FailDead, EnAct, Since, Dead, InP, Busy, DeadRun, Got, Gone, Stored, IsEnding,
      RunsCount, CountsTyped, Counted
<1>127. EndMarked'
  BY <1>t, <1>2, <1>3 DEF IInv, EndMarked, EnAct, Since, IsEnding, Dead, InP, Busy, DeadRun, Got, Gone, Stored,
      CountsTyped, Counted
<1>128. EndAfter'
  BY <1>t, <1>2, <1>3 DEF IInv, EndAfter, EnAct, Since, Landing, CountsTyped, Counted
<1>129. Cleared'
  BY <1>t, <1>2, <1>3 DEF IInv, Cleared, EnAct, Since, Dead, InP, Busy, DeadRun, Got, Gone, Stored, IsEnding,
      CountsTyped, Counted
<1>130. RunLater'
  BY <1>t, <1>2, <1>3 DEF IInv, RunLater, InP, Busy, Gone, CountsTyped, Counted, RunsTyped, Typed
<1>131. LandLater'
  BY <1>t, <1>2, <1>3 DEF IInv, LandLater, Landing, Gone, Auth, IsEnding, CountsTyped, Counted, RunsTyped, Typed
<1>132. OldNoTok'
  BY <1>t, <1>2, <1>3 DEF IInv, OldNoTok, InP, Busy, IsEnding, CountsTyped, Counted, TokensTyped, Typed
<1>133. RestoreWaits'
  BY <1>t, <1>2, <1>3 DEF IInv, RestoreWaits, Busy, Since, CountsTyped, Counted, ReqsTyped, Typed
<1>134. ReqsWait'
  BY <1>t, <1>2, <1>3 DEF IInv, ReqsWait, Busy, Since, CountsTyped, Counted, ReqsTyped, Typed
<1>135. Begun'
  BY <1>t, <1>2, <1>3 DEF IInv, Begun, InP, Busy, Blocked, ByAny, CountsTyped, Counted, ReqsTyped, Typed
<1>136. PageBegun'
  BY <1>t, <1>2, <1>3 DEF IInv, PageBegun, InP, Busy, Blocked, ByAny, Auth, CountsTyped, Counted, ReqsTyped, Typed
<1>137. LatePage'
  BY <1>t, <1>2, <1>3 DEF IInv, LatePage, Act, Since, Auth, RsOk, RsOn, LateEnded, IsEnding, EnAct, Stored, Dead,
      InP, Busy, DeadRun, Got, Gone, CountsTyped, Counted, ReqsTyped, Typed
<1>138. OldAlone'
  BY <1>t, <1>2, <1>3 DEF IInv, OldAlone, InP, Busy, Gone, Auth, IsEnding, Act, Since, EnAct, RsOk, RsOn,
      CountsTyped, Counted
<1>139. OneInUse'
  <2>1. Using' => Using
    BY <1>t, <1>2, <1>3 DEF IInv, Using, Auth, RsOk, RsOn, Since, IsEnding, Dead, InP, Busy, DeadRun, Got, Gone,
        Stored
  <2>2. \A s \in Epochs : AllOf(s) => AllOf(s)'
    BY <1>t, <1>2, <1>3 DEF IInv, AllOf, Of, Stored, IsEnding, Act, Since, InP, Busy, ReqsTyped, Typed, Counted
  <2> QED
    BY <2>1, <2>2, <1>2, <1>3 DEF IInv, OneInUse
<1>140. AfterEnd'
  BY <1>t, <1>2, <1>3 DEF IInv, AfterEnd, IsEnding, EnAct, Since, Auth, Landing, CountsTyped, Counted,
      TokensTyped, Typed
<1>141. RunPcs'
  BY <1>t, <1>2, <1>3 DEF IInv, RunPcs, CountsTyped, Counted
<1> QED
  BY <1>1, <1>100, <1>101, <1>102, <1>103, <1>104, <1>105, <1>106, <1>107, <1>108, <1>109, <1>110, <1>111,
      <1>112, <1>113, <1>114, <1>115, <1>116, <1>117, <1>118, <1>119, <1>120, <1>121, <1>122, <1>123,
      <1>124, <1>125, <1>126, <1>127, <1>128, <1>129, <1>130, <1>131, <1>132, <1>133, <1>134, <1>135,
      <1>136, <1>137, <1>138, <1>139, <1>140, <1>141 DEF IInv

\* Sending the token changes nothing that the phone has.
LEMMA AskKeeps ==
    ASSUME IInv, NEW k \in Epochs, rf[k].pc = "read", ~Since(rf[k].e), rf[k].tok # NoToken,
           RunMoves(k, "asked", rf[k].e, rf[k].got, rf[k].res),
           UNCHANGED <<server, asked, mem, counts, unsaved, status, leaving, kc, sign, sv, left, en, ending,
             inFlight, req, rs>>
    PROVE  Kept
<1>1. IInv'
  BY AskKeepsInv
<1>2. UNCHANGED <<alive, asked, mem, epoch, inPlace, writing, ending, unsaved, status, kc, sign, en, req, rs>>
  BY DEF server, counts
<1>3. CauseInv => CauseInv' /\ Taken
  BY <1>2, GoesOnForCause DEF RunMoves, Got, Pcs
<1> QED
  BY <1>1, <1>3 DEF Kept

\* A refresh hears what the keychain has.
LEMMA RefreshReadKeeps ==
    ASSUME IInv, NEW k \in Epochs, RefreshRead(k)
    PROVE  Kept
<1>1. /\ rf[k].pc \in {"read", "unread"} /\ rf[k].e = k /\ k <= epoch /\ dropped \in SUBSET Epochs /\ left \in Nat
      /\ CountsTyped /\ ~Got(k) /\ TypeOK
  BY Types DEF IInv, RefreshRead, RunsCount, Busy, TypeOK, Got
<1>2. UNCHANGED <<server, asked, mem, counts, unsaved, status, leaving, kc, sign, sv, left>>
  BY DEF RefreshRead
<1>3. ASSUME NEW res \in {"ok", "failed", "refused"}, Finish(k, res, NoToken), UNCHANGED <<en, ending>>,
             res = "ok" => Since(rf[k].e)
      PROVE  Kept
  <2>1. res = "ok" => k < epoch
    BY <1>1, <1>3 DEF Since, CountsTyped
  <2> QED
    BY <1>1, <1>2, <1>3, <2>1, FinishKeeps DEF server
<1>4. CASE rf[k].pc = "unread"
  BY <1>3, <1>4 DEF RefreshRead
<1>5. CASE rf[k].pc = "read" /\ Since(rf[k].e)
  BY <1>3, <1>5 DEF RefreshRead
<1>6. CASE rf[k].pc = "read" /\ ~Since(rf[k].e) /\ rf[k].tok # NoToken
  <2>1. rf' = [rf EXCEPT ![k] = [rf[k] EXCEPT !.pc = "asked"]] /\ UNCHANGED <<en, ending, inFlight, req, rs>>
    BY <1>6 DEF RefreshRead
  <2>2. RunMoves(k, "asked", rf[k].e, rf[k].got, rf[k].res)
    BY <1>1, <2>1, RunFields, RunMovesEffect DEF Pcs
  <2> QED
    BY <1>2, <1>6, <2>1, <2>2, AskKeeps
<1>7. CASE rf[k].pc = "read" /\ ~Since(rf[k].e) /\ rf[k].tok = NoToken /\ ~IsEnding(rf[k].e)
  <2>1. EndFailed(k, k)
    BY <1>1, <1>7 DEF RefreshRead
  <2> QED
    BY <1>1, <1>2, <1>7, <2>1, EndFailedKeeps
<1>8. CASE rf[k].pc = "read" /\ ~Since(rf[k].e) /\ rf[k].tok = NoToken /\ IsEnding(rf[k].e)
  BY <1>3, <1>8 DEF RefreshRead
<1> QED
  BY <1>1, <1>4, <1>5, <1>6, <1>7, <1>8

\* A refresh that reached no server changes nothing.
LEMMA RefreshUnreachableKeeps ==
    ASSUME IInv, NEW k \in Epochs, RefreshUnreachable(k)
    PROVE  Kept
<1>1. dropped \in SUBSET Epochs /\ left \in Nat
  BY DEF IInv, TypeOK
<1> QED
  BY <1>1, FinishKeeps DEF RefreshUnreachable, server, Got

\* A refused refresh signs out, or ends.
LEMMA RefreshRefusedKeeps ==
    ASSUME IInv, NEW k \in Epochs, RefreshRefused(k)
    PROVE  Kept
<1>1. rf[k].pc = "recheck" /\ rf[k].e = k /\ dropped \in SUBSET Epochs /\ left \in Nat /\ ~Got(k)
  BY DEF IInv, RefreshRefused, RunsCount, Busy, TypeOK, Got
<1>2. UNCHANGED <<server, asked, mem, counts, unsaved, status, leaving, kc, sign, sv, left>>
  BY DEF RefreshRefused
<1>3. CASE rf[k].got = rf[k].tok /\ ~Since(rf[k].e) /\ ~IsEnding(rf[k].e)
  <2>1. EndFailed(k, k)
    BY <1>1, <1>3 DEF RefreshRefused
  <2> QED
    BY <1>1, <1>2, <1>3, <2>1, EndFailedKeeps
<1>4. CASE ~(rf[k].got = rf[k].tok /\ ~Since(rf[k].e) /\ ~IsEnding(rf[k].e))
  <2>1. Finish(k, "refused", NoToken) /\ UNCHANGED <<en, ending>>
    BY <1>4 DEF RefreshRefused
  <2> QED
    BY <1>1, <1>2, <2>1, FinishKeeps DEF server
<1> QED
  BY <1>3, <1>4

\* A refresh that signed out is over when its log out is.
LEMMA RefreshEndedKeeps ==
    ASSUME IInv, NEW k \in Epochs, RefreshEnded(k)
    PROVE  Kept
<1>1. rf[k].pc = "ends" /\ rf[k].e = k /\ dropped \in SUBSET Epochs /\ left \in Nat /\ ~Got(k)
  BY DEF IInv, RefreshEnded, RunsCount, Busy, TypeOK, Got
<1>2. PICK res \in {"refused", "failed"} : Finish(k, res, NoToken)
  BY DEF RefreshEnded
<1> QED
  BY <1>1, <1>2, FinishKeeps DEF RefreshEnded, server

\* A refused refresh looks at the store once more.
LEMMA RecheckKeepsInv ==
    ASSUME IInv, NEW k \in Epochs, NEW got \in Token, got = Stored \/ got = rf[k].tok,
           rf[k].pc = "answered", rf[k].res = "refused", ~Since(rf[k].e),
           RunMoves(k, "recheck", rf[k].e, got, rf[k].res), left' \in Nat,
           UNCHANGED <<server, asked, mem, counts, unsaved, status, leaving, kc, sign, sv, en, ending, inFlight,
             req, rs>>
    PROVE  IInv'
<1>0. TypeOK
  BY DEF IInv
<1>1. TypeOK'
  BY <1>0 DEF TypeOK, server, counts, RunMoves
<1>2. UNCHANGED <<alive, gen, excused, dropped, mem, epoch, inPlace, writing, ending, status, leaving, kc, sign,
        en, sv, inFlight, req, rs, unsaved>>
  BY DEF counts, server
<1>3. /\ rf'[k].pc = "recheck" /\ rf'[k].tok = rf[k].tok /\ rf'[k].got = got /\ rf'[k].e = rf[k].e
      /\ \A l \in Epochs : l # k => rf'[l] = rf[l]
  BY DEF RunMoves
<1>t. /\ CountsTyped /\ TokensTyped /\ RunsTyped /\ ReqsTyped
      /\ CountsTyped' /\ TokensTyped' /\ RunsTyped' /\ ReqsTyped'
  BY <1>1, Types DEF IInv
<1>100. Counts' /\ EndsCount' /\ EndsWait' /\ TokensKnown' /\ SaveOther'
  BY <1>2 DEF IInv, Counts, EndsCount, EndsWait, EnAct, Since, IsEnding, TokensKnown, Known, SaveOther
<1>101. ClearedNow' /\ RsOut' /\ StoredLater' /\ EndsInSign' /\ ReqPcs'
  BY <1>2 DEF IInv, ClearedNow, EnAct, Since, IsEnding, RsOut, RsOn, Auth, StoredLater, Gone, Stored, EndsInSign,
      ReqPcs
<1>102. ReqOf' /\ ReqCount' /\ EnPcs' /\ RsPcs'
  BY <1>2 DEF IInv, ReqOf, Auth, ReqCount, Act, Since, EnPcs, RsPcs
<1>103. Unborn'
  BY <1>t, <1>2, <1>3 DEF IInv, Unborn, Busy, CountsTyped, Counted
<1>104. RunsCount'
  BY <1>t, <1>2, <1>3 DEF IInv, RunsCount, Busy, CountsTyped, Counted, RunsTyped, Typed
<1>105. OneFlight'
  BY <1>t, <1>2, <1>3 DEF IInv, OneFlight, InP, Busy, CountsTyped, Counted
<1>106. FlightBusy'
  BY <1>t, <1>2, <1>3 DEF IInv, FlightBusy, Busy, CountsTyped, Counted
<1>107. RunsKnown'
  BY <1>t, <1>2, <1>3 DEF IInv, RunsKnown, Known, TokensKnown, Stored, CountsTyped, Counted, RunsTyped, Typed
<1>108. Fresh'
  BY <1>t, <1>2, <1>3 DEF IInv, Fresh, RunsCount, Busy, Since, CountsTyped, Counted, RunsTyped, Typed, TokensTyped
<1>109. RunTok'
  BY <1>t, <1>2, <1>3 DEF IInv, RunTok, Busy, CountsTyped, Counted, RunsTyped, Typed
<1>110. GotNext'
  BY <1>t, <1>2, <1>3 DEF IInv, GotNext, Got, CountsTyped, Counted, RunsTyped, Typed
<1>111. Writers'
  BY <1>t, <1>2, <1>3 DEF IInv, Writers, Landing, Since, CountsTyped, Counted
<1>112. Above'
  BY <1>t, <1>2, <1>3 DEF IInv, Above, Busy, InP, IsEnding, CountsTyped, Counted, RunsTyped, Typed, TokensTyped
<1>113. Apart'
  BY <1>t, <1>2, <1>3 DEF IInv, Apart, Busy, CountsTyped, Counted, RunsTyped, Typed
<1>114. GotNewest'
  BY <1>t, <1>2, <1>3 DEF IInv, GotNewest, Got, Good, CountsTyped, Counted, RunsTyped, Typed
<1>115. AskedNewest'
  BY <1>t, <1>2, <1>3 DEF IInv, AskedNewest, Good, Since, CountsTyped, Counted, RunsTyped, Typed
<1>116. CurNewest'
  BY <1>t, <1>2, <1>3 DEF IInv, CurNewest, Cur, Rotated, IsEnding, Stored, Good, InP, Busy, Got, CountsTyped,
      Counted, RunsTyped, Typed, TokensTyped
<1>117. GotUnshared'
  BY <1>t, <1>2, <1>3 DEF IInv, GotUnshared, Got, CountsTyped, Counted, RunsTyped, Typed, TokensTyped
<1>118. KcWritten'
  BY <1>t, <1>2, <1>3 DEF IInv, KcWritten, CountsTyped, Counted, RunsTyped, Typed, TokensTyped
<1>119. UnsavedOwn'
  BY <1>t, <1>2, <1>3 DEF IInv, UnsavedOwn, InP, Busy, CountsTyped, Counted, RunsTyped, Typed, TokensTyped
<1>120. EndNotKept'
  BY <1>t, <1>2, <1>3 DEF IInv, EndNotKept, InP, Busy, Since, IsEnding, CountsTyped, Counted
<1>121. SaveLands'
  BY <1>t, <1>2, <1>3 DEF IInv, SaveLands, InP, Busy, Good, Rotated, IsEnding, CountsTyped, Counted, RunsTyped,
      Typed, TokensTyped
<1>122. RunIsCur'
  BY <1>t, <1>2, <1>3 DEF IInv, RunIsCur, InP, Busy, Cur, Rotated, IsEnding, Stored, Good, CountsTyped, Counted,
      RunsTyped, Typed, TokensTyped
<1>123. MovedOff'
  BY <1>t, <1>2, <1>3 DEF IInv, MovedOff, InP, Busy, Stored, CountsTyped, Counted, TokensTyped, Typed
<1>124. NoTokRun'
  BY <1>t, <1>2, <1>3 DEF IInv, NoTokRun, InP, Busy, Cur, Rotated, IsEnding, Stored, CountsTyped, Counted,
      RunsTyped, Typed, TokensTyped
<1>125. Refused'
  BY <1>t, <1>2, <1>3 DEF IInv, Refused, InP, Busy, Gone, CountsTyped, Counted
<1>126. FailDead'
  BY <1>t, <1>2, <1>3 DEF IInv, FailDead, EnAct, Since, Dead, InP, Busy, DeadRun, Got, Gone, Stored, IsEnding,
      RunsCount, CountsTyped, Counted
<1>127. EndMarked'
  BY <1>t, <1>2, <1>3 DEF IInv, EndMarked, EnAct, Since, IsEnding, Dead, InP, Busy, DeadRun, Got, Gone, Stored,
      CountsTyped, Counted
<1>128. EndAfter'
  BY <1>t, <1>2, <1>3 DEF IInv, EndAfter, EnAct, Since, Landing, CountsTyped, Counted
<1>129. Cleared'
  BY <1>t, <1>2, <1>3 DEF IInv, Cleared, EnAct, Since, Dead, InP, Busy, DeadRun, Got, Gone, Stored, IsEnding,
      CountsTyped, Counted
<1>130. RunLater'
  BY <1>t, <1>2, <1>3 DEF IInv, RunLater, InP, Busy, Gone, CountsTyped, Counted, RunsTyped, Typed
<1>131. LandLater'
  BY <1>t, <1>2, <1>3 DEF IInv, LandLater, Landing, Gone, Auth, IsEnding, CountsTyped, Counted, RunsTyped, Typed
<1>132. OldNoTok'
  BY <1>t, <1>2, <1>3 DEF IInv, OldNoTok, InP, Busy, IsEnding, CountsTyped, Counted, TokensTyped, Typed
<1>133. RestoreWaits'
  BY <1>t, <1>2, <1>3 DEF IInv, RestoreWaits, Busy, Since, CountsTyped, Counted, ReqsTyped, Typed
<1>134. ReqsWait'
  BY <1>t, <1>2, <1>3 DEF IInv, ReqsWait, Busy, Since, CountsTyped, Counted, ReqsTyped, Typed
<1>135. Begun'
  BY <1>t, <1>2, <1>3 DEF IInv, Begun, InP, Busy, Blocked, ByAny, CountsTyped, Counted, ReqsTyped, Typed
<1>136. PageBegun'
  BY <1>t, <1>2, <1>3 DEF IInv, PageBegun, InP, Busy, Blocked, ByAny, Auth, CountsTyped, Counted, ReqsTyped, Typed
<1>137. LatePage'
  BY <1>t, <1>2, <1>3 DEF IInv, LatePage, Act, Since, Auth, RsOk, RsOn, LateEnded, IsEnding, EnAct, Stored, Dead,
      InP, Busy, DeadRun, Got, Gone, CountsTyped, Counted, ReqsTyped, Typed
<1>138. OldAlone'
  BY <1>t, <1>2, <1>3 DEF IInv, OldAlone, InP, Busy, Gone, Auth, IsEnding, Act, Since, EnAct, RsOk, RsOn,
      CountsTyped, Counted
<1>139. OneInUse'
  <2>1. Using' => Using
    BY <1>t, <1>2, <1>3 DEF IInv, Using, Auth, RsOk, RsOn, Since, IsEnding, Dead, InP, Busy, DeadRun, Got, Gone,
        Stored
  <2>2. \A s \in Epochs : AllOf(s) => AllOf(s)'
    BY <1>t, <1>2, <1>3 DEF IInv, AllOf, Of, Stored, IsEnding, Act, Since, InP, Busy, ReqsTyped, Typed, Counted
  <2> QED
    BY <2>1, <2>2, <1>2, <1>3 DEF IInv, OneInUse
<1>140. AfterEnd'
  BY <1>t, <1>2, <1>3 DEF IInv, AfterEnd, IsEnding, EnAct, Since, Auth, Landing, CountsTyped, Counted,
      TokensTyped, Typed
<1>141. RunPcs'
  BY <1>t, <1>2, <1>3 DEF IInv, RunPcs, CountsTyped, Counted
<1> QED
  BY <1>1, <1>100, <1>101, <1>102, <1>103, <1>104, <1>105, <1>106, <1>107, <1>108, <1>109, <1>110, <1>111,
      <1>112, <1>113, <1>114, <1>115, <1>116, <1>117, <1>118, <1>119, <1>120, <1>121, <1>122, <1>123,
      <1>124, <1>125, <1>126, <1>127, <1>128, <1>129, <1>130, <1>131, <1>132, <1>133, <1>134, <1>135,
      <1>136, <1>137, <1>138, <1>139, <1>140, <1>141 DEF IInv

\* A refused refresh only looks.
LEMMA RecheckKeeps ==
    ASSUME IInv, NEW k \in Epochs, NEW got \in Token, got = Stored \/ got = rf[k].tok,
           rf[k].pc = "answered", rf[k].res = "refused", ~Since(rf[k].e),
           RunMoves(k, "recheck", rf[k].e, got, rf[k].res), left' \in Nat,
           UNCHANGED <<server, asked, mem, counts, unsaved, status, leaving, kc, sign, sv, en, ending, inFlight,
             req, rs>>
    PROVE  Kept
<1>1. IInv'
  BY RecheckKeepsInv
<1>2. UNCHANGED <<alive, asked, mem, epoch, inPlace, writing, ending, unsaved, status, kc, sign, en, req, rs>>
  BY DEF server, counts
<1>3. CauseInv => CauseInv' /\ Taken
  BY <1>2, GoesOnForCause DEF RunMoves, Got, Pcs
<1> QED
  BY <1>1, <1>3 DEF Kept

\* An answered refresh looks whether its token is still the stored one.
LEMMA LookKeepsInv ==
    ASSUME IInv, NEW k \in Epochs, NEW pc \in {"current", "moved"}, InP(k), writing = None, ~IsEnding(epoch),
           rf[k].pc = "answered", rf[k].res = "ok", ~IsEnding(rf[k].e),
           pc = "moved" => Stored # rf[k].tok,
           pc = "current" => unsaved = NoToken \/ Stored = rf[k].tok,
           RunMoves(k, pc, epoch, rf[k].got, rf[k].res), left' \in Nat,
           UNCHANGED <<server, asked, mem, counts, unsaved, status, leaving, kc, sign, sv, en, ending, inFlight,
             req, rs>>
    PROVE  IInv'
<1>0. TypeOK
  BY DEF IInv
<1>1. TypeOK'
  BY <1>0 DEF TypeOK, server, counts, RunMoves
<1>2. UNCHANGED <<alive, gen, excused, dropped, mem, epoch, inPlace, writing, ending, status, leaving, kc, sign,
        en, sv, inFlight, req, rs, unsaved>>
  BY DEF counts, server
<1>3. /\ rf'[k].pc = pc /\ rf'[k].tok = rf[k].tok /\ rf'[k].got = rf[k].got /\ rf'[k].e = epoch
      /\ \A l \in Epochs : l # k => rf'[l] = rf[l]
  BY DEF RunMoves
<1>t. /\ CountsTyped /\ TokensTyped /\ RunsTyped /\ ReqsTyped
      /\ CountsTyped' /\ TokensTyped' /\ RunsTyped' /\ ReqsTyped'
  BY <1>1, Types DEF IInv
<1>4. /\ Got(k) /\ Got(k)' /\ ~Dead /\ ~Dead' /\ rf[k].tok # NoToken /\ Cur = Stored
      /\ \A l \in Epochs : InP(l) <=> InP(l)'
      /\ \A l \in Epochs : InP(l) => l = k
  <2>1. Got(k) /\ Got(k)' /\ rf[k].tok # NoToken
    BY <1>3 DEF IInv, Got, RunTok, Busy
  <2>2. \A l \in Epochs : InP(l) <=> InP(l)'
    BY <1>2, <1>3 DEF InP, Busy
  <2>3. ~Dead /\ ~Dead'
    BY <2>1, <2>2 DEF Dead, DeadRun
  <2> QED
    BY <2>1, <2>2, <2>3 DEF IInv, OneFlight, Cur, Rotated
<1>100. Counts' /\ EndsCount' /\ EndsWait' /\ TokensKnown' /\ SaveOther'
  BY <1>2 DEF IInv, Counts, EndsCount, EndsWait, EnAct, Since, IsEnding, TokensKnown, Known, SaveOther
<1>101. ClearedNow' /\ RsOut' /\ StoredLater' /\ EndsInSign' /\ ReqPcs'
  BY <1>2 DEF IInv, ClearedNow, EnAct, Since, IsEnding, RsOut, RsOn, Auth, StoredLater, Gone, Stored, EndsInSign,
      ReqPcs
<1>102. ReqOf' /\ ReqCount' /\ EnPcs' /\ RsPcs'
  BY <1>2 DEF IInv, ReqOf, Auth, ReqCount, Act, Since, EnPcs, RsPcs
<1>103. Unborn'
  BY <1>t, <1>2, <1>3, <1>4 DEF IInv, Unborn, Busy, CountsTyped, Counted
<1>104. RunsCount'
  BY <1>t, <1>2, <1>3, <1>4 DEF IInv, RunsCount, Busy, InP, CountsTyped, Counted, RunsTyped, Typed
<1>105. OneFlight'
  BY <1>t, <1>2, <1>3, <1>4 DEF IInv, OneFlight, InP, Busy, CountsTyped, Counted
<1>106. FlightBusy'
  BY <1>t, <1>2, <1>3, <1>4 DEF IInv, FlightBusy, Busy, CountsTyped, Counted
<1>107. RunsKnown'
  BY <1>t, <1>2, <1>3, <1>4 DEF IInv, RunsKnown, Known, CountsTyped, Counted, RunsTyped, Typed
<1>108. Fresh'
  BY <1>t, <1>2, <1>3, <1>4 DEF IInv, Fresh, CountsTyped, Counted, RunsTyped, Typed, TokensTyped
<1>109. RunTok'
  BY <1>t, <1>2, <1>3, <1>4 DEF IInv, RunTok, Busy, CountsTyped, Counted, RunsTyped, Typed
<1>110. GotNext'
  BY <1>t, <1>2, <1>3, <1>4 DEF IInv, GotNext, Got, CountsTyped, Counted, RunsTyped, Typed
<1>111. Writers'
  BY <1>t, <1>2, <1>3, <1>4 DEF IInv, Writers, Landing, Since, CountsTyped, Counted
<1>112. Above'
  BY <1>t, <1>2, <1>3, <1>4 DEF IInv, Above, Busy, InP, IsEnding, CountsTyped, Counted, RunsTyped, Typed,
      TokensTyped
<1>113. Apart'
  BY <1>t, <1>2, <1>3, <1>4 DEF IInv, Apart, Busy, CountsTyped, Counted, RunsTyped, Typed
<1>114. GotNewest'
  BY <1>t, <1>2, <1>3, <1>4 DEF IInv, GotNewest, Got, Good, CountsTyped, Counted, RunsTyped, Typed
<1>115. AskedNewest'
  BY <1>t, <1>2, <1>3, <1>4 DEF IInv, AskedNewest, Good, Since, CountsTyped, Counted, RunsTyped, Typed
<1>116. CurNewest'
  BY <1>t, <1>2, <1>3, <1>4 DEF IInv, CurNewest, Cur, Rotated, IsEnding, Stored, Good, InP, Busy, Got, RunIsCur,
      Auth, CountsTyped, Counted, RunsTyped, Typed, TokensTyped
<1>117. GotUnshared'
  BY <1>t, <1>2, <1>3, <1>4 DEF IInv, GotUnshared, Got, CountsTyped, Counted, RunsTyped, Typed, TokensTyped
<1>118. KcWritten'
  BY <1>t, <1>2, <1>3, <1>4 DEF IInv, KcWritten, CountsTyped, Counted, RunsTyped, Typed, TokensTyped
<1>119. UnsavedOwn'
  BY <1>t, <1>2, <1>3, <1>4 DEF IInv, UnsavedOwn, InP, Busy, Stored, CountsTyped, Counted, RunsTyped, Typed,
      TokensTyped
<1>120. EndNotKept'
  BY <1>t, <1>2, <1>3, <1>4 DEF IInv, EndNotKept, InP, Busy, Since, IsEnding, CountsTyped, Counted
<1>121. SaveLands'
  BY <1>t, <1>2, <1>3, <1>4 DEF IInv, SaveLands, InP, Busy, Good, Rotated, IsEnding, CountsTyped, Counted,
      RunsTyped, Typed, TokensTyped
<1>122. RunIsCur'
  BY <1>t, <1>2, <1>3, <1>4 DEF IInv, RunIsCur, InP, Busy, Cur, Rotated, IsEnding, Stored, Good, CountsTyped,
      Counted, RunsTyped, Typed, TokensTyped
<1>123. MovedOff'
  BY <1>t, <1>2, <1>3, <1>4 DEF IInv, MovedOff, InP, Busy, Stored, RunIsCur, Cur, Rotated, IsEnding, Good,
      CountsTyped, Counted, TokensTyped, Typed
<1>124. NoTokRun'
  BY <1>t, <1>2, <1>3, <1>4 DEF IInv, NoTokRun, InP, Busy, Cur, Rotated, IsEnding, Stored, CountsTyped, Counted,
      RunsTyped, Typed, TokensTyped
<1>125. Refused'
  BY <1>t, <1>2, <1>3, <1>4 DEF IInv, Refused, InP, Busy, Gone, CountsTyped, Counted
<1>126. FailDead'
  BY <1>t, <1>2, <1>3, <1>4 DEF IInv, FailDead, EnAct, Since, Dead, InP, Busy, DeadRun, Got, Gone, Stored,
      IsEnding, CountsTyped, Counted
<1>127. EndMarked'
  BY <1>t, <1>2, <1>3, <1>4 DEF IInv, EndMarked, EnAct, Since, IsEnding, Dead, InP, Busy, DeadRun, Got, Gone,
      Stored, CountsTyped, Counted
<1>128. EndAfter'
  BY <1>t, <1>2, <1>3, <1>4 DEF IInv, EndAfter, EnAct, Since, Landing, CountsTyped, Counted
<1>129. Cleared'
  BY <1>t, <1>2, <1>3, <1>4 DEF IInv, Cleared, EnAct, Since, Dead, InP, Busy, DeadRun, Got, Gone, Stored,
      IsEnding, CountsTyped, Counted
<1>130. RunLater'
  BY <1>t, <1>2, <1>3, <1>4 DEF IInv, RunLater, InP, Busy, Gone, IsEnding, CountsTyped, Counted, RunsTyped, Typed
<1>131. LandLater'
  BY <1>t, <1>2, <1>3, <1>4 DEF IInv, LandLater, Landing, Gone, Auth, IsEnding, RunLater, InP, Busy, CountsTyped,
      Counted, RunsTyped, Typed
<1>132. OldNoTok'
  BY <1>t, <1>2, <1>3, <1>4 DEF IInv, OldNoTok, InP, Busy, IsEnding, CountsTyped, Counted, TokensTyped, Typed
<1>133. RestoreWaits'
  BY <1>t, <1>2, <1>3, <1>4 DEF IInv, RestoreWaits, Busy, Since, CountsTyped, Counted, ReqsTyped, Typed
<1>134. ReqsWait'
  BY <1>t, <1>2, <1>3, <1>4 DEF IInv, ReqsWait, Busy, Since, CountsTyped, Counted, ReqsTyped, Typed
<1>135. Begun'
  BY <1>t, <1>2, <1>3, <1>4 DEF IInv, Begun, InP, Busy, Blocked, ByAny, CountsTyped, Counted, ReqsTyped, Typed
<1>136. PageBegun'
  BY <1>t, <1>2, <1>3, <1>4 DEF IInv, PageBegun, InP, Busy, Blocked, ByAny, Auth, CountsTyped, Counted,
      ReqsTyped, Typed
<1>137. LatePage'
  BY <1>t, <1>2, <1>3, <1>4 DEF IInv, LatePage, Act, Since, Auth, RsOk, RsOn, LateEnded, IsEnding, EnAct, Stored,
      Dead, InP, Busy, DeadRun, Got, Gone, CountsTyped, Counted, ReqsTyped, Typed
<1>138. OldAlone'
  BY <1>t, <1>2, <1>3, <1>4 DEF IInv, OldAlone, InP, Busy, Gone, Auth, IsEnding, Act, Since, EnAct, RsOk, RsOn,
      CountsTyped, Counted
<1>139. OneInUse'
  <2>1. Using' => Using
    BY <1>t, <1>2, <1>3, <1>4 DEF IInv, Using, Auth, RsOk, RsOn, Since, IsEnding, Dead, InP, Busy, DeadRun, Got,
        Gone, Stored
  <2>2. \A s \in Epochs : AllOf(s) => AllOf(s)'
    BY <1>t, <1>2, <1>3, <1>4 DEF IInv, AllOf, Of, Stored, IsEnding, Act, Since, InP, Busy, ReqsTyped, Typed,
        Counted
  <2> QED
    BY <2>1, <2>2, <1>2, <1>3, <1>4 DEF IInv, OneInUse
<1>140. AfterEnd'
  BY <1>t, <1>2, <1>3, <1>4 DEF IInv, AfterEnd, IsEnding, EnAct, Since, Auth, Landing, CountsTyped, Counted,
      TokensTyped, Typed
<1>141. RunPcs'
  BY <1>t, <1>2, <1>3, <1>4 DEF IInv, RunPcs, CountsTyped, Counted
<1> QED
  BY <1>1, <1>100, <1>101, <1>102, <1>103, <1>104, <1>105, <1>106, <1>107, <1>108, <1>109, <1>110, <1>111,
      <1>112, <1>113, <1>114, <1>115, <1>116, <1>117, <1>118, <1>119, <1>120, <1>121, <1>122, <1>123,
      <1>124, <1>125, <1>126, <1>127, <1>128, <1>129, <1>130, <1>131, <1>132, <1>133, <1>134, <1>135,
      <1>136, <1>137, <1>138, <1>139, <1>140, <1>141 DEF IInv

\* An answered refresh only looks.
LEMMA LookKeeps ==
    ASSUME IInv, NEW k \in Epochs, NEW pc \in {"current", "moved"}, InP(k), writing = None, ~IsEnding(epoch),
           rf[k].pc = "answered", rf[k].res = "ok", ~IsEnding(rf[k].e),
           pc = "moved" => Stored # rf[k].tok,
           pc = "current" => unsaved = NoToken \/ Stored = rf[k].tok,
           RunMoves(k, pc, epoch, rf[k].got, rf[k].res), left' \in Nat,
           UNCHANGED <<server, asked, mem, counts, unsaved, status, leaving, kc, sign, sv, en, ending, inFlight,
             req, rs>>
    PROVE  Kept
<1>1. IInv'
  BY LookKeepsInv
<1>2. UNCHANGED <<alive, asked, mem, epoch, inPlace, writing, ending, unsaved, status, kc, sign, en, req, rs>>
  BY DEF server, counts
<1>3. CauseInv => CauseInv' /\ Taken
  BY <1>2, GoesOnForCause DEF Got, Pcs
<1> QED
  BY <1>1, <1>3 DEF Kept

\* A refresh begins to write.
LEMMA LandKeepsInv ==
    ASSUME IInv, NEW k \in Epochs, NEW res \in {"ok", "failed"}, ~IsEnding(epoch),
           rf[k].pc = "current", ~Since(rf[k].e),
           RunMoves(k, "access", rf[k].e, rf[k].got, res), left' \in Nat,
           UNCHANGED <<server, asked, mem, counts, unsaved, status, leaving, kc, sign, sv, en, ending, inFlight,
             req, rs>>
    PROVE  IInv'
<1>0. TypeOK
  BY DEF IInv
<1>1. TypeOK'
  BY <1>0 DEF TypeOK, server, counts, RunMoves
<1>2. UNCHANGED <<alive, gen, excused, dropped, mem, epoch, inPlace, writing, ending, status, leaving, kc, sign,
        en, sv, inFlight, req, rs, unsaved>>
  BY DEF counts, server
<1>3. /\ rf'[k].pc = "access" /\ rf'[k].res = res /\ rf'[k].tok = rf[k].tok /\ rf'[k].got = rf[k].got /\
           rf'[k].e = rf[k].e
      /\ \A l \in Epochs : l # k => rf'[l] = rf[l]
  BY DEF RunMoves
<1>t. /\ CountsTyped /\ TokensTyped /\ RunsTyped /\ ReqsTyped
      /\ CountsTyped' /\ TokensTyped' /\ RunsTyped' /\ ReqsTyped'
  BY <1>1, Types DEF IInv
<1>4. /\ Got(k) /\ Got(k)' /\ InP(k) /\ ~Dead /\ ~Dead' /\ rf[k].tok # NoToken /\ writing = None /\ rf[k].e = epoch
      /\ \A l \in Epochs : InP(l) <=> InP(l)'
      /\ \A x \in Ends : ~EnAct(x)
  <2>1. Got(k) /\ Got(k)' /\ rf[k].tok # NoToken /\ rf[k].e = epoch /\ writing = None /\ InP(k)
    BY <1>t, <1>3 DEF IInv, Got, RunTok, Busy, RunsCount, Since, InP, Counts, CountsTyped
  <2>2. \A l \in Epochs : InP(l) <=> InP(l)'
    BY <1>2, <1>3 DEF InP, Busy
  <2>3. ~Dead /\ ~Dead'
    BY <2>1, <2>2 DEF Dead, DeadRun
  <2> QED
    BY <2>1, <2>2, <2>3 DEF IInv, EndMarked
<1>100. Counts' /\ EndsCount' /\ EndsWait' /\ TokensKnown' /\ SaveOther'
  BY <1>2 DEF IInv, Counts, EndsCount, EndsWait, EnAct, Since, IsEnding, TokensKnown, Known, SaveOther
<1>101. ClearedNow' /\ RsOut' /\ StoredLater' /\ EndsInSign' /\ ReqPcs'
  BY <1>2 DEF IInv, ClearedNow, EnAct, Since, IsEnding, RsOut, RsOn, Auth, StoredLater, Gone, Stored, EndsInSign,
      ReqPcs
<1>102. ReqOf' /\ ReqCount' /\ EnPcs' /\ RsPcs'
  BY <1>2 DEF IInv, ReqOf, Auth, ReqCount, Act, Since, EnPcs, RsPcs
<1>103. Unborn'
  BY <1>t, <1>2, <1>3, <1>4 DEF IInv, Unborn, Busy, CountsTyped, Counted
<1>104. RunsCount'
  BY <1>t, <1>2, <1>3, <1>4 DEF IInv, RunsCount, Busy, CountsTyped, Counted, RunsTyped, Typed
<1>105. OneFlight'
  BY <1>t, <1>2, <1>3, <1>4 DEF IInv, OneFlight, InP, Busy, CountsTyped, Counted
<1>106. FlightBusy'
  BY <1>t, <1>2, <1>3, <1>4 DEF IInv, FlightBusy, Busy, CountsTyped, Counted
<1>107. RunsKnown'
  BY <1>t, <1>2, <1>3, <1>4 DEF IInv, RunsKnown, Known, CountsTyped, Counted, RunsTyped, Typed
<1>108. Fresh'
  BY <1>t, <1>2, <1>3, <1>4 DEF IInv, Fresh, CountsTyped, Counted, RunsTyped, Typed, TokensTyped
<1>109. RunTok'
  BY <1>t, <1>2, <1>3, <1>4 DEF IInv, RunTok, Busy, CountsTyped, Counted, RunsTyped, Typed
<1>110. GotNext'
  BY <1>t, <1>2, <1>3, <1>4 DEF IInv, GotNext, Got, CountsTyped, Counted, RunsTyped, Typed
<1>111. Writers'
  BY <1>t, <1>2, <1>3, <1>4 DEF IInv, Writers, Landing, Since, Counts, InP, Busy, CountsTyped, Counted
<1>112. Above'
  BY <1>t, <1>2, <1>3, <1>4 DEF IInv, Above, Busy, InP, IsEnding, CountsTyped, Counted, RunsTyped, Typed,
      TokensTyped
<1>113. Apart'
  BY <1>t, <1>2, <1>3, <1>4 DEF IInv, Apart, Busy, CountsTyped, Counted, RunsTyped, Typed
<1>114. GotNewest'
  BY <1>t, <1>2, <1>3, <1>4 DEF IInv, GotNewest, Got, Good, CountsTyped, Counted, RunsTyped, Typed
<1>115. AskedNewest'
  BY <1>t, <1>2, <1>3, <1>4 DEF IInv, AskedNewest, Good, Since, CountsTyped, Counted, RunsTyped, Typed
<1>116. CurNewest'
  BY <1>t, <1>2, <1>3, <1>4 DEF IInv, CurNewest, Cur, Rotated, IsEnding, Stored, Good, InP, Busy, Got,
      CountsTyped, Counted, RunsTyped, Typed, TokensTyped
<1>117. GotUnshared'
  BY <1>t, <1>2, <1>3, <1>4 DEF IInv, GotUnshared, Got, CountsTyped, Counted, RunsTyped, Typed, TokensTyped
<1>118. KcWritten'
  BY <1>t, <1>2, <1>3, <1>4 DEF IInv, KcWritten, CountsTyped, Counted, RunsTyped, Typed, TokensTyped
<1>119. UnsavedOwn'
  BY <1>t, <1>2, <1>3, <1>4 DEF IInv, UnsavedOwn, InP, Busy, CountsTyped, Counted, RunsTyped, Typed, TokensTyped
<1>120. EndNotKept'
  BY <1>t, <1>2, <1>3, <1>4 DEF IInv, EndNotKept, InP, Busy, Since, IsEnding, CountsTyped, Counted
<1>121. SaveLands'
  BY <1>t, <1>2, <1>3, <1>4 DEF IInv, SaveLands, InP, Busy, Good, Rotated, IsEnding, CountsTyped, Counted,
      RunsTyped, Typed, TokensTyped
<1>122. RunIsCur'
  BY <1>t, <1>2, <1>3, <1>4 DEF IInv, RunIsCur, InP, Busy, Cur, Rotated, IsEnding, Stored, Good, CountsTyped,
      Counted, RunsTyped, Typed, TokensTyped
<1>123. MovedOff'
  BY <1>t, <1>2, <1>3, <1>4 DEF IInv, MovedOff, InP, Busy, Stored, CountsTyped, Counted, TokensTyped, Typed
<1>124. NoTokRun'
  BY <1>t, <1>2, <1>3, <1>4 DEF IInv, NoTokRun, InP, Busy, Cur, Rotated, IsEnding, Stored, CountsTyped, Counted,
      RunsTyped, Typed, TokensTyped
<1>125. Refused'
  BY <1>t, <1>2, <1>3, <1>4 DEF IInv, Refused, InP, Busy, Gone, CountsTyped, Counted
<1>126. FailDead'
  BY <1>t, <1>2, <1>3, <1>4 DEF IInv, FailDead, EnAct, Since, Dead, InP, Busy, DeadRun, Got, Gone, Stored,
      IsEnding, CountsTyped, Counted
<1>127. EndMarked'
  BY <1>t, <1>2, <1>3, <1>4 DEF IInv, EndMarked, EnAct, Since, IsEnding, Dead, InP, Busy, DeadRun, Got, Gone,
      Stored, CountsTyped, Counted
<1>128. EndAfter'
  BY <1>t, <1>2, <1>3, <1>4 DEF IInv, EndAfter, EnAct, Since, Landing, CountsTyped, Counted
<1>129. Cleared'
  BY <1>t, <1>2, <1>3, <1>4 DEF IInv, Cleared, EnAct, Since, Dead, InP, Busy, DeadRun, Got, Gone, Stored,
      IsEnding, CountsTyped, Counted
<1>130. RunLater'
  BY <1>t, <1>2, <1>3, <1>4 DEF IInv, RunLater, InP, Busy, Gone, CountsTyped, Counted, RunsTyped, Typed
<1>131. LandLater'
  BY <1>t, <1>2, <1>3, <1>4 DEF IInv, LandLater, Landing, Gone, Auth, IsEnding, RunLater, InP, Busy, CountsTyped,
      Counted, RunsTyped, Typed
<1>132. OldNoTok'
  BY <1>t, <1>2, <1>3, <1>4 DEF IInv, OldNoTok, InP, Busy, IsEnding, CountsTyped, Counted, TokensTyped, Typed
<1>133. RestoreWaits'
  BY <1>t, <1>2, <1>3, <1>4 DEF IInv, RestoreWaits, Busy, Since, CountsTyped, Counted, ReqsTyped, Typed
<1>134. ReqsWait'
  BY <1>t, <1>2, <1>3, <1>4 DEF IInv, ReqsWait, Busy, Since, CountsTyped, Counted, ReqsTyped, Typed
<1>135. Begun'
  BY <1>t, <1>2, <1>3, <1>4 DEF IInv, Begun, InP, Busy, Blocked, ByAny, CountsTyped, Counted, ReqsTyped, Typed
<1>136. PageBegun'
  BY <1>t, <1>2, <1>3, <1>4 DEF IInv, PageBegun, InP, Busy, Blocked, ByAny, Auth, CountsTyped, Counted,
      ReqsTyped, Typed
<1>137. LatePage'
  BY <1>t, <1>2, <1>3, <1>4 DEF IInv, LatePage, Act, Since, Auth, RsOk, RsOn, LateEnded, IsEnding, EnAct, Stored,
      Dead, InP, Busy, DeadRun, Got, Gone, CountsTyped, Counted, ReqsTyped, Typed
<1>138. OldAlone'
  BY <1>t, <1>2, <1>3, <1>4 DEF IInv, OldAlone, InP, Busy, Gone, Auth, IsEnding, Act, Since, EnAct, RsOk, RsOn,
      CountsTyped, Counted
<1>139. OneInUse'
  <2>1. Using' => Using
    BY <1>t, <1>2, <1>3, <1>4 DEF IInv, Using, Auth, RsOk, RsOn, Since, IsEnding, Dead, InP, Busy, DeadRun, Got,
        Gone, Stored
  <2>2. \A s \in Epochs : AllOf(s) => AllOf(s)'
    BY <1>t, <1>2, <1>3, <1>4 DEF IInv, AllOf, Of, Stored, IsEnding, Act, Since, InP, Busy, ReqsTyped, Typed,
        Counted
  <2> QED
    BY <2>1, <2>2, <1>2, <1>3, <1>4 DEF IInv, OneInUse
<1>140. AfterEnd'
  BY <1>t, <1>2, <1>3, <1>4 DEF IInv, AfterEnd, IsEnding, EnAct, Since, Auth, Landing, CountsTyped, Counted,
      TokensTyped, Typed
<1>141. RunPcs'
  BY <1>t, <1>2, <1>3, <1>4 DEF IInv, RunPcs, CountsTyped, Counted
<1> QED
  BY <1>1, <1>100, <1>101, <1>102, <1>103, <1>104, <1>105, <1>106, <1>107, <1>108, <1>109, <1>110, <1>111,
      <1>112, <1>113, <1>114, <1>115, <1>116, <1>117, <1>118, <1>119, <1>120, <1>121, <1>122, <1>123,
      <1>124, <1>125, <1>126, <1>127, <1>128, <1>129, <1>130, <1>131, <1>132, <1>133, <1>134, <1>135,
      <1>136, <1>137, <1>138, <1>139, <1>140, <1>141 DEF IInv

\* A refresh that begins to write has not written yet.
LEMMA LandKeeps ==
    ASSUME IInv, NEW k \in Epochs, NEW res \in {"ok", "failed"}, ~IsEnding(epoch),
           rf[k].pc = "current", ~Since(rf[k].e),
           RunMoves(k, "access", rf[k].e, rf[k].got, res), left' \in Nat,
           UNCHANGED <<server, asked, mem, counts, unsaved, status, leaving, kc, sign, sv, en, ending, inFlight,
             req, rs>>
    PROVE  Kept
<1>1. IInv'
  BY LandKeepsInv
<1>2. UNCHANGED <<alive, asked, mem, epoch, inPlace, writing, ending, unsaved, status, kc, sign, en, req, rs>>
  BY DEF server, counts
<1>3. CauseInv => CauseInv' /\ Taken
  BY <1>2, GoesOnForCause DEF Got, Pcs
<1> QED
  BY <1>1, <1>3 DEF Kept

\* A keychain call uses up no more than there is.
LEMMA CallsLeft == ASSUME left \in Nat, NEW ok \in BOOLEAN, Calls(ok) PROVE left' \in Nat
  BY DEF Calls

\* The answer of a refresh arrives.
LEMMA RefreshAnsweredKeeps ==
    ASSUME IInv, NEW k \in Epochs, NEW ok \in BOOLEAN, RefreshAnswered(k, ok)
    PROVE  Kept
<1>1. /\ rf[k].pc = "answered" /\ rf[k].e = k /\ k <= epoch /\ dropped \in SUBSET Epochs /\ left \in Nat
      /\ CountsTyped /\ (Got(k) <=> rf[k].res = "ok") /\ TypeOK /\ inPlace <= epoch
      /\ rf[k].res \in {"ok", "failed", "refused"} /\ Busy(k) /\ (writing # None => k < epoch)
  BY Types DEF IInv, RefreshAnswered, RunsCount, Busy, TypeOK, Got, RunPcs, Counts
<1>2. /\ UNCHANGED <<server, asked, mem, counts, unsaved, status, leaving, kc, sign, en, sv>>
      /\ rf[k].res = "ok" /\ Since(k) => writing = None
  BY <1>1 DEF RefreshAnswered
<1>3. CASE rf[k].res = "failed" \/ (rf[k].res = "refused" /\ (Since(k) \/ IsEnding(k)))
  <2>1. Finish(k, rf[k].res, NoToken) /\ UNCHANGED <<ending, left>>
    BY <1>1, <1>3 DEF RefreshAnswered
  <2> QED
    BY <1>1, <1>2, <1>3, <2>1, FinishKeeps DEF server
<1>4. CASE rf[k].res = "refused" /\ ~Since(k) /\ ~IsEnding(k)
  <2>1. PICK got \in Token : /\ got = Stored \/ got = rf[k].tok
                             /\ rf' = [rf EXCEPT ![k] = [rf[k] EXCEPT !.pc = "recheck", !.got = got]]
                             /\ UNCHANGED <<ending, inFlight, req, rs>> /\ Calls(ok)
    <3> DEFINE got == IF ok THEN Stored ELSE rf[k].tok
    <3>1. Stored \in Token /\ rf[k].tok \in Token
      BY <1>1, RunFields DEF TypeOK, Stored
    <3>2. rf' = [rf EXCEPT ![k] = [rf[k] EXCEPT !.pc = "recheck", !.got = got]]
      BY <1>1, <1>4 DEF RefreshAnswered
    <3>3. UNCHANGED <<ending, inFlight, req, rs>> /\ Calls(ok)
      BY <1>1, <1>4 DEF RefreshAnswered, Reads
    <3> QED
      BY <3>1, <3>2, <3>3
  <2>2. RunMoves(k, "recheck", rf[k].e, got, rf[k].res)
    <3>1. "recheck" \in Pcs
      BY DEF Pcs, Results
    <3> QED
      BY <1>1, <2>1, <3>1, RunFields, RunMovesEffect
  <2> QED
    BY <1>1, <1>2, <1>4, <2>1, <2>2, CallsLeft, RecheckKeeps
<1>5. CASE rf[k].res = "ok" /\ ~SameSession(k, epoch)
  <2>1. Finish(k, "ok", NoToken) /\ UNCHANGED <<ending, left>>
    BY <1>1, <1>5 DEF RefreshAnswered
  <2>2. k < epoch /\ ~InP(k)
    BY <1>1, <1>2, <1>5 DEF SameSession, InP, Since, CountsTyped
  <2> QED
    BY <1>1, <1>2, <1>5, <2>1, <2>2, FinishKeeps DEF server
<1>6. ASSUME rf[k].res = "ok", SameSession(k, epoch)
      PROVE  InP(k) /\ Got(k) /\ writing = None /\ (k = epoch \/ k < epoch)
  BY <1>1, <1>2, <1>6 DEF SameSession, InP, Since, CountsTyped
<1>7. CASE rf[k].res = "ok" /\ SameSession(k, epoch) /\ (IsEnding(k) \/ IsEnding(epoch))
  <2>1. KeepForLogOut(k, rf[k].got) /\ UNCHANGED left
    BY <1>1, <1>7 DEF RefreshAnswered, Since
  <2> QED
    BY <1>1, <1>2, <1>6, <1>7, <2>1, KeepKeeps DEF server
<1>8. CASE rf[k].res = "ok" /\ SameSession(k, epoch) /\ ~IsEnding(k) /\ ~IsEnding(epoch)
  <2>1. PICK pc \in {"current", "moved"} :
           /\ pc = "moved" => Stored # rf[k].tok
           /\ pc = "current" => unsaved = NoToken \/ Stored = rf[k].tok
           /\ rf' = [rf EXCEPT ![k] = [rf[k] EXCEPT !.pc = pc, !.e = epoch]]
           /\ UNCHANGED <<ending, inFlight, req, rs>> /\ Calls(ok)
    <3> DEFINE pc == IF ok /\ Stored # rf[k].tok THEN "moved" ELSE "current"
               now == IF Since(rf[k].e) /\ rf[k].res = "ok" THEN epoch ELSE rf[k].e
    <3>1. now = epoch
      BY <1>1, <1>8 DEF Since
    <3>2. rf' = [rf EXCEPT ![k].pc = pc, ![k].e = now] /\ UNCHANGED <<ending, inFlight, req, rs>> /\ Reads(ok)
      BY <1>1, <1>8, <3>1 DEF RefreshAnswered
    <3>3. rf' = [rf EXCEPT ![k] = [rf[k] EXCEPT !.pc = pc, !.e = epoch]]
      BY <3>1, <3>2
    <3> QED
      BY <3>2, <3>3 DEF Reads
  <2>2. RunMoves(k, pc, epoch, rf[k].got, rf[k].res)
    <3>1. pc \in Pcs /\ epoch \in Count
      BY <1>1 DEF Pcs, CountsTyped, Count
    <3> QED
      BY <1>1, <2>1, <3>1, RunFields, RunMovesEffect
  <2> QED
    BY <1>1, <1>2, <1>6, <1>8, <2>1, <2>2, CallsLeft, LookKeeps
<1> QED
  BY <1>1, <1>3, <1>4, <1>5, <1>7, <1>8

\* A refresh writes the access token, hands its tokens over or drops them.
LEMMA RefreshKeepsKeeps ==
    ASSUME IInv, NEW k \in Epochs, NEW ok \in BOOLEAN, RefreshKeeps(k, ok)
    PROVE  Kept
<1>1. /\ rf[k].pc \in {"current", "moved"} /\ k <= rf[k].e /\ rf[k].e <= epoch /\ dropped \in SUBSET Epochs /\
           left \in Nat
      /\ CountsTyped /\ Got(k) /\ TypeOK /\ Busy(k) /\ (rf[k].e >= inPlace => InP(k)) /\
           (writing # None => rf[k].e < epoch)
      /\ inPlace <= epoch /\ rf[k].tok.s \in Epochs /\ Counted(rf[k].e) /\ rf[k].e # None
  <2>1. /\ rf[k].pc \in {"current", "moved"} /\ k <= rf[k].e /\ rf[k].e <= epoch /\ dropped \in SUBSET Epochs /\
             left \in Nat
        /\ CountsTyped /\ Got(k) /\ TypeOK /\ Busy(k) /\ (rf[k].e >= inPlace => InP(k)) /\
             (writing # None => rf[k].e < epoch)
        /\ inPlace <= epoch /\ RunsTyped /\ rf[k].tok # NoToken
    BY Types DEF IInv, RefreshKeeps, RunsCount, Busy, TypeOK, Got, Counts, InP, RunTok
  <2>2. Typed(rf[k].tok) /\ Known(rf[k].tok) /\ Counted(rf[k].e)
    BY <2>1 DEF IInv, RunsKnown, RunsTyped
  <2> QED
    BY <2>1, <2>2 DEF Typed, Known, Counted, CountsTyped
<1>2. /\ UNCHANGED <<alive, gen, reused, excused, asked, mem, counts, unsaved, status, leaving, kc, sign, en, sv>>
      /\ dropped' = IF rf[k].pc = "current" /\ Since(rf[k].e) THEN dropped \cup {rf[k].tok.s} ELSE dropped
  BY DEF RefreshKeeps
<1>3. ASSUME ~Since(rf[k].e) PROVE rf[k].e = epoch /\ writing = None /\ InP(k) /\ dropped' = dropped
  BY <1>1, <1>2, <1>3 DEF Since, CountsTyped
<1>4. CASE ~Since(rf[k].e) /\ IsEnding(rf[k].e)
  <2>1. KeepForLogOut(k, rf[k].got) /\ UNCHANGED left
    BY <1>1, <1>4 DEF RefreshKeeps
  <2> QED
    BY <1>1, <1>2, <1>3, <1>4, <2>1, KeepKeeps
<1>5. CASE Since(rf[k].e) \/ (rf[k].pc = "moved" /\ ~IsEnding(rf[k].e))
  <2>1. Finish(k, "ok", NoToken) /\ UNCHANGED <<ending, left>>
    BY <1>1, <1>5 DEF RefreshKeeps
  <2>2. k < epoch \/ (rf[k].pc = "moved" /\ ~IsEnding(epoch))
    BY <1>1, <1>5, <1>3 DEF Since, CountsTyped, Counted
  <2>3. rf[k].pc # "moved" => Since(rf[k].e) /\ rf[k].tok.s \in dropped'
    BY <1>1, <1>2, <1>5
  <2>4. dropped' \in {dropped, dropped \cup {rf[k].tok.s}} /\ dropped' \in SUBSET Epochs /\ left' \in Nat
    BY <1>1, <1>2, <2>1
  <2>5. rf[k].pc \notin {"none", "access", "refresh", "ends"}
    BY <1>1
  <2> QED
    BY <1>2, <2>1, <2>2, <2>3, <2>4, <2>5, FinishKeeps
<1>6. CASE ~Since(rf[k].e) /\ ~IsEnding(rf[k].e) /\ rf[k].pc # "moved"
  <2>1. PICK res \in {"ok", "failed"} : /\ rf' = [rf EXCEPT ![k] = [rf[k] EXCEPT !.pc = "access", !.res = res]]
                                        /\ UNCHANGED <<ending, inFlight, req, rs>> /\ Calls(ok)
    BY <1>1, <1>6 DEF RefreshKeeps
  <2>2. RunMoves(k, "access", rf[k].e, rf[k].got, res)
    <3>1. "access" \in Pcs /\ res \in Results
      BY DEF Pcs, Results
    <3> QED
      BY <1>1, <2>1, <3>1, RunFields, RunMovesEffect
  <2> QED
    BY <1>1, <1>2, <1>3, <1>6, <2>1, <2>2, CallsLeft, LandKeeps DEF server
<1> QED
  BY <1>1, <1>4, <1>5, <1>6

(* ---- Refreshes: the writes -------------------------------------------- *)

\* The keychain takes the refresh token, or fails to.
LEMMA WriteKeepsInv ==
    ASSUME IInv, NEW k \in Epochs, NEW res \in {"ok", "failed"}, ~IsEnding(epoch),
           rf[k].pc = "access", ~Since(rf[k].e),
           RunMoves(k, "refresh", rf[k].e, rf[k].got, res), kc' = IF res = "ok" THEN rf[k].got ELSE kc,
             left' \in Nat,
           UNCHANGED <<server, asked, mem, counts, ending, unsaved, status, inFlight, leaving, sign, en, req,
             rs, sv>>
    PROVE  IInv'
<1>0. TypeOK /\ rf[k].got \in Token
  BY RunFields DEF IInv
<1>1. TypeOK'
  BY <1>0 DEF TypeOK, server, counts, RunMoves
<1>2. UNCHANGED <<alive, gen, excused, dropped, mem, epoch, inPlace, writing, ending, status, leaving, sign, en,
        sv, inFlight, req, rs, unsaved>>
  BY DEF counts, server
<1>3. /\ rf'[k].pc = "refresh" /\ rf'[k].res = res /\ rf'[k].tok = rf[k].tok /\ rf'[k].got = rf[k].got /\
           rf'[k].e = rf[k].e
      /\ \A l \in Epochs : l # k => rf'[l] = rf[l]
  BY DEF RunMoves
<1>t. /\ CountsTyped /\ TokensTyped /\ RunsTyped /\ ReqsTyped
      /\ CountsTyped' /\ TokensTyped' /\ RunsTyped' /\ ReqsTyped'
  BY <1>1, Types DEF IInv
<1>4. /\ Got(k) /\ Got(k)' /\ InP(k) /\ ~Dead /\ ~Dead' /\ rf[k].tok # NoToken /\ writing = None /\ rf[k].e = epoch
      /\ rf[k].got.s = rf[k].tok.s /\ rf[k].got # NoToken
      /\ \A l \in Epochs : InP(l) <=> InP(l)'
      /\ \A l \in Epochs : InP(l) => l = k
      /\ \A x \in Ends : ~EnAct(x)
      /\ Cur = Stored /\ Cur' = Stored'
  <2>1. Got(k) /\ Got(k)' /\ rf[k].tok # NoToken /\ rf[k].e = epoch /\ writing = None /\ InP(k)
    BY <1>t, <1>3 DEF IInv, Got, RunTok, Busy, RunsCount, Since, InP, Counts, CountsTyped
  <2>2. \A l \in Epochs : InP(l) <=> InP(l)'
    BY <1>2, <1>3, <2>1 DEF InP, Busy
  <2>3. ~Dead /\ ~Dead'
    BY <2>1, <2>2 DEF Dead, DeadRun
  <2>4. rf[k].got.s = rf[k].tok.s /\ rf[k].got # NoToken
    BY <2>1, <1>t DEF IInv, GotNext, RunsTyped, Typed, Counted, RunsKnown, Known
  <2>5. Cur = Stored /\ Cur' = Stored'
    BY <1>2 DEF Cur, Rotated, IsEnding
  <2> QED
    BY <2>1, <2>2, <2>3, <2>4, <2>5 DEF IInv, EndMarked, OneFlight
<1>5. unsaved = NoToken \/ unsaved = rf[k].tok
  BY <1>4 DEF IInv, UnsavedOwn
<1>6. Stored' = Stored \/ (unsaved = NoToken /\ Stored' = rf[k].got /\ res = "ok")
  BY <1>2 DEF Stored
<1>100. Counts' /\ EndsCount' /\ EndsWait' /\ SaveOther'
  BY <1>2 DEF IInv, Counts, EndsCount, EndsWait, EnAct, Since, IsEnding, SaveOther
<1>101. RsOut' /\ EndsInSign' /\ ReqPcs' /\ ReqOf'
  BY <1>2 DEF IInv, RsOut, RsOn, Since, Auth, EndsInSign, IsEnding, EnAct, ReqPcs, ReqOf
<1>102. ReqCount' /\ EnPcs' /\ RsPcs'
  BY <1>2 DEF IInv, ReqCount, Act, Since, EnPcs, RsPcs
<1>103. Unborn'
  BY <1>t, <1>2, <1>3, <1>4 DEF IInv, Unborn, Busy, CountsTyped, Counted
<1>104. RunsCount'
  BY <1>t, <1>2, <1>3, <1>4 DEF IInv, RunsCount, Busy, CountsTyped, Counted, RunsTyped, Typed
<1>105. OneFlight'
  BY <1>t, <1>2, <1>3, <1>4 DEF IInv, OneFlight, InP, Busy, CountsTyped, Counted
<1>106. FlightBusy'
  BY <1>t, <1>2, <1>3, <1>4 DEF IInv, FlightBusy, Busy, CountsTyped, Counted
<1>107. TokensKnown'
  BY <1>t, <1>2, <1>3, <1>4 DEF IInv, TokensKnown, Known, RunsKnown, CountsTyped, Counted, TokensTyped, Typed
<1>108. RunsKnown'
  BY <1>t, <1>2, <1>3, <1>4 DEF IInv, RunsKnown, Known, CountsTyped, Counted, RunsTyped, Typed
<1>109. Fresh'
  BY <1>t, <1>2, <1>3, <1>4 DEF IInv, Fresh, CountsTyped, Counted, RunsTyped, Typed, TokensTyped
<1>110. RunTok'
  BY <1>t, <1>2, <1>3, <1>4 DEF IInv, RunTok, Busy, CountsTyped, Counted, RunsTyped, Typed
<1>111. GotNext'
  BY <1>t, <1>2, <1>3, <1>4 DEF IInv, GotNext, Got, CountsTyped, Counted, RunsTyped, Typed
<1>112. Writers'
  BY <1>t, <1>2, <1>3, <1>4 DEF IInv, Writers, Landing, Since, InP, Busy, CountsTyped, Counted
<1>113. Above'
  BY <1>t, <1>2, <1>3, <1>4 DEF IInv, Above, Busy, InP, IsEnding, CountsTyped, Counted, RunsTyped, Typed,
      TokensTyped
<1>114. Apart'
  BY <1>t, <1>2, <1>3, <1>4 DEF IInv, Apart, Busy, CountsTyped, Counted, RunsTyped, Typed
<1>115. GotNewest'
  BY <1>t, <1>2, <1>3, <1>4 DEF IInv, GotNewest, Got, Good, CountsTyped, Counted, RunsTyped, Typed
<1>116. AskedNewest'
  BY <1>t, <1>2, <1>3, <1>4 DEF IInv, AskedNewest, Good, Since, CountsTyped, Counted, RunsTyped, Typed
<1>117. CurNewest'
  <2>1. SUFFICES ASSUME Cur' # NoToken, Good(Cur.s)', Cur'.g # gen'[Cur'.s]
                 PROVE  \E l \in Epochs : (InP(l) /\ Got(l) /\ rf[l].pc # "moved")' /\ rf'[l].tok.s = Cur'.s
    BY DEF CurNewest
  <2>2. CASE Stored' = Stored
    <3>1. PICK l \in Epochs : InP(l) /\ Got(l) /\ rf[l].pc # "moved" /\ rf[l].tok.s = Cur.s
      BY <2>1, <2>2, <1>2, <1>4 DEF IInv, CurNewest, Good
    <3> QED
      BY <3>1, <2>2, <1>3, <1>4
  <2>3. CASE Stored' = rf[k].got
    BY <2>1, <2>3, <1>2, <1>4 DEF IInv, GotNewest, Good
  <2> QED
    BY <2>2, <2>3, <1>6
<1>118. GotUnshared'
  BY <1>t, <1>2, <1>3, <1>4 DEF IInv, GotUnshared, Got, CountsTyped, Counted, RunsTyped, Typed, TokensTyped
<1>119. KcWritten'
  BY <1>t, <1>2, <1>3, <1>4 DEF IInv, KcWritten, Writers, Landing, Since, OneFlight, InP, Busy, CountsTyped,
      Counted, RunsTyped, Typed, TokensTyped
<1>120. UnsavedOwn'
  BY <1>t, <1>2, <1>3, <1>4, <1>5, <1>6 DEF IInv, UnsavedOwn, InP, Busy, CountsTyped, Counted, RunsTyped, Typed,
      TokensTyped
<1>121. EndNotKept'
  BY <1>t, <1>2, <1>3, <1>4 DEF IInv, EndNotKept, InP, Busy, Since, IsEnding, CountsTyped, Counted
<1>122. SaveLands'
  <2>1. SUFFICES ASSUME (sv.pc # "none" /\ sv.res = "ok" /\ unsaved = sv.tok)', kc' # kc
                 PROVE  kc'.s = unsaved'.s /\ (InP(k) /\ rf[k].pc = "refresh" /\ rf[k].res = "ok" /\
                          kc = rf[k].got)'
    BY <1>2, <1>3, <1>4 DEF IInv, SaveLands, Good, Rotated, IsEnding
  <2>2. kc' = rf[k].got /\ res = "ok"
    BY <2>1
  <2>3. unsaved = rf[k].tok
    BY <2>1, <1>2, <1>5 DEF IInv, Writers
  <2> QED
    BY <2>2, <2>3, <1>2, <1>3, <1>4
<1>123. RunIsCur'
  BY <1>t, <1>2, <1>3, <1>4, <1>5, <1>6 DEF IInv, RunIsCur, InP, Busy, Cur, Rotated, IsEnding, Stored, Good,
      CountsTyped, Counted, RunsTyped, Typed, TokensTyped
<1>124. MovedOff'
  BY <1>t, <1>2, <1>3, <1>4, <1>5, <1>6 DEF IInv, MovedOff, InP, Busy, Stored, CountsTyped, Counted, TokensTyped,
      Typed
<1>125. NoTokRun'
  BY <1>t, <1>2, <1>3, <1>4 DEF IInv, NoTokRun, InP, Busy, Cur, Rotated, IsEnding, Stored, CountsTyped, Counted,
      RunsTyped, Typed, TokensTyped
<1>126. Refused'
  BY <1>t, <1>2, <1>3, <1>4 DEF IInv, Refused, InP, Busy, Gone, CountsTyped, Counted
<1>127. FailDead'
  BY <1>t, <1>2, <1>3, <1>4 DEF IInv, FailDead, EnAct, Since, Dead, InP, Busy, DeadRun, Got, Gone, Stored,
      IsEnding, CountsTyped, Counted
<1>128. EndMarked'
  BY <1>t, <1>2, <1>3, <1>4 DEF IInv, EndMarked, EnAct, Since, IsEnding, Dead, InP, Busy, DeadRun, Got, Gone,
      Stored, CountsTyped, Counted
<1>129. EndAfter'
  BY <1>t, <1>2, <1>3, <1>4 DEF IInv, EndAfter, EnAct, Since, Landing, CountsTyped, Counted
<1>130. Cleared'
  BY <1>t, <1>2, <1>3, <1>4 DEF IInv, Cleared, EnAct, Since, Dead, InP, Busy, DeadRun, Got, Gone, Stored,
      IsEnding, CountsTyped, Counted
<1>131. ClearedNow'
  BY <1>t, <1>2, <1>3, <1>4 DEF IInv, ClearedNow, EnAct, Since, IsEnding, CountsTyped, Counted
<1>132. StoredLater'
  BY <1>t, <1>2, <1>3, <1>4, <1>5, <1>6 DEF IInv, StoredLater, Gone, Stored, Auth, IsEnding, LandLater, Landing,
      CountsTyped, Counted, TokensTyped, Typed
<1>133. RunLater'
  BY <1>t, <1>2, <1>3, <1>4 DEF IInv, RunLater, InP, Busy, Gone, CountsTyped, Counted, RunsTyped, Typed
<1>134. LandLater'
  BY <1>t, <1>2, <1>3, <1>4 DEF IInv, LandLater, Landing, Gone, Auth, IsEnding, CountsTyped, Counted, RunsTyped,
      Typed
<1>135. OldNoTok'
  BY <1>t, <1>2, <1>3, <1>4 DEF IInv, OldNoTok, InP, Busy, IsEnding, CountsTyped, Counted, TokensTyped, Typed
<1>136. RestoreWaits'
  BY <1>t, <1>2, <1>3, <1>4 DEF IInv, RestoreWaits, Busy, Since, CountsTyped, Counted, ReqsTyped, Typed
<1>137. ReqsWait'
  BY <1>t, <1>2, <1>3, <1>4 DEF IInv, ReqsWait, Busy, Since, CountsTyped, Counted, ReqsTyped, Typed
<1>138. Begun'
  BY <1>t, <1>2, <1>3, <1>4 DEF IInv, Begun, InP, Busy, Blocked, ByAny, CountsTyped, Counted, ReqsTyped, Typed
<1>139. PageBegun'
  BY <1>t, <1>2, <1>3, <1>4 DEF IInv, PageBegun, InP, Busy, Blocked, ByAny, Auth, CountsTyped, Counted,
      ReqsTyped, Typed
<1>140. LatePage'
  BY <1>t, <1>2, <1>3, <1>4 DEF IInv, LatePage, Act, Since, Auth, RsOk, RsOn, LateEnded, IsEnding, EnAct, Stored,
      Dead, InP, Busy, DeadRun, Got, Gone, CountsTyped, Counted, ReqsTyped, Typed
<1>141. OldAlone'
  BY <1>t, <1>2, <1>3, <1>4 DEF IInv, OldAlone, InP, Busy, Gone, Auth, IsEnding, Act, Since, EnAct, RsOk, RsOn,
      CountsTyped, Counted
<1>142. OneInUse'
  <2>1. Using' => Using
    BY <1>2, <1>4 DEF Using, Auth, RsOk, RsOn, Since, IsEnding
  <2>2. ASSUME NEW s \in Epochs, AllOf(s) PROVE AllOf(s)'
    <3>1. Of(Stored, s)'
      BY <2>2, <1>4, <1>6 DEF AllOf, Of
    <3> QED
      BY <2>2, <3>1, <1>2, <1>3, <1>4 DEF AllOf, Of, IsEnding, Act, Since
  <2> QED
    BY <1>2, <2>1, <2>2 DEF IInv, OneInUse
<1>143. AfterEnd'
  BY <1>t, <1>2, <1>3, <1>4 DEF IInv, AfterEnd, IsEnding, EnAct, Since, Auth, Landing, CountsTyped, Counted,
      TokensTyped, Typed
<1>144. RunPcs'
  BY <1>t, <1>2, <1>3, <1>4 DEF IInv, RunPcs, CountsTyped, Counted
<1> QED
  BY <1>1, <1>100, <1>101, <1>102, <1>103, <1>104, <1>105, <1>106, <1>107, <1>108, <1>109, <1>110, <1>111,
      <1>112, <1>113, <1>114, <1>115, <1>116, <1>117, <1>118, <1>119, <1>120, <1>121, <1>122, <1>123,
      <1>124, <1>125, <1>126, <1>127, <1>128, <1>129, <1>130, <1>131, <1>132, <1>133, <1>134, <1>135,
      <1>136, <1>137, <1>138, <1>139, <1>140, <1>141, <1>142, <1>143, <1>144 DEF IInv

\* The keychain write of a refresh puts new tokens over old ones of their session.
LEMMA WriteKeeps ==
    ASSUME IInv, NEW k \in Epochs, NEW res \in {"ok", "failed"}, ~IsEnding(epoch),
           rf[k].pc = "access", ~Since(rf[k].e),
           RunMoves(k, "refresh", rf[k].e, rf[k].got, res), kc' = IF res = "ok" THEN rf[k].got ELSE kc,
             left' \in Nat,
           UNCHANGED <<server, asked, mem, counts, ending, unsaved, status, inFlight, leaving, sign, en, req,
             rs, sv>>
    PROVE  Kept
<1>1. IInv'
  BY WriteKeepsInv
<1>2. UNCHANGED <<alive, asked, mem, epoch, inPlace, writing, ending, unsaved, status, sign, en, req, rs>>
  BY DEF server, counts
<1>3. ASSUME CauseInv PROVE CauseInv' /\ Taken
  <2>1. InP(k) /\ Got(k)
    BY DEF IInv, Writers, Landing, InP, Busy, Got
  <2>2. rf[k].got.s = rf[k].tok.s /\ rf[k].got # NoToken
    BY <2>1, GotIsToken
  <2>3. ~Lost /\ (ForCause => Cause(rf[k].got)) /\ rf[k].got.s # epoch + 1
    BY <2>1, <2>2, Held DEF Lost, ForCause, Cause
  <2>4. RunsStep
    BY <1>2, RunsStayInPlace DEF RunMoves, Got
  <2>5. /\ (Placed' <=> Placed) /\ (Auth' <=> Auth) /\ (RsOk' <=> RsOk) /\ (Mine' <=> Mine) /\ (EnOn' <=> EnOn)
        /\ (IsEnding(epoch)' <=> IsEnding(epoch))
    BY <1>2 DEF Placed, Auth, RsOk, RsOn, Since, Mine, EnOn, EnAct, IsEnding
  <2>6. AskedNew'
    BY <1>2, <1>3, <2>5 DEF CauseInv, AskedNew
  <2>7. KcHasIt'
    <3> SUFFICES ASSUME NEW l \in Epochs, rf'[l].pc = "refresh", rf'[l].res = "ok", ~Since(rf[l].e)'
                 PROVE  kc' = rf'[l].got
      BY DEF KcHasIt
    <3>1. CASE l = k
      BY <3>1 DEF RunMoves
    <3>2. CASE l # k
      <4>1. rf'[l] = rf[l] /\ l \in Landing
        BY <3>2 DEF RunMoves, Landing
      <4>2. InP(l)
        BY <4>1 DEF IInv, Writers, Landing, InP, Busy
      <4> QED
        BY <2>1, <3>2, <4>2 DEF IInv, OneFlight
    <3> QED
      BY <3>1, <3>2
  <2>8. kc' = kc \/ kc' = rf[k].got
    OBVIOUS
  <2>9. Stored' = Stored \/ Stored' = rf[k].got
    BY <1>2, <2>8 DEF Stored
  <2>10. (ForCause => Cause(Stored)) /\ Stored.s # epoch + 1
    BY Held DEF ForCause
  <2>11. (kc' = NoToken => kc = NoToken) /\ (Shut' => Shut)
    BY <2>2, <2>5, <2>8 DEF Shut
  <2>12. Taken
    BY <1>2, <2>2, <2>9 DEF Taken
  <2>13. PICK u : u = Stored'
    OBVIOUS
  <2>14. PICK n : n = ending'.tok
    OBVIOUS
  <2>15. epoch' = epoch /\ asked \subseteq asked' /\ alive' \subseteq alive /\ mem' = mem
    BY <1>2
  <2>16. ~IsEnding(epoch)'
    BY <2>5
  <2> QED
    BY <1>3, <2>3, <2>4, <2>5, <2>6, <2>7, <2>9, <2>10, <2>11, <2>12, <2>13, <2>14, <2>15, <2>16, StepKeepsCause
<1> QED
  BY <1>1, <1>3 DEF Kept

\* A refresh writes the refresh token.
LEMMA RefreshWritesKeeps ==
    ASSUME IInv, NEW k \in Epochs, NEW ok \in BOOLEAN, RefreshWrites(k, ok)
    PROVE  Kept
<1>1. rf[k].pc = "access" /\ ~Since(rf[k].e) /\ ~IsEnding(rf[k].e) /\ TypeOK /\ left \in Nat
  BY DEF IInv, RefreshWrites, TypeOK
<1> DEFINE res == IF ok THEN "ok" ELSE "failed"
<1>2. RunMoves(k, "refresh", rf[k].e, rf[k].got, res)
  <2>1. rf' = [rf EXCEPT ![k] = [rf[k] EXCEPT !.pc = "refresh", !.res = res]]
    BY DEF RefreshWrites
  <2>2. "refresh" \in Pcs /\ res \in Results
    BY DEF Pcs, Results
  <2> QED
    BY <1>1, <2>1, <2>2, RunFields, RunMovesEffect
<1>3. kc' = IF res = "ok" THEN rf[k].got ELSE kc
  BY DEF RefreshWrites
<1>4. UNCHANGED <<server, asked, mem, counts, ending, unsaved, status, inFlight, leaving, sign, en, req, rs,
        sv>> /\ Calls(ok)
  BY DEF RefreshWrites
<1>5. rf[k].e = epoch
  BY <1>1 DEF Since
<1> QED
  BY <1>1, <1>2, <1>3, <1>4, <1>5, CallsLeft, WriteKeeps

\* The writes of a refresh landed after a sign in began: the sign in has the last word.
LEMMA SinceDoneKeepsInv ==
    ASSUME IInv, NEW k \in Epochs, Finish(k, "ok", NoToken), Since(rf[k].e),
           rf[k].pc \in {"access", "refresh"},
           IF rf[k].res = "failed" THEN unsaved' = rf[k].got ELSE unsaved' = unsaved,
           (rf[k].pc = "access" \/ unsaved # NoToken) /\ rf[k].res = "ok" => rf[k].tok.s \in dropped',
           dropped' \in {dropped, dropped \cup {rf[k].tok.s}}, dropped' \in SUBSET Epochs,
           UNCHANGED <<asked, alive, gen, reused, excused, mem, counts, ending, status, leaving,
             kc, sign, en, sv, left>>
    PROVE  IInv'
<1>0. /\ rf[k].got \in Token /\ rf[k].got.s = rf[k].tok.s /\ rf[k].got # NoToken /\ rf[k].tok # NoToken /\ TypeOK
      /\ Got(k) /\ Busy(k) /\ k \in Landing /\ rf[k].res \in {"ok", "failed"}
  <2>1. TypeOK /\ rf[k] \in Run /\ RunsTyped
    BY Types DEF IInv, TypeOK
  <2>2. Got(k) /\ Busy(k) /\ k \in Landing
    BY DEF Got, Busy, Landing
  <2>3. rf[k].tok # NoToken /\ rf[k].got.s = rf[k].tok.s
    BY <2>2 DEF IInv, GotNext, RunTok, Got
  <2> QED
    BY <2>1, <2>2, <2>3, TokenFacts DEF IInv, RunsTyped, Typed, Run, RunsKnown, Known, RunPcs
<1>1. TypeOK' /\ RunOver(k, "ok", NoToken)
  <2>1. RunOver(k, "ok", NoToken) /\ rf' \in [Epochs -> Run] /\ inFlight' \in Count /\
          req' \in [Slots -> Run] /\ rs' \in Run
    BY <1>0, FinishEffect, TokenFacts DEF Results
  <2> QED
    BY <1>0, <2>1, TokenFacts DEF TypeOK, counts
<1>2. /\ UNCHANGED <<alive, gen, excused, mem, epoch, inPlace, writing, ending, status, leaving, kc, sign, en, sv>>
      /\ \A s \in Epochs : s \notin dropped' => s \notin dropped
  BY <1>0 DEF counts
<1>3. /\ rf'[k].pc = "none" /\ rf'[k].tok = NoToken /\ rf'[k].got = NoToken
      /\ \A l \in Epochs : l # k => rf'[l] = rf[l]
      /\ IF inFlight = k THEN inFlight' = None ELSE inFlight' = inFlight
  BY <1>1 DEF RunOver
<1>4. /\ \A x \in Slots : Hears(req[x], req'[x], k, "ok", NoToken)
      /\ Hears(rs, rs', k, "ok", NoToken)
  BY <1>1 DEF RunOver
<1>t. /\ CountsTyped /\ TokensTyped /\ RunsTyped /\ ReqsTyped
      /\ CountsTyped' /\ TokensTyped' /\ RunsTyped' /\ ReqsTyped'
  BY <1>1, Types DEF IInv
<1>5. NoToken.s = None /\ NoToken.g = 0 /\ NoToken \in Token /\
        \A s \in alive : s \notin dropped' => s \notin dropped
  BY <1>2, <1>t, TokenFacts DEF CountsTyped
<1>6. /\ writing # None /\ ~RsOn /\ (\A x \in Slots : ~Act(x)) /\ Cur = Stored /\ Cur' = Stored'
      /\ (\A x \in Ends : EnAct(x) => x[1] = "log" /\ en[x].pc = "waits") /\ InP(k) /\ ~Dead
      /\ \A l \in Epochs : ~InP(l)' /\ (InP(l) => l = k)
  <2>1. writing # None /\ InP(k)
    BY <1>0 DEF IInv, Writers, InP
  <2>2. ~RsOn /\ (\A x \in Slots : ~Act(x)) /\ (\A x \in Ends : EnAct(x) => x[1] = "log" /\ en[x].pc = "waits")
    BY <2>1 DEF IInv, RsOut, ReqCount, EndsWait
  <2>3. Cur = Stored /\ Cur' = Stored'
    BY <1>2, <2>1 DEF IInv, EndsInSign, Cur, Rotated, IsEnding
  <2>4. \A l \in Epochs : ~InP(l)' /\ (InP(l) => l = k)
    BY <1>2, <1>3, <2>1 DEF IInv, OneFlight, InP, Busy
  <2>5. ~Dead
    BY <2>1, <1>0 DEF Dead, DeadRun
  <2> QED
    BY <2>1, <2>2, <2>3, <2>4, <2>5
<1>7. /\ (\A x \in Slots : ~Act(x)') /\ ~RsOn'
      /\ Stored' = Stored \/ (Stored' = rf[k].got /\ unsaved' = rf[k].got /\ rf[k].res = "failed")
      /\ unsaved' = unsaved \/ unsaved' = rf[k].got
  <2>1. \A x \in Slots : ~Act(x)'
    BY <1>2, <1>4, <1>6 DEF Act, Since, Hears
  <2>2. ~RsOn'
    BY <1>2, <1>4, <1>6 DEF RsOn, Since, Hears
  <2> QED
    BY <2>1, <2>2, <1>0, <1>2 DEF Stored
<1>100. Counts' /\ EndsCount' /\ EndsWait' /\ SaveOther' /\ ClearedNow'
  BY <1>2 DEF IInv, Counts, EndsCount, EndsWait, EnAct, Since, IsEnding, SaveOther, ClearedNow
<1>101. EndsInSign' /\ EnPcs'
  BY <1>2 DEF IInv, EndsInSign, IsEnding, Auth, EnAct, Since, EnPcs
<1>102. Unborn'
  BY <1>t, <1>0, <1>2, <1>3, <1>5, <1>6, <1>7 DEF IInv, Unborn, Busy, CountsTyped, Counted
<1>103. RunsCount'
  BY <1>t, <1>0, <1>2, <1>3, <1>5, <1>6, <1>7 DEF IInv, RunsCount, Busy, CountsTyped, Counted, RunsTyped, Typed
<1>104. OneFlight'
  BY <1>t, <1>0, <1>2, <1>3, <1>5, <1>6, <1>7 DEF IInv, OneFlight, InP, Busy, CountsTyped, Counted
<1>105. FlightBusy'
  BY <1>t, <1>0, <1>2, <1>3, <1>5, <1>6, <1>7 DEF IInv, FlightBusy, Busy, CountsTyped, Counted
<1>106. TokensKnown'
  BY <1>t, <1>0, <1>2, <1>3, <1>5, <1>6, <1>7 DEF IInv, TokensKnown, Known, RunsKnown, CountsTyped, Counted,
      TokensTyped, Typed
<1>107. RunsKnown'
  BY <1>t, <1>0, <1>2, <1>3, <1>5, <1>6, <1>7 DEF IInv, RunsKnown, Known, CountsTyped, Counted, RunsTyped, Typed
<1>108. Fresh'
  BY <1>t, <1>0, <1>2, <1>3, <1>5, <1>6, <1>7 DEF IInv, Fresh, CountsTyped, Counted, RunsTyped, Typed, TokensTyped
<1>109. RunTok'
  BY <1>t, <1>0, <1>2, <1>3, <1>5, <1>6, <1>7 DEF IInv, RunTok, Busy, CountsTyped, Counted, RunsTyped, Typed
<1>110. GotNext'
  BY <1>t, <1>0, <1>2, <1>3, <1>5, <1>6, <1>7 DEF IInv, GotNext, Got, CountsTyped, Counted, RunsTyped, Typed
<1>111. Writers'
  BY <1>t, <1>0, <1>2, <1>3, <1>5, <1>6, <1>7 DEF IInv, Writers, Landing, Since, CountsTyped, Counted
<1>112. Above'
  BY <1>t, <1>0, <1>2, <1>3, <1>5, <1>6, <1>7 DEF IInv, Above, Busy, InP, IsEnding, CountsTyped, Counted,
      RunsTyped, Typed, TokensTyped
<1>113. Apart'
  BY <1>t, <1>0, <1>2, <1>3, <1>5, <1>6, <1>7 DEF IInv, Apart, Busy, CountsTyped, Counted, RunsTyped, Typed
<1>114. GotNewest'
  BY <1>t, <1>0, <1>2, <1>3, <1>5, <1>6, <1>7 DEF IInv, GotNewest, Got, Good, CountsTyped, Counted, RunsTyped, Typed
<1>115. AskedNewest'
  BY <1>t, <1>0, <1>2, <1>3, <1>5, <1>6, <1>7 DEF IInv, AskedNewest, Good, Since, CountsTyped, Counted,
      RunsTyped, Typed
<1>116. CurNewest'
  <2>1. SUFFICES ASSUME Cur' # NoToken, Good(Cur.s)', Cur'.g # gen'[Cur'.s]
                 PROVE  FALSE
    BY DEF CurNewest
  <2>2. CASE Stored' = Stored /\ rf[k].res = "ok"
    <3>1. PICK l \in Epochs : InP(l) /\ Got(l) /\ rf[l].pc # "moved" /\ rf[l].tok.s = Cur.s
      <4>1. Good(Cur.s)
        BY <2>1, <2>2, <1>2, <1>5, <1>6 DEF Good
      <4> QED
        BY <2>1, <2>2, <4>1, <1>2, <1>6 DEF IInv, CurNewest
    <3>2. l = k /\ rf[k].tok.s \notin dropped'
      BY <3>1, <2>1, <2>2, <1>6 DEF Good
    <3>3. rf[k].pc = "refresh" /\ unsaved = NoToken
      BY <3>2, <2>2
    <3>4. Cur = rf[k].got
      BY <3>3, <2>1, <2>2, <1>6 DEF IInv, KcWritten, Stored
    <3>5. Good(rf[k].tok.s)
      BY <3>4, <2>1, <2>2, <1>0, <1>2, <1>5, <1>6 DEF Good
    <3>6. rf[k].got.g = gen[rf[k].tok.s]
      BY <3>5, <1>0 DEF IInv, GotNewest
    <3>7. Cur' = rf[k].got
      BY <3>4, <2>2, <1>6
    <3> QED
      BY <3>6, <3>7, <2>1, <1>0, <1>2
  <2>3. CASE Stored' = rf[k].got /\ rf[k].res = "failed"
    BY <2>1, <2>3, <1>0, <1>2, <1>5, <1>6 DEF IInv, GotNewest, Good
  <2> QED
    BY <2>2, <2>3, <1>0, <1>7 DEF Stored
<1>117. GotUnshared'
  BY <1>t, <1>0, <1>2, <1>3, <1>5, <1>6, <1>7 DEF IInv, GotUnshared, Got, Apart, Busy, GotNext, RunTok,
      CountsTyped, Counted, RunsTyped, Typed, TokensTyped
<1>118. KcWritten'
  BY <1>t, <1>0, <1>2, <1>3, <1>5, <1>6, <1>7 DEF IInv, KcWritten, CountsTyped, Counted, RunsTyped, Typed,
      TokensTyped
<1>119. UnsavedOwn'
  BY <1>t, <1>0, <1>2, <1>3, <1>5, <1>6, <1>7 DEF IInv, UnsavedOwn, InP, Busy, CountsTyped, Counted, RunsTyped,
      Typed, TokensTyped
<1>120. EndNotKept'
  BY <1>t, <1>0, <1>2, <1>3, <1>5, <1>6, <1>7 DEF IInv, EndNotKept, InP, Busy, Since, IsEnding, CountsTyped, Counted
<1>121. SaveLands'
  <2>1. SUFFICES ASSUME (sv.pc # "none" /\ sv.res = "ok" /\ unsaved = sv.tok)'
                 PROVE  (/\ kc.s \in {None, unsaved.s}
                         /\ kc = NoToken \/ kc = sv.tok \/ (~Good(kc.s) /\ writing # None))'
    BY DEF SaveLands
  <2>2. unsaved' = unsaved /\ rf[k].res = "ok" /\ sv.tok # NoToken
    BY <2>1, <1>0, <1>2, <1>7 DEF IInv, GotUnshared, Writers
  <2>3. rf[k].tok.s \in dropped'
    BY <2>1, <2>2, <1>2
  <2>4. CASE \E l \in Epochs : InP(l) /\ rf[l].pc = "refresh" /\ rf[l].res = "ok" /\ kc = rf[l].got
    <3>1. kc.s = rf[k].tok.s
      BY <2>4, <1>0, <1>6
    <3>2. kc.s \in {None, unsaved.s}
      BY <2>1, <2>2, <1>2 DEF IInv, SaveLands
    <3> QED
      BY <3>1, <3>2, <2>2, <2>3, <1>2, <1>6 DEF Good
  <2>5. ~Good(kc.s) => ~Good(kc.s)'
    BY <1>2, <1>5 DEF Good
  <2>6. Rotated(epoch) = NoToken
    BY <1>6 DEF IInv, Rotated, EndsInSign
  <2> QED
    BY <2>1, <2>2, <2>4, <2>5, <2>6, <1>2 DEF IInv, SaveLands
<1>122. RunIsCur'
  BY <1>t, <1>0, <1>2, <1>3, <1>5, <1>6, <1>7 DEF IInv, RunIsCur, InP, Busy, Cur, Rotated, IsEnding, Stored,
      Good, CountsTyped, Counted, RunsTyped, Typed, TokensTyped
<1>123. MovedOff'
  BY <1>t, <1>0, <1>2, <1>3, <1>5, <1>6, <1>7 DEF IInv, MovedOff, InP, Busy, Stored, CountsTyped, Counted,
      TokensTyped, Typed
<1>124. NoTokRun'
  BY <1>t, <1>0, <1>2, <1>3, <1>5, <1>6, <1>7 DEF IInv, NoTokRun, InP, Busy, Cur, Rotated, IsEnding, Stored,
      CountsTyped, Counted, RunsTyped, Typed, TokensTyped
<1>125. Refused'
  BY <1>t, <1>0, <1>2, <1>3, <1>5, <1>6, <1>7 DEF IInv, Refused, InP, Busy, Gone, CountsTyped, Counted
<1>126. FailDead'
  BY <1>6, <1>2 DEF IInv, FailDead, EnAct, Since
<1>127. EndMarked'
  BY <1>t, <1>0, <1>2, <1>3, <1>5, <1>6, <1>7 DEF IInv, EndMarked, EnAct, Since, IsEnding, Dead, InP, Busy,
      DeadRun, Got, Gone, Stored, CountsTyped, Counted
<1>128. EndAfter'
  BY <1>t, <1>0, <1>2, <1>3, <1>5, <1>6, <1>7 DEF IInv, EndAfter, EnAct, Since, Landing, CountsTyped, Counted
<1>129. Cleared'
  BY <1>t, <1>0, <1>2, <1>3, <1>5, <1>6, <1>7 DEF IInv, Cleared, EnAct, Since, Dead, InP, Busy, DeadRun, Got,
      Gone, Stored, IsEnding, CountsTyped, Counted
<1>130. RsOut'
  BY <1>t, <1>2, <1>3, <1>4, <1>5, <1>6 DEF IInv, RsOut, RsOn, Since, Auth, CountsTyped, Counted, Hears
<1>131. StoredLater'
  BY <1>t, <1>0, <1>2, <1>3, <1>5, <1>6, <1>7 DEF IInv, StoredLater, Gone, Stored, Auth, IsEnding, LandLater,
      Landing, CountsTyped, Counted, TokensTyped, Typed
<1>132. RunLater'
  BY <1>t, <1>0, <1>2, <1>3, <1>5, <1>6, <1>7 DEF IInv, RunLater, InP, Busy, Gone, CountsTyped, Counted,
      RunsTyped, Typed
<1>133. LandLater'
  BY <1>t, <1>0, <1>2, <1>3, <1>5, <1>6, <1>7 DEF IInv, LandLater, Landing, Gone, Auth, IsEnding, CountsTyped,
      Counted, RunsTyped, Typed
<1>134. OldNoTok'
  BY <1>t, <1>0, <1>2, <1>3, <1>5, <1>6, <1>7 DEF IInv, OldNoTok, InP, Busy, IsEnding, CountsTyped, Counted,
      TokensTyped, Typed
<1>135. ReqPcs'
  BY <1>t, <1>2, <1>3, <1>4, <1>5, <1>6 DEF IInv, ReqPcs, CountsTyped, Counted, Hears
<1>136. ReqOf'
  BY <1>t, <1>2, <1>3, <1>4, <1>5, <1>6 DEF IInv, ReqOf, Auth, CountsTyped, Counted, ReqsTyped, Typed, Hears
<1>137. ReqCount'
  BY <1>t, <1>2, <1>3, <1>4, <1>5, <1>6 DEF IInv, ReqCount, Act, Since, CountsTyped, Counted, ReqsTyped, Typed,
      Hears
<1>138. RestoreWaits'
  BY <1>t, <1>2, <1>3, <1>4, <1>5, <1>6 DEF IInv, RestoreWaits, Busy, Since, CountsTyped, Counted, ReqsTyped,
      Typed, Hears
<1>139. ReqsWait'
  BY <1>t, <1>2, <1>3, <1>4, <1>5, <1>6 DEF IInv, ReqsWait, Busy, Since, CountsTyped, Counted, ReqsTyped, Typed,
      Hears
<1>140. Begun'
  BY <1>t, <1>2, <1>3, <1>4, <1>5, <1>6 DEF IInv, Begun, InP, Busy, Blocked, ByAny, CountsTyped, Counted,
      ReqsTyped, Typed, Hears
<1>141. PageBegun'
  BY <1>t, <1>2, <1>3, <1>4, <1>5, <1>6 DEF IInv, PageBegun, InP, Busy, Blocked, ByAny, Auth, CountsTyped,
      Counted, ReqsTyped, Typed, Hears
<1>142. LatePage'
  BY <1>7, SlotFacts DEF LatePage
<1>143. OldAlone'
  BY <1>t, <1>2, <1>3, <1>4, <1>5, <1>6 DEF IInv, OldAlone, InP, Busy, Gone, Auth, IsEnding, Act, Since, EnAct,
      RsOk, RsOn, CountsTyped, Counted, Hears
<1>144. OneInUse'
  <2>1. Using' => Using
    BY <1>2, <1>6, <1>7 DEF Using, Auth, RsOk, IsEnding
  <2>2. ASSUME NEW s \in Epochs, AllOf(s) PROVE AllOf(s)'
    <3>1. Of(Stored, s)'
      BY <2>2, <1>0, <1>6, <1>7 DEF AllOf, Of
    <3> QED
      BY <2>2, <3>1, <1>2, <1>6, <1>7 DEF AllOf, Of, IsEnding
  <2> QED
    BY <1>2, <2>1, <2>2 DEF IInv, OneInUse
<1>145. AfterEnd'
  BY <1>t, <1>0, <1>2, <1>3, <1>5, <1>6, <1>7 DEF IInv, AfterEnd, IsEnding, EnAct, Since, Auth, Landing,
      EndsInSign, CountsTyped, Counted, TokensTyped, Typed
<1>146. RunPcs'
  BY <1>t, <1>0, <1>2, <1>3, <1>5, <1>6, <1>7 DEF IInv, RunPcs, CountsTyped, Counted
<1>147. RsPcs'
  BY <1>t, <1>2, <1>3, <1>4, <1>5, <1>6 DEF IInv, RsPcs, CountsTyped, Counted, Hears
<1> QED
  BY <1>1, <1>100, <1>101, <1>102, <1>103, <1>104, <1>105, <1>106, <1>107, <1>108, <1>109, <1>110, <1>111,
      <1>112, <1>113, <1>114, <1>115, <1>116, <1>117, <1>118, <1>119, <1>120, <1>121, <1>122, <1>123,
      <1>124, <1>125, <1>126, <1>127, <1>128, <1>129, <1>130, <1>131, <1>132, <1>133, <1>134, <1>135,
      <1>136, <1>137, <1>138, <1>139, <1>140, <1>141, <1>142, <1>143, <1>144, <1>145, <1>146, <1>147 DEF
      IInv

\* New tokens written while a sign in writes are of the session that the phone has.
LEMMA SinceDoneKeeps ==
    ASSUME IInv, NEW k \in Epochs, Finish(k, "ok", NoToken), Since(rf[k].e),
           rf[k].pc \in {"access", "refresh"},
           IF rf[k].res = "failed" THEN unsaved' = rf[k].got ELSE unsaved' = unsaved,
           (rf[k].pc = "access" \/ unsaved # NoToken) /\ rf[k].res = "ok" => rf[k].tok.s \in dropped',
           dropped' \in {dropped, dropped \cup {rf[k].tok.s}}, dropped' \in SUBSET Epochs,
           UNCHANGED <<asked, alive, gen, reused, excused, mem, counts, ending, status, leaving, kc, sign, en, sv,
             left>>
    PROVE  Kept
<1>1. IInv'
  BY SinceDoneKeepsInv
<1>2. UNCHANGED <<alive, asked, mem, epoch, inPlace, writing, ending, status, kc, sign, en>>
  BY DEF counts
<1>3. ASSUME CauseInv PROVE CauseInv' /\ Taken
  <2>1. InP(k) /\ Got(k) /\ k \in Landing /\ writing # None /\ ~RsOn
    <3>1. k \in Landing
      BY DEF Landing
    <3> QED
      BY <3>1 DEF IInv, Writers, Landing, InP, Busy, Got, RsOut
  <2>2. rf[k].got.s = rf[k].tok.s /\ rf[k].got # NoToken
    BY <2>1, GotIsToken
  <2>3. ~Lost /\ (ForCause => Cause(rf[k].got)) /\ rf[k].got.s # epoch + 1
    BY <2>1, <2>2, Held DEF Lost, ForCause, Cause
  <2>4. RunOver(k, "ok", NoToken)
    BY FinishEffect, TokenFacts DEF IInv, Results
  <2>5. RunsStep
    BY <1>2, <2>4, RunsStayInPlace DEF RunOver
  <2>6. /\ (Placed' <=> Placed) /\ (Auth' <=> Auth) /\ (EnOn' <=> EnOn)
        /\ (IsEnding(epoch)' <=> IsEnding(epoch)) /\ (Shut' <=> Shut)
    BY <1>2 DEF Placed, Auth, Since, EnOn, EnAct, IsEnding, Shut
  <2>7. ~Mine' /\ ~RsOk'
    BY <1>2, <2>1, <2>4, HeardIsMine DEF Mine, RsOk
  <2>8. AskedNew'
    BY <1>2, <1>3, <2>6 DEF CauseInv, AskedNew
  <2>9. KcHasIt'
    <3> SUFFICES ASSUME NEW l \in Epochs, rf'[l].pc = "refresh", rf'[l].res = "ok", ~Since(rf[l].e)',
                        ~IsEnding(epoch)'
                 PROVE  kc' = rf'[l].got
      BY DEF KcHasIt
    <3>1. rf'[l] = rf[l]
      BY <2>4 DEF RunOver
    <3> QED
      BY <1>2, <1>3, <2>6, <3>1 DEF CauseInv, KcHasIt, Since
  <2>10. Stored' = Stored \/ Stored' = rf[k].got
    BY <1>2, <2>2 DEF Stored
  <2>11. (ForCause => Cause(Stored)) /\ Stored.s # epoch + 1
    BY Held DEF ForCause
  <2>12. Taken
    BY <1>2, <2>2, <2>10 DEF Taken
  <2>13. PICK u : u = Stored'
    OBVIOUS
  <2>14. PICK n : n = ending'.tok
    OBVIOUS
  <2>15. /\ epoch' = epoch /\ asked \subseteq asked' /\ alive' \subseteq alive
         /\ mem' = mem /\ kc' = kc /\ ending' = ending
    BY <1>2
  <2>16. Shut' /\ IsEnding(epoch)' => Cause(n)
    BY <1>3, <2>6, <2>14, <2>15 DEF CauseInv, ShutForCause
  <2> QED
    BY <1>3, <2>3, <2>5, <2>6, <2>7, <2>8, <2>9, <2>10, <2>11, <2>12, <2>13, <2>14, <2>15, <2>16, StepKeepsCause
<1> QED
  BY <1>1, <1>3 DEF Kept

\* The writes of a refresh landed: its tokens are the stored ones.
LEMMA DoneKeepsInv ==
    ASSUME IInv, NEW k \in Epochs, Finish(k, "ok", rf[k].got), ~Since(rf[k].e), ~IsEnding(epoch),
           rf[k].pc = "refresh" \/ (rf[k].pc = "access" /\ rf[k].res = "failed"),
           mem' = rf[k].got, unsaved' = IF rf[k].res = "failed" THEN rf[k].got ELSE NoToken,
           UNCHANGED <<asked, alive, gen, reused, excused, dropped, counts, ending, status, leaving, kc, sign, en, sv,
             left>>
    PROVE  IInv'
<1>0. /\ rf[k].got \in Token /\ rf[k].got.s = rf[k].tok.s /\ rf[k].got # NoToken /\ rf[k].tok # NoToken /\ TypeOK
      /\ Got(k) /\ Busy(k) /\ k \in Landing /\ rf[k].res \in {"ok", "failed"}
  <2>1. TypeOK /\ rf[k] \in Run /\ RunsTyped
    BY Types DEF IInv, TypeOK
  <2>2. Got(k) /\ Busy(k) /\ k \in Landing
    BY DEF Got, Busy, Landing
  <2>3. rf[k].tok # NoToken /\ rf[k].got.s = rf[k].tok.s
    BY <2>2 DEF IInv, GotNext, RunTok, Got
  <2> QED
    BY <2>1, <2>2, <2>3, TokenFacts DEF IInv, RunsTyped, Typed, Run, RunsKnown, Known, RunPcs
<1>1. TypeOK' /\ RunOver(k, "ok", rf[k].got)
  <2>1. RunOver(k, "ok", rf[k].got) /\ rf' \in [Epochs -> Run] /\ inFlight' \in Count /\
          req' \in [Slots -> Run] /\ rs' \in Run
    BY <1>0, FinishEffect, TokenFacts DEF Results
  <2> QED
    BY <1>0, <2>1, TokenFacts DEF TypeOK, counts
<1>2. UNCHANGED <<alive, gen, excused, dropped, epoch, inPlace, writing, ending, status, leaving, kc, sign, en, sv>>
  BY <1>0 DEF counts
<1>3. /\ rf'[k].pc = "none" /\ rf'[k].tok = NoToken /\ rf'[k].got = NoToken
      /\ \A l \in Epochs : l # k => rf'[l] = rf[l]
      /\ IF inFlight = k THEN inFlight' = None ELSE inFlight' = inFlight
  BY <1>1 DEF RunOver
<1>4. /\ \A x \in Slots : Hears(req[x], req'[x], k, "ok", rf[k].got)
      /\ Hears(rs, rs', k, "ok", rf[k].got)
  BY <1>1 DEF RunOver
<1>t. /\ CountsTyped /\ TokensTyped /\ RunsTyped /\ ReqsTyped
      /\ CountsTyped' /\ TokensTyped' /\ RunsTyped' /\ ReqsTyped'
  BY <1>1, Types DEF IInv
<1>5. NoToken.s = None /\ NoToken.g = 0 /\ NoToken \in Token
  BY TokenFacts
<1>6. /\ writing = None /\ Cur = Stored /\ Cur' = Stored' /\ InP(k) /\ ~Dead /\ rf[k].tok.s \in Epochs
      /\ \A x \in Ends : ~EnAct(x)
      /\ \A l \in Epochs : ~InP(l)' /\ (InP(l) => l = k)
  <2>1. writing = None /\ InP(k)
    BY <1>t, <1>0 DEF IInv, Writers, InP, RunsCount, Since, CountsTyped
  <2>3. Cur = Stored /\ Cur' = Stored'
    BY <1>2 DEF Cur, Rotated, IsEnding
  <2>4. \A l \in Epochs : ~InP(l)' /\ (InP(l) => l = k)
    BY <1>2, <1>3, <2>1 DEF IInv, OneFlight, InP, Busy
  <2>5. ~Dead
    BY <2>1, <1>0 DEF Dead, DeadRun
  <2>6. rf[k].tok.s \in Epochs
    BY <1>0, <1>t DEF IInv, RunsTyped, Typed, Counted, RunsKnown, Known
  <2> QED
    BY <2>1, <2>3, <2>4, <2>5, <2>6 DEF IInv, EndMarked
<1>7. /\ unsaved' \in {rf[k].got, NoToken} /\ Stored' \in {rf[k].got, NoToken} /\ mem' = rf[k].got
      /\ unsaved' = NoToken => rf[k].res = "ok"
  BY <1>0, <1>2 DEF IInv, Stored, KcWritten
<1>100. Counts' /\ EndsCount' /\ EndsWait' /\ SaveOther' /\ ClearedNow'
  BY <1>2 DEF IInv, Counts, EndsCount, EndsWait, EnAct, Since, IsEnding, SaveOther, ClearedNow
<1>101. EndsInSign' /\ EnPcs'
  BY <1>2 DEF IInv, EndsInSign, IsEnding, Auth, EnAct, Since, EnPcs
<1>102. Unborn'
  BY <1>t, <1>0, <1>2, <1>3, <1>5, <1>6, <1>7 DEF IInv, Unborn, Busy, CountsTyped, Counted
<1>103. RunsCount'
  BY <1>t, <1>0, <1>2, <1>3, <1>5, <1>6, <1>7 DEF IInv, RunsCount, Busy, CountsTyped, Counted, RunsTyped, Typed
<1>104. OneFlight'
  BY <1>t, <1>0, <1>2, <1>3, <1>5, <1>6, <1>7 DEF IInv, OneFlight, InP, Busy, CountsTyped, Counted
<1>105. FlightBusy'
  BY <1>t, <1>0, <1>2, <1>3, <1>5, <1>6, <1>7 DEF IInv, FlightBusy, Busy, CountsTyped, Counted
<1>106. TokensKnown'
  BY <1>t, <1>0, <1>2, <1>3, <1>5, <1>6, <1>7 DEF IInv, TokensKnown, Known, RunsKnown, CountsTyped, Counted,
      TokensTyped, Typed
<1>107. RunsKnown'
  BY <1>t, <1>0, <1>2, <1>3, <1>5, <1>6, <1>7 DEF IInv, RunsKnown, Known, CountsTyped, Counted, RunsTyped, Typed
<1>108. Fresh'
  BY <1>t, <1>0, <1>2, <1>3, <1>5, <1>6, <1>7 DEF IInv, Fresh, CountsTyped, Counted, RunsTyped, Typed, TokensTyped
<1>109. RunTok'
  BY <1>t, <1>0, <1>2, <1>3, <1>5, <1>6, <1>7 DEF IInv, RunTok, Busy, CountsTyped, Counted, RunsTyped, Typed
<1>110. GotNext'
  BY <1>t, <1>0, <1>2, <1>3, <1>5, <1>6, <1>7 DEF IInv, GotNext, Got, CountsTyped, Counted, RunsTyped, Typed
<1>111. Writers'
  BY <1>t, <1>0, <1>2, <1>3, <1>5, <1>6, <1>7 DEF IInv, Writers, Landing, Since, CountsTyped, Counted
<1>112. Above'
  BY <1>t, <1>0, <1>2, <1>3, <1>5, <1>6, <1>7 DEF IInv, Above, Busy, InP, IsEnding, CountsTyped, Counted,
      RunsTyped, Typed, TokensTyped
<1>113. Apart'
  BY <1>t, <1>0, <1>2, <1>3, <1>5, <1>6, <1>7 DEF IInv, Apart, Busy, CountsTyped, Counted, RunsTyped, Typed
<1>114. GotNewest'
  BY <1>t, <1>0, <1>2, <1>3, <1>5, <1>6, <1>7 DEF IInv, GotNewest, Got, Good, CountsTyped, Counted, RunsTyped, Typed
<1>115. AskedNewest'
  BY <1>t, <1>0, <1>2, <1>3, <1>5, <1>6, <1>7 DEF IInv, AskedNewest, Good, Since, CountsTyped, Counted,
      RunsTyped, Typed
<1>116. CurNewest'
  BY <1>t, <1>0, <1>2, <1>3, <1>5, <1>6, <1>7 DEF IInv, CurNewest, Cur, Rotated, IsEnding, Stored, Good, InP,
      Busy, Got, GotNewest, CountsTyped, Counted, RunsTyped, Typed, TokensTyped
<1>117. GotUnshared'
  BY <1>t, <1>0, <1>2, <1>3, <1>5, <1>6, <1>7 DEF IInv, GotUnshared, Got, Apart, Busy, GotNext, RunTok,
      CountsTyped, Counted, RunsTyped, Typed, TokensTyped
<1>118. KcWritten'
  BY <1>t, <1>0, <1>2, <1>3, <1>5, <1>6, <1>7 DEF IInv, KcWritten, CountsTyped, Counted, RunsTyped, Typed,
      TokensTyped
<1>119. UnsavedOwn'
  BY <1>t, <1>0, <1>2, <1>3, <1>5, <1>6, <1>7 DEF IInv, UnsavedOwn, InP, Busy, CountsTyped, Counted, RunsTyped,
      Typed, TokensTyped
<1>120. EndNotKept'
  BY <1>t, <1>0, <1>2, <1>3, <1>5, <1>6, <1>7 DEF IInv, EndNotKept, InP, Busy, Since, IsEnding, CountsTyped, Counted
<1>121. SaveLands'
  BY <1>t, <1>0, <1>2, <1>3, <1>5, <1>6, <1>7 DEF IInv, SaveLands, InP, Busy, Good, Rotated, IsEnding,
      GotUnshared, Got, Writers, Landing, Since, CountsTyped, Counted, RunsTyped, Typed, TokensTyped
<1>122. RunIsCur'
  BY <1>t, <1>0, <1>2, <1>3, <1>5, <1>6, <1>7 DEF IInv, RunIsCur, InP, Busy, Cur, Rotated, IsEnding, Stored,
      Good, CountsTyped, Counted, RunsTyped, Typed, TokensTyped
<1>123. MovedOff'
  BY <1>t, <1>0, <1>2, <1>3, <1>5, <1>6, <1>7 DEF IInv, MovedOff, InP, Busy, Stored, CountsTyped, Counted,
      TokensTyped, Typed
<1>124. NoTokRun'
  BY <1>t, <1>0, <1>2, <1>3, <1>5, <1>6, <1>7 DEF IInv, NoTokRun, InP, Busy, Cur, Rotated, IsEnding, Stored,
      CountsTyped, Counted, RunsTyped, Typed, TokensTyped
<1>125. Refused'
  BY <1>t, <1>0, <1>2, <1>3, <1>5, <1>6, <1>7 DEF IInv, Refused, InP, Busy, Gone, CountsTyped, Counted
<1>126. FailDead'
  BY <1>t, <1>0, <1>2, <1>3, <1>5, <1>6, <1>7 DEF IInv, FailDead, EnAct, Since, Dead, InP, Busy, DeadRun, Got,
      Gone, Stored, IsEnding, CountsTyped, Counted
<1>127. EndMarked'
  BY <1>t, <1>0, <1>2, <1>3, <1>5, <1>6, <1>7 DEF IInv, EndMarked, EnAct, Since, IsEnding, Dead, InP, Busy,
      DeadRun, Got, Gone, Stored, CountsTyped, Counted
<1>128. EndAfter'
  BY <1>t, <1>0, <1>2, <1>3, <1>5, <1>6, <1>7 DEF IInv, EndAfter, EnAct, Since, Landing, CountsTyped, Counted
<1>129. Cleared'
  BY <1>t, <1>0, <1>2, <1>3, <1>5, <1>6, <1>7 DEF IInv, Cleared, EnAct, Since, Dead, InP, Busy, DeadRun, Got,
      Gone, Stored, IsEnding, CountsTyped, Counted
<1>130. RsOut'
  BY <1>t, <1>2, <1>3, <1>4, <1>5, <1>6 DEF IInv, RsOut, RsOn, Since, Auth, CountsTyped, Counted, Hears
<1>131. StoredLater'
  BY <1>t, <1>0, <1>2, <1>3, <1>5, <1>6, <1>7 DEF IInv, StoredLater, Gone, Stored, Auth, IsEnding, LandLater,
      Landing, CountsTyped, Counted, TokensTyped, Typed
<1>132. RunLater'
  BY <1>t, <1>0, <1>2, <1>3, <1>5, <1>6, <1>7 DEF IInv, RunLater, InP, Busy, Gone, CountsTyped, Counted,
      RunsTyped, Typed
<1>133. LandLater'
  BY <1>t, <1>0, <1>2, <1>3, <1>5, <1>6, <1>7 DEF IInv, LandLater, Landing, Gone, Auth, IsEnding, CountsTyped,
      Counted, RunsTyped, Typed
<1>134. OldNoTok'
  BY <1>t, <1>0, <1>2, <1>3, <1>5, <1>6, <1>7 DEF IInv, OldNoTok, InP, Busy, IsEnding, CountsTyped, Counted,
      TokensTyped, Typed
<1>135. ReqPcs'
  BY <1>t, <1>2, <1>3, <1>4, <1>5, <1>6 DEF IInv, ReqPcs, CountsTyped, Counted, Hears
<1>136. ReqOf'
  BY <1>t, <1>2, <1>3, <1>4, <1>5, <1>6 DEF IInv, ReqOf, Auth, CountsTyped, Counted, ReqsTyped, Typed, Hears
<1>137. ReqCount'
  BY <1>t, <1>2, <1>3, <1>4, <1>5, <1>6 DEF IInv, ReqCount, Act, Since, CountsTyped, Counted, ReqsTyped, Typed,
      Hears
<1>138. RestoreWaits'
  BY <1>t, <1>2, <1>3, <1>4, <1>5, <1>6 DEF IInv, RestoreWaits, Busy, Since, CountsTyped, Counted, ReqsTyped,
      Typed, Hears
<1>139. ReqsWait'
  BY <1>t, <1>2, <1>3, <1>4, <1>5, <1>6 DEF IInv, ReqsWait, Busy, Since, CountsTyped, Counted, ReqsTyped, Typed,
      Hears
<1>140. Begun'
  BY <1>t, <1>2, <1>3, <1>4, <1>5, <1>6 DEF IInv, Begun, InP, Busy, Blocked, ByAny, CountsTyped, Counted,
      ReqsTyped, Typed, Hears
<1>141. PageBegun'
  BY <1>t, <1>2, <1>3, <1>4, <1>5, <1>6 DEF IInv, PageBegun, InP, Busy, Blocked, ByAny, Auth, CountsTyped,
      Counted, ReqsTyped, Typed, Hears
<1>142. LatePage'
  <2>1. SUFFICES ASSUME Act(Any)', ~Auth' PROVE FALSE
    BY DEF LatePage
  <2>2. Act(Any) /\ ~Auth
    BY <2>1, <1>t, <1>2, <1>4 DEF Act, Since, Hears, ReqsTyped, Auth
  <2> QED
    BY <2>2, <1>6 DEF IInv, LatePage, LateEnded
<1>143. OldAlone'
  BY <1>t, <1>2, <1>3, <1>4, <1>5, <1>6 DEF IInv, OldAlone, InP, Busy, Gone, Auth, IsEnding, Act, Since, EnAct,
      RsOk, RsOn, CountsTyped, Counted, Hears
<1>144. OneInUse'
  <2>0. PICK s0 \in Epochs : s0 = rf[k].tok.s
    BY <1>6
  <2>1. SUFFICES ASSUME Using' PROVE AllOf(s0)'
    BY <1>6 DEF OneInUse
  <2>2. ~IsEnding(epoch)' /\ Of(mem, s0)' /\ Of(Stored, s0)'
    BY <2>0, <1>0, <1>2, <1>5, <1>7 DEF IsEnding, Of
  <2>3. ASSUME NEW x \in Slots, Act(x)' PROVE (req'[x].pc = "sent" => Of(req[x].tok, s0)') /\
                 (req'[x].pc = "got" => Of(req[x].got, s0)')
    <3>1. Act(x)
      BY <2>3, <1>t, <1>2, <1>4 DEF Act, Since, Hears, ReqsTyped
    <3>2. Auth \/ RsOk
      <4>1. CASE x = Any
        BY <4>1, <3>1, <1>6 DEF IInv, LatePage, LateEnded
      <4>2. CASE x = Me
        BY <4>2, <3>1, <1>2 DEF IInv, ReqOf, RsOk, RsOn, Act, Since
      <4>3. CASE x \in Ends
        BY <4>3, <3>1, <1>6 DEF IInv, ReqOf, Act, EnAct, Since, EndsCount
      <4> QED
        BY <4>1, <4>2, <4>3, SlotFacts
    <3>3. PICK s \in Epochs : AllOf(s)
      BY <3>2, <1>6 DEF IInv, OneInUse, Using, Counts
    <3>4. s = s0
      BY <2>0, <3>3, <1>6, <1>t DEF AllOf, Of, CountsTyped
    <3> QED
      BY <2>0, <3>1, <3>3, <3>4, <1>0, <1>4 DEF AllOf, Hears, Of
  <2> QED
    BY <2>2, <2>3, <1>6 DEF AllOf
<1>145. AfterEnd'
  BY <1>t, <1>0, <1>2, <1>3, <1>5, <1>6, <1>7 DEF IInv, AfterEnd, IsEnding, EnAct, Since, Auth, Landing,
      CountsTyped, Counted, TokensTyped, Typed
<1>146. RunPcs'
  BY <1>t, <1>0, <1>2, <1>3, <1>5, <1>6, <1>7 DEF IInv, RunPcs, CountsTyped, Counted
<1>147. RsPcs'
  BY <1>t, <1>2, <1>3, <1>4, <1>5, <1>6 DEF IInv, RsPcs, CountsTyped, Counted, Hears
<1> QED
  BY <1>1, <1>100, <1>101, <1>102, <1>103, <1>104, <1>105, <1>106, <1>107, <1>108, <1>109, <1>110, <1>111,
      <1>112, <1>113, <1>114, <1>115, <1>116, <1>117, <1>118, <1>119, <1>120, <1>121, <1>122, <1>123,
      <1>124, <1>125, <1>126, <1>127, <1>128, <1>129, <1>130, <1>131, <1>132, <1>133, <1>134, <1>135,
      <1>136, <1>137, <1>138, <1>139, <1>140, <1>141, <1>142, <1>143, <1>144, <1>145, <1>146, <1>147 DEF
      IInv

\* New tokens take the place of old ones of their session: nothing is taken away.
LEMMA DoneKeeps ==
    ASSUME IInv, NEW k \in Epochs, Finish(k, "ok", rf[k].got), ~Since(rf[k].e), ~IsEnding(epoch),
           rf[k].pc = "refresh" \/ (rf[k].pc = "access" /\ rf[k].res = "failed"),
           mem' = rf[k].got, unsaved' = IF rf[k].res = "failed" THEN rf[k].got ELSE NoToken,
           UNCHANGED <<asked, alive, gen, reused, excused, dropped, counts, ending, status, leaving, kc, sign, en,
             sv, left>>
    PROVE  Kept
<1>1. IInv'
  BY DoneKeepsInv
<1>2. UNCHANGED <<alive, asked, epoch, inPlace, writing, ending, status, kc, sign, en>>
  BY DEF counts
<1>3. ASSUME CauseInv PROVE CauseInv' /\ Taken
  <2>1. InP(k) /\ Got(k) /\ (rf[k].res = "failed" \/ rf[k].res = "ok")
    BY DEF IInv, Writers, Landing, InP, Busy, Got, RunPcs
  <2>2. rf[k].got.s = rf[k].tok.s /\ rf[k].got # NoToken /\ rf[k].got \in Token
    BY <2>1, GotIsToken
  <2>3. ~Lost /\ (ForCause => Cause(rf[k].got)) /\ rf[k].got.s # epoch + 1
    BY <2>1, <2>2, Held DEF Lost, ForCause, Cause
  <2>4. RunOver(k, "ok", rf[k].got)
    BY <2>2, FinishEffect DEF IInv, Results
  <2>5. RunsStep
    BY <1>2, <2>4, RunsStayInPlace DEF RunOver
  <2>6. /\ (Placed' <=> Placed) /\ (Auth' <=> Auth) /\ (EnOn' <=> EnOn)
        /\ ~IsEnding(epoch)' /\ (Shut' <=> Shut)
    BY <1>2 DEF Placed, Auth, Since, EnOn, EnAct, IsEnding, Shut
  <2>7. AskedNew'
    BY <1>2, <1>3, <2>6 DEF CauseInv, AskedNew
  <2>8. KcHasIt'
    <3> SUFFICES ASSUME NEW l \in Epochs, rf'[l].pc = "refresh", rf'[l].res = "ok", ~Since(rf[l].e)'
                 PROVE  kc' = rf'[l].got
      BY DEF KcHasIt
    <3>1. rf'[l] = rf[l]
      BY <2>4 DEF RunOver
    <3> QED
      BY <1>2, <1>3, <3>1 DEF CauseInv, KcHasIt, Since
  <2>9. Stored' = rf[k].got
    <3>1. CASE rf[k].res = "failed"
      BY <2>2, <3>1 DEF Stored
    <3>2. CASE rf[k].res = "ok"
      BY <1>2, <1>3, <3>2 DEF Stored, CauseInv, KcHasIt
    <3> QED
      BY <2>1, <3>1, <3>2
  <2>10. ~EnOn
    <3>1. ~Dead
      BY <2>1 DEF Dead, DeadRun
    <3> QED
      BY <3>1 DEF EnOn, IInv, EndMarked
  <2>11. Shut => Cause(rf[k].got)
    BY <1>3, <2>3 DEF CauseInv, ShutForCause
  <2>12. Placed /\ kc = NoToken => Shut
    BY DEF Shut
  <2>13. Taken
    BY <2>2, <2>9 DEF Taken
  <2>14. PICK u : u = Stored'
    OBVIOUS
  <2>15. PICK n : n = ending'.tok
    OBVIOUS
  <2>16. PICK m : m = mem'
    OBVIOUS
  <2>17. /\ epoch' = epoch /\ asked \subseteq asked' /\ alive' \subseteq alive
         /\ kc' = kc /\ mem' # NoToken /\ m = rf[k].got
    BY <1>2, <2>2, <2>16
  <2> QED
    BY <1>3, <2>3, <2>5, <2>6, <2>7, <2>8, <2>9, <2>10, <2>11, <2>12, <2>13, <2>14, <2>15, <2>16, <2>17,
       StepKeepsCause
<1> QED
  BY <1>1, <1>3 DEF Kept

\* The writes of a refresh have landed.
LEMMA RefreshDoneKeeps ==
    ASSUME IInv, NEW k \in Epochs, RefreshDone(k)
    PROVE  Kept
<1>1. /\ rf[k].pc \in {"access", "refresh"} /\ rf[k].e <= epoch /\ dropped \in SUBSET Epochs /\
           rf[k].res \in {"ok", "failed"}
      /\ CountsTyped /\ Got(k) /\ TypeOK /\ InP(k) /\ k \in Landing /\ (writing # None => rf[k].e < epoch)
      /\ rf[k].tok.s \in Epochs
  <2>1. /\ rf[k].pc \in {"access", "refresh"} /\ rf[k].e <= epoch /\ dropped \in SUBSET Epochs /\
             rf[k].res \in {"ok", "failed"}
        /\ CountsTyped /\ Got(k) /\ TypeOK /\ InP(k) /\ k \in Landing /\ (writing # None => rf[k].e < epoch)
        /\ RunsTyped /\ rf[k].tok # NoToken
    BY Types DEF IInv, RefreshDone, RunsCount, Busy, TypeOK, Got, RunPcs, InP, Writers, Landing, RunTok
  <2>2. Typed(rf[k].tok) /\ Known(rf[k].tok)
    BY <2>1 DEF IInv, RunsKnown, RunsTyped
  <2> QED
    BY <2>1, <2>2 DEF Typed, Known, Counted, CountsTyped
<1>2. /\ UNCHANGED <<alive, gen, reused, excused, asked, counts, status, leaving, kc, sign, en, sv, left>>
      /\ unsaved' = CASE rf[k].res = "failed" -> rf[k].got
                      [] rf[k].res = "ok" /\ ~Since(rf[k].e) /\ ~IsEnding(rf[k].e) -> NoToken
                      [] OTHER -> unsaved
      /\ dropped' = IF Since(rf[k].e) /\ rf[k].res = "ok" /\ (rf[k].pc = "access" \/ unsaved # NoToken)
                    THEN dropped \cup {rf[k].tok.s} ELSE dropped
      /\ rf[k].pc = "access" => rf[k].res = "failed" \/ Since(rf[k].e) \/ IsEnding(rf[k].e)
  BY DEF RefreshDone
<1>3. CASE Since(rf[k].e)
  <2>1. Finish(k, "ok", NoToken) /\ UNCHANGED <<ending, mem>>
    BY <1>3 DEF RefreshDone
  <2>2. IF rf[k].res = "failed" THEN unsaved' = rf[k].got ELSE unsaved' = unsaved
    BY <1>1, <1>2, <1>3
  <2>3. /\ (rf[k].pc = "access" \/ unsaved # NoToken) /\ rf[k].res = "ok" => rf[k].tok.s \in dropped'
        /\ dropped' \in {dropped, dropped \cup {rf[k].tok.s}} /\ dropped' \in SUBSET Epochs
    BY <1>1, <1>2, <1>3
  <2> QED
    BY <1>1, <1>2, <1>3, <2>1, <2>2, <2>3, SinceDoneKeeps
<1>4. CASE ~Since(rf[k].e) /\ IsEnding(rf[k].e)
  <2>1. KeepForLogOut(k, rf[k].got) /\ UNCHANGED mem
    BY <1>4 DEF RefreshDone
  <2>2. rf[k].e = epoch /\ writing = None /\ dropped' = dropped
    BY <1>1, <1>2, <1>4 DEF Since, CountsTyped
  <2>3. unsaved' = unsaved \/ unsaved' = rf[k].got
    BY <1>1, <1>2, <1>4
  <2> QED
    BY <1>1, <1>2, <1>4, <2>1, <2>2, <2>3, KeepKeeps
<1>5. CASE ~Since(rf[k].e) /\ ~IsEnding(rf[k].e)
  <2>1. mem' = rf[k].got /\ Finish(k, "ok", rf[k].got) /\ UNCHANGED ending
    BY <1>5 DEF RefreshDone
  <2>2. rf[k].e = epoch /\ dropped' = dropped
    BY <1>1, <1>2, <1>5 DEF Since, CountsTyped
  <2>3. unsaved' = IF rf[k].res = "failed" THEN rf[k].got ELSE NoToken
    BY <1>1, <1>2, <1>5
  <2> QED
    BY <1>1, <1>2, <1>5, <2>1, <2>2, <2>3, DoneKeeps
<1> QED
  BY <1>3, <1>4, <1>5

(* ---- Sign ins --------------------------------------------------------- *)

\* A sign in begins: from here on nothing of the session before is the newest.
LEMMA SignInKeepsInv ==
    ASSUME IInv, SignIn
    PROVE  IInv'
<1>0. TypeOK /\ epoch + 1 \in Epochs /\ epoch \in Epochs /\ epoch \in Nat /\ epoch < epoch + 1 /\ epoch + 1 # None
  <2>1. TypeOK /\ epoch < MaxSignIns
    BY DEF IInv, SignIn
  <2> QED
    BY <2>1, EpochsAre, PhoneSessionBounds DEF TypeOK, Epochs
<1>1. TypeOK'
  <2>1. alive' \in SUBSET Epochs
    BY <1>0 DEF SignIn, TypeOK
  <2>2. sign' \in [Epochs -> Signs] /\ gen' \in [Epochs -> Nat]
    BY <1>0 DEF SignIn, TypeOK, Signs
  <2> QED
    BY <1>0, <2>1, <2>2, EpochsAre DEF TypeOK, SignIn, Count
<1>2. UNCHANGED <<excused, dropped, mem, inPlace, ending, unsaved, status, inFlight, kc, rf, en, req, rs, sv>>
  BY DEF SignIn
<1>3. /\ epoch' = epoch + 1 /\ writing' = epoch + 1 /\ leaving' = None
      /\ sign'[epoch + 1] = "landing" /\ gen'[epoch + 1] = 1
      /\ \A l \in Epochs : l # epoch + 1 => sign'[l] = sign[l] /\ gen'[l] = gen[l]
      /\ \A s \in alive' : s # epoch + 1 => s \in alive /\ ~Auth
      /\ Auth => writing = None
      /\ epoch + 1 \in alive'
  BY <1>0 DEF SignIn, TypeOK, Auth
<1>t. /\ CountsTyped /\ TokensTyped /\ RunsTyped /\ ReqsTyped
      /\ CountsTyped' /\ TokensTyped' /\ RunsTyped' /\ ReqsTyped'
  BY <1>1, Types DEF IInv
<1>4. NoToken.s = None /\ NoToken.g = 0 /\ None \notin alive /\ None \notin alive'
  BY <1>t, TokenFacts DEF CountsTyped
<1>5. /\ \A x \in Slots : ~Act(x)'
      /\ \A x \in Ends : ~EnAct(x)'
      /\ ~RsOn' /\ ~RsOk' /\ ~IsEnding(epoch)' /\ Cur' = Stored /\ Stored' = Stored
  <2>1. \A x \in Slots : ~Act(x)'
    BY <1>t, <1>0, <1>2, <1>3 DEF IInv, ReqCount, Act, Since, ReqsTyped, Counted, CountsTyped
  <2>2. \A x \in Ends : ~EnAct(x)'
    BY <1>t, <1>0, <1>2, <1>3 DEF IInv, EndsCount, EnAct, Since, ReqsTyped, Counted, CountsTyped
  <2>3. ~RsOn' /\ ~RsOk'
    BY <1>t, <1>0, <1>2, <1>3 DEF IInv, ReqCount, RsOn, RsOk, Since, ReqsTyped, Counted, CountsTyped
  <2>4. ~IsEnding(epoch)'
    BY <1>t, <1>0, <1>2, <1>3 DEF IInv, Counts, IsEnding, CountsTyped, Counted
  <2>5. Cur' = Stored /\ Stored' = Stored
    BY <2>4, <1>2 DEF Cur, Rotated, IsEnding, Stored
  <2> QED
    BY <2>1, <2>2, <2>3, <2>4, <2>5
<1>6. \A k \in Epochs : Busy(k) => /\ k <= epoch /\ k # epoch + 1 /\ rf[k].e # epoch + 1 /\ rf[k].e <= epoch
                                   /\ rf[k].tok.s # epoch + 1 /\ rf[k].tok.s <= epoch
  <2>1. ASSUME NEW k \in Epochs, Busy(k) PROVE k <= rf[k].e /\ rf[k].e <= epoch /\ rf[k].tok.s <= k
    BY <2>1 DEF IInv, RunsCount, RunTok
  <2>2. \A k \in Epochs : k \in Int /\ rf[k].e \in Int /\ rf[k].tok.s \in Int
    BY <1>t DEF RunsTyped, Typed, Counted, CountsTyped
  <2> QED
    BY <2>1, <2>2, <1>0
<1>7. /\ mem.s # epoch + 1 /\ kc.s # epoch + 1 /\ unsaved.s # epoch + 1 /\ ending.tok.s # epoch + 1 /\
           sv.tok.s # epoch + 1
      /\ Stored.s # epoch + 1 /\ \A k \in Epochs : rf[k].tok.s # epoch + 1 /\ rf[k].got.s # epoch + 1
  BY <1>t, <1>0 DEF IInv, TokensKnown, RunsKnown, Known, TokensTyped, RunsTyped, Typed, Counted, CountsTyped, Stored
<1>12. \A n : Counted(n) /\ n <= epoch => n \in Int /\ n < epoch' /\ n <= epoch' /\ n # epoch + 1
  <2>1. \A n \in Int : n <= epoch => n < epoch' /\ n <= epoch' /\ n # epoch + 1
    BY <1>0, <1>3
  <2>2. \A n : Counted(n) => n \in Int
    BY <1>t DEF Counted, CountsTyped
  <2> QED
    BY <2>1, <2>2
<1>11. ASSUME NEW t, Typed(t), Known(t)
       PROVE  Known(t)' /\ t.s # epoch + 1
  <2>1. t.s # None => t.s <= epoch /\ t.g >= 1 /\ t.g <= gen[t.s] /\ t.s \in Epochs /\ t.s # epoch + 1 /\
          t.s <= epoch'
    BY <1>11, <1>12 DEF Typed, Known, Counted
  <2> QED
    BY <2>1, <1>11, <1>3, <1>0 DEF Known
<1>8. \A s \in Epochs : s # epoch + 1 /\ Good(s)' => Good(s) /\ ~Auth /\ gen'[s] = gen[s]
  BY <1>2, <1>3 DEF Good
<1>9. IsEnding(epoch) /\ ~Auth => Gone(Stored)
  BY <1>t, <1>4 DEF IInv, StoredLater, TokensKnown, Known, Stored, IsEnding, Gone, TokensTyped, Typed, Counted,
      CountsTyped
<1>10. Good(Stored.s)' => ~Auth /\ ~IsEnding(epoch) /\ Cur = Stored /\ Good(Stored.s) /\ Stored.s \in Epochs /\
         gen'[Stored.s] = gen[Stored.s]
  BY <1>t, <1>2, <1>3, <1>4, <1>5, <1>7, <1>8, <1>9 DEF Good, Gone, Cur, Rotated, CountsTyped
<1>100. OneFlight' /\ FlightBusy' /\ RunTok' /\ GotNext' /\ Apart'
  BY <1>2 DEF IInv, OneFlight, InP, Busy, FlightBusy, RunTok, GotNext, Got, Apart
<1>101. GotUnshared' /\ KcWritten' /\ UnsavedOwn' /\ ReqPcs' /\ Begun'
  BY <1>2 DEF IInv, GotUnshared, Got, KcWritten, UnsavedOwn, InP, Busy, ReqPcs, Begun, Blocked, ByAny
<1>102. PageBegun' /\ RunPcs' /\ EnPcs' /\ RsPcs'
  BY <1>2 DEF IInv, PageBegun, InP, Busy, Blocked, ByAny, Auth, RunPcs, EnPcs, RsPcs
<1>103. Counts'
  <2>1. en'[<<"log", epoch + 1>>].pc = "none"
        <3> DEFINE x == <<"log", epoch + 1>>
    <3>1. x \in Ends /\ x[2] = epoch + 1
      BY <1>0, SlotFacts
    <3> HIDE DEF x
    <3>2. en[x].pc = "none"
      BY <3>1, <1>0 DEF IInv, EndsCount
    <3> QED
      BY <3>2, <1>2 DEF x
  <2>2. inPlace <= epoch /\ ending.e <= epoch /\ (ending.e = None => ending.tok = NoToken) /\ inPlace \in Int /\
          ending.e \in Int
    BY <1>t DEF IInv, Counts, CountsTyped, Counted
  <2> QED
    BY <2>1, <2>2, <1>0, <1>2, <1>3 DEF Counts
<1>104. Unborn'
  BY <1>t, <1>0, <1>2, <1>3, <1>4, <1>5, <1>6, <1>7, <1>8 DEF IInv, Unborn, Busy, CountsTyped, Counted
<1>105. EndsCount'
  <2>1. \A x \in Ends : x[2] \in Epochs /\ (x[2] <= epoch => x[2] <= epoch')
    BY <1>12, <1>t DEF ReqsTyped, Counted
  <2> QED
    BY <2>1, <1>2 DEF IInv, EndsCount
<1>106. EndsWait'
  BY <1>2, <1>5 DEF EndsWait
<1>107. RunsCount'
  BY <1>2, <1>3, <1>6, <1>12, <1>t DEF IInv, RunsCount, Busy, RunsTyped
<1>108. TokensKnown'
  BY <1>t, <1>2, <1>11 DEF IInv, TokensKnown, TokensTyped
<1>109. RunsKnown'
  BY <1>t, <1>2, <1>11 DEF IInv, RunsKnown, RunsTyped
<1>110. Fresh'
  <2>1. \A t : Typed(t) /\ Known(t) => t.s < epoch'
    BY <1>12, <1>0, <1>3, <1>t DEF Typed, Known, CountsTyped
  <2> QED
    BY <2>1, <1>t, <1>2, <1>3 DEF IInv, Fresh, TokensKnown, RunsKnown, TokensTyped, RunsTyped
<1>111. Writers'
  BY <1>t, <1>0, <1>2, <1>3, <1>4, <1>5, <1>6, <1>7, <1>8 DEF IInv, Writers, Landing, Since, CountsTyped, Counted
<1>112. Above'
  BY <1>t, <1>0, <1>2, <1>3, <1>4, <1>5, <1>6, <1>7, <1>8 DEF IInv, Above, Busy, InP, IsEnding, CountsTyped,
      Counted, RunsTyped, Typed, TokensTyped
<1>113. GotNewest'
  BY <1>t, <1>2, <1>3, <1>6, <1>7, <1>8 DEF IInv, GotNewest, Got, Good, RunTok, Busy, CountsTyped, Counted,
      RunsTyped, Typed
<1>114. AskedNewest'
  <2>1. SUFFICES ASSUME NEW k \in Epochs, rf[k].pc = "asked" \/ (rf[k].pc = "read" /\
                          ~Since(rf[k].e)'), Good(rf[k].tok.s)'
                 PROVE  rf[k].tok.g = gen'[rf[k].tok.s]
    BY <1>2 DEF AskedNewest, Good, Since
  <2>2. rf[k].pc = "asked"
    BY <2>1, <1>2, <1>3, <1>6 DEF Since, Busy
  <2>3. rf[k].tok.s \in Epochs /\ rf[k].tok.s # epoch + 1
    BY <2>1, <1>t, <1>2, <1>7 DEF Good, CountsTyped
  <2>4. Good(rf[k].tok.s) /\ gen'[rf[k].tok.s] = gen[rf[k].tok.s]
    BY <2>1, <2>3, <1>2, <1>8 DEF Good
  <2> QED
    BY <2>2, <2>4 DEF IInv, AskedNewest
<1>115. CurNewest'
  BY <1>2, <1>5, <1>10 DEF IInv, CurNewest, InP, Got, Busy, Good
<1>116. EndNotKept'
  BY <1>5 DEF EndNotKept
<1>117. SaveLands'
  <2>1. SUFFICES ASSUME sv.pc # "none", sv.res = "ok", unsaved = sv.tok
                 PROVE  /\ kc.s \in {None, unsaved.s}
                        /\ \/ kc = NoToken \/ kc = sv.tok
                           \/ \E k \in Epochs : InP(k) /\ rf[k].pc = "refresh" /\ rf[k].res = "ok" /\ kc = rf[k].got
                           \/ ~Good(kc.s)'
    BY <1>2, <1>3, <1>0 DEF SaveLands, InP, Busy
  <2>2. sv.tok # NoToken /\ Stored = unsaved
    BY <2>1 DEF IInv, Writers, Stored
  <2>3. kc.s \in {None, unsaved.s}
    BY <2>1 DEF IInv, SaveLands
  <2>4. kc.s # None /\ IsEnding(epoch) => ~Good(kc.s)'
    <3>1. kc.s # None => kc.s = Stored.s
      BY <2>2, <2>3
    <3> QED
      BY <3>1, <1>2, <1>5, <1>10 DEF Good
  <2>5. Good(kc.s)' => Good(kc.s)
    BY <1>2, <1>3, <1>7 DEF Good
  <2>6. kc.s = None => ~Good(kc.s)'
    BY <1>2, <1>4 DEF Good
  <2> QED
    BY <2>1, <2>3, <2>4, <2>5, <2>6 DEF IInv, SaveLands, Rotated
<1>118. SaveOther'
  BY <1>5 DEF SaveOther
<1>119. RunIsCur'
  <2>1. SUFFICES ASSUME NEW k \in Epochs, InP(k)', rf'[k].tok # NoToken, Cur' # NoToken
                 PROVE  /\ k # epoch'
                        /\ (Cur'.s = rf'[k].tok.s /\ Good(Cur.s)') /\ rf'[k].pc \notin {"refresh", "ends"}
                              => Cur' = rf'[k].tok \/ rf'[k].pc = "moved"
    BY DEF RunIsCur
  <2>2. InP(k) /\ k # epoch'
    BY <2>1, <1>2, <1>3, <1>6 DEF InP, Busy
  <2>3. ASSUME Cur'.s = rf'[k].tok.s, Good(Cur.s)', rf'[k].pc \notin {"refresh", "ends"}
        PROVE  Cur' = rf'[k].tok \/ rf'[k].pc = "moved"
    <3>1. Cur = Stored /\ Good(Cur.s)
      BY <2>3, <1>5, <1>10 DEF Good
    <3> QED
      BY <3>1, <2>1, <2>2, <2>3, <1>2, <1>5 DEF IInv, RunIsCur
  <2> QED
    BY <2>2, <2>3
<1>120. MovedOff'
  BY <1>2, <1>3, <1>6 DEF MovedOff, InP, Busy
<1>121. NoTokRun'
  BY <1>2, <1>3, <1>6 DEF NoTokRun, InP, Busy
<1>122. Refused'
  BY <1>t, <1>0, <1>2, <1>3, <1>4, <1>5, <1>6, <1>7, <1>8 DEF IInv, Refused, InP, Busy, Gone, CountsTyped, Counted
<1>123. FailDead'
  BY <1>2, <1>5 DEF FailDead
<1>124. EndMarked'
  BY <1>2, <1>5 DEF EndMarked
<1>125. EndAfter'
  BY <1>2, <1>5 DEF EndAfter
<1>126. Cleared'
  BY <1>2, <1>5 DEF Cleared
<1>127. ClearedNow'
  BY <1>2, <1>5 DEF ClearedNow
<1>128. RsOut'
  BY <1>2, <1>5 DEF RsOut
<1>129. StoredLater'
  BY <1>t, <1>2, <1>3, <1>4, <1>5, <1>7, <1>9 DEF IInv, StoredLater, Gone, Stored, Auth, IsEnding, CountsTyped,
      Counted, TokensTyped, Typed
<1>130. RunLater'
  BY <1>t, <1>0, <1>2, <1>3, <1>4, <1>5, <1>6, <1>7, <1>8 DEF IInv, RunLater, InP, Busy, Gone, CountsTyped,
      Counted, RunsTyped, Typed
<1>131. LandLater'
  BY <1>t, <1>0, <1>2, <1>3, <1>4, <1>5, <1>6, <1>7, <1>8 DEF IInv, LandLater, Landing, Gone, Auth, IsEnding,
      CountsTyped, Counted, RunsTyped, Typed
<1>132. EndsInSign'
  BY <1>2, <1>5 DEF EndsInSign
<1>133. OldNoTok'
  BY <1>2, <1>5 DEF OldNoTok
<1>134. ReqOf'
  BY <1>t, <1>0, <1>2, <1>3, <1>4, <1>5, <1>6, <1>7, <1>8 DEF IInv, ReqOf, Auth, CountsTyped, Counted, ReqsTyped,
      Typed
<1>135. ReqCount'
  <2> QED
    BY <1>12, <1>t, <1>2, <1>5 DEF IInv, ReqCount, ReqsTyped
<1>136. RestoreWaits'
  BY <1>2, <1>5 DEF IInv, RestoreWaits, RsOn, Busy
<1>137. ReqsWait'
  BY <1>t, <1>0, <1>2, <1>3, <1>5 DEF IInv, ReqsWait, Busy, Since, Act, CountsTyped, Counted, ReqsTyped, Typed
<1>138. LatePage'
  BY <1>5, SlotFacts DEF LatePage
<1>139. OldAlone'
  BY <1>t, <1>0, <1>2, <1>3, <1>4, <1>5, <1>6, <1>7, <1>8 DEF IInv, OldAlone, InP, Busy, Gone, Auth, IsEnding,
      Act, Since, EnAct, RsOk, RsOn, CountsTyped, Counted
<1>140. OneInUse'
  <2>1. SUFFICES ASSUME Auth PROVE \E s \in Epochs : AllOf(s)'
    BY <1>2, <1>5 DEF OneInUse, Using, Auth
  <2>2. PICK s \in Epochs : AllOf(s)
    BY <2>1, <1>3 DEF IInv, OneInUse, Using, Counts
  <2> QED
    BY <2>2, <1>2, <1>5 DEF AllOf, InP, Busy
<1>141. AfterEnd'
  BY <1>5 DEF AfterEnd
<1> QED
  BY <1>1, <1>100, <1>101, <1>102, <1>103, <1>104, <1>105, <1>106, <1>107, <1>108, <1>109, <1>110, <1>111,
      <1>112, <1>113, <1>114, <1>115, <1>116, <1>117, <1>118, <1>119, <1>120, <1>121, <1>122, <1>123,
      <1>124, <1>125, <1>126, <1>127, <1>128, <1>129, <1>130, <1>131, <1>132, <1>133, <1>134, <1>135,
      <1>136, <1>137, <1>138, <1>139, <1>140, <1>141 DEF IInv

\* A sign in begins with a new session, and takes nothing of the old one yet.
LEMMA SignInKeeps ==
    ASSUME IInv, SignIn
    PROVE  Kept
<1>1. IInv'
  BY SignInKeepsInv
<1>2. ASSUME CauseInv PROVE CauseInv' /\ Taken
  <2> DEFINE e == epoch + 1
  <2>1. TypeOK /\ CountsTyped /\ Counts /\ EndsCount /\ ReqCount /\ RunsCount /\ Fresh
    BY Types DEF IInv
  <2>2. epoch' = e /\ writing' = e /\ sign' = [sign EXCEPT ![e] = "landing"] /\ e \in Epochs
        /\ (alive' = {e} \/ alive' = alive \cup {e})
        /\ UNCHANGED <<asked, mem, inPlace, ending, unsaved, status, kc, rf, en, req, rs>>
    BY <2>1, EpochsAre, PhoneSessionBounds DEF SignIn, CountsTyped
  <2>3. ~EnOn' /\ ~RsOn' /\ ~IsEnding(epoch)' /\ Placed'
    <3>1. \A x \in Ends : en[x].pc # "none" => en[x].e # e
      BY <2>1, SlotFacts, EpochsAre DEF EndsCount, CountsTyped
    <3>2. rs.pc # "none" => rs.e # e
      BY <2>1, Types DEF ReqCount, CountsTyped, ReqsTyped, Counted
    <3>3. ending.e # e
      BY <2>1 DEF Counts, CountsTyped, Counted
    <3>4. sign'[e] = "landing"
      BY <2>1, <2>2 DEF TypeOK
    <3> QED
      BY <2>2, <3>1, <3>2, <3>3, <3>4 DEF EnOn, EnAct, RsOn, Since, IsEnding, Placed
  <2>4. KcHasIt'
    <3>1. \A k \in Epochs : rf[k].pc = "refresh" => rf[k].e # e
      BY <2>1, Types DEF RunsCount, Busy, CountsTyped, RunsTyped, Counted
    <3> QED
      BY <2>2, <3>1 DEF KcHasIt, Since
  <2>5. ASSUME NEW t, Cause(t), t.s # e PROVE Cause(t)'
    BY <2>2, <2>5 DEF Cause
  <2>6. ASSUME NEW t, Gone(t), t.s # e PROVE Gone(t)'
    BY <2>2, <2>6 DEF Gone
  <2>7. Stored' = Stored /\ \A k \in Epochs : (InP(k)' <=> InP(k)) /\ (Got(k)' <=> Got(k))
    BY <2>2 DEF Stored, InP, Busy, Got
  <2>8. ForCause => ForCause'
    <3>1. ASSUME ForCause PROVE Cause(Stored)'
      BY <2>2, <2>7, <3>1, Held DEF ForCause, Cause
    <3>2. ASSUME ForCause, NEW k \in Epochs, InP(k)' PROVE Cause(rf[k].tok)'
      BY <2>2, <2>7, <3>2, Held DEF ForCause, Cause
    <3> QED
      BY <3>1, <3>2 DEF ForCause
  <2>9. Lost => Lost'
    <3>1. ASSUME Lost PROVE Gone(Stored)'
      BY <2>2, <2>7, <3>1, Held DEF Lost, Gone
    <3>2. ASSUME Lost, NEW k \in Epochs, InP(k)' PROVE Gone(rf[k].tok)' /\ ~Got(k)'
      BY <2>2, <2>7, <3>2, Held DEF Lost, Gone
    <3> QED
      BY <2>3, <3>1, <3>2 DEF Lost
  <2>10. Cause(mem) => Cause(mem)'
    BY <2>2, Held DEF Cause
  <2>11. (kc = NoToken => Placed) /\ (Auth => Placed)
    <3>1. ASSUME ~Placed PROVE writing # None /\ kc.s = epoch
      BY <2>1, <3>1 DEF Placed, Counts, Fresh
    <3>2. Auth => writing = None
      BY DEF SignIn, Auth
    <3>3. kc = NoToken => kc.s # epoch
      BY Held, EpochsAre
    <3> QED
      BY <3>1, <3>2, <3>3
  <2>12. ShutForCause'
    BY <1>2, <2>2, <2>3, <2>8, <2>9, <2>10, <2>11 DEF Shut, ShutForCause, CauseInv
  <2>13. NoMemForCause'
    BY <1>2, <2>2, <2>3, <2>8, <2>11 DEF NoMemForCause, CauseInv, Auth, Mine
  <2>14. MemForCause'
    BY <1>2, <2>2, <2>3, <2>10, <2>11 DEF MemForCause, CauseInv, Auth, RsOk
  <2>15. Taken
    BY <2>2, <2>7 DEF Taken
  <2> QED
    BY <2>3, <2>4, <2>12, <2>13, <2>14, <2>15 DEF CauseInv, AskedNew
<1> QED
  BY <1>1, <1>2 DEF Kept

\* A sign in goes on with its writes.
LEMMA SignStepKeepsInv ==
    ASSUME IInv, NEW e \in Epochs, sign' \in [Epochs -> Signs],
           \A l \in Epochs : l # e => sign'[l] = sign[l],
           \/ e # epoch /\ sign'[e] = "none"
           \/ /\ sign[e] # "none" /\ sign[e] # "refresh" /\ sign'[e] \notin {"none", "refresh"}
              /\ Landing = {} /\ sv.pc = "none",
           left' \in Nat,
           UNCHANGED <<server, asked, mem, counts, ending, unsaved, status, inFlight, leaving, kc, rf, en, req,
             rs, sv>>
    PROVE  IInv'
<1>0. TypeOK
  BY DEF IInv
<1>1. TypeOK'
  BY <1>0 DEF TypeOK, server, counts
<1>2. UNCHANGED <<alive, gen, excused, dropped, mem, epoch, inPlace, writing, ending, unsaved, status, inFlight,
        leaving, kc, rf, en, req, rs, sv>>
  BY DEF counts, server
<1>t. /\ CountsTyped /\ TokensTyped /\ RunsTyped /\ ReqsTyped
      /\ CountsTyped' /\ TokensTyped' /\ RunsTyped' /\ ReqsTyped'
  BY <1>1, Types DEF IInv
<1>100. EndsCount' /\ EndsWait' /\ RunsCount' /\ OneFlight' /\ FlightBusy'
  BY <1>2 DEF IInv, EndsCount, EndsWait, EnAct, Since, IsEnding, RunsCount, Busy, OneFlight, InP, FlightBusy
<1>101. TokensKnown' /\ RunsKnown' /\ RunTok' /\ GotNext' /\ Above'
  BY <1>2 DEF IInv, TokensKnown, Known, RunsKnown, RunTok, Busy, GotNext, Got, Above, InP, IsEnding
<1>102. Apart' /\ GotNewest' /\ AskedNewest' /\ CurNewest' /\ GotUnshared'
  BY <1>2 DEF IInv, Apart, Busy, GotNewest, Got, Good, AskedNewest, Since, CurNewest, Cur, Rotated, IsEnding,
      Stored, InP, GotUnshared
<1>103. KcWritten' /\ UnsavedOwn' /\ EndNotKept' /\ SaveLands' /\ SaveOther'
  BY <1>2 DEF IInv, KcWritten, UnsavedOwn, InP, Busy, EndNotKept, Since, IsEnding, SaveLands, Good, Rotated,
      SaveOther
<1>104. RunIsCur' /\ MovedOff' /\ NoTokRun' /\ Refused' /\ FailDead'
  BY <1>2 DEF IInv, RunIsCur, InP, Busy, Cur, Rotated, IsEnding, Stored, Good, MovedOff, NoTokRun, Refused, Gone,
      FailDead, EnAct, Since, Dead, DeadRun, Got
<1>105. EndMarked' /\ EndAfter' /\ Cleared' /\ ClearedNow' /\ RsOut'
  BY <1>2 DEF IInv, EndMarked, EnAct, Since, IsEnding, Dead, InP, Busy, DeadRun, Got, Gone, Stored, EndAfter,
      Landing, Cleared, ClearedNow, RsOut, RsOn, Auth
<1>106. StoredLater' /\ RunLater' /\ LandLater' /\ EndsInSign' /\ OldNoTok'
  BY <1>2 DEF IInv, StoredLater, Gone, Stored, Auth, IsEnding, RunLater, InP, Busy, LandLater, Landing,
      EndsInSign, EnAct, Since, OldNoTok
<1>107. ReqPcs' /\ ReqOf' /\ ReqCount' /\ RestoreWaits' /\ ReqsWait'
  BY <1>2 DEF IInv, ReqPcs, ReqOf, Auth, ReqCount, Act, Since, RestoreWaits, Busy, ReqsWait
<1>108. Begun' /\ PageBegun' /\ LatePage' /\ OldAlone' /\ AfterEnd'
  BY <1>2 DEF IInv, Begun, InP, Busy, Blocked, ByAny, PageBegun, Auth, LatePage, Act, Since, RsOk, RsOn,
      LateEnded, IsEnding, EnAct, Stored, Dead, DeadRun, Got, Gone, OldAlone, AfterEnd, Landing
<1>109. RunPcs' /\ EnPcs' /\ RsPcs'
  BY <1>2 DEF IInv, RunPcs, EnPcs, RsPcs
<1>110. Counts'
  BY <1>t, <1>2 DEF IInv, Counts, CountsTyped, Counted, TokensTyped, Typed
<1>111. Unborn'
  BY <1>t, <1>2 DEF IInv, Unborn, Busy, CountsTyped, Counted
<1>112. Fresh'
  BY <1>t, <1>2 DEF IInv, Fresh, CountsTyped, Counted, RunsTyped, Typed, TokensTyped
<1>113. Writers'
  BY <1>t, <1>2 DEF IInv, Writers, Landing, Since, CountsTyped, Counted
<1>114. OneInUse'
  <2>1. Using' => Using
    BY <1>2 DEF Using, Auth, RsOk, RsOn, Since, IsEnding, Dead, InP, DeadRun, Busy, Got, Gone, Stored
  <2>2. \A s \in Epochs : AllOf(s) => AllOf(s)'
    BY <1>2 DEF AllOf, Of, Stored, IsEnding, Act, Since, InP, Busy
  <2>3. sign'[epoch] # "refresh" => sign[epoch] # "refresh"
    BY <1>t DEF CountsTyped
  <2> QED
    BY <1>2, <2>1, <2>2, <2>3 DEF IInv, OneInUse
<1> QED
  BY <1>1, <1>100, <1>101, <1>102, <1>103, <1>104, <1>105, <1>106, <1>107, <1>108, <1>109, <1>110, <1>111,
      <1>112, <1>113, <1>114 DEF IInv

\* A sign in goes on: the keychain is not touched.
LEMMA SignStepKeeps ==
    ASSUME IInv, NEW e \in Epochs, sign' \in [Epochs -> Signs],
           \A l \in Epochs : l # e => sign'[l] = sign[l],
           \/ e # epoch /\ sign'[e] = "none"
           \/ /\ sign[e] # "none" /\ sign[e] # "refresh" /\ sign'[e] \notin {"none", "refresh"}
              /\ Landing = {} /\ sv.pc = "none",
           left' \in Nat,
           UNCHANGED <<server, asked, mem, counts, ending, unsaved, status, inFlight, leaving, kc, rf, en, req,
             rs, sv>>
    PROVE  Kept
<1>1. IInv'
  BY SignStepKeepsInv
<1>2. UNCHANGED <<alive, asked, mem, epoch, inPlace, writing, ending, unsaved, status, kc, rf, en, req, rs>>
  BY DEF server, counts
<1>3. ASSUME CauseInv PROVE CauseInv' /\ Taken
  <2>1. Placed' => Placed
    BY <1>2, Held DEF Placed
  <2>2. Still
    BY <1>2, <2>1 DEF Still, EnOn, EnAct, Since
  <2>3. RunsStep
    BY <1>2, RunsAreLeft
  <2>4. (Mine' => Mine) /\ (Auth' <=> Auth) /\ (RsOk' <=> RsOk)
    BY <1>2 DEF Mine, Auth, RsOk, RsOn, Since
  <2> QED
    BY <1>3, <2>2, <2>3, <2>4, StillKeepsCause
<1> QED
  BY <1>1, <1>3 DEF Kept

\* A sign in writes the new refresh token over the old one.
LEMMA SignKeptKeepsInv ==
    ASSUME IInv, sign[epoch] = "access", sign' \in [Epochs -> Signs], sign'[epoch] = "refresh",
           \A l \in Epochs : l # epoch => sign'[l] = sign[l],
           kc' = [s |-> epoch, g |-> 1], left' \in Nat,
           UNCHANGED <<server, asked, mem, counts, ending, unsaved, status, inFlight, leaving, rf, en, req, rs, sv>>
    PROVE  IInv'
<1>0. TypeOK /\ kc' \in Token
  BY EpochsAre DEF IInv, Token, Count, TypeOK
<1>1. TypeOK'
  BY <1>0 DEF TypeOK, server, counts
<1>2. UNCHANGED <<alive, gen, excused, dropped, mem, epoch, inPlace, writing, ending, unsaved, status, inFlight,
        leaving, rf, en, req, rs, sv>>
  BY DEF counts, server
<1>3. sign'[epoch] = "refresh" /\ kc'.s = epoch /\ kc'.g = 1 /\ \A l \in Epochs : l # epoch => sign'[l] = sign[l]
  OBVIOUS
<1>t. /\ CountsTyped /\ TokensTyped /\ RunsTyped /\ ReqsTyped
      /\ CountsTyped' /\ TokensTyped' /\ RunsTyped' /\ ReqsTyped'
  BY <1>1, Types DEF IInv
<1>4. /\ writing = epoch /\ Landing = {} /\ sv.pc = "none" /\ gen[epoch] = 1 /\ inPlace < epoch
      /\ Cur = Stored /\ Cur' = Stored'
      /\ \A x \in Ends : EnAct(x) => en[x].pc = "waits" /\ x[1] = "log" /\ IsEnding(epoch)
      /\ \A x \in Slots : ~Act(x)
      /\ \A k \in Epochs : Busy(k) => k < epoch /\ rf[k].tok.s < epoch
      /\ ~RsOn
  <2>1. writing = epoch /\ gen[epoch] = 1 /\ inPlace < epoch
    BY <1>t DEF IInv, Counts, CountsTyped
  <2>2. Landing = {} /\ sv.pc = "none"
    BY DEF IInv, Writers
  <2>3. Cur = Stored /\ Cur' = Stored'
    BY <1>2, <1>t, <2>1 DEF IInv, EndsInSign, Cur, Rotated, IsEnding, CountsTyped
  <2>4. \A x \in Ends : EnAct(x) => en[x].pc = "waits" /\ x[1] = "log" /\ IsEnding(epoch)
    BY <1>t, <2>1 DEF IInv, EndsWait, CountsTyped
  <2>5. (\A x \in Slots : ~Act(x)) /\ ~RsOn
    BY <1>t, <2>1 DEF IInv, ReqCount, RsOut, CountsTyped
  <2>6. \A k \in Epochs : Busy(k) => k < epoch /\ rf[k].tok.s < epoch
    <3>1. \A k \in Epochs : Busy(k) => k <= rf[k].e /\ rf[k].e < epoch /\ rf[k].tok.s <= k
      BY <1>t, <2>1 DEF IInv, RunsCount, RunTok, CountsTyped
    <3>2. \A k \in Epochs : k \in Int /\ rf[k].e \in Int /\ rf[k].tok.s \in Int
      BY <1>t DEF RunsTyped, Typed, Counted, CountsTyped
    <3> QED
      BY <3>1, <3>2, <1>t DEF CountsTyped
  <2> QED
    BY <2>1, <2>2, <2>3, <2>4, <2>5, <2>6
<1>5. Stored' = Stored \/ (unsaved = NoToken /\ Stored' = kc')
  BY <1>2 DEF Stored
<1>100. EndsCount' /\ EndsWait' /\ RunsCount' /\ OneFlight' /\ FlightBusy'
  BY <1>2 DEF IInv, EndsCount, EndsWait, EnAct, Since, IsEnding, RunsCount, Busy, OneFlight, InP, FlightBusy
<1>101. RunsKnown' /\ RunTok' /\ GotNext' /\ Apart' /\ GotNewest'
  BY <1>2 DEF IInv, RunsKnown, Known, RunTok, Busy, GotNext, Got, Apart, GotNewest, Good
<1>102. AskedNewest' /\ GotUnshared' /\ UnsavedOwn' /\ EndNotKept' /\ SaveOther'
  BY <1>2 DEF IInv, AskedNewest, Good, Since, GotUnshared, Got, UnsavedOwn, InP, Busy, EndNotKept, IsEnding,
      SaveOther
<1>103. Refused' /\ EndAfter' /\ RsOut' /\ RunLater' /\ LandLater'
  BY <1>2 DEF IInv, Refused, InP, Busy, Gone, EndAfter, EnAct, Since, Landing, RsOut, RsOn, Auth, RunLater,
      LandLater, IsEnding
<1>104. EndsInSign' /\ OldNoTok' /\ ReqPcs' /\ ReqOf' /\ ReqCount'
  BY <1>2 DEF IInv, EndsInSign, IsEnding, Auth, EnAct, Since, OldNoTok, InP, Busy, ReqPcs, ReqOf, ReqCount, Act
<1>105. RestoreWaits' /\ ReqsWait' /\ Begun' /\ PageBegun' /\ OldAlone'
  BY <1>2 DEF IInv, RestoreWaits, Busy, Since, ReqsWait, Begun, InP, Blocked, ByAny, PageBegun, Auth, OldAlone,
      Gone, IsEnding, Act, EnAct, RsOk, RsOn
<1>106. RunPcs' /\ EnPcs' /\ RsPcs'
  BY <1>2 DEF IInv, RunPcs, EnPcs, RsPcs
<1>107. Counts'
  BY <1>t, <1>2, <1>3, <1>4, <1>5 DEF IInv, Counts, CountsTyped, Counted, TokensTyped, Typed
<1>108. Unborn'
  BY <1>t, <1>2, <1>3, <1>4, <1>5 DEF IInv, Unborn, Busy, CountsTyped, Counted
<1>109. TokensKnown'
  BY <1>t, <1>2, <1>3, <1>4, <1>5 DEF IInv, TokensKnown, Known, CountsTyped, Counted, TokensTyped, Typed
<1>110. Fresh'
  BY <1>t, <1>2, <1>3, <1>4, <1>5 DEF IInv, Fresh, CountsTyped, Counted, RunsTyped, Typed, TokensTyped
<1>111. Writers'
  BY <1>t, <1>2, <1>3, <1>4, <1>5 DEF IInv, Writers, Landing, Since, CountsTyped, Counted
<1>112. Above'
  BY <1>t, <1>2, <1>3, <1>4, <1>5 DEF IInv, Above, Busy, InP, IsEnding, CountsTyped, Counted, RunsTyped, Typed,
      TokensTyped
<1>113. CurNewest'
  BY <1>t, <1>2, <1>3, <1>4, <1>5 DEF IInv, CurNewest, Cur, Rotated, IsEnding, Stored, Good, InP, Busy, Got,
      CountsTyped, Counted, RunsTyped, Typed, TokensTyped
<1>114. KcWritten'
  BY <1>t, <1>2, <1>3, <1>4, <1>5 DEF IInv, KcWritten, Landing, CountsTyped, Counted, RunsTyped, Typed, TokensTyped
<1>115. SaveLands'
  BY <1>2, <1>4 DEF SaveLands
<1>116. RunIsCur'
  BY <1>t, <1>2, <1>3, <1>4, <1>5 DEF IInv, RunIsCur, InP, Busy, Cur, Rotated, IsEnding, Stored, Good,
      CountsTyped, Counted, RunsTyped, Typed, TokensTyped
<1>117. MovedOff'
  BY <1>t, <1>2, <1>3, <1>4, <1>5 DEF IInv, MovedOff, InP, Busy, Stored, CountsTyped, Counted, TokensTyped, Typed
<1>118. NoTokRun'
  BY <1>t, <1>2, <1>3, <1>4, <1>5 DEF IInv, NoTokRun, InP, Busy, Cur, Rotated, IsEnding, Stored, CountsTyped,
      Counted, RunsTyped, Typed, TokensTyped
<1>119. FailDead'
  BY <1>2, <1>4 DEF FailDead, EnAct, Since
<1>120. EndMarked'
  BY <1>2, <1>4 DEF EndMarked, EnAct, Since, IsEnding
<1>121. Cleared'
  BY <1>2, <1>4 DEF Cleared, EnAct, Since
<1>122. ClearedNow'
  BY <1>2, <1>4 DEF ClearedNow, EnAct, Since
<1>123. StoredLater'
  BY <1>t, <1>2, <1>3, <1>4, <1>5 DEF IInv, StoredLater, Gone, Stored, Auth, IsEnding, EndsInSign, EnAct, Since,
      Counts, CountsTyped, Counted, TokensTyped, Typed
<1>124. LatePage'
  BY <1>2, <1>4, SlotFacts DEF LatePage, Act, Since
<1>125. OneInUse'
  BY <1>2, <1>3 DEF OneInUse
<1>126. AfterEnd'
  BY <1>t, <1>2, <1>4, SlotFacts DEF IInv, AfterEnd, EndsInSign, EnAct, Since, IsEnding, CountsTyped
<1> QED
  BY <1>1, <1>100, <1>101, <1>102, <1>103, <1>104, <1>105, <1>106, <1>107, <1>108, <1>109, <1>110, <1>111,
      <1>112, <1>113, <1>114, <1>115, <1>116, <1>117, <1>118, <1>119, <1>120, <1>121, <1>122, <1>123,
      <1>124, <1>125, <1>126 DEF IInv

\* The keychain has the new session's token, until the sign in ends.
LEMMA SignKeptKeeps ==
    ASSUME IInv, sign[epoch] = "access", sign' \in [Epochs -> Signs], sign'[epoch] = "refresh",
           \A l \in Epochs : l # epoch => sign'[l] = sign[l],
           kc' = [s |-> epoch, g |-> 1], left' \in Nat,
           UNCHANGED <<server, asked, mem, counts, ending, unsaved, status, inFlight, leaving, rf, en, req, rs, sv>>
    PROVE  Kept
<1>1. IInv'
  BY SignKeptKeepsInv
<1>2. UNCHANGED <<alive, asked, mem, epoch, inPlace, writing, ending, unsaved, status, rf, en, req, rs>>
  BY DEF server, counts
<1>3. ASSUME CauseInv PROVE CauseInv' /\ Taken
  <2>1. ~Placed' /\ writing # None
    BY <1>2 DEF Placed, IInv, Counts
  <2>2. AskedNew'
    BY <1>2, <1>3 DEF CauseInv, AskedNew, EnOn, EnAct, Since
  <2>3. KcHasIt'
    <3>1. \A k \in Epochs : rf[k].pc = "refresh" => Since(rf[k].e)
      BY <2>1, Types DEF IInv, RunsCount, Busy, Since, CountsTyped, RunsTyped, Counted
    <3> QED
      BY <1>2, <3>1 DEF KcHasIt, Since
  <2>4. kc' # NoToken
    BY Held, EpochsAre
  <2>5. Taken
    BY <1>2, <2>4 DEF Taken, Stored
  <2> QED
    BY <2>1, <2>2, <2>3, <2>5 DEF CauseInv, ShutForCause, Shut, NoMemForCause, MemForCause
<1> QED
  BY <1>1, <1>3 DEF Kept

\* A sign in ends and the session from before stays.
SignFailed ==
    /\ sign[epoch] \in {"failed access", "undo", "failed refresh"}
    /\ sign' \in [Epochs -> Signs] /\ sign'[epoch] = "none" /\ \A l \in Epochs : l # epoch => sign'[l] = sign[l]
    /\ writing' = None /\ ReqSent(mem) /\ req' \in [Slots -> Run] /\ left' \in Nat
    /\ UNCHANGED <<server, asked, mem, epoch, inPlace, ending, unsaved, status, inFlight, leaving, kc, rf, en,
         rs, sv>>

\* Then what the phone had is again all that it has.
LEMMA SignFailedKeepsInv ==
    ASSUME IInv, SignFailed
    PROVE  IInv'
<1>0. TypeOK
  BY DEF IInv
<1>1. TypeOK'
  BY <1>0, EpochsAre DEF TypeOK, server, Count, SignFailed
<1>2. UNCHANGED <<alive, gen, excused, dropped, mem, epoch, inPlace, ending, unsaved, status, inFlight, leaving,
        kc, rf, en, rs, sv>>
  BY DEF server, SignFailed
<1>3. /\ sign'[epoch] = "none" /\ writing' = None /\ \A l \in Epochs : l # epoch => sign'[l] = sign[l]
      /\ \A x \in Slots : x # Any => req'[x] = req[x]
      /\ IF req[Any].pc = "queued"
         THEN /\ req'[Any].pc = "sent" /\ req'[Any].e = epoch /\ req'[Any].tok = mem
              /\ req'[Any].got = NoToken /\ req'[Any].run = None
         ELSE req'[Any] = req[Any]
  BY DEF ReqSent, SignFailed
<1>t. /\ CountsTyped /\ TokensTyped /\ RunsTyped /\ ReqsTyped
      /\ CountsTyped' /\ TokensTyped' /\ RunsTyped' /\ ReqsTyped'
  BY <1>1, Types DEF IInv
<1>4. /\ writing = epoch /\ writing # None /\ Landing = {} /\ sv.pc = "none" /\ ~RsOn
      /\ \A x \in Ends : EnAct(x) => IsEnding(epoch)
      /\ \A x \in Slots : ~Act(x)
      /\ req[Any].pc = "queued" => Auth
      /\ IsEnding(epoch) => Auth /\ EnAct(<<"log", epoch>>) /\ <<"log", epoch>> \in Ends
  <2>1. writing = epoch /\ writing # None
    BY <1>t DEF IInv, Counts, CountsTyped, SignFailed
  <2>2. Landing = {} /\ sv.pc = "none"
    BY DEF IInv, Writers, SignFailed
  <2>4. \A x \in Ends : EnAct(x) => IsEnding(epoch)
    BY <2>1 DEF IInv, EndsWait
  <2>5. (\A x \in Slots : ~Act(x)) /\ ~RsOn
    BY <2>1 DEF IInv, ReqCount, RsOut
  <2>6. req[Any].pc = "queued" => Auth
    BY DEF IInv, ReqOf
  <2>7. IsEnding(epoch) => Auth /\ EnAct(<<"log", epoch>>) /\ <<"log", epoch>> \in Ends
    BY <1>t, <2>1, SlotFacts DEF IInv, EndsInSign, CountsTyped
  <2> QED
    BY <2>1, <2>2, <2>4, <2>5, <2>6, <2>7
<1>5. Any # Me /\ Any \notin Ends /\ (\A x \in Slots : x # Any => ~Act(x)') /\ (Act(Any)' => Auth /\
        req'[Any].tok = mem /\ req'[Any].pc = "sent")
  <2>1. Any # Me /\ Any \notin Ends /\ Any \in Slots
    BY SlotFacts
  <2>2. \A x \in Slots : x # Any => ~Act(x)'
    BY <1>2, <1>3, <1>4 DEF Act, Since
  <2>3. Act(Any)' => Auth /\ req'[Any].tok = mem /\ req'[Any].pc = "sent"
    BY <2>1, <1>2, <1>3, <1>4 DEF Act, Since
  <2> QED
    BY <2>1, <2>2, <2>3
<1>6. \A k \in Epochs : (ByAny(k)' <=> ByAny(k)) /\ (Blocked(k)' <=> Blocked(k)) /\ (InP(k)' <=> InP(k)) /\
        rf'[k] = rf[k]
  <2>1. \A x \in Ends : req'[x] = req[x]
    BY <1>3, <1>5, SlotFacts
  <2>2. req'[Me] = req[Me]
    BY <1>3, <1>5, SlotFacts
  <2> QED
    BY <2>1, <2>2, <1>2, <1>3 DEF ByAny, Blocked, InP, Busy
<1>7. \A x \in Slots : x # Any => req'[x] = req[x]
  BY <1>3
<1>8. req[Any].pc = "waits" \/ req'[Any].pc = "waits" => req'[Any] = req[Any]
  BY <1>3
<1>100. EndsCount' /\ OneFlight' /\ FlightBusy' /\ TokensKnown' /\ RunsKnown'
  BY <1>2 DEF IInv, EndsCount, OneFlight, InP, Busy, FlightBusy, TokensKnown, Known, RunsKnown
<1>101. RunTok' /\ GotNext' /\ Above' /\ Apart' /\ GotNewest'
  BY <1>2 DEF IInv, RunTok, Busy, GotNext, Got, Above, InP, IsEnding, Apart, GotNewest, Good
<1>102. AskedNewest' /\ CurNewest' /\ GotUnshared' /\ KcWritten' /\ UnsavedOwn'
  BY <1>2 DEF IInv, AskedNewest, Good, Since, CurNewest, Cur, Rotated, IsEnding, Stored, InP, Busy, Got,
      GotUnshared, KcWritten, UnsavedOwn
<1>103. EndNotKept' /\ SaveOther' /\ RunIsCur' /\ MovedOff' /\ NoTokRun'
  BY <1>2 DEF IInv, EndNotKept, InP, Busy, Since, IsEnding, SaveOther, RunIsCur, Cur, Rotated, Stored, Good,
      MovedOff, NoTokRun
<1>104. Refused' /\ FailDead' /\ EndMarked' /\ EndAfter' /\ Cleared'
  BY <1>2 DEF IInv, Refused, InP, Busy, Gone, FailDead, EnAct, Since, Dead, DeadRun, Got, Stored, IsEnding,
      EndMarked, EndAfter, Landing, Cleared
<1>105. ClearedNow' /\ StoredLater' /\ RunLater' /\ LandLater' /\ OldNoTok'
  BY <1>2 DEF IInv, ClearedNow, EnAct, Since, IsEnding, StoredLater, Gone, Stored, Auth, RunLater, InP, Busy,
      LandLater, Landing, OldNoTok
<1>106. RestoreWaits' /\ AfterEnd' /\ RunPcs' /\ EnPcs' /\ RsPcs'
  BY <1>2 DEF IInv, RestoreWaits, Busy, Since, AfterEnd, IsEnding, EnAct, Auth, Landing, RunPcs, EnPcs, RsPcs
<1>107. Counts'
  BY <1>t, <1>2, <1>3, <1>4, <1>5 DEF IInv, Counts, CountsTyped, Counted, TokensTyped, Typed
<1>108. Unborn'
  BY <1>t, <1>2, <1>3, <1>4, <1>5 DEF IInv, Unborn, Busy, CountsTyped, Counted
<1>109. EndsWait'
  BY <1>3 DEF EndsWait
<1>110. RunsCount'
  BY <1>2, <1>3 DEF IInv, RunsCount, Busy
<1>111. Fresh'
  BY <1>t, <1>2, <1>3, <1>4, <1>5 DEF IInv, Fresh, CountsTyped, Counted, RunsTyped, Typed, TokensTyped
<1>112. Writers'
  BY <1>t, <1>2, <1>3, <1>4, <1>5 DEF IInv, Writers, Landing, Since, Counts, CountsTyped, Counted
<1>113. SaveLands'
  BY <1>2, <1>4 DEF SaveLands
<1>114. RsOut'
  BY <1>2, <1>4 DEF RsOut, RsOn, Since
<1>115. EndsInSign'
  BY <1>3 DEF EndsInSign
<1>116. ReqPcs'
  BY <1>t, <1>2, <1>3, <1>4, <1>5 DEF IInv, ReqPcs, CountsTyped, Counted
<1>117. ReqOf'
  <2>1. (\A x \in Ends : req'[x] = req[x]) /\ req'[Me] = req[Me]
    BY <1>5, <1>7, SlotFacts
  <2>2. req'[Any].pc \notin {"queued", "back"}
    BY <1>3 DEF IInv, ReqOf
  <2> QED
    BY <2>1, <2>2, <1>2 DEF IInv, ReqOf
<1>118. ReqCount'
  <2>1. \A x \in Slots : req'[x].pc \in {"sent", "waits", "got"} => req'[x] = req[x] \/ req'[x].e = epoch
    BY <1>3
  <2>2. epoch <= epoch
    BY <1>t DEF CountsTyped
  <2> QED
    BY <2>1, <2>2, <1>2, <1>3 DEF IInv, ReqCount
<1>119. ReqsWait'
  <2>1. SUFFICES ASSUME NEW x \in Slots, req'[x].pc = "waits"
                 PROVE  req'[x].run \in Epochs /\ Busy(req'[x].run) /\ (~Since(req'[x].e) => req'[x].run >= inPlace)
    BY <1>2 DEF ReqsWait, Busy, Since
  <2>2. req'[x] = req[x]
    BY <2>1, <1>7, <1>8
  <2> QED
    BY <2>1, <2>2 DEF IInv, ReqsWait
<1>120. Begun'
  BY <1>6 DEF IInv, Begun
<1>121. PageBegun'
  BY <1>2, <1>6 DEF IInv, PageBegun, Auth
<1>122. LatePage'
  BY <1>2, <1>5 DEF LatePage, Auth
<1>123. OldAlone'
  <2>1. SUFFICES ASSUME NEW k \in Epochs, InP(k), k < epoch, ~Gone(rf[k].tok)
                 PROVE  /\ ~Auth /\ ~IsEnding(epoch) /\ (\A x \in Slots : ~Act(x)') /\
                             (\A x \in Ends : ~EnAct(x)) /\ ~RsOk
                        /\ (rs.pc = "waits" /\ RsOn => rs.run = k)
    BY <1>2 DEF OldAlone, InP, Busy, Gone, Auth, IsEnding, EnAct, Since, RsOk, RsOn
  <2> QED
    BY <2>1, <1>5 DEF IInv, OldAlone
<1>124. OneInUse'
  <2>1. Using' => Using
    BY <1>2, <1>4 DEF Using, Auth, RsOk, RsOn, Since, IsEnding, Dead, InP, DeadRun, Busy, Got, Gone, Stored
  <2>2. ASSUME NEW s \in Epochs, AllOf(s) PROVE AllOf(s)'
    <3>1. \A x \in Slots : Act(x)' => x = Any /\ req'[x].pc = "sent" /\ Of(req'[x].tok, s)
      BY <2>2, <1>5 DEF AllOf, Of
    <3> QED
      BY <2>2, <3>1, <1>2 DEF AllOf, Of, Stored, IsEnding, InP, Busy
  <2> QED
    BY <1>2, <2>1, <2>2 DEF IInv, OneInUse, SignFailed
<1> QED
  BY <1>1, <1>100, <1>101, <1>102, <1>103, <1>104, <1>105, <1>106, <1>107, <1>108, <1>109, <1>110, <1>111,
      <1>112, <1>113, <1>114, <1>115, <1>116, <1>117, <1>118, <1>119, <1>120, <1>121, <1>122, <1>123,
      <1>124 DEF IInv

\* A failed sign in leaves what there was.
LEMMA SignFailedKeeps ==
    ASSUME IInv, SignFailed
    PROVE  Kept
<1>1. IInv'
  BY SignFailedKeepsInv
<1>2. UNCHANGED <<alive, asked, mem, epoch, inPlace, ending, unsaved, status, kc, rf, en, rs>>
  BY DEF server, SignFailed
<1>3. ASSUME CauseInv PROVE CauseInv' /\ Taken
  <2>1. Placed /\ writing' = None /\ req'[Me] = req[Me]
    BY SlotFacts DEF Placed, SignFailed, ReqSent
  <2>2. Still
    BY <1>2, <2>1 DEF Still, EnOn, EnAct, Since
  <2>3. RunsStep
    BY <1>2, RunsAreLeft
  <2>4. (Mine' => Mine) /\ (Auth' <=> Auth) /\ (RsOk' <=> RsOk)
    BY <1>2, <2>1 DEF Mine, Auth, RsOk, RsOn, Since
  <2> QED
    BY <1>3, <2>2, <2>3, <2>4, StillKeepsCause
<1> QED
  BY <1>1, <1>3 DEF Kept

\* A sign in ends and its session is in place.
SignWorked ==
    /\ sign[epoch] = "refresh"
    /\ sign' \in [Epochs -> Signs] /\ sign'[epoch] = "none" /\ \A l \in Epochs : l # epoch => sign'[l] = sign[l]
    /\ inPlace' = epoch /\ unsaved' = NoToken /\ mem' = [s |-> epoch, g |-> 1] /\ status' = "authenticated"
    /\ writing' = None /\ ReqSent(mem') /\ req' \in [Slots -> Run]
    /\ UNCHANGED <<server, asked, epoch, ending, inFlight, leaving, kc, rf, en, rs, sv, left>>

\* Then all that the phone has is of the new session.
LEMMA SignWorkedKeepsInv ==
    ASSUME IInv, SignWorked
    PROVE  IInv'
<1>0. TypeOK
  BY DEF IInv
<1>1. TypeOK'
  BY <1>0, TokenFacts, EpochsAre DEF TypeOK, server, Count, SignWorked, Statuses, Token
<1>2. UNCHANGED <<alive, gen, excused, dropped, epoch, ending, inFlight, leaving, kc, rf, en, rs, sv>>
  BY DEF server, SignWorked
<1>3. /\ sign'[epoch] = "none" /\ writing' = None /\ \A l \in Epochs : l # epoch => sign'[l] = sign[l]
      /\ inPlace' = epoch /\ unsaved' = NoToken /\ mem'.s = epoch /\ mem'.g = 1 /\ Auth'
  BY DEF SignWorked, Auth
<1>4. /\ \A x \in Slots : x # Any => req'[x] = req[x]
      /\ IF req[Any].pc = "queued"
         THEN /\ req'[Any].pc = "sent" /\ req'[Any].e = epoch /\ req'[Any].tok = mem'
              /\ req'[Any].got = NoToken /\ req'[Any].run = None
         ELSE req'[Any] = req[Any]
  BY DEF ReqSent, SignWorked
<1>t. /\ CountsTyped /\ TokensTyped /\ RunsTyped /\ ReqsTyped
      /\ CountsTyped' /\ TokensTyped' /\ RunsTyped' /\ ReqsTyped'
  BY <1>1, Types DEF IInv
<1>5. /\ writing = epoch /\ writing # None /\ Landing = {} /\ sv.pc = "none" /\ gen[epoch] = 1 /\ ~RsOn
      /\ kc.s = epoch /\ kc.g = 1 /\ Stored' = kc /\ kc # NoToken
      /\ \A x \in Ends : EnAct(x) => IsEnding(epoch) /\ en[x].pc = "waits" /\ x[1] = "log"
      /\ \A x \in Slots : ~Act(x)
      /\ IsEnding(epoch) => EnAct(<<"log", epoch>>) /\ <<"log", epoch>> \in Ends /\ ending.tok = NoToken
  <2>1. writing = epoch /\ writing # None /\ gen[epoch] = 1
    BY <1>t DEF IInv, Counts, CountsTyped, SignWorked
  <2>2. Landing = {} /\ sv.pc = "none"
    BY DEF IInv, Writers, SignWorked
  <2>3. kc.s = epoch /\ kc.g = 1
    BY <2>1 DEF IInv, Fresh, SignWorked
  <2>4. \A x \in Ends : EnAct(x) => IsEnding(epoch) /\ en[x].pc = "waits" /\ x[1] = "log"
    BY <2>1 DEF IInv, EndsWait
  <2>5. (\A x \in Slots : ~Act(x)) /\ ~RsOn
    BY <2>1 DEF IInv, ReqCount, RsOut
  <2>6. Stored' = kc /\ kc # NoToken
    BY <1>2, <1>3, <2>3, <1>t, TokenFacts DEF Stored, CountsTyped
  <2>7. IsEnding(epoch) => EnAct(<<"log", epoch>>) /\ <<"log", epoch>> \in Ends /\ ending.tok = NoToken
    BY <1>t, <2>1, SlotFacts DEF IInv, EndsInSign, CountsTyped
  <2> QED
    BY <2>1, <2>2, <2>3, <2>4, <2>5, <2>6, <2>7
<1>6. \A k \in Epochs : ~InP(k)' /\ (Busy(k) => k < epoch /\ rf[k].tok.s < epoch /\ rf[k].e < epoch /\
        rf[k].e <= epoch)
    <3>1. \A k \in Epochs : Busy(k) => k <= rf[k].e /\ rf[k].e < epoch /\ rf[k].tok.s <= k
      BY <1>5 DEF IInv, RunsCount, RunTok
    <3>2. \A k \in Epochs : k \in Int /\ rf[k].e \in Int /\ rf[k].tok.s \in Int
      BY <1>t DEF RunsTyped, Typed, Counted, CountsTyped
    <3>3. epoch \in Int
      BY <1>t DEF CountsTyped
    <3>4. \A k \in Epochs : Busy(k) => k < epoch /\ rf[k].tok.s < epoch /\ rf[k].e < epoch /\ rf[k].e <= epoch
      BY <3>1, <3>2, <3>3
    <3>5. \A k \in Epochs : k < epoch => ~(k >= epoch)
      BY <3>2, <3>3
    <3> QED
      BY <3>4, <3>5, <1>2, <1>3 DEF InP, Busy
<1>7. /\ \A x \in Ends : req'[x] = req[x]
      /\ req'[Me] = req[Me] /\ req'[Any].pc \notin {"queued", "back"}
      /\ \A x \in Slots : req'[x] = req[x] \/ (x = Any /\ req'[x].pc = "sent" /\ req'[x].e = epoch)
      /\ \A x \in Slots : Act(x)' => x = Any /\ req'[x].pc = "sent" /\ req'[x].tok = mem'
  <2>1. (\A x \in Ends : req'[x] = req[x]) /\ req'[Me] = req[Me] /\ Any \in Slots
    BY <1>4, SlotFacts
  <2>2. req'[Any].pc \notin {"queued", "back"}
    BY <1>4 DEF IInv, ReqOf
  <2>3. \A x \in Slots : req'[x] = req[x] \/ (x = Any /\ req'[x].pc = "sent" /\ req'[x].e = epoch /\
          req'[x].tok = mem')
    BY <1>4
  <2>4. \A x \in Slots : Act(x)' => x = Any /\ req'[x].pc = "sent" /\ req'[x].tok = mem'
    BY <2>3, <1>2, <1>5 DEF Act, Since
  <2> QED
    BY <2>1, <2>2, <2>3, <2>4
<1>8. NoToken.s = None /\ NoToken.g = 0 /\ None # epoch
  BY <1>t, TokenFacts DEF CountsTyped
<1>100. EndsCount' /\ FlightBusy' /\ RunsKnown' /\ RunTok' /\ GotNext'
  BY <1>2 DEF IInv, EndsCount, FlightBusy, Busy, RunsKnown, Known, RunTok, GotNext, Got
<1>101. Apart' /\ GotNewest' /\ AskedNewest' /\ KcWritten' /\ SaveOther'
  BY <1>2 DEF IInv, Apart, Busy, GotNewest, Got, Good, AskedNewest, Since, KcWritten, SaveOther, IsEnding
<1>102. EndAfter' /\ ClearedNow' /\ RunPcs' /\ EnPcs' /\ RsPcs'
  BY <1>2 DEF IInv, EndAfter, EnAct, Since, Landing, ClearedNow, IsEnding, RunPcs, EnPcs, RsPcs
<1>103. Counts'
  BY <1>t, <1>2, <1>3, <1>5, <1>6, <1>8 DEF IInv, Counts, CountsTyped, Counted, TokensTyped, Typed
<1>104. Unborn'
  BY <1>t, <1>2, <1>3, <1>5, <1>6, <1>8 DEF IInv, Unborn, Busy, CountsTyped, Counted
<1>105. EndsWait'
  BY <1>3 DEF EndsWait
<1>106. RunsCount'
  BY <1>t, <1>2, <1>3, <1>6 DEF IInv, RunsCount, Busy, CountsTyped, Counted, RunsTyped, Typed
<1>107. OneFlight'
  BY <1>6 DEF OneFlight
<1>108. TokensKnown'
  BY <1>t, <1>2, <1>3, <1>5, <1>6, <1>8 DEF IInv, TokensKnown, Known, CountsTyped, Counted, TokensTyped, Typed
<1>109. Fresh'
  BY <1>3 DEF Fresh
<1>110. Writers'
  BY <1>t, <1>2, <1>3, <1>5, <1>6, <1>8 DEF IInv, Writers, Landing, Since, Counts, CountsTyped, Counted
<1>111. Above'
  BY <1>t, <1>2, <1>3, <1>5, <1>6, <1>8 DEF IInv, Above, Busy, InP, IsEnding, CountsTyped, Counted, RunsTyped,
      Typed, TokensTyped
<1>112. CurNewest'
  BY <1>t, <1>2, <1>5 DEF IInv, CurNewest, Cur, Rotated, IsEnding, Stored, Good, InP, Busy, Got, CountsTyped,
      Counted, RunsTyped, Typed, TokensTyped
<1>113. GotUnshared'
  BY <1>t, <1>2, <1>3, <1>5, <1>6, <1>8 DEF IInv, GotUnshared, Got, GotNext, RunTok, Busy, CountsTyped, Counted,
      RunsTyped, Typed, TokensTyped
<1>114. UnsavedOwn'
  BY <1>6 DEF UnsavedOwn
<1>115. EndNotKept'
  BY <1>6 DEF EndNotKept
<1>116. SaveLands'
  BY <1>2, <1>5 DEF SaveLands
<1>117. RunIsCur'
  BY <1>6 DEF RunIsCur
<1>118. MovedOff'
  BY <1>6 DEF MovedOff
<1>119. NoTokRun'
  BY <1>6 DEF NoTokRun
<1>120. Refused'
  BY <1>6 DEF Refused
<1>121. FailDead'
  BY <1>2, <1>5 DEF FailDead, EnAct, Since
<1>122. EndMarked'
  BY <1>2, <1>5 DEF EndMarked, EnAct, Since, IsEnding
<1>123. Cleared'
  BY <1>2, <1>5 DEF Cleared, EnAct, Since
<1>124. RsOut'
  BY <1>2, <1>5 DEF RsOut, RsOn, Since
<1>125. StoredLater'
  <2>1. ending.e <= epoch /\ ending.e \in Int /\ epoch \in Int
    BY <1>t DEF IInv, Counts, CountsTyped, Counted
  <2>2. epoch > ending.e \/ ending.e = epoch
    BY <2>1
  <2> QED
    BY <2>2, <1>2, <1>3, <1>5 DEF StoredLater, IsEnding
<1>126. RunLater'
  BY <1>6 DEF RunLater
<1>127. LandLater'
  BY <1>t, <1>2, <1>3, <1>5, <1>6, <1>8 DEF IInv, LandLater, Landing, Gone, Auth, IsEnding, CountsTyped, Counted,
      RunsTyped, Typed
<1>128. EndsInSign'
  BY <1>3 DEF EndsInSign
<1>129. OldNoTok'
  BY <1>6 DEF OldNoTok
<1>130. ReqPcs'
  BY <1>7 DEF IInv, ReqPcs
<1>131. ReqOf'
  BY <1>2, <1>7 DEF IInv, ReqOf
<1>132. ReqCount'
  <2>1. epoch <= epoch
    BY <1>t DEF CountsTyped
  <2> QED
    BY <2>1, <1>2, <1>3, <1>7 DEF IInv, ReqCount
<1>133. RestoreWaits'
  BY <1>2, <1>5 DEF IInv, RestoreWaits, RsOn, Since, Busy
<1>134. ReqsWait'
  <2>1. SUFFICES ASSUME NEW x \in Slots, req'[x].pc = "waits"
                 PROVE  req'[x].run \in Epochs /\ Busy(req'[x].run) /\ ~(~Since(req'[x].e))
    BY <1>2 DEF ReqsWait, Busy, Since
  <2>2. req'[x] = req[x]
    BY <2>1, <1>7
  <2> QED
    BY <2>1, <2>2, <1>5 DEF IInv, ReqsWait, Act
<1>135. Begun'
  BY <1>6 DEF Begun
<1>136. PageBegun'
  BY <1>6 DEF PageBegun
<1>137. LatePage'
  BY <1>3 DEF LatePage
<1>138. OldAlone'
  BY <1>6 DEF OldAlone
<1>139. OneInUse'
  <2>1. PICK s \in Epochs : s = epoch
    BY <1>t DEF CountsTyped
  <2>2. AllOf(s)'
    BY <2>1, <1>2, <1>3, <1>5, <1>6, <1>7, <1>8 DEF AllOf, Of, IsEnding
  <2> QED
    BY <2>2 DEF OneInUse
<1>140. AfterEnd'
  BY <1>2, <1>5 DEF AfterEnd, EnAct, Since, IsEnding
<1> QED
  BY <1>1, <1>100, <1>101, <1>102, <1>103, <1>104, <1>105, <1>106, <1>107, <1>108, <1>109, <1>110, <1>111,
      <1>112, <1>113, <1>114, <1>115, <1>116, <1>117, <1>118, <1>119, <1>120, <1>121, <1>122, <1>123,
      <1>124, <1>125, <1>126, <1>127, <1>128, <1>129, <1>130, <1>131, <1>132, <1>133, <1>134, <1>135,
      <1>136, <1>137, <1>138, <1>139, <1>140 DEF IInv

\* A log out that waited for the sign in was asked for the new session too.
LEMMA SignWorkedKeeps ==
    ASSUME IInv, SignWorked
    PROVE  Kept
<1>1. IInv'
  BY SignWorkedKeepsInv
<1>2. ASSUME CauseInv PROVE CauseInv' /\ Taken
  <2>1. TypeOK /\ CountsTyped /\ Counts /\ RunsCount /\ Fresh /\ EndsInSign /\ RunsTyped
    BY Types DEF IInv
  <2>2. UNCHANGED <<asked, alive, epoch, ending, kc, rf, en>>
    BY DEF SignWorked, server
  <2>3. writing = epoch /\ kc.s = epoch /\ epoch # None /\ kc # NoToken
    <3>1. writing # None /\ epoch # None
      BY <2>1, Held, EpochsAre DEF SignWorked, Counts
    <3> QED
      BY <2>1, <3>1, Held DEF SignWorked, Counts, Fresh
  <2>4. inPlace' = epoch /\ writing' = None /\ Stored' = kc /\ mem'.s = epoch /\ mem' # NoToken
    BY <2>2, <2>3, Held DEF SignWorked, Stored
  <2>5. \A k \in Epochs : Busy(k) => rf[k].e < epoch /\ k < epoch /\ Since(rf[k].e)
    BY <2>1, <2>3 DEF RunsCount, Since, CountsTyped, RunsTyped, Counted
  <2>6. \A k \in Epochs : ~InP(k)'
    BY <2>1, <2>2, <2>4, <2>5 DEF InP, Busy, CountsTyped
  <2>7. KcHasIt'
    BY <2>2, <2>5 DEF KcHasIt, Since, Busy
  <2>8. ASSUME EnOn' PROVE epoch \in asked
    BY <1>2, <2>2, <2>3, <2>8 DEF CauseInv, AskedNew, EnOn, EnAct, Since
  <2>9. ASSUME IsEnding(epoch)' PROVE EnOn' /\ ending'.tok = NoToken
    <3>1. EnAct(<<"log", epoch>>) /\ ending.tok = NoToken
      BY <2>1, <2>2, <2>3, <2>9 DEF EndsInSign, IsEnding
    <3> QED
      BY <2>2, <3>1, Held, SlotFacts DEF EnOn, EnAct, Since
  <2>10. ShutForCause'
    <3> SUFFICES ASSUME Shut' PROVE ForCause' /\ Cause(mem)' /\ (IsEnding(epoch)' => Cause(ending.tok)')
      BY DEF ShutForCause
    <3>1. IsEnding(epoch)' /\ epoch \in asked'
      BY <2>2, <2>3, <2>8, <2>9 DEF Shut
    <3>2. ForCause' /\ Cause(mem)'
      BY <2>2, <2>3, <2>4, <2>6, <3>1 DEF ForCause, Cause
    <3>3. Cause(ending.tok)'
      BY <2>2, <2>9, <3>1, Held DEF Cause
    <3> QED
      BY <3>2, <3>3
  <2>11. NoMemForCause' /\ AskedNew'
    BY <2>4 DEF NoMemForCause, AskedNew
  <2>12. MemForCause'
    BY <2>2, <2>3, <2>4, <2>8 DEF MemForCause, Cause
  <2>13. Taken
    BY <2>3, <2>4 DEF Taken
  <2> QED
    BY <2>7, <2>10, <2>11, <2>12, <2>13 DEF CauseInv
<1> QED
  BY <1>1, <1>2 DEF Kept

\* The writes of a sign in, in their order.
LEMMA SignInWritesKeeps ==
    ASSUME IInv, NEW e \in Epochs, NEW ok \in BOOLEAN, SignInWrites(e, ok)
    PROVE  Kept
<1>1. /\ TypeOK /\ CountsTyped /\ ReqOf /\ mem \in Token /\ left \in Nat /\ sign \in [Epochs -> Signs]
      /\ writing = None \/ writing = epoch
      /\ sign[epoch] # "none" => writing = epoch
      /\ sign[epoch] \notin {"none", "landing"} => Landing = {} /\ sv.pc = "none"
  BY Types DEF IInv, TypeOK, Counts, Writers
<1>2. UNCHANGED <<server, asked, mem, epoch, inPlace, ending, unsaved, status, inFlight, leaving, rf, en, rs, sv>>
  BY DEF SignInWrites
<1>3. CASE Since(e)
  <2>1. EndSign(e, mem) /\ UNCHANGED <<kc, left>> /\ e # epoch
    BY <1>3 DEF SignInWrites, Since
  <2>2. writing # e
    BY <1>1, <2>1 DEF CountsTyped
  <2>3. /\ sign' \in [Epochs -> Signs] /\ sign'[e] = "none" /\ \A l \in Epochs : l # e => sign'[l] = sign[l]
        /\ writing' = writing /\ req' = req
    BY <1>1, <2>1, <2>2, EndSignEffect
  <2> QED
    BY <1>1, <1>2, <2>1, <2>3, SignStepKeeps DEF counts
<1>4. CASE ~Since(e) /\ sign[e] = "failed access"
  <2>1. EndSign(e, mem) /\ UNCHANGED <<kc, left>> /\ e = epoch
    BY <1>4 DEF SignInWrites, Since
  <2>2. writing = e
    BY <1>1, <1>4, <2>1
  <2>3. /\ sign' \in [Epochs -> Signs] /\ sign'[e] = "none" /\ \A l \in Epochs : l # e => sign'[l] = sign[l]
        /\ writing' = None /\ req' \in [Slots -> Run] /\ ReqSent(mem)
    BY <1>1, <2>1, <2>2, EndSignEffect
  <2>4. SignFailed
    BY <1>1, <1>2, <1>4, <2>1, <2>3 DEF SignFailed
  <2> QED
    BY <2>4, SignFailedKeeps
<1>5. ASSUME NEW v \in Signs \ {"none", "refresh"}, sign' = [sign EXCEPT ![e] = v], e = epoch,
             sign[e] \notin {"none", "refresh"}, Landing = {}, sv.pc = "none", left' \in Nat,
               UNCHANGED <<writing, req, kc>>
      PROVE  Kept
  <2>1. sign' \in [Epochs -> Signs] /\ sign'[e] = v /\ \A l \in Epochs : l # e => sign'[l] = sign[l]
    BY <1>1, <1>5
  <2> QED
    BY <1>2, <1>5, <2>1, SignStepKeeps DEF counts
<1>6. CASE ~Since(e) /\ sign[e] = "landing"
  <2>1. Calls(ok) /\ Landing = {} /\ sv.pc = "none" /\ UNCHANGED <<writing, req, kc>> /\ e = epoch
    BY <1>6 DEF SignInWrites, Since, Landed
  <2>2. PICK v \in {"access", "failed access"} : sign' = [sign EXCEPT ![e] = v]
    BY <1>6 DEF SignInWrites
  <2>3. v \in Signs \ {"none", "refresh"}
    BY DEF Signs
  <2> QED
    BY <1>1, <1>5, <1>6, <2>1, <2>2, <2>3, CallsLeft
<1>7. CASE ~Since(e) /\ sign[e] = "access" /\ ~ok
  <2>1. Calls(ok) /\ kc' = kc /\ UNCHANGED <<writing, req>> /\ e = epoch /\
          sign' = [sign EXCEPT ![e] = "failed refresh"]
    BY <1>7 DEF SignInWrites, Since
  <2>2. "failed refresh" \in Signs \ {"none", "refresh"} /\ Landing = {} /\ sv.pc = "none"
    BY <1>1, <1>7, <2>1 DEF Signs
  <2> QED
    BY <1>1, <1>5, <1>7, <2>1, <2>2, CallsLeft
<1>8. CASE ~Since(e) /\ sign[e] = "access" /\ ok
  <2>1. Calls(ok) /\ kc' = [s |-> e, g |-> 1] /\ UNCHANGED <<writing, req>> /\ e = epoch /\
          sign' = [sign EXCEPT ![e] = "refresh"]
    BY <1>8 DEF SignInWrites, Since
  <2>2. sign' \in [Epochs -> Signs] /\ sign'[e] = "refresh" /\ \A l \in Epochs : l # e => sign'[l] = sign[l]
    BY <1>1, <2>1 DEF Signs
  <2> QED
    BY <1>1, <1>2, <1>8, <2>1, <2>2, CallsLeft, SignKeptKeeps DEF counts
<1>9. CASE ~Since(e) /\ sign[e] = "failed refresh"
  <2>1. UNCHANGED <<writing, req, kc, left>> /\ e = epoch /\ sign' = [sign EXCEPT ![e] = "undo"]
    BY <1>9 DEF SignInWrites, Since
  <2>2. "undo" \in Signs \ {"none", "refresh"} /\ Landing = {} /\ sv.pc = "none"
    BY <1>1, <1>9, <2>1 DEF Signs
  <2> QED
    BY <1>1, <1>5, <1>9, <2>1, <2>2
<1> QED
  BY <1>3, <1>4, <1>6, <1>7, <1>8, <1>9 DEF SignInWrites

\* The last step of a sign in.
LEMMA SignInEndsKeeps ==
    ASSUME IInv, NEW e \in Epochs, SignInEnds(e)
    PROVE  Kept
<1>1. /\ TypeOK /\ CountsTyped /\ ReqOf /\ mem \in Token /\ left \in Nat /\ sign \in [Epochs -> Signs]
      /\ writing = None \/ writing = epoch
      /\ sign[epoch] # "none" => writing = epoch
  BY Types DEF IInv, TypeOK, Counts
<1>2. /\ UNCHANGED <<server, asked, epoch, ending, inFlight, leaving, kc, rf, en, rs, sv, left>>
      /\ sign[e] \in {"refresh", "undo"} /\ EndSign(e, mem')
  BY DEF SignInEnds
<1>3. CASE Since(e)
  <2>1. UNCHANGED <<inPlace, unsaved, mem, status>> /\ e # epoch
    BY <1>3 DEF SignInEnds, Since
  <2>2. writing # e /\ mem' \in Token
    BY <1>1, <2>1 DEF CountsTyped
  <2>3. /\ sign' \in [Epochs -> Signs] /\ sign'[e] = "none" /\ \A l \in Epochs : l # e => sign'[l] = sign[l]
        /\ writing' = writing /\ req' = req
    BY <1>1, <1>2, <2>1, <2>2, EndSignEffect
  <2> QED
    BY <1>1, <1>2, <2>1, <2>3, SignStepKeeps DEF counts
<1>4. CASE ~Since(e) /\ sign[e] = "undo"
  <2>1. UNCHANGED <<inPlace, unsaved, mem, status>> /\ e = epoch
    BY <1>4 DEF SignInEnds, Since
  <2>2. writing = e /\ mem' = mem
    BY <1>1, <1>4, <2>1
  <2>3. /\ sign' \in [Epochs -> Signs] /\ sign'[e] = "none" /\ \A l \in Epochs : l # e => sign'[l] = sign[l]
        /\ writing' = None /\ req' \in [Slots -> Run] /\ ReqSent(mem)
    BY <1>1, <1>2, <2>1, <2>2, EndSignEffect
  <2>4. SignFailed
    BY <1>1, <1>2, <1>4, <2>1, <2>3 DEF SignFailed
  <2> QED
    BY <2>4, SignFailedKeeps
<1>5. CASE ~Since(e) /\ sign[e] = "refresh"
  <2>1. e = epoch /\ inPlace' = e /\ unsaved' = NoToken /\ mem' = [s |-> e, g |-> 1] /\ status' = "authenticated"
    BY <1>5 DEF SignInEnds, Since
  <2>2. writing = e /\ mem' \in Token
    <3>1. e # None /\ 1 \in Nat
      BY EpochsAre
    <3> QED
      BY <3>1, <1>1, <1>5, <2>1 DEF Token, Count
  <2>3. PICK t \in Token : t = mem'
    BY <2>2
  <2>4. /\ sign' \in [Epochs -> Signs] /\ sign'[e] = "none" /\ \A l \in Epochs : l # e => sign'[l] = sign[l]
        /\ writing' = None /\ req' \in [Slots -> Run] /\ ReqSent(t)
    BY <1>1, <1>2, <2>1, <2>2, <2>3, EndSignEffect
  <2>5. SignWorked
    BY <1>2, <1>5, <2>1, <2>3, <2>4 DEF SignWorked
  <2> QED
    BY <2>5, SignWorkedKeeps
<1> QED
  BY <1>2, <1>3, <1>4, <1>5

=============================================================================
