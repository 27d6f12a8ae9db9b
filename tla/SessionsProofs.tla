--------------------------- MODULE SessionsProofs ---------------------------
(***************************************************************************)
(* Sessions and push tokens, for any number of accounts, phones, tokens    *)
(* and requests.                                                           *)
(***************************************************************************)
EXTENDS Sessions, TLAPS, FiniteSetTheorems, WellFoundedInduction

-----------------------------------------------------------------------------
(* The inductive invariant.                                                *)

\* A refresh that holds the row of its token, from Rotate to its commit.
Holds(r) ==
    \/ r.at = "move"
    \/ r.at = "commit" /\ r.kind = "refresh"

\* A password change or a disable that holds the row of its account.
Ends(r) ==
    \/ r.at \in {"first", "second", "push"}
    \/ r.at = "commit" /\ r.kind \in {"change", "disable"}

\* A token that was rotated is not live, and what it was rotated into is its
\* account's.
RowsAgree ==
    \A i \in Rows :
        /\ token[i].session \in Rows
        /\ token[i].live => token[i].next = None
        /\ token[i].next # None =>
               token[i].next \in Rows /\ token[token[i].next].user = token[i].user

\* PushOnCurrentToken, and that the token is there.
PushAgrees ==
    \A f \in Phones :
        push[f] # None /\ push[f].tok # None =>
            /\ push[f].tok \in Rows
            /\ token[push[f].tok].next = None
            /\ token[push[f].tok].user = push[f].user

\* What a request carries from statement to statement.
Shape(r) ==
    /\ r.at # "idle" => r.user \in Users
    /\ r.at \in {"rotate", "move"} => r.kind = "refresh"
    /\ r.at \in {"walk", "follow"} => r.kind \in {"refresh", "logout"}
    /\ r.at = "account" => r.kind \in {"change", "disable", "enable"}
    /\ r.at \in {"first", "second", "push"} => r.kind \in {"change", "disable"}
    /\ r.at = "commit" => r.kind \in {"refresh", "change", "disable"}
    /\ r.at \in {"share", "phone", "bound"} => r.kind \in {"save", "remove"} /\ r.phone \in Phones
    /\ r.at \in {"rotate", "move"} => r.new \in Ids
    /\ r.at # "idle" /\ r.kind = "change" => r.new \in Ids
    /\ r.at = "commit" /\ r.kind = "refresh" => r.new \in Ids
    /\ r.taking => r.at \in {"first", "second", "push", "move"} /\ r.todo # {}
    /\ ~r.taking => r.todo = {}
    /\ r.at \in {"first", "second"} => r.todo \subseteq Ids
    /\ r.at \in {"push", "move"} => r.todo \subseteq Phones
    /\ r.hits \subseteq r.exc
    /\ r.at \in {"rotate", "account"} => r.hits = {}
    /\ r.at \in {"first", "move"} /\ ~r.taking => r.hits = {}
    /\ r.at = "account" => r.seen = {}
    /\ Holds(r) => r.tok \in r.exc
    /\ r.at \in {"phone", "bound"} => r.tok \in r.shr
    /\ r.at = "bound" => r.phone \in r.exc

\* Nothing is left to revoke of the row i: it is held, or dead.
Caught(r, i, rest) == i \in r.hits \cup rest \/ ~token[i].live

\* What a password change or a disable has caught so far.
SeesSessions(r) ==
    /\ \A i \in r.hits \cap Ids : i \in Rows
    /\ \A f \in r.hits \cap Phones : push[f] # None /\ push[f].user = r.user
    /\ \A i \in r.seen : i \in Rows /\ token[i].user = r.user
    /\ r.at = "first" /\ r.taking => \A i \in r.seen : Caught(r, i, r.todo)
    /\ r.at # "first" => \A i \in r.seen : Caught(r, i, {})
    /\ r.at = "second" /\ r.taking =>
           \A i \in r.seen : token[i].next # None => Caught(r, token[i].next, r.todo)
    /\ r.at \in {"push", "commit"} =>
           \A i \in r.seen : token[i].next # None => Caught(r, token[i].next, {})

\* What a refresh has caught of its phones.
SeesPhones(r) ==
    /\ r.tok \in Rows /\ token[r.tok].user = r.user /\ token[r.tok].live
    /\ \A f \in r.hits : f \in BoundTo(r.tok)
    /\ r.taking => \A f \in BoundTo(r.tok) : f \in r.hits \cup r.todo
    /\ r.at = "commit" => \A f \in BoundTo(r.tok) : f \in r.hits

\* What a request has read stays true to its commit.
Sees(r) ==
    /\ r.new # None => r.new \notin Rows
    /\ r.at \in {"rotate", "walk", "follow", "share", "phone", "bound"} => r.tok \in Rows
    /\ r.at \in {"rotate", "share", "phone", "bound"} => token[r.tok].user = r.user
    /\ r.at \in {"phone", "bound"} => token[r.tok].next = None
    /\ r.at = "bound" => push[r.phone] # None
    /\ Holds(r) => SeesPhones(r)
    /\ Ends(r) => SeesSessions(r)

\* No two requests hold one row, nor write one new token.
Apart(r, q) ==
    /\ r.exc \cap q.exc = {} /\ r.exc \cap q.shr = {}
    /\ r.new # None => r.new # q.new

Good ==
    /\ \A p \in Procs : Shape(proc[p]) /\ Sees(proc[p])
    /\ \A p, q \in Procs : p # q => Apart(proc[p], proc[q])

IInv == TypeOK /\ RowsAgree /\ PushAgrees /\ SessionHasOneLiveToken /\ Good
-----------------------------------------------------------------------------
(* What the types come to.                                                 *)

LEMMA RowTypes ==
    ASSUME TypeOK, NEW i \in Ids
    PROVE  /\ i \in Rows => token[i] \in TokenRow /\ token[i].user \in Users
                            /\ token[i].live \in BOOLEAN /\ token[i].next \in Ids \cup {None}
           /\ i \notin Rows => token[i] = None
BY DEF TypeOK, Rows, TokenRow

LEMMA PushTypes ==
    ASSUME TypeOK, NEW f \in Phones, push[f] # None
    PROVE  push[f] \in PushRow /\ push[f].user \in Users /\ push[f].tok \in Ids \cup {None}
BY DEF TypeOK, PushRow

LEMMA NewRow ==
    ASSUME NEW u \in Users, NEW i \in Ids, NEW older \in SUBSET Ids, NEW s \in Ids
    PROVE  /\ NewToken(u, i, older, s) \in TokenRow
           /\ NewToken(u, i, older, s) # None
           /\ NewToken(u, i, older, s).user = u
           /\ NewToken(u, i, older, s).live
           /\ NewToken(u, i, older, s).next = None
           /\ NewToken(u, i, older, s).session = s
<1>1. NewToken(u, i, older, s) \in TokenRow
  BY DEF NewToken, TokenRow
<1>2. NewToken(u, i, older, s) # None
  BY <1>1, NoRowAssumption
<1> QED BY <1>1, <1>2 DEF NewToken

LEMMA IdleRequest ==
    /\ Idle \in Request /\ Idle.at = "idle" /\ Idle.new = None
    /\ Idle.exc = {} /\ Idle.shr = {}
    /\ Shape(Idle) /\ Sees(Idle)
<1>1. Idle \in Request /\ Idle.at = "idle" /\ Idle.new = None /\ Idle.exc = {} /\ Idle.shr = {}
      /\ Idle.kind = "none" /\ Idle.taking = FALSE /\ Idle.hits = {} /\ Idle.todo = {}
  BY RowsAssumption DEF Idle, Request
<1> QED BY <1>1 DEF Shape, Sees, Holds, Ends

\* A request that has only begun.
Fresh(r, kind, u, at) ==
    /\ r \in Request /\ r.kind = kind /\ r.at = at /\ r.user = u
    /\ r.new = None /\ r.taking = FALSE
    /\ r.todo = {} /\ r.hits = {} /\ r.seen = {} /\ r.exc = {} /\ r.shr = {}

LEMMA BeginRequest ==
    ASSUME NEW kind \in Kinds, NEW u \in Users,
           NEW at \in {"insert", "rotate", "walk", "account", "share"}
    PROVE  Fresh(Begin(kind, u, at), kind, u, at)
<1> SUFFICES ASSUME NEW r, r = Begin(kind, u, at) PROVE Fresh(r, kind, u, at)
  OBVIOUS
<1>1. r = [kind |-> kind, at |-> at, user |-> u, from |-> None, tok |-> None,
           steps |-> 0, phone |-> None, new |-> None, older |-> {},
           taking |-> FALSE, todo |-> {}, hits |-> {}, seen |-> {},
           exc |-> {}, shr |-> {}]
  BY DEF Begin, Idle
<1>2. 0 \in 0 .. MaxReuseSteps
  BY RowsAssumption
<1>3. r \in Request
  BY <1>1, <1>2 DEF Request
<1> QED BY <1>1, <1>3 DEF Fresh

LEMMA GotoIs ==
    ASSUME TypeOK, NEW p \in Procs, NEW r \in Request, Goto(p, r)
    PROVE  /\ proc' \in [Procs -> Request]
           /\ \A q \in Procs : proc'[q] = IF q = p THEN r ELSE proc[q]
BY DEF Goto, TypeOK

-----------------------------------------------------------------------------
(* Steps that write no row.                                                *)

LEMMA AllApart ==
    ASSUME IInv, NEW p \in Procs, NEW r \in Request,
           \A q \in Procs : proc'[q] = IF q = p THEN r ELSE proc[q],
           \A q \in Procs \ {p} : Apart(r, proc[q]) /\ Apart(proc[q], r)
    PROVE  \A q, s \in Procs : q # s => Apart(proc'[q], proc'[s])
BY DEF IInv, Good

LEMMA MoveKeeps ==
    ASSUME IInv, NEW p \in Procs, NEW r \in Request, Goto(p, r),
           Shape(r), Sees(r),
           \A q \in Procs \ {p} : Apart(r, proc[q]) /\ Apart(proc[q], r),
           UNCHANGED <<token, push>>, disabled' \in [Users -> BOOLEAN]
    PROVE  IInv'
<1>1. \A q \in Procs : proc'[q] = IF q = p THEN r ELSE proc[q]
  BY GotoIs DEF IInv
<1>2. TypeOK'
  BY GotoIs DEF IInv, TypeOK
<1>3. Rows' = Rows /\ \A t : BoundTo(t)' = BoundTo(t)
  BY DEF Rows, BoundTo
<1>4. RowsAgree' /\ PushAgrees' /\ SessionHasOneLiveToken'
  BY <1>3 DEF IInv, RowsAgree, PushAgrees, SessionHasOneLiveToken
<1>5. \A q \in Procs : Shape(proc'[q]) /\ Sees(proc'[q])
  BY <1>1 DEF IInv, Good
<1>6. \A q \in Procs : (Shape(proc[q]) /\ Sees(proc[q]))'
  BY <1>3, <1>5 DEF Shape, Sees, SeesPhones, SeesSessions, Caught, Holds, Ends
<1>7. \A q, s \in Procs : q # s => Apart(proc'[q], proc'[s])
  BY <1>1, AllApart
<1>8. (\A q, s \in Procs : q # s => Apart(proc[q], proc[s]))'
  BY <1>7 DEF Apart
<1> QED BY <1>2, <1>4, <1>6, <1>8 DEF IInv, Good

\* A request that goes on holds what it held, and rows nobody else holds.
LEMMA StillApart ==
    ASSUME IInv, NEW p \in Procs, NEW r \in Request,
           \A i \in r.exc \ proc[p].exc :
               \A q \in Procs \ {p} : i \notin proc[q].exc /\ i \notin proc[q].shr,
           \A i \in r.shr \ proc[p].shr :
               \A q \in Procs \ {p} : i \notin proc[q].exc,
           r.new \in {proc[p].new, None}
    PROVE  \A q \in Procs \ {p} : Apart(r, proc[q]) /\ Apart(proc[q], r)
<1> SUFFICES ASSUME NEW q \in Procs, q # p PROVE Apart(r, proc[q]) /\ Apart(proc[q], r)
  OBVIOUS
<1>1. Apart(proc[p], proc[q]) /\ Apart(proc[q], proc[p])
  BY DEF IInv, Good
<1> QED BY <1>1 DEF Apart

LEMMA IdleApart ==
    ASSUME NEW q \in Procs PROVE Apart(Idle, proc[q]) /\ Apart(proc[q], Idle)
BY IdleRequest DEF Apart

LEMMA DoneKeeps ==
    ASSUME IInv, NEW p \in Procs, Done(p),
           UNCHANGED <<token, push>>, disabled' \in [Users -> BOOLEAN]
    PROVE  IInv'
<1>1. Idle \in Request /\ Shape(Idle) /\ Sees(Idle) /\ Goto(p, Idle)
  BY IdleRequest DEF Done
<1>2. \A q \in Procs \ {p} : Apart(Idle, proc[q]) /\ Apart(proc[q], Idle)
  BY IdleApart
<1> QED BY <1>1, <1>2, MoveKeeps

-----------------------------------------------------------------------------
(* Requests that begin.                                                    *)

LEMMA FreeIds ==
    ASSUME TypeOK
    PROVE  /\ Begun \in SUBSET Ids
           /\ \A new \in Free : /\ new \in Ids /\ new # None /\ new \notin Rows
                                /\ \A q \in Procs : new # proc[q].new
<1>1. \A q \in Procs : proc[q].new \in Ids \cup {None}
  BY DEF TypeOK, Request
<1> QED BY <1>1, RowsAssumption DEF Begun, Free, Rows

LEMMA ArriveKeeps ==
    ASSUME IInv, NEW p \in Procs, NEW r \in Request, Goto(p, r),
           Shape(r), Sees(r), r.exc = {}, r.shr = {}, r.new \in Free \cup {None},
           UNCHANGED <<token, push, disabled>>
    PROVE  IInv'
<1>1. \A q \in Procs \ {p} : Apart(r, proc[q]) /\ Apart(proc[q], r)
  BY FreeIds DEF Apart, IInv
<1>2. disabled' \in [Users -> BOOLEAN]
  BY DEF IInv, TypeOK
<1> QED BY <1>1, <1>2, MoveKeeps

LEMMA ArrivalKeeps ==
    ASSUME IInv, NEW p \in Procs, Arrival(p) PROVE IInv'
<1> USE DEF IInv
<1>1. ASSUME NEW u \in Users, Login(p, u) PROVE IInv'
  <2> DEFINE r == Begin("login", u, "insert")
  <2>1. Fresh(r, "login", u, "insert")
    BY <1>1, BeginRequest DEF Login, Arrives
  <2>2. Goto(p, r) /\ UNCHANGED <<token, push, disabled>>
    BY <1>1 DEF Login
  <2> HIDE DEF r
  <2>3. Shape(r) /\ Sees(r)
    BY <2>1 DEF Fresh, Shape, Sees, Holds, Ends
  <2> QED BY <2>1, <2>2, <2>3, ArriveKeeps DEF Fresh
<1>2. ASSUME NEW t \in Rows, NEW new \in Free, Refresh(p, t, new) PROVE IInv'
  <2> DEFINE b == Begin("refresh", token[t].user, "rotate")
             r == [b EXCEPT !.from = t, !.tok = t, !.new = new, !.older = Begun]
  <2>1. t \in Ids /\ token[t].user \in Users /\ new \in Ids /\ new \notin Rows
    BY RowTypes, FreeIds DEF Rows
  <2>2. Fresh(b, "refresh", token[t].user, "rotate")
    BY <1>2, <2>1, BeginRequest DEF Refresh, Arrives
  <2>3. Goto(p, r) /\ UNCHANGED <<token, push, disabled>>
    BY <1>2 DEF Refresh
  <2> HIDE DEF b
  <2>4. b \in Request
    BY <2>2 DEF Fresh
  <2>5. r \in Request
    BY <2>1, <2>4, FreeIds DEF Request
  <2>6. /\ r.kind = "refresh" /\ r.at = "rotate" /\ r.user = token[t].user
        /\ r.tok = t /\ r.new = new /\ r.taking = FALSE
        /\ r.todo = {} /\ r.hits = {} /\ r.seen = {} /\ r.exc = {} /\ r.shr = {}
    BY <2>2, <2>4 DEF Request, Fresh
  <2> HIDE DEF r
  <2>7. Shape(r) /\ Sees(r)
    BY <2>1, <2>6 DEF Shape, Sees, Holds, Ends
  <2> QED BY <2>3, <2>5, <2>6, <2>7, ArriveKeeps
<1>3. ASSUME NEW t \in Rows, RefreshAgain(p, t) \/ Logout(p, t) PROVE IInv'
  <2> SUFFICES ASSUME NEW kind \in {"refresh", "logout"}, kind \in Kinds,
                      Goto(p, [Begin(kind, token[t].user, "walk") EXCEPT !.from = t, !.tok = t]),
                      UNCHANGED <<token, push, disabled>>
               PROVE  IInv'
    BY <1>3 DEF RefreshAgain, Logout, Arrives
  <2> DEFINE b == Begin(kind, token[t].user, "walk")
             r == [b EXCEPT !.from = t, !.tok = t]
  <2>1. t \in Ids /\ token[t].user \in Users
    BY RowTypes DEF Rows
  <2>2. Fresh(b, kind, token[t].user, "walk")
    BY <2>1, BeginRequest
  <2>3. Goto(p, r)
    OBVIOUS
  <2> HIDE DEF b
  <2>4. b \in Request
    BY <2>2 DEF Fresh
  <2>5. r \in Request
    BY <2>1, <2>4 DEF Request
  <2>6. /\ r.kind = kind /\ r.at = "walk" /\ r.user = token[t].user
        /\ r.tok = t /\ r.new = None /\ r.taking = FALSE
        /\ r.todo = {} /\ r.hits = {} /\ r.seen = {} /\ r.exc = {} /\ r.shr = {}
    BY <2>2, <2>4 DEF Request, Fresh
  <2> HIDE DEF r
  <2>7. Shape(r) /\ Sees(r)
    BY <2>1, <2>6 DEF Shape, Sees, Holds, Ends
  <2> QED BY <2>3, <2>5, <2>6, <2>7, ArriveKeeps
<1>4. ASSUME NEW u \in Users, NEW new \in Free, ChangePassword(p, u, new) PROVE IInv'
  <2> DEFINE b == Begin("change", u, "account")
             r == [b EXCEPT !.new = new, !.older = Begun]
  <2>1. new \in Ids /\ new \notin Rows
    BY FreeIds
  <2>2. Fresh(b, "change", u, "account")
    BY <1>4, BeginRequest DEF ChangePassword, Arrives
  <2>3. Goto(p, r) /\ UNCHANGED <<token, push, disabled>>
    BY <1>4 DEF ChangePassword
  <2> HIDE DEF b
  <2>4. b \in Request
    BY <2>2 DEF Fresh
  <2>5. r \in Request
    BY <2>1, <2>4, FreeIds DEF Request
  <2>6. /\ r.kind = "change" /\ r.at = "account" /\ r.user = u
        /\ r.new = new /\ r.taking = FALSE
        /\ r.todo = {} /\ r.hits = {} /\ r.seen = {} /\ r.exc = {} /\ r.shr = {}
    BY <2>2, <2>4 DEF Request, Fresh
  <2> HIDE DEF r
  <2>7. Shape(r) /\ Sees(r)
    BY <2>1, <2>6 DEF Shape, Sees, Holds, Ends
  <2> QED BY <2>3, <2>5, <2>6, <2>7, ArriveKeeps
<1>5. ASSUME NEW u \in Users, NEW kind \in {"disable", "enable"}, SetDisabled(p, u, kind)
      PROVE  IInv'
  <2> DEFINE r == Begin(kind, u, "account")
  <2>1. Fresh(r, kind, u, "account")
    BY <1>5, BeginRequest DEF SetDisabled, Arrives
  <2>2. Goto(p, r) /\ UNCHANGED <<token, push, disabled>>
    BY <1>5 DEF SetDisabled
  <2> HIDE DEF r
  <2>3. Shape(r) /\ Sees(r)
    BY <2>1 DEF Fresh, Shape, Sees, Holds, Ends
  <2> QED BY <2>1, <2>2, <2>3, ArriveKeeps DEF Fresh
<1>6. ASSUME NEW t \in Rows, NEW f \in Phones, NEW kind \in {"save", "remove"},
             PushToken(p, kind, t, f)
      PROVE  IInv'
  <2> DEFINE b == Begin(kind, token[t].user, "share")
             r == [b EXCEPT !.from = t, !.tok = t, !.phone = f]
  <2>1. t \in Ids /\ token[t].user \in Users
    BY RowTypes DEF Rows
  <2>2. Fresh(b, kind, token[t].user, "share")
    BY <1>6, <2>1, BeginRequest DEF PushToken, Arrives
  <2>3. Goto(p, r) /\ UNCHANGED <<token, push, disabled>>
    BY <1>6 DEF PushToken
  <2> HIDE DEF b
  <2>4. b \in Request
    BY <2>2 DEF Fresh
  <2>5. r \in Request
    BY <2>1, <2>4 DEF Request
  <2>6. /\ r.kind = kind /\ r.at = "share" /\ r.user = token[t].user
        /\ r.tok = t /\ r.phone = f /\ r.new = None /\ r.taking = FALSE
        /\ r.todo = {} /\ r.hits = {} /\ r.seen = {} /\ r.exc = {} /\ r.shr = {}
    BY <2>2, <2>4 DEF Request, Fresh
  <2> HIDE DEF r
  <2>7. Shape(r) /\ Sees(r)
    BY <2>1, <2>6 DEF Shape, Sees, Holds, Ends
  <2> QED BY <2>3, <2>5, <2>6, <2>7, ArriveKeeps
<1> QED BY <1>1, <1>2, <1>3, <1>4, <1>5, <1>6 DEF Arrival

-----------------------------------------------------------------------------
(* Statements that write no row.                                           *)

\* Nobody else holds the row that is wanted, nor shares it with a write.
LEMMA Unblocked ==
    ASSUME NEW p \in Procs, Blockers(p) = {}
    PROVE  \A q \in Procs \ {p} :
               /\ Wants(p) \notin proc[q].exc
               /\ proc[p].at # "share" => Wants(p) \notin proc[q].shr
BY DEF Blockers

LEMMA RotateKeeps == ASSUME IInv, NEW p \in Procs, Rotate(p) PROVE IInv'
<1> DEFINE old == proc[p]
           held == [old EXCEPT !.exc = old.exc \cup {old.tok}]
           live == [held EXCEPT !.at = "move"]
           dead == [old EXCEPT !.at = "walk", !.new = None, !.older = {}]
<1>1. old \in Request /\ Shape(old) /\ Sees(old)
  BY DEF IInv, TypeOK, Good
<1>2. old.at = "rotate" /\ ~old.taking /\ Blockers(p) = {} /\ UNCHANGED <<token, push, disabled>>
  BY DEF Rotate, Runs
<1>3. IF token[old.tok].live THEN Goto(p, live) ELSE Goto(p, dead)
  BY DEF Rotate, StillLive, Holding
<1>4. Wants(p) = old.tok
  BY <1>2 DEF Wants
<1>5. \A q \in Procs \ {p} : old.tok \notin proc[q].exc /\ old.tok \notin proc[q].shr
  BY <1>2, <1>4, Unblocked
<1>6. disabled' \in [Users -> BOOLEAN]
  BY <1>2 DEF IInv, TypeOK
<1>7. CASE token[old.tok].live
  <2>1. Goto(p, live)
    BY <1>3, <1>7
  <2>2. old.tok \in Rows /\ old.tok \in Ids
    BY <1>1, <1>2 DEF Sees, Rows
  <2> HIDE DEF old
  <2>3. held \in Request
    BY <1>1, <2>2 DEF Request
  <2>4. live \in Request
    BY <2>3 DEF Request
  <2>5. /\ live.at = "move" /\ live.exc = old.exc \cup {old.tok} /\ live.kind = old.kind
        /\ live.user = old.user /\ live.tok = old.tok /\ live.new = old.new
        /\ live.taking = old.taking /\ live.todo = old.todo /\ live.hits = old.hits
        /\ live.shr = old.shr
    BY <1>1 DEF Request
  <2> HIDE DEF live
  <2>6. Shape(live)
    BY <1>1, <1>2, <2>5 DEF Shape, Holds
  <2>7. SeesPhones(live)
    BY <1>1, <1>2, <1>7, <2>2, <2>5 DEF Shape, Sees, SeesPhones
  <2>8. Sees(live)
    BY <1>1, <1>2, <2>5, <2>7 DEF Sees, Holds, Ends
  <2>9. \A q \in Procs \ {p} : Apart(live, proc[q]) /\ Apart(proc[q], live)
    BY <1>5, <2>4, <2>5, StillApart DEF old
  <2> QED BY <1>2, <1>6, <2>1, <2>4, <2>6, <2>8, <2>9, MoveKeeps
<1>8. CASE ~token[old.tok].live
  <2>1. Goto(p, dead)
    BY <1>3, <1>8
  <2> HIDE DEF old
  <2>2. dead \in Request
    BY <1>1 DEF Request
  <2>3. /\ dead.at = "walk" /\ dead.exc = old.exc /\ dead.kind = old.kind
        /\ dead.user = old.user /\ dead.tok = old.tok /\ dead.new = None
        /\ dead.taking = old.taking /\ dead.todo = old.todo /\ dead.hits = old.hits
        /\ dead.shr = old.shr
    BY <1>1 DEF Request
  <2> HIDE DEF dead
  <2>4. Shape(dead) /\ Sees(dead)
    BY <1>1, <1>2, <2>3 DEF Shape, Sees, Holds, Ends
  <2>5. \A q \in Procs \ {p} : Apart(dead, proc[q]) /\ Apart(proc[q], dead)
    BY <1>5, <2>2, <2>3, StillApart DEF old
  <2> QED BY <1>2, <1>6, <2>1, <2>2, <2>4, <2>5, MoveKeeps
<1> QED BY <1>7, <1>8

LEMMA WalkKeeps == ASSUME IInv, NEW p \in Procs, Walk(p) PROVE IInv'
<1> DEFINE old == proc[p]
<1>1. old \in Request /\ Shape(old) /\ Sees(old)
  BY DEF IInv, TypeOK, Good
<1>2. old.at = "walk" /\ ~old.taking /\ UNCHANGED <<token, push, disabled>>
  BY DEF Walk, Runs
<1>3. PICK chain \in [0 .. MaxReuseSteps -> Rows], k \in 0 .. MaxReuseSteps :
          Goto(p, [old EXCEPT !.at = "follow", !.tok = chain[k], !.steps = k])
  BY DEF Walk, Chains
<1> DEFINE t == chain[k]
           r == [old EXCEPT !.at = "follow", !.tok = t, !.steps = k]
<1>4. t \in Rows /\ t \in Ids
  BY DEF Rows
<1>5. Goto(p, r) /\ disabled' \in [Users -> BOOLEAN]
  BY <1>2, <1>3 DEF IInv, TypeOK
<1> HIDE DEF old, t
<1>6. r \in Request
  BY <1>1, <1>4 DEF Request
<1>7. /\ r.at = "follow" /\ r.exc = old.exc /\ r.kind = old.kind /\ r.user = old.user
      /\ r.tok = t /\ r.new = old.new /\ r.taking = old.taking /\ r.todo = old.todo
      /\ r.hits = old.hits /\ r.shr = old.shr
  BY <1>1 DEF Request
<1> HIDE DEF r
<1>8. Shape(r)
  BY <1>1, <1>2, <1>7 DEF Shape, Holds
<1>9. Sees(r)
  BY <1>1, <1>2, <1>4, <1>7 DEF Sees, Holds, Ends
<1>10. \A q \in Procs \ {p} : Apart(r, proc[q]) /\ Apart(proc[q], r)
  BY <1>6, <1>7, StillApart DEF old
<1> QED BY <1>2, <1>5, <1>6, <1>8, <1>9, <1>10, MoveKeeps

\* The row Follow waited for was rotated meanwhile.
LEMMA FollowOnKeeps ==
    ASSUME IInv, NEW p \in Procs, Follow(p), MoreToFollow(p) PROVE IInv'
<1> DEFINE old == proc[p]
           next == token[old.tok].next
<1>1. old \in Request /\ Shape(old) /\ Sees(old)
  BY DEF IInv, TypeOK, Good
<1>2. old.at = "follow" /\ ~old.taking /\ Blockers(p) = {} /\ UNCHANGED <<token, push, disabled>>
  BY DEF Follow, Runs
<1>3. old.tok \in Rows /\ old.tok \in Ids /\ next # None
  BY <1>1, <1>2 DEF Sees, Rows, MoreToFollow
<1>4. next \in Rows /\ next \in Ids
  BY <1>3 DEF IInv, RowsAgree, Rows
<1>5. Wants(p) = old.tok
  BY <1>2 DEF Wants
<1>6. \A q \in Procs \ {p} : old.tok \notin proc[q].exc /\ old.tok \notin proc[q].shr
  BY <1>2, <1>5, Unblocked
<1>7. disabled' \in [Users -> BOOLEAN]
  BY <1>2 DEF IInv, TypeOK
<1>8. CASE LimitReached(p)
  <2>1. Done(p)
    BY <1>8 DEF Follow
  <2> QED BY <1>2, <1>7, <2>1, DoneKeeps
<1>9. CASE ~LimitReached(p)
  <2> DEFINE held == [old EXCEPT !.exc = old.exc \cup {old.tok}]
             r == [held EXCEPT !.tok = next, !.steps = old.steps + 1]
  <2>1. Goto(p, [Holding(old, old.tok) EXCEPT !.tok = next, !.steps = @ + 1])
    BY <1>9 DEF Follow
  <2>2. Holding(old, old.tok) = held
    BY DEF Holding
  <2>3. old.steps \in 0 .. MaxReuseSteps /\ old.steps + 1 \in 0 .. MaxReuseSteps
    BY <1>1, <1>9, RowsAssumption DEF Request, LimitReached
  <2> HIDE DEF old, next
  <2>4. held \in Request /\ held.steps = old.steps
    BY <1>1, <1>3 DEF Request
  <2>5. Goto(p, r)
    BY <2>1, <2>2, <2>4 DEF Request
  <2>6. r \in Request
    BY <1>4, <2>3, <2>4 DEF Request
  <2>7. /\ r.at = old.at /\ r.exc = old.exc \cup {old.tok} /\ r.kind = old.kind
        /\ r.user = old.user /\ r.tok = next /\ r.new = old.new
        /\ r.taking = old.taking /\ r.todo = old.todo /\ r.hits = old.hits
        /\ r.shr = old.shr
    BY <1>1 DEF Request
  <2> HIDE DEF r
  <2>8. Shape(r)
    BY <1>1, <1>2, <2>7 DEF Shape, Holds
  <2>9. Sees(r)
    BY <1>1, <1>2, <1>4, <2>7 DEF Sees, Holds, Ends
  <2>10. \A q \in Procs \ {p} : Apart(r, proc[q]) /\ Apart(proc[q], r)
    BY <1>6, <2>6, <2>7, StillApart DEF old
  <2> QED BY <1>2, <1>7, <2>5, <2>6, <2>8, <2>9, <2>10, MoveKeeps
<1> QED BY <1>8, <1>9

LEMMA AccountKeeps == ASSUME IInv, NEW p \in Procs, Account(p) PROVE IInv'
<1> DEFINE old == proc[p]
<1>1. old \in Request /\ Shape(old) /\ Sees(old)
  BY DEF IInv, TypeOK, Good
<1>2. old.at = "account" /\ ~old.taking /\ Blockers(p) = {} /\ UNCHANGED <<token, push>>
  BY DEF Account, Runs
<1>3. old.user \in Users /\ old.kind \in {"change", "disable", "enable"}
      /\ old.hits = {} /\ old.seen = {} /\ old.todo = {}
  BY <1>1, <1>2 DEF Shape
<1>4. CASE old.kind = "enable"
  <2>1. disabled' = [disabled EXCEPT ![old.user] = FALSE] /\ Done(p)
    BY <1>4 DEF Account
  <2>2. disabled' \in [Users -> BOOLEAN]
    BY <2>1 DEF IInv, TypeOK
  <2> QED BY <1>2, <2>1, <2>2, DoneKeeps
<1>5. CASE old.kind = "change" /\ disabled[old.user]
  <2>1. Done(p) /\ UNCHANGED disabled
    BY <1>5 DEF Account
  <2>2. disabled' \in [Users -> BOOLEAN]
    BY <2>1 DEF IInv, TypeOK
  <2> QED BY <1>2, <2>1, <2>2, DoneKeeps
<1>6. CASE old.kind # "enable" /\ ~(old.kind = "change" /\ disabled[old.user])
  <2> DEFINE held == [old EXCEPT !.exc = old.exc \cup {old.user}]
             r == [held EXCEPT !.at = "first"]
  <2>1. Goto(p, r) /\ UNCHANGED disabled
    BY <1>6 DEF Account, Holding
  <2>2. Wants(p) = old.user
    BY <1>2 DEF Wants
  <2>3. \A q \in Procs \ {p} : old.user \notin proc[q].exc /\ old.user \notin proc[q].shr
    BY <1>2, <2>2, Unblocked
  <2>4. disabled' \in [Users -> BOOLEAN]
    BY <2>1 DEF IInv, TypeOK
  <2> HIDE DEF old
  <2>5. held \in Request
    BY <1>1, <1>3 DEF Request
  <2>6. r \in Request
    BY <2>5 DEF Request
  <2>7. /\ r.at = "first" /\ r.exc = old.exc \cup {old.user} /\ r.kind = old.kind
        /\ r.user = old.user /\ r.new = old.new
        /\ r.taking = old.taking /\ r.todo = old.todo /\ r.hits = old.hits
        /\ r.seen = old.seen /\ r.shr = old.shr
    BY <1>1 DEF Request
  <2> HIDE DEF r
  <2>8. Shape(r)
    BY <1>1, <1>2, <1>3, <1>6, <2>7 DEF Shape, Holds
  <2>9. Sees(r)
    BY <1>1, <1>2, <1>3, <2>7 DEF Sees, SeesSessions, Holds
  <2>10. \A q \in Procs \ {p} : Apart(r, proc[q]) /\ Apart(proc[q], r)
    BY <2>3, <2>6, <2>7, StillApart DEF old
  <2> QED BY <1>2, <2>1, <2>4, <2>6, <2>8, <2>9, <2>10, MoveKeeps
<1> QED BY <1>4, <1>5, <1>6

LEMMA ShareTokenKeeps == ASSUME IInv, NEW p \in Procs, ShareToken(p) PROVE IInv'
<1> DEFINE old == proc[p]
           next == token[old.tok].next
           held == [old EXCEPT !.shr = old.shr \cup {old.tok}]
           last == [held EXCEPT !.at = "phone"]
           on   == [held EXCEPT !.tok = next]
<1>1. old \in Request /\ Shape(old) /\ Sees(old)
  BY DEF IInv, TypeOK, Good
<1>2. old.at = "share" /\ ~old.taking /\ Blockers(p) = {} /\ UNCHANGED <<token, push, disabled>>
  BY DEF ShareToken, Runs
<1>3. IF next = None THEN Goto(p, last) ELSE Goto(p, on)
  BY DEF ShareToken, Sharing
<1>4. old.tok \in Rows /\ old.tok \in Ids /\ token[old.tok].user = old.user
  BY <1>1, <1>2 DEF Sees, Rows
<1>5. next # None => next \in Rows /\ next \in Ids /\ token[next].user = old.user
  BY <1>4 DEF IInv, RowsAgree, Rows
<1>6. Wants(p) = old.tok
  BY <1>2 DEF Wants
<1>7. \A q \in Procs \ {p} : old.tok \notin proc[q].exc
  BY <1>2, <1>6, Unblocked
<1>8. disabled' \in [Users -> BOOLEAN]
  BY <1>2 DEF IInv, TypeOK
<1>9. ASSUME NEW r \in Request, Goto(p, r), Shape(r), Sees(r), r.exc = old.exc,
             r.shr = old.shr \cup {old.tok}, r.new = old.new
      PROVE  IInv'
  <2>1. \A q \in Procs \ {p} : Apart(r, proc[q]) /\ Apart(proc[q], r)
    BY <1>7, <1>9, StillApart
  <2> QED BY <1>2, <1>8, <1>9, <2>1, MoveKeeps
<1> HIDE DEF old, next
<1>10. held \in Request
  BY <1>1, <1>4 DEF Request
<1>11. CASE next = None
  <2>1. last \in Request
    BY <1>10 DEF Request
  <2>2. /\ last.at = "phone" /\ last.shr = old.shr \cup {old.tok} /\ last.kind = old.kind
        /\ last.user = old.user /\ last.tok = old.tok /\ last.new = old.new
        /\ last.taking = old.taking /\ last.todo = old.todo /\ last.hits = old.hits
        /\ last.exc = old.exc /\ last.phone = old.phone
    BY <1>1 DEF Request
  <2>3. Goto(p, last)
    BY <1>3, <1>11
  <2> HIDE DEF last
  <2>4. Shape(last)
    BY <1>1, <1>2, <2>2 DEF Shape, Holds
  <2>5. Sees(last)
    BY <1>1, <1>2, <1>4, <1>11, <2>2 DEF Sees, Holds, Ends, next
  <2> QED BY <1>9, <2>1, <2>2, <2>3, <2>4, <2>5
<1>12. CASE next # None
  <2>1. on \in Request
    BY <1>5, <1>10, <1>12 DEF Request
  <2>2. /\ on.at = old.at /\ on.shr = old.shr \cup {old.tok} /\ on.kind = old.kind
        /\ on.user = old.user /\ on.tok = next /\ on.new = old.new
        /\ on.taking = old.taking /\ on.todo = old.todo /\ on.hits = old.hits
        /\ on.exc = old.exc /\ on.phone = old.phone
    BY <1>1 DEF Request
  <2>3. Goto(p, on)
    BY <1>3, <1>12
  <2> HIDE DEF on
  <2>4. Shape(on)
    BY <1>1, <1>2, <2>2 DEF Shape, Holds
  <2>5. Sees(on)
    BY <1>1, <1>2, <1>5, <1>12, <2>2 DEF Sees, Holds, Ends
  <2> QED BY <1>9, <2>1, <2>2, <2>3, <2>4, <2>5
<1> QED BY <1>11, <1>12

\* The phone's row is tied to another session: it is held for a second look.
LEMMA HoldPhoneKeeps ==
    ASSUME IInv, NEW p \in Procs, Runs(p, "phone"), push[proc[p].phone] # None,
           Goto(p, [Holding(proc[p], proc[p].phone) EXCEPT !.at = "bound"]),
           UNCHANGED <<token, push, disabled>>
    PROVE  IInv'
<1> DEFINE old == proc[p]
           held == [old EXCEPT !.exc = old.exc \cup {old.phone}]
           r == [held EXCEPT !.at = "bound"]
<1>1. old \in Request /\ Shape(old) /\ Sees(old)
  BY DEF IInv, TypeOK, Good
<1>2. old.at = "phone" /\ ~old.taking /\ Blockers(p) = {} /\ push[old.phone] # None
  BY DEF Runs
<1>3. Goto(p, r)
  BY DEF Holding
<1>4. Wants(p) = old.phone
  BY <1>2 DEF Wants
<1>5. \A q \in Procs \ {p} : old.phone \notin proc[q].exc /\ old.phone \notin proc[q].shr
  BY <1>2, <1>4, Unblocked
<1>6. disabled' \in [Users -> BOOLEAN]
  BY DEF IInv, TypeOK
<1> HIDE DEF old
<1>7. old.phone \in Phones
  BY <1>1, <1>2 DEF Shape
<1>8. held \in Request
  BY <1>1, <1>7 DEF Request
<1>9. r \in Request
  BY <1>8 DEF Request
<1>10. /\ r.at = "bound" /\ r.exc = old.exc \cup {old.phone} /\ r.kind = old.kind
       /\ r.user = old.user /\ r.tok = old.tok /\ r.new = old.new
       /\ r.taking = old.taking /\ r.todo = old.todo /\ r.hits = old.hits
       /\ r.shr = old.shr /\ r.phone = old.phone
  BY <1>1 DEF Request
<1> HIDE DEF r
<1>11. Shape(r)
  BY <1>1, <1>2, <1>10 DEF Shape, Holds
<1>12. Sees(r)
  BY <1>1, <1>2, <1>10 DEF Sees, Holds, Ends
<1>13. \A q \in Procs \ {p} : Apart(r, proc[q]) /\ Apart(proc[q], r)
  BY <1>5, <1>9, <1>10, StillApart DEF old
<1> QED BY <1>3, <1>6, <1>9, <1>11, <1>12, <1>13, MoveKeeps

\* What a statement that takes several rows leaves of a request as it was.
SameBut(r, old) ==
    /\ r.kind = old.kind /\ r.user = old.user /\ r.tok = old.tok /\ r.phone = old.phone
    /\ r.new = old.new /\ r.shr = old.shr

\* The rows a statement selects, by statement.
LEMMA SelectedIs ==
    ASSUME IInv, NEW p \in Procs
    PROVE  /\ proc[p].at \in {"first", "second"} =>
                  /\ Selected(p) \in SUBSET Ids
                  /\ \A i \in Ids : i \in Selected(p) <=>
                         /\ i \in Rows /\ token[i].user = proc[p].user /\ token[i].live
                         /\ i \notin proc[p].hits
           /\ proc[p].at = "push" =>
                  /\ Selected(p) \in SUBSET Phones
                  /\ \A f \in Selected(p) : push[f] # None /\ push[f].user = proc[p].user
           /\ proc[p].at = "move" =>
                  Selected(p) \in SUBSET Phones /\ Selected(p) = BoundTo(proc[p].tok)
<1>1. CASE proc[p].at \in {"first", "second"}
  <2>1. Selected(p) = LiveOf(proc[p].user) \ proc[p].hits
    BY <1>1 DEF Selected
  <2> QED BY <1>1, <2>1 DEF LiveOf, Rows
<1>2. CASE proc[p].at = "push"
  <2>1. Selected(p) = PushOf(proc[p].user)
    BY <1>2 DEF Selected
  <2> QED BY <1>2, <2>1 DEF PushOf
<1>3. CASE proc[p].at = "move"
  <2>1. Selected(p) = BoundTo(proc[p].tok)
    BY <1>3 DEF Selected
  <2> QED BY <1>3, <2>1 DEF BoundTo
<1> QED BY <1>1, <1>2, <1>3

LEMMA StatementsIn ==
    /\ DOMAIN NextStatement = {"first", "second", "push", "move"}
    /\ NextStatement["first"] = "second" /\ NextStatement["second"] = "push"
    /\ NextStatement["push"] = "commit" /\ NextStatement["move"] = "commit"
BY DEF NextStatement

\* The statement starts: it finds no row, or begins to take those it selects.
LEMMA SelectIs ==
    ASSUME IInv, NEW p \in Procs, Select(p)
    PROVE  \E r \in Request :
               /\ Goto(p, r) /\ SameBut(r, proc[p])
               /\ r.exc = proc[p].exc /\ r.hits = proc[p].hits
               /\ r.seen = IF proc[p].at = "first" THEN Selected(p) ELSE proc[p].seen
               /\ IF Selected(p) = {}
                  THEN r.at = NextStatement[proc[p].at] /\ ~r.taking /\ r.todo = {}
                  ELSE r.at = proc[p].at /\ r.taking /\ r.todo = Selected(p)
<1> DEFINE old  == proc[p]
           rows == Selected(p)
           seen == IF old.at = "first" THEN rows ELSE old.seen
           looked == [old EXCEPT !.seen = seen]
           none == [looked EXCEPT !.at = NextStatement[looked.at]]
           some == [looked EXCEPT !.taking = TRUE, !.todo = rows]
<1>1. old \in Request /\ Shape(old)
  BY DEF IInv, TypeOK, Good
<1>2. old.at \in {"first", "second", "push", "move"} /\ ~old.taking /\ old.todo = {}
  BY <1>1, StatementsIn DEF Select, Runs, Shape
<1>3. IF rows = {} THEN Goto(p, none) ELSE Goto(p, some)
  BY DEF Select, ToTake
<1>4. rows \in SUBSET (Ids \cup Phones) /\ seen \in SUBSET Ids
  <2>1. old.seen \in SUBSET Ids
    BY <1>1 DEF Request
  <2> QED BY <1>2, <2>1, SelectedIs
<1> HIDE DEF old, rows, seen
<1>5. /\ looked \in Request /\ SameBut(looked, old) /\ looked.exc = old.exc /\ looked.hits = old.hits
      /\ looked.seen = seen /\ looked.at = old.at /\ looked.taking = old.taking
      /\ looked.todo = old.todo
  BY <1>1, <1>4 DEF Request, SameBut
<1> HIDE DEF looked
<1>6. CASE rows = {}
  <2>1. NextStatement[looked.at] \in {"second", "push", "commit"}
    BY <1>2, <1>5, StatementsIn
  <2>2. none \in Request
    BY <1>5, <2>1 DEF Request
  <2>3. /\ none.at = NextStatement[looked.at] /\ SameBut(none, looked) /\ none.exc = looked.exc
        /\ none.hits = looked.hits /\ none.seen = looked.seen /\ none.taking = looked.taking
        /\ none.todo = looked.todo
    BY <1>5 DEF Request, SameBut
  <2>4. Goto(p, none)
    BY <1>3, <1>6
  <2> HIDE DEF none
  <2>5. SameBut(none, old)
    BY <1>5, <2>3 DEF SameBut
  <2>6. none.at = NextStatement[old.at] /\ ~none.taking /\ none.todo = {}
    BY <1>2, <1>5, <2>3
  <2> QED BY <1>5, <1>6, <2>2, <2>3, <2>4, <2>5, <2>6 DEF old, rows, seen
<1>7. CASE rows # {}
  <2>1. some \in Request
    BY <1>4, <1>5 DEF Request
  <2>2. /\ some.at = looked.at /\ SameBut(some, looked) /\ some.exc = looked.exc
        /\ some.hits = looked.hits /\ some.seen = looked.seen /\ some.taking
        /\ some.todo = rows
    BY <1>5 DEF Request, SameBut
  <2>3. Goto(p, some)
    BY <1>3, <1>7
  <2> HIDE DEF some
  <2>4. SameBut(some, old)
    BY <1>5, <2>2 DEF SameBut
  <2> QED BY <1>5, <1>7, <2>1, <2>2, <2>3, <2>4 DEF old, rows, seen
<1> QED BY <1>6, <1>7

LEMMA SelectKeeps == ASSUME IInv, NEW p \in Procs, Select(p) PROVE IInv'
<1> DEFINE old == proc[p]
           rows == Selected(p)
<1>1. old \in Request /\ Shape(old) /\ Sees(old)
  BY DEF IInv, TypeOK, Good
<1>2. /\ old.at \in {"first", "second", "push", "move"} /\ ~old.taking
      /\ UNCHANGED <<token, push, disabled>>
  BY StatementsIn DEF Select, Runs
<1>3. PICK r \in Request :
          /\ Goto(p, r) /\ SameBut(r, old)
          /\ r.exc = old.exc /\ r.hits = old.hits
          /\ r.seen = IF old.at = "first" THEN rows ELSE old.seen
          /\ IF rows = {} THEN r.at = NextStatement[old.at] /\ ~r.taking /\ r.todo = {}
                          ELSE r.at = old.at /\ r.taking /\ r.todo = rows
  BY SelectIs
<1>4. disabled' \in [Users -> BOOLEAN]
  BY <1>2 DEF IInv, TypeOK
<1>5. \A q \in Procs \ {p} : Apart(r, proc[q]) /\ Apart(proc[q], r)
  BY <1>3, StillApart DEF SameBut
<1>6. /\ old.at \in {"first", "second"} =>
             /\ rows \in SUBSET Ids
             /\ \A i \in Ids : i \in rows <=>
                    /\ i \in Rows /\ token[i].user = old.user /\ token[i].live /\ i \notin old.hits
      /\ old.at = "push" =>
             /\ rows \in SUBSET Phones
             /\ \A f \in rows : push[f] # None /\ push[f].user = old.user
      /\ old.at = "move" => rows \in SUBSET Phones /\ rows = BoundTo(old.tok)
  BY SelectedIs
<1>7. \A i \in Rows : token[i].next # None =>
          token[i].next \in Ids /\ token[i].next \in Rows /\ token[token[i].next].user = token[i].user
  BY DEF IInv, RowsAgree, Rows
<1> HIDE DEF old, rows
<1>8. Shape(r)
  BY <1>1, <1>2, <1>3, <1>6, StatementsIn DEF Shape, SameBut, Holds
<1>9. CASE old.at = "move"
  <2>1. Holds(old) /\ SeesPhones(old) /\ old.hits = {}
    BY <1>1, <1>2, <1>9 DEF Shape, Sees, Holds
  <2>2. SeesPhones(r)
    BY <1>3, <1>6, <1>9, <2>1 DEF SeesPhones, SameBut
  <2>3. r.at \in {"move", "commit"} /\ r.kind = "refresh"
    BY <1>1, <1>3, <1>9, StatementsIn DEF Shape, SameBut
  <2>4. Sees(r)
    BY <1>1, <1>3, <2>2, <2>3 DEF Sees, SameBut, Ends
  <2> QED BY <1>2, <1>3, <1>4, <1>5, <1>8, <2>4, MoveKeeps
<1>10. CASE old.at \in {"first", "second", "push"}
  <2>1. SeesSessions(old) /\ old.kind \in {"change", "disable"}
    BY <1>1, <1>10 DEF Shape, Sees, Ends
  <2>2. SeesSessions(r)
    <3>1. CASE old.at = "first"
      <4>1. \A i \in r.seen : i \in Ids /\ i \in rows
        BY <1>3, <1>6, <3>1
      <4> QED BY <1>3, <1>6, <2>1, <3>1, <4>1, StatementsIn DEF SeesSessions, SameBut, Caught
    <3>2. CASE old.at = "second"
      <4>1. \A i \in r.seen : token[i].next # None => Caught(r, token[i].next, rows)
        BY <1>3, <1>6, <1>7, <2>1, <3>2 DEF SeesSessions, SameBut, Caught
      <4>2. \A i \in r.seen : Caught(r, i, {})
        BY <1>3, <2>1, <3>2 DEF SeesSessions, Caught
      <4>3. r.at = "push" => rows = {}
        BY <1>3, <3>2, StatementsIn
      <4>4. r.at \in {"second", "push"} /\ (r.taking => r.todo = rows)
        BY <1>3, <3>2, StatementsIn
      <4>5. /\ \A i \in r.hits \cap Ids : i \in Rows
            /\ \A f \in r.hits \cap Phones : push[f] # None /\ push[f].user = r.user
            /\ \A i \in r.seen : i \in Rows /\ token[i].user = r.user
        BY <1>3, <2>1, <3>2 DEF SeesSessions, SameBut
      <4> QED BY <4>1, <4>2, <4>3, <4>4, <4>5 DEF SeesSessions
    <3>3. CASE old.at = "push"
      <4>1. r.at \in {"push", "commit"}
        BY <1>3, <3>3, StatementsIn
      <4> QED BY <1>3, <2>1, <3>3, <4>1 DEF SeesSessions, SameBut, Caught
    <3> QED BY <1>10, <3>1, <3>2, <3>3
  <2>3. r.at \in {"first", "second", "push", "commit"} /\ r.kind \in {"change", "disable"}
    BY <1>3, <1>10, <2>1, StatementsIn DEF SameBut
  <2>4. Sees(r)
    BY <1>1, <1>3, <2>2, <2>3 DEF Sees, SameBut, Holds
  <2> QED BY <1>2, <1>3, <1>4, <1>5, <1>8, <2>4, MoveKeeps
<1> QED BY <1>2, <1>9, <1>10 DEF old

\* The rows of a statement have a first one.
LEMMA FirstOfRows ==
    ASSUME NEW S \in SUBSET (Ids \cup Phones), S # {}
    PROVE  Min(S) \in S
<1>1. \E i \in S : \A j \in S : i =< j
  BY FirstRowAssumption
<1> QED BY <1>1 DEF Min

\* One row is taken, and it is looked at again; with the last the statement ends.
LEMMA TakeRowIs ==
    ASSUME IInv, NEW p \in Procs, TakeRow(p)
    PROVE  \E r \in Request, i \in proc[p].todo :
               /\ Goto(p, r) /\ SameBut(r, proc[p])
               /\ i = Wants(p)
               /\ r.exc = proc[p].exc \cup {i} /\ r.seen = proc[p].seen
               /\ r.hits = IF i \in Selected(p) THEN proc[p].hits \cup {i} ELSE proc[p].hits
               /\ r.todo = proc[p].todo \ {i}
               /\ IF r.todo = {} THEN r.at = NextStatement[proc[p].at] /\ ~r.taking
                                 ELSE r.at = proc[p].at /\ r.taking
<1> DEFINE old  == proc[p]
           i    == Wants(p)
           hits == IF i \in Selected(p) THEN old.hits \cup {i} ELSE old.hits
           here == [old EXCEPT !.exc = old.exc \cup {i}]
           held == [here EXCEPT !.todo = old.todo \ {i}, !.hits = hits]
           last == [held EXCEPT !.taking = FALSE, !.at = NextStatement[held.at]]
<1>1. old \in Request /\ Shape(old)
  BY DEF IInv, TypeOK, Good
<1>2. old.taking /\ old.at \in {"first", "second", "push", "move"} /\ old.todo # {}
  BY <1>1 DEF TakeRow, Shape
<1>3. i \in old.todo /\ i \in Ids \cup Phones
  <2>1. i = Min(old.todo) /\ old.todo \in SUBSET (Ids \cup Phones)
    BY <1>1, <1>2 DEF Wants, Request
  <2> QED BY <1>2, <2>1, FirstOfRows
<1>4. hits \in SUBSET (Ids \cup Phones)
  <2>1. old.hits \in SUBSET (Ids \cup Phones)
    BY <1>1 DEF Request
  <2> QED BY <1>3, <2>1
<1>5. IF held.todo # {} THEN Goto(p, held) ELSE Goto(p, last)
  <2>1. Holding(old, i) = here
    BY DEF Holding
  <2>2. here.todo = old.todo /\ here.hits = old.hits
    BY <1>1 DEF Request
  <2>3. [Holding(old, i) EXCEPT
            !.todo = @ \ {i},
            !.hits = IF StillSelected(p, i) THEN @ \cup {i} ELSE @] = held
    BY <2>1, <2>2 DEF StillSelected
  <2> HIDE DEF held
  <2>4. LET h == held IN Goto(p, IF h.todo # {} THEN h
                      ELSE [h EXCEPT !.taking = FALSE, !.at = NextStatement[h.at]])
    BY <2>3 DEF TakeRow
  <2> QED BY <2>4
<1> HIDE DEF old, i, hits
<1>6. here \in Request
  BY <1>1, <1>3 DEF Request
<1>7. held \in Request
  <2>1. old.todo \ {i} \in SUBSET (Ids \cup Phones)
    BY <1>1 DEF Request
  <2> QED BY <1>4, <1>6, <2>1 DEF Request
<1>8. /\ SameBut(held, old) /\ held.exc = old.exc \cup {i} /\ held.seen = old.seen
      /\ held.hits = hits /\ held.todo = old.todo \ {i} /\ held.at = old.at
      /\ held.taking = old.taking
  BY <1>1 DEF Request, SameBut
<1> HIDE DEF held
<1>9. CASE held.todo # {}
  <2>1. Goto(p, held) /\ held.taking
    BY <1>2, <1>5, <1>8, <1>9
  <2> QED BY <1>3, <1>7, <1>8, <1>9, <2>1 DEF old, i, hits
<1>10. CASE held.todo = {}
  <2>1. NextStatement[held.at] \in {"second", "push", "commit"}
    BY <1>2, <1>8, StatementsIn
  <2>2. last \in Request
    BY <1>7, <2>1 DEF Request
  <2>3. /\ SameBut(last, held) /\ last.exc = held.exc /\ last.seen = held.seen
        /\ last.hits = held.hits /\ last.todo = held.todo /\ last.at = NextStatement[held.at]
        /\ ~last.taking
    BY <1>7 DEF Request, SameBut
  <2>4. Goto(p, last)
    BY <1>5, <1>10
  <2> HIDE DEF last
  <2>5. SameBut(last, old)
    BY <1>8, <2>3 DEF SameBut
  <2> QED BY <1>3, <1>8, <1>10, <2>2, <2>3, <2>4, <2>5 DEF old, i, hits
<1> QED BY <1>9, <1>10

LEMMA TakeRowKeeps == ASSUME IInv, NEW p \in Procs, TakeRow(p) PROVE IInv'
<1> DEFINE old == proc[p]
           rows == Selected(p)
<1>1. old \in Request /\ Shape(old) /\ Sees(old)
  BY DEF IInv, TypeOK, Good
<1>2. /\ old.taking /\ Blockers(p) = {} /\ UNCHANGED <<token, push, disabled>>
      /\ old.at \in {"first", "second", "push", "move"}
  BY <1>1 DEF TakeRow, Shape
<1>3. PICK r \in Request, i \in old.todo :
          /\ Goto(p, r) /\ SameBut(r, old)
          /\ i = Wants(p)
          /\ r.exc = old.exc \cup {i} /\ r.seen = old.seen
          /\ r.hits = IF i \in rows THEN old.hits \cup {i} ELSE old.hits
          /\ r.todo = old.todo \ {i}
          /\ IF r.todo = {} THEN r.at = NextStatement[old.at] /\ ~r.taking
                            ELSE r.at = old.at /\ r.taking
  BY TakeRowIs
<1>4. disabled' \in [Users -> BOOLEAN]
  BY <1>2 DEF IInv, TypeOK
<1>5. \A q \in Procs \ {p} : Apart(r, proc[q]) /\ Apart(proc[q], r)
  <2>1. \A q \in Procs \ {p} : i \notin proc[q].exc /\ i \notin proc[q].shr
    BY <1>2, <1>3, Unblocked
  <2> QED BY <1>3, <2>1, StillApart DEF SameBut
<1>6. /\ old.at \in {"first", "second"} =>
             \A j \in Ids : j \in rows <=>
                 /\ j \in Rows /\ token[j].user = old.user /\ token[j].live /\ j \notin old.hits
      /\ old.at = "push" => \A f \in rows : push[f] # None /\ push[f].user = old.user
      /\ old.at = "move" => rows = BoundTo(old.tok)
  BY SelectedIs
<1>7. \A j \in Rows : token[j].next # None =>
          token[j].next \in Ids /\ token[j].next \in Rows /\ token[token[j].next].user = token[j].user
  BY DEF IInv, RowsAgree, Rows
<1>8. /\ old.at \in {"first", "second"} => i \in Ids /\ i \notin Phones
      /\ old.at \in {"push", "move"} => i \in Phones /\ i \notin Ids
  BY <1>1, <1>3, RowsAssumption DEF Shape
<1> HIDE DEF old, rows
<1>9. Shape(r)
  BY <1>1, <1>2, <1>3, StatementsIn DEF Shape, SameBut, Holds
<1>10. CASE old.at = "move"
  <2>1. Holds(old) /\ SeesPhones(old)
    BY <1>1, <1>10 DEF Sees, Holds
  <2>2. r.at \in {"move", "commit"} /\ r.kind = "refresh" /\ (r.at = "commit" => r.todo = {})
    BY <1>1, <1>3, <1>10, StatementsIn DEF Shape, SameBut
  <2>3. \A f \in BoundTo(r.tok) : f \in r.hits \cup r.todo
    BY <1>2, <1>3, <1>6, <1>10, <2>1 DEF SeesPhones, SameBut
  <2>4. \A f \in r.hits : f \in BoundTo(r.tok)
    BY <1>3, <1>6, <1>10, <2>1 DEF SeesPhones, SameBut
  <2>5. SeesPhones(r)
    BY <1>3, <2>1, <2>2, <2>3, <2>4 DEF SeesPhones, SameBut
  <2>6. Sees(r)
    BY <1>1, <1>3, <2>2, <2>5 DEF Sees, SameBut, Ends
  <2> QED BY <1>2, <1>3, <1>4, <1>5, <1>9, <2>6, MoveKeeps
<1>11. CASE old.at \in {"first", "second", "push"}
  <2>1. SeesSessions(old) /\ old.kind \in {"change", "disable"}
    BY <1>1, <1>11 DEF Shape, Sees, Ends
  <2>2. /\ \A j \in r.hits \cap Ids : j \in Rows
        /\ \A f \in r.hits \cap Phones : push[f] # None /\ push[f].user = r.user
        /\ \A j \in r.seen : j \in Rows /\ j \in Ids /\ token[j].user = r.user
    BY <1>3, <1>6, <1>8, <1>11, <2>1 DEF SeesSessions, SameBut, Rows
  <2>3. \A j \in Rows :
            /\ j \in old.hits => j \in r.hits
            /\ old.at \in {"first", "second"} /\ token[j].user = old.user /\ j \in old.todo =>
                   j \in r.hits \cup r.todo \/ ~token[j].live
    BY <1>3, <1>6, <1>8 DEF Rows
  <2>4. CASE old.at = "first"
    <3>1. ASSUME NEW j \in r.seen PROVE Caught(r, j, r.todo)
      <4>1. Caught(old, j, old.todo)
        BY <1>2, <1>3, <2>1, <2>4 DEF SeesSessions
      <4>2. j \in Rows /\ token[j].user = old.user
        BY <1>3, <2>2 DEF SameBut
      <4> QED BY <2>3, <2>4, <4>1, <4>2 DEF Caught
    <3>2. r.at # "first" => r.at = "second" /\ r.todo = {} /\ ~r.taking
      BY <1>3, <2>4, StatementsIn
    <3>3. SeesSessions(r)
      BY <2>2, <3>1, <3>2 DEF SeesSessions
    <3>4. r.at \in {"first", "second"}
      BY <3>2
    <3>5. Sees(r)
      BY <1>1, <1>3, <3>3, <3>4 DEF Sees, SameBut, Holds
    <3> QED BY <1>2, <1>3, <1>4, <1>5, <1>9, <3>5, MoveKeeps
  <2>5. CASE old.at = "second"
    <3>1. ASSUME NEW j \in r.seen PROVE Caught(r, j, {})
      <4>1. Caught(old, j, {}) /\ j \in Rows
        BY <1>3, <2>1, <2>2, <2>5 DEF SeesSessions
      <4> QED BY <2>3, <4>1 DEF Caught
    <3>2. ASSUME NEW j \in r.seen, token[j].next # None PROVE Caught(r, token[j].next, r.todo)
      <4>1. Caught(old, token[j].next, old.todo)
        BY <1>2, <1>3, <2>1, <2>5, <3>2 DEF SeesSessions
      <4>2. token[j].next \in Rows /\ token[token[j].next].user = old.user
        BY <1>3, <1>7, <2>2, <3>2 DEF SameBut
      <4> QED BY <2>3, <2>5, <4>1, <4>2 DEF Caught
    <3>3. r.at # "second" => r.at = "push" /\ r.todo = {} /\ ~r.taking
      BY <1>3, <2>5, StatementsIn
    <3>4. SeesSessions(r)
      BY <2>2, <3>1, <3>2, <3>3 DEF SeesSessions
    <3>5. r.at \in {"second", "push"}
      BY <3>3
    <3>6. Sees(r)
      BY <1>1, <1>3, <3>4, <3>5 DEF Sees, SameBut, Holds
    <3> QED BY <1>2, <1>3, <1>4, <1>5, <1>9, <3>6, MoveKeeps
  <2>6. CASE old.at = "push"
    <3>1. \A j \in r.seen : Caught(r, j, {})
      BY <1>3, <2>1, <2>2, <2>3, <2>6 DEF SeesSessions, SameBut, Caught
    <3>2. \A j \in r.seen : token[j].next # None => Caught(r, token[j].next, {})
      BY <1>3, <1>7, <2>1, <2>2, <2>3, <2>6 DEF SeesSessions, SameBut, Caught
    <3>3. r.at \in {"push", "commit"} /\ r.kind \in {"change", "disable"}
      BY <1>3, <2>1, <2>6, StatementsIn DEF SameBut
    <3>4. SeesSessions(r)
      BY <2>2, <3>1, <3>2, <3>3 DEF SeesSessions
    <3>5. Sees(r)
      BY <1>1, <1>3, <3>3, <3>4 DEF Sees, SameBut, Holds
    <3> QED BY <1>2, <1>3, <1>4, <1>5, <1>9, <3>5, MoveKeeps
  <2> QED BY <1>11, <2>4, <2>5, <2>6
<1> QED BY <1>2, <1>10, <1>11 DEF old

-----------------------------------------------------------------------------
(* Steps that write rows.                                                  *)

\* What another request's commit leaves a request r.
Undisturbed(r) ==
    /\ \A i \in Rows :
          /\ i \in Rows' /\ token'[i].user = token[i].user
          /\ token'[i].live => token[i].live
          /\ token[i].next # None => token'[i].next = token[i].next
          /\ token'[i].next # token[i].next => token[i].live /\ i \notin r.shr
          /\ i \in r.exc => token'[i] = token[i]
    /\ r.new # None => r.new \notin Rows'
    /\ \A f \in Phones :
          /\ f \in r.exc => push'[f] = push[f]
          /\ Holds(r) /\ push'[f] # None /\ push'[f].tok = r.tok => push'[f] = push[f]

\* What a request has read is still true after it.
LEMMA SeesStays ==
    ASSUME IInv, NEW q \in Procs, proc'[q] = proc[q], Undisturbed(proc[q])
    PROVE  (Shape(proc[q]) /\ Sees(proc[q]))'
<1> DEFINE r == proc[q]
<1>1. r \in Request /\ Shape(r) /\ Sees(r)
  BY DEF IInv, TypeOK, Good
<1>2. Shape(proc[q])'
  BY <1>1 DEF Shape, Holds
<1>3. Holds(r) => SeesPhones(r)'
  <2> SUFFICES ASSUME Holds(r) PROVE SeesPhones(r)'
    OBVIOUS
  <2>1. SeesPhones(r) /\ r.tok \in r.exc /\ r.hits \subseteq r.exc
    BY <1>1 DEF Sees, Shape
  <2>2. r.tok \in Rows' /\ token'[r.tok] = token[r.tok]
    BY <2>1 DEF Undisturbed, SeesPhones
  <2>3. \A f \in r.hits : f \in BoundTo(r.tok)'
    BY <2>1 DEF Undisturbed, SeesPhones, BoundTo
  <2>4. \A f \in BoundTo(r.tok)' : f \in BoundTo(r.tok)
    BY DEF Undisturbed, BoundTo
  <2> QED BY <2>1, <2>2, <2>3, <2>4 DEF SeesPhones
<1>4. Ends(r) => SeesSessions(r)'
  <2> SUFFICES ASSUME Ends(r) PROVE SeesSessions(r)'
    OBVIOUS
  <2>1. SeesSessions(r) /\ r.hits \subseteq r.exc
    BY <1>1 DEF Sees, Shape
  <2>2. /\ \A i \in r.hits \cap Ids : i \in Rows'
        /\ \A f \in r.hits \cap Phones : push'[f] # None /\ push'[f].user = r.user
        /\ \A i \in r.seen : i \in Rows' /\ token'[i].user = r.user
    BY <2>1 DEF SeesSessions, Undisturbed
  <2>3. \A i \in Rows : ~token[i].live => ~token'[i].live
    BY DEF Undisturbed
  <2>4. r.at = "first" /\ r.taking => \A i \in r.seen : Caught(r, i, r.todo)'
    BY <2>1, <2>3 DEF SeesSessions, Caught
  <2>5. r.at # "first" => \A i \in r.seen : Caught(r, i, {})'
    BY <2>1, <2>3 DEF SeesSessions, Caught
  <2>6. r.at # "first" => \A i \in r.seen : token'[i].next = token[i].next
    <3> SUFFICES ASSUME r.at # "first", NEW i \in r.seen, token'[i].next # token[i].next PROVE FALSE
      OBVIOUS
    <3>1. i \in Rows /\ (i \in r.hits \/ ~token[i].live)
      BY <2>1 DEF SeesSessions, Caught
    <3>2. token[i].live
      BY <3>1 DEF Undisturbed
    <3>3. token'[i] = token[i]
      BY <2>1, <3>1, <3>2 DEF Undisturbed
    <3> QED BY <3>3
  <2>7. \A i \in r.seen : token[i].next # None => token[i].next \in Rows
    BY <2>1 DEF SeesSessions, IInv, RowsAgree
  <2>8. r.at = "second" /\ r.taking =>
            \A i \in r.seen : token'[i].next # None => Caught(r, token[i].next, r.todo)'
    BY <2>1, <2>3, <2>6, <2>7 DEF SeesSessions, Caught
  <2>9. r.at \in {"push", "commit"} =>
            \A i \in r.seen : token'[i].next # None => Caught(r, token[i].next, {})'
    BY <2>1, <2>3, <2>6, <2>7 DEF SeesSessions, Caught
  <2> QED BY <2>2, <2>4, <2>5, <2>8, <2>9 DEF SeesSessions, Caught
<1>5. /\ r.new # None => r.new \notin Rows'
      /\ r.at \in {"rotate", "walk", "follow", "share", "phone", "bound"} => r.tok \in Rows'
      /\ r.at \in {"rotate", "share", "phone", "bound"} => token'[r.tok].user = r.user
      /\ r.at \in {"phone", "bound"} => token'[r.tok].next = None
      /\ r.at = "bound" => push'[r.phone] # None
  BY <1>1 DEF Sees, Shape, Undisturbed
<1>6. Sees(proc[q])'
  BY <1>3, <1>4, <1>5 DEF Sees, Holds, Ends, SeesPhones, SeesSessions, Caught, BoundTo
<1> QED BY <1>2, <1>6

LEMMA WriteKeeps ==
    ASSUME IInv, NEW p \in Procs, Done(p),
           token' \in [Ids -> TokenRow \cup {None}],
           push' \in [Phones -> PushRow \cup {None}],
           disabled' \in [Users -> BOOLEAN],
           RowsAgree', PushAgrees', SessionHasOneLiveToken',
           \A q \in Procs \ {p} : Undisturbed(proc[q])
    PROVE  IInv'
<1>1. /\ proc' \in [Procs -> Request]
      /\ \A q \in Procs : proc'[q] = IF q = p THEN Idle ELSE proc[q]
  BY IdleRequest, GotoIs DEF IInv, Done
<1>2. TypeOK'
  BY <1>1 DEF TypeOK
<1>3. \A q \in Procs : (Shape(proc[q]) /\ Sees(proc[q]))'
  <2> TAKE q \in Procs
  <2>1. CASE q = p
    <3>1. proc'[q] = Idle
      BY <1>1, <2>1
    <3> QED BY <3>1, IdleRequest DEF Shape, Sees, Holds, Ends
  <2>2. CASE q # p
    <3>1. proc'[q] = proc[q] /\ Undisturbed(proc[q])
      BY <1>1, <2>2
    <3> QED BY <3>1, SeesStays
  <2> QED BY <2>1, <2>2
<1>4. \A q, s \in Procs : q # s => Apart(proc'[q], proc'[s])
  BY <1>1, IdleRequest, IdleApart, AllApart
<1>5. (\A q, s \in Procs : q # s => Apart(proc[q], proc[s]))'
  BY <1>4 DEF Apart
<1> QED BY <1>2, <1>3, <1>5 DEF IInv, Good

LEMMA InsertTokenWrites ==
    ASSUME IInv, NEW p \in Procs, NEW new \in Free, InsertToken(p, new)
    PROVE  /\ new \in Ids /\ new # None /\ new \notin Rows /\ \A q \in Procs : new # proc[q].new
           /\ token' \in [Ids -> TokenRow \cup {None}]
           /\ Rows' = Rows \cup {new} /\ \A i \in Rows : token'[i] = token[i]
           /\ token'[new].next = None /\ token'[new].session = new
           /\ Done(p) /\ UNCHANGED <<push, disabled>>
<1> DEFINE old == proc[p]
           row == NewToken(old.user, new, Begun, new)
<1>1. old \in Request /\ Shape(old) /\ TypeOK
  BY DEF IInv, TypeOK, Good
<1>2. /\ old.user \in Users /\ Done(p) /\ UNCHANGED <<push, disabled>>
      /\ token' = [token EXCEPT ![new] = row]
  BY <1>1 DEF InsertToken, Runs, Shape
<1>3. new \in Ids /\ new # None /\ new \notin Rows /\ \A q \in Procs : new # proc[q].new
  BY <1>1, FreeIds
<1>4. row \in TokenRow /\ row # None /\ row.next = None /\ row.session = new
  BY <1>1, <1>2, <1>3, FreeIds, NewRow
<1> HIDE DEF old, row
<1>5. /\ token' \in [Ids -> TokenRow \cup {None}]
      /\ \A i \in Ids : token'[i] = IF i = new THEN row ELSE token[i]
  BY <1>1, <1>2, <1>3, <1>4 DEF TypeOK
<1>6. Rows' = Rows \cup {new} /\ \A i \in Rows : token'[i] = token[i]
  BY <1>3, <1>4, <1>5 DEF Rows
<1> QED BY <1>2, <1>3, <1>4, <1>5, <1>6

LEMMA InsertTokenKeeps ==
    ASSUME IInv, NEW p \in Procs, NEW new \in Free, InsertToken(p, new) PROVE IInv'
<1>1. /\ new \in Ids /\ new # None /\ new \notin Rows /\ \A q \in Procs : new # proc[q].new
      /\ token' \in [Ids -> TokenRow \cup {None}]
      /\ Rows' = Rows \cup {new} /\ \A i \in Rows : token'[i] = token[i]
      /\ token'[new].next = None /\ token'[new].session = new
      /\ Done(p) /\ UNCHANGED <<push, disabled>>
  BY InsertTokenWrites
<1>2. RowsAgree'
  <2> SUFFICES ASSUME NEW i \in Rows'
               PROVE  /\ token'[i].session \in Rows'
                      /\ token'[i].live => token'[i].next = None
                      /\ token'[i].next # None =>
                             /\ token'[i].next \in Rows'
                             /\ token'[token'[i].next].user = token'[i].user
    BY DEF RowsAgree
  <2>1. CASE i = new
    BY <1>1, <2>1
  <2>2. CASE i \in Rows
    BY <1>1, <2>2 DEF IInv, RowsAgree
  <2> QED BY <1>1, <2>1, <2>2
<1>3. PushAgrees'
  BY <1>1 DEF IInv, PushAgrees
<1>4. SessionHasOneLiveToken'
  <2>1. \A i \in Rows : token[i].session # new
    BY <1>1 DEF IInv, RowsAgree
  <2> QED BY <1>1, <2>1 DEF IInv, SessionHasOneLiveToken
<1>5. \A q \in Procs \ {p} : Undisturbed(proc[q])
  <2>1. \A q \in Procs : Sees(proc[q])
    BY DEF IInv, Good
  <2> QED BY <1>1, <2>1 DEF Undisturbed, Sees
<1>6. push' \in [Phones -> PushRow \cup {None}] /\ disabled' \in [Users -> BOOLEAN]
  BY <1>1 DEF IInv, TypeOK
<1> QED BY <1>1, <1>2, <1>3, <1>4, <1>5, <1>6, WriteKeeps

\* Follow holds the row, and it has not been rotated: it is revoked.
LEMMA RevokeWrites ==
    ASSUME IInv, NEW t \in Rows, token' = [token EXCEPT ![t].live = FALSE]
    PROVE  /\ token' \in [Ids -> TokenRow \cup {None}]
           /\ Rows' = Rows /\ ~token'[t].live
           /\ \A i \in Rows : /\ token'[i].user = token[i].user
                              /\ token'[i].next = token[i].next
                              /\ token'[i].session = token[i].session
                              /\ token'[i].live => token[i].live
                              /\ i # t => token'[i] = token[i]
<1> DEFINE row == [token[t] EXCEPT !.live = FALSE]
<1>1. t \in Ids /\ TypeOK /\ token[t] \in TokenRow
  BY RowTypes DEF Rows, IInv
<1>2. /\ row \in TokenRow /\ ~row.live /\ row.user = token[t].user /\ row.next = token[t].next
      /\ row.session = token[t].session
  BY <1>1 DEF TokenRow
<1>3. \A i \in Ids : token'[i] = IF i = t THEN row ELSE token[i]
  BY <1>1 DEF TypeOK
<1>4. token' \in [Ids -> TokenRow \cup {None}]
  BY <1>1, <1>2 DEF TypeOK
<1> HIDE DEF row
<1>5. row # None
  BY <1>2, NoRowAssumption
<1> QED BY <1>1, <1>2, <1>3, <1>4, <1>5 DEF Rows

LEMMA RevokeKeeps ==
    ASSUME IInv, NEW p \in Procs, Follow(p), ~MoreToFollow(p) PROVE IInv'
<1> DEFINE t == proc[p].tok
<1>1. proc[p] \in Request /\ Shape(proc[p]) /\ Sees(proc[p]) /\ TypeOK
  BY DEF IInv, TypeOK, Good
<1>2. /\ proc[p].at = "follow" /\ ~proc[p].taking /\ Blockers(p) = {}
      /\ token' = [token EXCEPT ![t].live = FALSE] /\ Done(p) /\ UNCHANGED <<push, disabled>>
  BY DEF Follow, Runs
<1>3. t \in Rows /\ Wants(p) = t
  BY <1>1, <1>2 DEF Sees, Wants
<1>4. \A q \in Procs \ {p} : t \notin proc[q].exc /\ t \notin proc[q].shr
  BY <1>2, <1>3, Unblocked
<1> HIDE DEF t
<1>5. /\ token' \in [Ids -> TokenRow \cup {None}]
      /\ Rows' = Rows
      /\ \A i \in Rows : /\ token'[i].user = token[i].user
                         /\ token'[i].next = token[i].next
                         /\ token'[i].session = token[i].session
                         /\ token'[i].live => token[i].live
                         /\ i # t => token'[i] = token[i]
  BY <1>2, <1>3, RevokeWrites
<1>6. RowsAgree'
  BY <1>5 DEF IInv, RowsAgree
<1>7. PushAgrees'
  BY <1>2, <1>5 DEF IInv, PushAgrees
<1>8. SessionHasOneLiveToken'
  BY <1>5 DEF IInv, SessionHasOneLiveToken
<1>9. \A q \in Procs \ {p} : Undisturbed(proc[q])
  <2>1. \A q \in Procs : Sees(proc[q])
    BY DEF IInv, Good
  <2> QED BY <1>2, <1>4, <1>5, <2>1 DEF Undisturbed, Sees
<1>10. push' \in [Phones -> PushRow \cup {None}] /\ disabled' \in [Users -> BOOLEAN]
  BY <1>1, <1>2 DEF TypeOK
<1> QED BY <1>2, <1>5, <1>6, <1>7, <1>8, <1>9, <1>10, WriteKeeps

LEMMA CommitRotateWrites ==
    ASSUME IInv, NEW p \in Procs, CommitRotate(p)
    PROVE  LET t == proc[p].tok
               n == proc[p].new
           IN  /\ t \in Rows /\ token[t].live /\ token[t].next = None
               /\ n \in Ids /\ n # None /\ n \notin Rows
               /\ t \in proc[p].exc /\ proc[p].hits \subseteq proc[p].exc
               /\ token' \in [Ids -> TokenRow \cup {None}]
               /\ Rows' = Rows \cup {n}
               /\ token'[n].user = token[t].user /\ token'[n].session = token[t].session
               /\ token'[n].next = None
               /\ token'[t].user = token[t].user /\ token'[t].session = token[t].session
               /\ token'[t].next = n /\ ~token'[t].live
               /\ \A i \in Rows : i # t => token'[i] = token[i]
               /\ push' \in [Phones -> PushRow \cup {None}]
               /\ \A f \in Phones :
                      /\ f \in proc[p].hits <=> push[f] # None /\ push[f].tok = t
                      /\ IF f \in proc[p].hits
                         THEN push'[f] # None /\ push'[f].tok = n /\ push'[f].user = push[f].user
                         ELSE push'[f] = push[f]
               /\ Done(p) /\ UNCHANGED disabled
<1> DEFINE old == proc[p]
           t   == old.tok
           n   == old.new
           s   == token[t].session
           row == NewToken(old.user, n, old.older, s)
           dead == [token[t] EXCEPT !.live = FALSE]
           gone == [dead EXCEPT !.next = n]
<1>1. old \in Request /\ Shape(old) /\ Sees(old) /\ TypeOK
  BY DEF IInv, TypeOK, Good
<1>2. old.at = "commit" /\ old.kind = "refresh" /\ Done(p) /\ UNCHANGED disabled
  BY DEF CommitRotate, Runs
<1>3. Holds(old) /\ SeesPhones(old)
  BY <1>1, <1>2 DEF Sees, Holds
<1>4. /\ n \in Ids /\ n \notin Rows /\ n # None /\ t \in old.exc /\ old.hits \subseteq old.exc
      /\ old.user \in Users /\ old.older \in SUBSET Ids
  BY <1>1, <1>2, <1>3, RowsAssumption DEF Shape, Sees, Request
<1>5. t \in Rows /\ t \in Ids /\ token[t].live /\ token[t].user = old.user /\ t # n
      /\ token[t] \in TokenRow /\ token[t].next = None /\ s \in Ids
  <2>1. t \in Rows /\ token[t].live /\ token[t].user = old.user
    BY <1>3 DEF SeesPhones
  <2> QED BY <1>1, <1>4, <2>1, RowTypes DEF Rows, IInv, RowsAgree
<1>6. /\ row \in TokenRow /\ row # None /\ row.user = old.user /\ row.next = None
      /\ row.session = s
  BY <1>4, <1>5, NewRow
<1>7. dead \in TokenRow /\ gone \in TokenRow
  <2>1. dead \in TokenRow
    BY <1>5 DEF TokenRow
  <2> QED BY <1>4, <2>1 DEF TokenRow
<1>8. /\ gone.user = token[t].user /\ gone.session = s /\ gone.next = n /\ ~gone.live
      /\ gone # None
  BY <1>5, <1>7, NoRowAssumption DEF TokenRow
<1>9. token' = [token EXCEPT ![t].live = FALSE, ![t].next = n, ![n] = row]
  BY DEF CommitRotate
<1>10. \A f \in Phones : push'[f] = IF f \in old.hits THEN [push[f] EXCEPT !.tok = n] ELSE push[f]
  BY DEF CommitRotate
<1>11. push' = [f \in Phones |-> IF f \in old.hits THEN [push[f] EXCEPT !.tok = n] ELSE push[f]]
  BY DEF CommitRotate
<1> HIDE DEF row
<1>12. \A i \in Ids : token'[i] = CASE i = n -> row [] i = t -> gone [] OTHER -> token[i]
  BY <1>1, <1>4, <1>5, <1>9 DEF TypeOK
<1> HIDE DEF gone, dead
<1>13. token' \in [Ids -> TokenRow \cup {None}]
  <2>1. DOMAIN token' = Ids /\ token' = [i \in Ids |-> token'[i]]
    BY <1>1, <1>9 DEF TypeOK
  <2>2. \A i \in Ids : token'[i] \in TokenRow \cup {None}
    BY <1>1, <1>6, <1>7, <1>12 DEF TypeOK
  <2> QED BY <2>1, <2>2
<1>14. Rows' = Rows \cup {n}
  BY <1>4, <1>5, <1>6, <1>8, <1>12 DEF Rows
<1>15. /\ token'[n].user = token[t].user /\ token'[n].session = s /\ token'[n].next = None
       /\ token'[t].user = token[t].user /\ token'[t].session = s
       /\ token'[t].next = n /\ ~token'[t].live
       /\ \A i \in Rows : i # t => token'[i] = token[i]
  BY <1>4, <1>5, <1>6, <1>8, <1>12 DEF Rows
<1>16. \A f \in Phones : f \in old.hits <=> push[f] # None /\ push[f].tok = t
  BY <1>2, <1>3 DEF SeesPhones, BoundTo
<1>17. \A f \in old.hits \cap Phones :
           [push[f] EXCEPT !.tok = n] \in PushRow /\ [push[f] EXCEPT !.tok = n].tok = n
           /\ [push[f] EXCEPT !.tok = n].user = push[f].user
  <2> TAKE f \in old.hits \cap Phones
  <2>1. push[f] \in PushRow
    BY <1>1, <1>16, PushTypes
  <2> QED BY <1>4, <2>1 DEF PushRow
<1>18. push' \in [Phones -> PushRow \cup {None}]
  BY <1>1, <1>11, <1>17 DEF TypeOK
<1>19. \A f \in Phones :
           IF f \in old.hits
           THEN push'[f] # None /\ push'[f].tok = n /\ push'[f].user = push[f].user
           ELSE push'[f] = push[f]
  <2> TAKE f \in Phones
  <2> DEFINE moved == [push[f] EXCEPT !.tok = n]
  <2>1. f \in old.hits => moved \in PushRow /\ moved.tok = n /\ moved.user = push[f].user
    BY <1>17
  <2>2. push'[f] = IF f \in old.hits THEN moved ELSE push[f]
    BY <1>10
  <2> HIDE DEF moved
  <2> QED BY <2>1, <2>2, NoRowAssumption
<1> HIDE DEF old
<1> QED BY <1>2, <1>4, <1>5, <1>13, <1>14, <1>15, <1>16, <1>18, <1>19 DEF old

LEMMA CommitRotateKeeps == ASSUME IInv, NEW p \in Procs, CommitRotate(p) PROVE IInv'
<1> DEFINE t == proc[p].tok
           n == proc[p].new
<1>1. /\ t \in Rows /\ token[t].live /\ token[t].next = None
      /\ n \in Ids /\ n # None /\ n \notin Rows
      /\ t \in proc[p].exc /\ proc[p].hits \subseteq proc[p].exc
      /\ Rows' = Rows \cup {n}
  BY CommitRotateWrites
<1>2. /\ token'[n].user = token[t].user /\ token'[n].session = token[t].session
      /\ token'[n].next = None
      /\ token'[t].user = token[t].user /\ token'[t].session = token[t].session
      /\ token'[t].next = n /\ ~token'[t].live
      /\ \A i \in Rows : i # t => token'[i] = token[i]
  BY CommitRotateWrites
<1>3. \A f \in Phones :
          /\ f \in proc[p].hits <=> push[f] # None /\ push[f].tok = t
          /\ IF f \in proc[p].hits
             THEN push'[f] # None /\ push'[f].tok = n /\ push'[f].user = push[f].user
             ELSE push'[f] = push[f]
  BY CommitRotateWrites
<1>4. /\ token' \in [Ids -> TokenRow \cup {None}] /\ push' \in [Phones -> PushRow \cup {None}]
      /\ disabled' \in [Users -> BOOLEAN] /\ Done(p)
  BY CommitRotateWrites DEF IInv, TypeOK
<1>5. \A q \in Procs \ {p} :
          /\ Shape(proc[q]) /\ Sees(proc[q])
          /\ proc[p].exc \cap proc[q].exc = {} /\ proc[p].exc \cap proc[q].shr = {}
          /\ n # proc[q].new
  BY <1>1 DEF IInv, Good, Apart
<1> HIDE DEF t, n
<1>6. RowsAgree'
  <2>1. \A i \in Rows : token'[i].user = token[i].user /\ token'[i].session = token[i].session
    BY <1>2
  <2>2. \A i \in Rows : token[i].session \in Rows /\ (token[i].live => token[i].next = None)
            /\ (token[i].next # None =>
                   token[i].next \in Rows /\ token[token[i].next].user = token[i].user)
    BY DEF IInv, RowsAgree
  <2> SUFFICES ASSUME NEW i \in Rows'
               PROVE  /\ token'[i].session \in Rows'
                      /\ token'[i].live => token'[i].next = None
                      /\ token'[i].next # None =>
                             /\ token'[i].next \in Rows'
                             /\ token'[token'[i].next].user = token'[i].user
    BY DEF RowsAgree
  <2>3. CASE i = n
    BY <1>1, <1>2, <2>2, <2>3
  <2>4. CASE i = t
    BY <1>1, <1>2, <2>2, <2>4
  <2>5. CASE i \in Rows /\ i # t
    BY <1>1, <1>2, <2>1, <2>2, <2>5
  <2> QED BY <1>1, <2>3, <2>4, <2>5
<1>7. PushAgrees'
  <2> SUFFICES ASSUME NEW f \in Phones, push'[f] # None, push'[f].tok # None
               PROVE  /\ push'[f].tok \in Rows' /\ token'[push'[f].tok].next = None
                      /\ token'[push'[f].tok].user = push'[f].user
    BY DEF PushAgrees
  <2>1. CASE f \in proc[p].hits
    <3>1. push[f] # None /\ push[f].tok = t /\ t # None
      BY <1>1, <1>3, <2>1, RowsAssumption DEF Rows
    <3>2. push[f].user = token[t].user
      BY <3>1 DEF IInv, PushAgrees
    <3> QED BY <1>1, <1>2, <1>3, <2>1, <3>2
  <2>2. CASE f \notin proc[p].hits
    BY <1>1, <1>2, <1>3, <2>2 DEF IInv, PushAgrees
  <2> QED BY <2>1, <2>2
<1>8. SessionHasOneLiveToken'
  BY <1>1, <1>2 DEF IInv, SessionHasOneLiveToken
<1>9. \A q \in Procs \ {p} : Undisturbed(proc[q])
  <2> SUFFICES ASSUME NEW q \in Procs, q # p PROVE Undisturbed(proc[q])
    OBVIOUS
  <2>1. \A i \in Rows :
            /\ i \in Rows' /\ token'[i].user = token[i].user
            /\ token'[i].live => token[i].live
            /\ token[i].next # None => token'[i].next = token[i].next
            /\ token'[i].next # token[i].next => token[i].live /\ i \notin proc[q].shr
            /\ i \in proc[q].exc => token'[i] = token[i]
    BY <1>1, <1>2, <1>5
  <2>2. proc[q].new # None => proc[q].new \notin Rows'
    BY <1>1, <1>5 DEF Sees
  <2>3. Holds(proc[q]) => proc[q].tok \in Rows
    BY <1>5 DEF Sees, SeesPhones
  <2>4. \A f \in Phones :
            /\ f \in proc[q].exc => push'[f] = push[f]
            /\ Holds(proc[q]) /\ push'[f] # None /\ push'[f].tok = proc[q].tok
                   => push'[f] = push[f]
    BY <1>1, <1>3, <1>5, <2>3
  <2> QED BY <2>1, <2>2, <2>4 DEF Undisturbed
<1> QED BY <1>4, <1>6, <1>7, <1>8, <1>9, WriteKeeps

LEMMA CommitAccountWrites ==
    ASSUME IInv, NEW p \in Procs, CommitAccount(p)
    PROVE  LET r     == proc[p]
               fresh == IF r.kind = "change" THEN {r.new} ELSE {}
           IN  /\ SeesSessions(r) /\ r.at = "commit"
               /\ r.hits \subseteq r.exc
               /\ r.kind = "change" => r.new \in Ids /\ r.new # None /\ r.new \notin Rows
               /\ token' \in [Ids -> TokenRow \cup {None}]
               /\ Rows' = Rows \cup fresh
               /\ \A i \in fresh : token'[i].next = None /\ token'[i].session = i
               /\ \A i \in Rows :
                      /\ token'[i].user = token[i].user /\ token'[i].session = token[i].session
                      /\ token'[i].next = token[i].next
                      /\ token'[i].live => token[i].live /\ i \notin r.hits
                      /\ i \notin r.hits => token'[i] = token[i]
               /\ push' \in [Phones -> PushRow \cup {None}]
               /\ \A f \in Phones : push'[f] = IF f \in r.hits THEN None ELSE push[f]
               /\ Done(p) /\ disabled' \in [Users -> BOOLEAN]
<1> DEFINE r   == proc[p]
           row == NewToken(r.user, r.new, r.older, r.new)
           fresh == IF r.kind = "change" THEN {r.new} ELSE {}
           dead(i) == [token[i] EXCEPT !.live = FALSE]
           revoked == [i \in Ids |-> IF i \in r.hits THEN dead(i) ELSE token[i]]
<1>1. r \in Request /\ Shape(r) /\ Sees(r) /\ TypeOK
  BY DEF IInv, TypeOK, Good
<1>2. r.at = "commit" /\ r.kind \in {"change", "disable"} /\ Done(p)
  BY DEF CommitAccount, Runs
<1>3. SeesSessions(r) /\ r.hits \subseteq r.exc /\ r.user \in Users
  BY <1>1, <1>2 DEF Sees, Ends, Shape
<1>4. r.kind = "change" => r.new \in Ids /\ r.new # None /\ r.new \notin Rows
  BY <1>1, <1>2, RowsAssumption DEF Shape, Sees
<1>5. r.kind = "change" => /\ row \in TokenRow /\ row # None /\ row.next = None
                           /\ row.session = r.new
  <2>1. r.older \in SUBSET Ids
    BY <1>1 DEF Request
  <2> QED BY <1>3, <1>4, <2>1, NewRow
<1>6. \A i \in Rows : /\ dead(i) \in TokenRow /\ dead(i) # None
                      /\ dead(i).user = token[i].user /\ dead(i).next = token[i].next
                      /\ dead(i).session = token[i].session /\ ~dead(i).live
  <2> SUFFICES ASSUME NEW i \in Rows
               PROVE  /\ dead(i) \in TokenRow /\ dead(i) # None
                      /\ dead(i).user = token[i].user /\ dead(i).next = token[i].next
                      /\ dead(i).session = token[i].session /\ ~dead(i).live
    OBVIOUS
  <2>1. token[i] \in TokenRow
    BY <1>1, RowTypes DEF Rows
  <2>2. /\ dead(i) \in TokenRow
        /\ dead(i).user = token[i].user /\ dead(i).next = token[i].next
        /\ dead(i).session = token[i].session /\ ~dead(i).live
    BY <2>1 DEF TokenRow
  <2> HIDE DEF dead
  <2> QED BY <2>2, NoRowAssumption
<1>7. /\ token' = IF r.kind = "change" THEN [revoked EXCEPT ![r.new] = row] ELSE revoked
      /\ push' = [f \in Phones |-> IF f \in r.hits THEN None ELSE push[f]]
      /\ disabled' = [disabled EXCEPT ![r.user] = @ \/ r.kind = "disable"]
  BY DEF CommitAccount
<1> HIDE DEF row, dead
<1>8. \A i \in Ids : token'[i] = IF i \in fresh THEN row
                                  ELSE IF i \in r.hits THEN dead(i) ELSE token[i]
  BY <1>4, <1>7
<1>9. \A i \in Ids : token'[i] \in TokenRow \cup {None}
  <2>1. \A i \in r.hits \cap Ids : i \in Rows
    BY <1>3 DEF SeesSessions
  <2>2. \A i \in Ids : token[i] \in TokenRow \cup {None}
    BY <1>1 DEF TypeOK
  <2> QED BY <1>5, <1>6, <1>8, <2>1, <2>2
<1>10. token' \in [Ids -> TokenRow \cup {None}]
  <2>1. token' = [i \in Ids |-> token'[i]]
    BY <1>7
  <2> QED BY <1>9, <2>1
<1>11. push' \in [Phones -> PushRow \cup {None}] /\ disabled' \in [Users -> BOOLEAN]
  <2>1. disabled' \in [Users -> BOOLEAN]
    BY <1>1, <1>7 DEF TypeOK
  <2> QED BY <1>1, <1>7, <2>1 DEF TypeOK
<1>12. \A f \in Phones : push'[f] = IF f \in r.hits THEN None ELSE push[f]
  BY <1>7
<1> HIDE DEF revoked
<1>13. \A i \in Ids : token'[i] # None <=> i \in fresh \/ token[i] # None
  <2>1. \A i \in r.hits \cap Ids : i \in Rows
    BY <1>3 DEF SeesSessions
  <2> QED BY <1>5, <1>6, <1>8, <2>1 DEF Rows
<1>14. Rows' = Rows \cup fresh
  BY <1>4, <1>13 DEF Rows
<1>15. \A i \in fresh : token'[i].next = None /\ token'[i].session = i
  BY <1>4, <1>5, <1>8
<1>16. \A i \in Rows :
           /\ token'[i].user = token[i].user /\ token'[i].session = token[i].session
           /\ token'[i].next = token[i].next
           /\ token'[i].live => token[i].live /\ i \notin r.hits
           /\ i \notin r.hits => token'[i] = token[i]
  BY <1>4, <1>6, <1>8 DEF Rows
<1> HIDE DEF r
<1> QED BY <1>2, <1>3, <1>4, <1>10, <1>11, <1>12, <1>14, <1>15, <1>16 DEF r

LEMMA CommitAccountKeeps == ASSUME IInv, NEW p \in Procs, CommitAccount(p) PROVE IInv'
<1> DEFINE r == proc[p]
           fresh == IF r.kind = "change" THEN {r.new} ELSE {}
<1>1. /\ r.hits \subseteq r.exc
      /\ r.kind = "change" => r.new \in Ids /\ r.new # None /\ r.new \notin Rows
      /\ Rows' = Rows \cup fresh
      /\ \A i \in fresh : token'[i].next = None /\ token'[i].session = i
  BY CommitAccountWrites
<1>2. \A i \in Rows :
          /\ token'[i].user = token[i].user /\ token'[i].session = token[i].session
          /\ token'[i].next = token[i].next
          /\ token'[i].live => token[i].live /\ i \notin r.hits
          /\ i \notin r.hits => token'[i] = token[i]
  BY CommitAccountWrites
<1>3. \A f \in Phones : push'[f] = IF f \in r.hits THEN None ELSE push[f]
  BY CommitAccountWrites
<1>4. /\ token' \in [Ids -> TokenRow \cup {None}] /\ push' \in [Phones -> PushRow \cup {None}]
      /\ disabled' \in [Users -> BOOLEAN] /\ Done(p)
  BY CommitAccountWrites
<1>5. \A i \in fresh : i \in Ids /\ i # None /\ i \notin Rows
  BY <1>1
<1>6. \A q \in Procs \ {p} :
          /\ Sees(proc[q])
          /\ r.exc \cap proc[q].exc = {} /\ r.exc \cap proc[q].shr = {}
          /\ proc[q].new \notin fresh
  BY <1>1 DEF IInv, Good, Apart
<1> HIDE DEF r, fresh
<1>7. \A i \in Rows :
          /\ token[i].session \in Rows /\ (token[i].live => token[i].next = None)
          /\ token[i].next # None =>
                 token[i].next \in Rows /\ token[token[i].next].user = token[i].user
  BY DEF IInv, RowsAgree
<1>8. RowsAgree'
  <2> SUFFICES ASSUME NEW i \in Rows'
               PROVE  /\ token'[i].session \in Rows'
                      /\ token'[i].live => token'[i].next = None
                      /\ token'[i].next # None =>
                             /\ token'[i].next \in Rows'
                             /\ token'[token'[i].next].user = token'[i].user
    BY DEF RowsAgree
  <2>1. CASE i \in fresh
    BY <1>1, <2>1
  <2>2. CASE i \in Rows
    BY <1>1, <1>2, <1>7, <2>2
  <2> QED BY <1>1, <2>1, <2>2
<1>9. PushAgrees'
  BY <1>1, <1>2, <1>3 DEF IInv, PushAgrees
<1>10. SessionHasOneLiveToken'
  BY <1>1, <1>2, <1>5, <1>7 DEF IInv, SessionHasOneLiveToken
<1>11. \A q \in Procs \ {p} : Undisturbed(proc[q])
  <2> SUFFICES ASSUME NEW q \in Procs, q # p PROVE Undisturbed(proc[q])
    OBVIOUS
  <2>1. \A i \in Rows :
            /\ i \in Rows' /\ token'[i].user = token[i].user
            /\ token'[i].live => token[i].live
            /\ token[i].next # None => token'[i].next = token[i].next
            /\ token'[i].next # token[i].next => token[i].live /\ i \notin proc[q].shr
            /\ i \in proc[q].exc => token'[i] = token[i]
    BY <1>1, <1>2, <1>6
  <2>2. proc[q].new # None => proc[q].new \notin Rows'
    BY <1>1, <1>6 DEF Sees
  <2>3. \A f \in Phones :
            /\ f \in proc[q].exc => push'[f] = push[f]
            /\ push'[f] # None => push'[f] = push[f]
    BY <1>1, <1>3, <1>6
  <2> QED BY <2>1, <2>2, <2>3 DEF Undisturbed
<1> QED BY <1>4, <1>8, <1>9, <1>10, <1>11, WriteKeeps

\* A phone's row is written for the session the request shares, or goes.
LEMMA PhoneWriteKeeps ==
    ASSUME IInv, NEW p \in Procs, proc[p].at \in {"phone", "bound"},
           Save(p) \/ Drop(p) \/ UNCHANGED push,
           \A q \in Procs \ {p} : proc[p].phone \notin proc[q].exc,
           Done(p), UNCHANGED <<token, disabled>>
    PROVE  IInv'
<1> DEFINE r == proc[p]
           row == [user |-> r.user, tok |-> r.tok]
<1>1. r \in Request /\ Shape(r) /\ Sees(r) /\ TypeOK
  BY DEF IInv, TypeOK, Good
<1>2. /\ r.phone \in Phones /\ r.user \in Users /\ r.tok \in Rows /\ r.tok \in Ids
      /\ token[r.tok].user = r.user /\ token[r.tok].next = None /\ r.tok \in r.shr
  BY <1>1 DEF Shape, Sees, Rows
<1>3. row \in PushRow /\ row.user = r.user /\ row.tok = r.tok
  BY <1>2 DEF PushRow
<1>4. \/ push' = [push EXCEPT ![r.phone] = row]
      \/ push' = [push EXCEPT ![r.phone] = None]
      \/ push' = push
  BY DEF Save, Drop
<1> HIDE DEF row
<1>5. push' \in [Phones -> PushRow \cup {None}]
  BY <1>1, <1>2, <1>3, <1>4 DEF TypeOK
<1>6. \A f \in Phones :
          \/ push'[f] = push[f]
          \/ f = r.phone /\ push'[f] = row
          \/ f = r.phone /\ push'[f] = None
  BY <1>1, <1>2, <1>4 DEF TypeOK
<1>7. Rows' = Rows /\ disabled' \in [Users -> BOOLEAN] /\ token' \in [Ids -> TokenRow \cup {None}]
  BY <1>1 DEF Rows, TypeOK
<1>8. RowsAgree' /\ SessionHasOneLiveToken'
  BY <1>7 DEF IInv, RowsAgree, SessionHasOneLiveToken
<1>9. PushAgrees'
  BY <1>2, <1>3, <1>6, <1>7 DEF IInv, PushAgrees
<1>10. \A q \in Procs \ {p} : Undisturbed(proc[q])
  <2> SUFFICES ASSUME NEW q \in Procs, q # p PROVE Undisturbed(proc[q])
    OBVIOUS
  <2>1. Sees(proc[q]) /\ Shape(proc[q]) /\ proc[q].exc \cap r.shr = {}
    BY DEF IInv, Good, Apart
  <2>2. Holds(proc[q]) => proc[q].tok # r.tok
    BY <1>2, <2>1 DEF Shape
  <2>3. \A f \in Phones :
            /\ f \in proc[q].exc => push'[f] = push[f]
            /\ Holds(proc[q]) /\ push'[f] # None /\ push'[f].tok = proc[q].tok
                   => push'[f] = push[f]
    BY <1>3, <1>6, <2>2
  <2> QED BY <1>7, <2>1, <2>3 DEF Undisturbed, Sees
<1> QED BY <1>5, <1>7, <1>8, <1>9, <1>10, WriteKeeps

LEMMA PhoneKeeps ==
    ASSUME IInv, NEW p \in Procs, HoldPhone(p) \/ DecidePhone(p) PROVE IInv'
<1>1. CASE HoldPhone(p)
  <2>1. Runs(p, "phone") /\ UNCHANGED <<token, disabled>> /\ proc[p].at = "phone"
        /\ Blockers(p) = {} /\ Wants(p) = proc[p].phone
    BY <1>1 DEF HoldPhone, Runs, Wants
  <2>2. \A q \in Procs \ {p} : proc[p].phone \notin proc[q].exc
    BY <2>1, Unblocked
  <2>3. \/ /\ push[proc[p].phone] # None /\ UNCHANGED push
           /\ Goto(p, [Holding(proc[p], proc[p].phone) EXCEPT !.at = "bound"])
        \/ Done(p) /\ (Save(p) \/ Drop(p) \/ UNCHANGED push)
    BY <1>1 DEF HoldPhone
  <2> QED BY <2>1, <2>2, <2>3, HoldPhoneKeeps, PhoneWriteKeeps
<1>2. CASE DecidePhone(p)
  <2>1. proc[p].at = "bound" /\ UNCHANGED <<token, disabled>> /\ Done(p)
        /\ (Save(p) \/ Drop(p) \/ UNCHANGED push)
    BY <1>2 DEF DecidePhone, Runs
  <2>2. proc[p].phone \in proc[p].exc
    BY <2>1 DEF IInv, Good, Shape
  <2>3. \A q \in Procs \ {p} : proc[p].phone \notin proc[q].exc
    BY <2>2 DEF IInv, Good, Apart
  <2> QED BY <2>1, <2>3, PhoneWriteKeeps
<1> QED BY <1>1, <1>2

-----------------------------------------------------------------------------
(* The invariant.                                                          *)

LEMMA InitHolds == Init => IInv
<1> SUFFICES ASSUME Init PROVE IInv
  OBVIOUS
<1> DEFINE row(i) == NewToken(Owner[i], i, {j \in DOMAIN Owner : j < i}, i)
<1>1. \A i \in DOMAIN Owner : /\ i \in Ids /\ row(i) \in TokenRow /\ row(i) # None
                              /\ row(i).next = None /\ row(i).session = i
  <2> TAKE i \in DOMAIN Owner
  <2>1. i \in Ids /\ Owner[i] \in Users /\ {j \in DOMAIN Owner : j < i} \in SUBSET Ids
    BY RowsAssumption
  <2> QED BY <2>1, NewRow
<1>2. token = [i \in Ids |-> IF i \in DOMAIN Owner THEN row(i) ELSE None]
  BY DEF Init
<1> HIDE DEF row
<1>3. token \in [Ids -> TokenRow \cup {None}]
      /\ \A i \in Ids : token[i] = IF i \in DOMAIN Owner THEN row(i) ELSE None
  BY <1>1, <1>2
<1>4. Rows = DOMAIN Owner /\ \A i \in Rows : token[i] = row(i)
  BY <1>1, <1>3 DEF Rows
<1>5. \A p \in Procs : proc[p] = Idle
  BY DEF Init
<1>6. push = [f \in Phones |-> None] /\ disabled = [u \in Users |-> FALSE]
      /\ proc = [p \in Procs |-> Idle]
  BY DEF Init
<1>7. TypeOK
  BY <1>3, <1>6, IdleRequest DEF TypeOK
<1>8. RowsAgree /\ SessionHasOneLiveToken
  BY <1>1, <1>4 DEF RowsAgree, SessionHasOneLiveToken
<1>9. PushAgrees
  BY <1>6 DEF PushAgrees
<1>10. Good
  BY <1>5, IdleRequest DEF Good, Apart
<1> QED BY <1>7, <1>8, <1>9, <1>10 DEF IInv

LEMMA StepKeeps == IInv /\ [Next]_vars => IInv'
<1> SUFFICES ASSUME IInv, [Next]_vars PROVE IInv'
  OBVIOUS
<1>1. ASSUME NEW p \in Procs, Arrival(p) PROVE IInv'
  BY <1>1, ArrivalKeeps
<1>2. ASSUME NEW p \in Procs, NEW new \in Free, InsertToken(p, new) PROVE IInv'
  BY <1>2, InsertTokenKeeps
<1>3. ASSUME NEW p \in Procs, Rotate(p) \/ CommitRotate(p) PROVE IInv'
  BY <1>3, RotateKeeps, CommitRotateKeeps
<1>4. ASSUME NEW p \in Procs, Walk(p) \/ Follow(p) PROVE IInv'
  BY <1>4, WalkKeeps, FollowOnKeeps, RevokeKeeps
<1>5. ASSUME NEW p \in Procs, Account(p) \/ Select(p) \/ TakeRow(p) \/ CommitAccount(p) PROVE IInv'
  BY <1>5, AccountKeeps, SelectKeeps, TakeRowKeeps, CommitAccountKeeps
<1>6. ASSUME NEW p \in Procs, ShareToken(p) \/ HoldPhone(p) \/ DecidePhone(p) PROVE IInv'
  BY <1>6, ShareTokenKeeps, PhoneKeeps
<1>7. CASE UNCHANGED vars
  BY <1>7 DEF vars, IInv, TypeOK, RowsAgree, PushAgrees, SessionHasOneLiveToken, Good,
              Shape, Sees, SeesPhones, SeesSessions, Caught, BoundTo, Rows, Apart, Holds, Ends
<1> QED BY <1>1, <1>2, <1>3, <1>4, <1>5, <1>6, <1>7 DEF Next, Step

-----------------------------------------------------------------------------
(* What a step may do.                                                     *)

LEMMA TokensStay ==
    ASSUME IInv, [Next]_vars
    PROVE  \/ \E p \in Procs, new \in Free : InsertToken(p, new)
           \/ \E p \in Procs : \/ CommitRotate(p) \/ CommitAccount(p)
                               \/ Follow(p) /\ ~MoreToFollow(p)
           \/ UNCHANGED token
<1>1. CASE UNCHANGED vars
  BY <1>1 DEF vars
<1>2. ASSUME NEW p \in Procs, Arrival(p) PROVE UNCHANGED token
  BY <1>2 DEF Arrival, Login, Refresh, RefreshAgain, Logout, ChangePassword, SetDisabled, PushToken
<1>3. ASSUME NEW p \in Procs,
             Rotate(p) \/ Walk(p) \/ Account(p) \/ Select(p) \/ TakeRow(p)
             \/ ShareToken(p) \/ HoldPhone(p) \/ DecidePhone(p)
      PROVE  UNCHANGED token
  BY <1>3 DEF Rotate, Walk, Account, Select, TakeRow, ShareToken, HoldPhone, DecidePhone
<1>4. ASSUME NEW p \in Procs, Follow(p), MoreToFollow(p) PROVE UNCHANGED token
  BY <1>4 DEF Follow
<1> QED BY <1>1, <1>2, <1>3, <1>4 DEF Next, Step

LEMMA PhonesStay ==
    ASSUME [Next]_vars
    PROVE  \/ \E p \in Procs : CommitRotate(p) \/ CommitAccount(p) \/ HoldPhone(p) \/ DecidePhone(p)
           \/ UNCHANGED push
<1>1. CASE UNCHANGED vars
  BY <1>1 DEF vars
<1>2. ASSUME NEW p \in Procs, Arrival(p) PROVE UNCHANGED push
  BY <1>2 DEF Arrival, Login, Refresh, RefreshAgain, Logout, ChangePassword, SetDisabled, PushToken
<1>3. ASSUME NEW p \in Procs, NEW new \in Free, InsertToken(p, new) PROVE UNCHANGED push
  BY <1>3 DEF InsertToken
<1>4. ASSUME NEW p \in Procs,
             Rotate(p) \/ Walk(p) \/ Follow(p) \/ Account(p) \/ Select(p) \/ TakeRow(p)
             \/ ShareToken(p)
      PROVE  UNCHANGED push
  BY <1>4 DEF Rotate, Walk, Follow, Account, Select, TakeRow, ShareToken
<1> QED BY <1>1, <1>2, <1>3, <1>4 DEF Next, Step

LEMMA NoneIsRevived ==
    ASSUME IInv, [Next]_vars, NEW s \in {token[i].session : i \in Rows}, ~SessionLive(s)
    PROVE  \A i \in Rows' : ~(token'[i].session = s /\ token'[i].live)
<1>1. s \in Rows /\ \A i \in Rows : token[i].session = s => ~token[i].live
  BY DEF IInv, RowsAgree, SessionLive
<1>2. CASE UNCHANGED token
  BY <1>1, <1>2 DEF Rows
<1>3. ASSUME NEW p \in Procs, NEW new \in Free, InsertToken(p, new)
      PROVE  \A i \in Rows' : ~(token'[i].session = s /\ token'[i].live)
  BY <1>1, <1>3, InsertTokenWrites
<1>4. ASSUME NEW p \in Procs, CommitRotate(p)
      PROVE  \A i \in Rows' : ~(token'[i].session = s /\ token'[i].live)
  <2> DEFINE t == proc[p].tok
             n == proc[p].new
  <2>1. /\ t \in Rows /\ token[t].live /\ Rows' = Rows \cup {n}
        /\ token'[n].session = token[t].session /\ ~token'[t].live
        /\ \A i \in Rows : i # t => token'[i] = token[i]
    BY <1>4, CommitRotateWrites
  <2> QED BY <1>1, <2>1
<1>5. ASSUME NEW p \in Procs, CommitAccount(p)
      PROVE  \A i \in Rows' : ~(token'[i].session = s /\ token'[i].live)
  <2> DEFINE r     == proc[p]
             fresh == IF r.kind = "change" THEN {r.new} ELSE {}
  <2>1. /\ Rows' = Rows \cup fresh
        /\ r.kind = "change" => r.new \notin Rows
        /\ \A i \in fresh : token'[i].session = i
        /\ \A i \in Rows : /\ token'[i].session = token[i].session
                           /\ token'[i].live => token[i].live
    BY <1>5, CommitAccountWrites
  <2> QED BY <1>1, <2>1
<1>6. ASSUME NEW p \in Procs, Follow(p), ~MoreToFollow(p)
      PROVE  \A i \in Rows' : ~(token'[i].session = s /\ token'[i].live)
  <2>1. proc[p].tok \in Rows /\ token' = [token EXCEPT ![proc[p].tok].live = FALSE]
    BY <1>6 DEF Follow, Runs, IInv, Good, Sees
  <2> QED BY <1>1, <2>1, RevokeWrites
<1> QED BY <1>2, <1>3, <1>4, <1>5, <1>6, TokensStay

LEMMA CommitEndsAll ==
    ASSUME IInv, NEW p \in Procs, CommitAccount(p), NEW i \in proc[p].seen
    PROVE  /\ ~token'[i].live
           /\ token'[i].next # None => ~token'[token'[i].next].live
<1> DEFINE r == proc[p]
<1>1. /\ SeesSessions(r) /\ r.at = "commit"
      /\ \A j \in Rows : /\ token'[j].next = token[j].next
                         /\ token'[j].live => token[j].live /\ j \notin r.hits
  BY CommitAccountWrites
<1>2. i \in Rows /\ (i \in r.hits \/ ~token[i].live)
  BY <1>1 DEF SeesSessions, Caught
<1>3. token[i].next # None => /\ token[i].next \in Rows
                              /\ token[i].next \in r.hits \/ ~token[token[i].next].live
  BY <1>1, <1>2 DEF SeesSessions, Caught, IInv, RowsAgree
<1>4. token'[i].next = token[i].next /\ ~token'[i].live
  BY <1>1, <1>2
<1> DEFINE n == token[i].next
<1>5. ASSUME n # None PROVE ~token'[n].live
  <2>1. n \in Rows /\ (n \in r.hits \/ ~token[n].live)
    BY <1>3, <1>5
  <2> QED BY <1>1, <2>1
<1> QED BY <1>4, <1>5

\* The three ways in which a live session loses its phone.
Loses(f) ==
    \/ \E p \in Procs : CommitAccount(p) /\ proc[p].user = push[f].user
    \/ \E p \in Procs : proc[p].kind = "remove" /\ proc[p].phone = f
                         /\ proc[p].tok = push[f].tok /\ proc'[p] = Idle
    \/ /\ push'[f] # None
       /\ \/ push'[f].tok = token'[push[f].tok].next
          \/ /\ IsLive(push'[f].tok)
             /\ push'[f].user = push[f].user => ~Newer(push[f].tok, push'[f].tok)

LEMMA PhoneIsKept ==
    ASSUME IInv, [Next]_vars, NEW f \in Phones,
           push[f] # None, IsLive(push[f].tok), push'[f] # push[f]
    PROVE  Loses(f)
<1> DEFINE b == push[f].tok
<1>1. /\ b # None /\ token[b].live /\ b \in Rows /\ token[b].user = push[f].user
      /\ push[f] \in PushRow
  BY PushTypes DEF IsLive, IInv, PushAgrees
<1>2. ASSUME NEW p \in Procs, CommitRotate(p) PROVE Loses(f)
  <2>1. /\ token'[proc[p].tok].next = proc[p].new
        /\ f \in proc[p].hits <=> push[f] # None /\ push[f].tok = proc[p].tok
        /\ IF f \in proc[p].hits THEN push'[f] # None /\ push'[f].tok = proc[p].new
                                 ELSE push'[f] = push[f]
    BY <1>2, CommitRotateWrites
  <2> QED BY <2>1 DEF Loses
<1>3. ASSUME NEW p \in Procs, CommitAccount(p) PROVE Loses(f)
  <2>1. /\ SeesSessions(proc[p])
        /\ push'[f] = IF f \in proc[p].hits THEN None ELSE push[f]
    BY <1>3, CommitAccountWrites
  <2>2. push[f].user = proc[p].user
    BY <2>1 DEF SeesSessions
  <2> QED BY <1>3, <2>2 DEF Loses
<1>4. ASSUME NEW p \in Procs, HoldPhone(p) \/ DecidePhone(p), Done(p), Save(p), proc[p].phone = f,
             proc[p].tok = b \/ ~StaysBound(p, b),
             proc[p].tok \in Rows, token[proc[p].tok].user = proc[p].user
      PROVE  Loses(f)
  <2> DEFINE r   == proc[p]
             row == [user |-> r.user, tok |-> r.tok]
  <2>1. push'[f] = row
    BY <1>4 DEF Save, IInv, TypeOK
  <2>2. row \in PushRow /\ row # None
    BY <1>4, NoRowAssumption, RowTypes DEF PushRow, IInv, Rows
  <2>3. push[f] = [user |-> push[f].user, tok |-> push[f].tok]
    BY <1>1 DEF PushRow
  <2>4. r.tok # b
    BY <1>1, <1>4, <2>1, <2>3
  <2>5. IsLive(r.tok) /\ (token[b].user = r.user => ~Newer(b, r.tok))
    BY <1>1, <1>4, <2>4 DEF StaysBound, IsLive
  <2>6. push'[f] # None /\ push'[f].tok = r.tok /\ push'[f].user = r.user
    BY <2>1, <2>2
  <2> QED BY <1>1, <2>5, <2>6 DEF Loses
<1>5. ASSUME NEW p \in Procs, HoldPhone(p) \/ DecidePhone(p) PROVE Loses(f)
  <2> DEFINE r == proc[p]
  <2>1. r \in Request /\ Shape(r) /\ Sees(r)
    BY DEF IInv, TypeOK, Good
  <2>2. /\ r.at \in {"phone", "bound"} /\ r.kind \in {"save", "remove"} /\ r.phone \in Phones
        /\ r.tok \in Rows /\ token[r.tok].user = r.user
    BY <1>5, <2>1 DEF HoldPhone, DecidePhone, Runs, Shape, Sees
  <2>3. \/ push' = push
        \/ Done(p) /\ Save(p) /\ r.kind = "save"
        \/ Done(p) /\ Drop(p) /\ r.kind = "remove"
    <3>1. CASE HoldPhone(p)
      <4>1. CASE r.kind = "save"
        <5>1. (push' = push) \/ (Done(p) /\ Save(p))
          BY <3>1, <4>1 DEF HoldPhone
        <5> QED BY <4>1, <5>1
      <4>2. CASE r.kind = "remove"
        <5>1. r.kind # "save"
          BY <4>2
        <5>2. (push' = push) \/ (Done(p) /\ Drop(p))
          BY <3>1, <5>1 DEF HoldPhone
        <5> QED BY <4>2, <5>2
      <4> QED BY <2>2, <4>1, <4>2
    <3>2. CASE DecidePhone(p)
      BY <2>2, <3>2 DEF DecidePhone
    <3> QED BY <1>5, <3>1, <3>2
  <2>4. r.phone = f
    BY <2>2, <2>3 DEF Save, Drop, IInv, TypeOK
  <2>5. CASE Done(p) /\ Save(p) /\ r.kind = "save"
    <3>1. r.tok = b \/ ~StaysBound(p, b)
      <4>1. CASE HoldPhone(p)
        <5>1. push' # push
          OBVIOUS
        <5> QED BY <1>1, <2>4, <2>5, <4>1, <5>1 DEF HoldPhone
      <4>2. CASE DecidePhone(p)
        <5>1. push' # push
          OBVIOUS
        <5> QED BY <1>1, <2>4, <2>5, <4>2, <5>1 DEF DecidePhone
      <4> QED BY <1>5, <4>1, <4>2
    <3> QED BY <1>4, <1>5, <2>2, <2>4, <2>5, <3>1
  <2>6. CASE Done(p) /\ Drop(p) /\ r.kind = "remove"
    <3>1. r.tok = b
      <4>1. CASE HoldPhone(p)
        <5>1. push' # push
          OBVIOUS
        <5> QED BY <1>1, <2>4, <2>6, <4>1, <5>1 DEF HoldPhone
      <4>2. CASE DecidePhone(p)
        <5>1. push' # push
          OBVIOUS
        <5> QED BY <1>1, <2>4, <2>6, <4>2, <5>1 DEF DecidePhone, IsLive
      <4> QED BY <1>5, <4>1, <4>2
    <3>2. proc'[p] = Idle
      BY <2>6 DEF Done, Goto, IInv, TypeOK
    <3> QED BY <2>4, <2>6, <3>1, <3>2 DEF Loses
  <2> QED BY <2>3, <2>5, <2>6
<1> QED BY <1>2, <1>3, <1>5, PhonesStay

-----------------------------------------------------------------------------
(* The chain of a session, which RevokeByHash follows.                     *)

\* The rows that `rotated_to` leads through from the token a request named to
\* the one it is at.
Path(c, r) ==
    /\ c[0] = r.from /\ c[r.steps] = r.tok
    /\ \A k \in 1 .. r.steps : token[c[k - 1]].next = c[k]

Paths == [0 .. MaxReuseSteps -> Rows]

\* A session is one line of tokens with one end.
OneLine ==
    /\ \A i \in Rows : token[i].next # None => token[token[i].next].session = token[i].session
    /\ \A i, j \in Rows :
           token[i].session = token[j].session /\ token[i].next = None /\ token[j].next = None => i = j

\* A request that follows its session is on that line.
OnLine(r) ==
    /\ r.at \in {"rotate", "walk"} => r.from = r.tok
    /\ r.at = "follow" => \E c \in Paths : Path(c, r)

LineInv == OneLine /\ \A p \in Procs : OnLine(proc[p])

LEMMA LeastOf ==
    ASSUME NEW S \in SUBSET Nat, S # {}
    PROVE  \E x \in S : \A y \in S : x =< y
<1> DEFINE R == StrictSubsetOrdering(Nat)
           B == {0 .. m : m \in S}
<1>1. IsWellFoundedOn(R, FiniteSubsetsOf(Nat))
  BY FS_StrictSubsetOrderingWellFounded
<1>2. \A m \in S : 0 .. m \in FiniteSubsetsOf(Nat)
  BY FS_Interval DEF FiniteSubsetsOf
<1>3. B \subseteq FiniteSubsetsOf(Nat) /\ B # {}
  BY <1>2
<1> HIDE DEF R, B
<1>4. PICK b \in B : \A c \in B : ~(<<c, b>> \in R)
  BY <1>1, <1>3, WFMin
<1>5. PICK x \in S : b = 0 .. x
  BY DEF B
<1>6. ASSUME NEW y \in S, ~(x =< y) PROVE FALSE
  <2>1. 0 .. y \in B
    BY DEF B
  <2>2. /\ 0 .. y \in SUBSET Nat /\ 0 .. x \in SUBSET Nat
        /\ 0 .. y \subseteq 0 .. x /\ 0 .. y # 0 .. x
    BY <1>6
  <2>3. <<0 .. y, b>> \in R
    BY <1>5, <2>2 DEF R, StrictSubsetOrdering
  <2> QED BY <1>4, <2>1, <2>3
<1> QED BY <1>6

LEMMA RowIsNotNone == \A i \in Rows : i # None /\ i \in Ids
BY RowsAssumption DEF Rows

\* All rows of a path are of one session.
LEMMA PathOfOneSession ==
    ASSUME IInv, LineInv, NEW p \in Procs, NEW c \in Paths, Path(c, proc[p])
    PROVE  token[proc[p].tok].session = token[proc[p].from].session
<1> DEFINE n == proc[p].steps
           S == {k \in 0 .. n : token[c[k]].session # token[c[0]].session}
<1>1. n \in 0 .. MaxReuseSteps /\ n \in Nat
  BY RowsAssumption DEF IInv, TypeOK, Request
<1>2. S = {}
  <2> SUFFICES ASSUME S # {} PROVE FALSE
    OBVIOUS
  <2>1. S \in SUBSET Nat
    BY <1>1
  <2>2. PICK m \in S : \A k \in S : m =< k
    BY <2>1, LeastOf
  <2>3. m \in 1 .. n /\ m - 1 \in 0 .. n /\ m - 1 \notin S
    BY <1>1, <2>1, <2>2
  <2>4. token[c[m - 1]].session = token[c[0]].session /\ token[c[m - 1]].next = c[m]
    BY <2>3 DEF Path
  <2>5. c[m - 1] \in Rows /\ c[m] \in Rows
    BY <1>1, <2>3, RowsAssumption DEF Paths
  <2>6. token[c[m]].session = token[c[m - 1]].session
    BY <2>4, <2>5, RowIsNotNone DEF LineInv, OneLine
  <2> QED BY <2>2, <2>4, <2>6
<1>3. n \notin S
  BY <1>2
<1> QED BY <1>1, <1>3 DEF Path

\* A path as long as MaxReuseSteps is the chain.
LEMMA PathIsTheChain ==
    ASSUME IInv, NEW p \in Procs, NEW c \in Paths, Path(c, proc[p]),
           proc[p].steps = MaxReuseSteps, NEW chain \in Chains(proc[p].from)
    PROVE  chain[MaxReuseSteps] = proc[p].tok
<1> DEFINE S == {k \in 0 .. MaxReuseSteps : chain[k] # c[k]}
<1>1. MaxReuseSteps \in Nat
  BY RowsAssumption
<1>2. S = {}
  <2> SUFFICES ASSUME S # {} PROVE FALSE
    OBVIOUS
  <2>1. S \in SUBSET Nat
    BY <1>1
  <2>2. PICK m \in S : \A k \in S : m =< k
    BY <2>1, LeastOf
  <2>3. chain[0] = c[0]
    BY DEF Chains, Path
  <2>4. m \in 1 .. MaxReuseSteps /\ m - 1 \in 0 .. MaxReuseSteps /\ m - 1 \notin S
    BY <1>1, <2>1, <2>2, <2>3
  <2>5. chain[m - 1] = c[m - 1] /\ token[c[m - 1]].next = c[m]
    BY <2>4 DEF Path
  <2>6. c[m] # None
    BY <2>4, RowIsNotNone, <1>1 DEF Paths
  <2>7. chain[m] = token[chain[m - 1]].next
    BY <2>4, <2>5, <2>6 DEF Chains
  <2> QED BY <2>2, <2>5, <2>7
<1>3. MaxReuseSteps \in 0 .. MaxReuseSteps /\ MaxReuseSteps \notin S
  BY <1>1, <1>2
<1> QED BY <1>3 DEF Path

\* Up to where it stops, the chain is a path.
LEMMA ChainIsAPath ==
    ASSUME IInv, NEW t \in Rows, NEW chain \in Chains(t), NEW k \in 0 .. MaxReuseSteps,
           chain[k] = chain[MaxReuseSteps], \A j \in 0 .. k - 1 : chain[j] # chain[k]
    PROVE  \A j \in 1 .. k : token[chain[j - 1]].next = chain[j]
<1> SUFFICES ASSUME NEW j \in 1 .. k, token[chain[j - 1]].next # chain[j] PROVE FALSE
  OBVIOUS
<1> DEFINE S == {m \in j - 1 .. MaxReuseSteps : chain[m] # chain[j - 1]}
<1>1. MaxReuseSteps \in Nat /\ k \in Nat /\ j \in Nat /\ j - 1 \in Nat /\ j - 1 < k
      /\ k =< MaxReuseSteps /\ j - 1 \in 0 .. k - 1
  BY RowsAssumption
<1>2. token[chain[j - 1]].next = None
  BY <1>1 DEF Chains
<1>3. S # {}
  BY <1>1
<1>4. S \in SUBSET Nat
  BY <1>1
<1>5. PICK m \in S : \A n \in S : m =< n
  BY <1>3, <1>4, LeastOf
<1>6. m \in j .. MaxReuseSteps /\ m - 1 \in j - 1 .. MaxReuseSteps /\ m - 1 \notin S
  BY <1>1, <1>4, <1>5
<1>7. chain[m - 1] = chain[j - 1] /\ m \in 1 .. MaxReuseSteps
  BY <1>1, <1>6
<1>8. chain[m] = chain[m - 1]
  BY <1>2, <1>7 DEF Chains
<1> QED BY <1>5, <1>7, <1>8

\* What a step does to the line of a session: a refresh puts the new token at
\* its end, and any other token that is new begins a line of its own.
LEMMA RowsGrow ==
    ASSUME IInv, [Next]_vars
    PROVE  \/ /\ Rows \subseteq Rows'
              /\ \A i \in Rows : token'[i].next = token[i].next /\ token'[i].session = token[i].session
              /\ \A i \in Rows' \ Rows : token'[i].next = None /\ token'[i].session = i
           \/ \E t \in Rows, n \in Ids :
                  /\ token[t].next = None /\ n # None /\ n \notin Rows /\ Rows' = Rows \cup {n}
                  /\ token'[n].next = None /\ token'[n].session = token[t].session
                  /\ token'[t].next = n /\ token'[t].session = token[t].session
                  /\ \A i \in Rows : i # t => token'[i] = token[i]
<1> DEFINE Begins == /\ Rows \subseteq Rows'
                     /\ \A i \in Rows : /\ token'[i].next = token[i].next
                                        /\ token'[i].session = token[i].session
                     /\ \A i \in Rows' \ Rows : token'[i].next = None /\ token'[i].session = i
           Joins(t, n) == /\ token[t].next = None /\ n # None /\ n \notin Rows /\ Rows' = Rows \cup {n}
                          /\ token'[n].next = None /\ token'[n].session = token[t].session
                          /\ token'[t].next = n /\ token'[t].session = token[t].session
                          /\ \A i \in Rows : i # t => token'[i] = token[i]
<1>1. CASE UNCHANGED token
  <2>1. Begins
    BY <1>1 DEF Rows
  <2> QED BY <2>1
<1>2. ASSUME NEW p \in Procs, NEW new \in Free, InsertToken(p, new) PROVE Begins
  BY <1>2, InsertTokenWrites
<1>3. ASSUME NEW p \in Procs, CommitRotate(p) PROVE \E t \in Rows, n \in Ids : Joins(t, n)
  <2> DEFINE t == proc[p].tok
             n == proc[p].new
  <2>1. t \in Rows /\ n \in Ids /\ Joins(t, n)
    BY <1>3, CommitRotateWrites
  <2> HIDE DEF t, n, Joins
  <2> QED BY <2>1
<1>4. ASSUME NEW p \in Procs, CommitAccount(p) PROVE Begins
  <2> DEFINE r     == proc[p]
             fresh == IF r.kind = "change" THEN {r.new} ELSE {}
  <2>1. /\ Rows' = Rows \cup fresh
        /\ \A i \in fresh : token'[i].next = None /\ token'[i].session = i
        /\ \A i \in Rows : token'[i].session = token[i].session /\ token'[i].next = token[i].next
    BY <1>4, CommitAccountWrites
  <2> QED BY <2>1
<1>5. ASSUME NEW p \in Procs, Follow(p), ~MoreToFollow(p) PROVE Begins
  <2>1. proc[p].tok \in Rows /\ token' = [token EXCEPT ![proc[p].tok].live = FALSE]
    BY <1>5 DEF Follow, Runs, IInv, Good, Sees
  <2> QED BY <2>1, RevokeWrites
<1> QED BY <1>1, <1>2, <1>3, <1>4, <1>5, TokensStay

LEMMA LineGrows ==
    ASSUME IInv, OneLine, [Next]_vars
    PROVE  /\ OneLine'
           /\ Rows \subseteq Rows'
           /\ \A i \in Rows : token[i].next # None => token'[i].next = token[i].next
<1>1. CASE /\ Rows \subseteq Rows'
           /\ \A i \in Rows : token'[i].next = token[i].next /\ token'[i].session = token[i].session
           /\ \A i \in Rows' \ Rows : token'[i].next = None /\ token'[i].session = i
  <2>1. ASSUME NEW i \in Rows', token'[i].next # None
        PROVE  token'[token'[i].next].session = token'[i].session
    <3>1. i \in Rows /\ token[i].next # None /\ token[i].next \in Rows
      BY <1>1, <2>1 DEF IInv, RowsAgree
    <3> QED BY <1>1, <3>1 DEF OneLine
  <2>2. ASSUME NEW i \in Rows', NEW j \in Rows', token'[i].session = token'[j].session,
               token'[i].next = None, token'[j].next = None
        PROVE  i = j
    <3>1. CASE i \in Rows /\ j \in Rows
      BY <1>1, <2>2, <3>1 DEF OneLine
    <3>2. \A k \in Rows : token'[k].session \in Rows
      BY <1>1 DEF IInv, RowsAgree
    <3> QED BY <1>1, <2>2, <3>1, <3>2
  <2> QED BY <1>1, <2>1, <2>2 DEF OneLine
<1>2. ASSUME NEW t \in Rows, NEW n \in Ids,
             token[t].next = None, n # None, n \notin Rows, Rows' = Rows \cup {n},
             token'[n].next = None, token'[n].session = token[t].session,
             token'[t].next = n, token'[t].session = token[t].session,
             \A i \in Rows : i # t => token'[i] = token[i]
      PROVE  /\ OneLine'
             /\ Rows \subseteq Rows'
             /\ \A i \in Rows : token[i].next # None => token'[i].next = token[i].next
  <2>1. \A i \in Rows : token'[i].session = token[i].session
    BY <1>2
  <2>2. ASSUME NEW i \in Rows', token'[i].next # None
        PROVE  token'[token'[i].next].session = token'[i].session
    <3>1. CASE i = t
      BY <1>2, <3>1
    <3>2. CASE i # t
      <4>1. i \in Rows /\ token'[i] = token[i]
        BY <1>2, <2>2, <3>2
      <4>2. token[i].next \in Rows /\ token[token[i].next].session = token[i].session
        BY <2>2, <4>1 DEF OneLine, IInv, RowsAgree
      <4> QED BY <2>1, <4>1, <4>2
    <3> QED BY <3>1, <3>2
  <2>3. ASSUME NEW i \in Rows', NEW j \in Rows', token'[i].session = token'[j].session,
               token'[i].next = None, token'[j].next = None
        PROVE  i = j
    <3>1. i # t /\ j # t
      BY <1>2, <2>3
    <3>2. \A k \in Rows : k # t /\ token'[k].next = None => token'[k].session # token[t].session
      BY <1>2 DEF OneLine
    <3> QED BY <1>2, <2>3, <3>1, <3>2 DEF OneLine
  <2>4. OneLine'
    BY <2>2, <2>3 DEF OneLine
  <2> QED BY <1>2, <2>4
<1> QED BY <1>1, <1>2, RowsGrow

\* A path stays one: what a refresh has set is never set again.
LEMMA PathStays ==
    ASSUME IInv, OneLine, [Next]_vars, NEW r \in Request, OnLine(r)
    PROVE  OnLine(r)'
<1>1. CASE r.at = "follow"
  <2>1. PICK c \in Paths : Path(c, r)
    BY <1>1 DEF OnLine
  <2>2. c \in Paths'
    BY LineGrows DEF Paths
  <2>3. r.steps \in 0 .. MaxReuseSteps /\ MaxReuseSteps \in Nat
    BY RowsAssumption DEF Request
  <2>4. \A k \in 1 .. r.steps : k \in 0 .. MaxReuseSteps /\ k - 1 \in 0 .. MaxReuseSteps
    BY <2>3
  <2>5. \A k \in 1 .. r.steps : token'[c[k - 1]].next = c[k]
    BY <2>1, <2>4, LineGrows, RowIsNotNone DEF Path, Paths
  <2>6. Path(c, r)'
    BY <2>1, <2>5 DEF Path
  <2> QED BY <1>1, <2>2, <2>6 DEF OnLine
<1>2. CASE r.at # "follow"
  BY <1>2 DEF OnLine
<1> QED BY <1>1, <1>2

\* A request that the line does not concern, one that begins at a token it
\* names, and the two statements that follow.
LEMMA ArrivalOnLine ==
    ASSUME IInv, NEW p \in Procs, Arrival(p)
    PROVE  \E r : Goto(p, r) /\ OnLine(r)
<1>1. ASSUME NEW u \in Users, Login(p, u) PROVE \E r : Goto(p, r) /\ OnLine(r)
  <2>1. Begin("login", u, "insert").at = "insert"
    BY DEF Begin, Idle
  <2> QED BY <1>1, <2>1 DEF Login, OnLine
<1>2. ASSUME NEW u \in Users, NEW kind, SetDisabled(p, u, kind) PROVE \E r : Goto(p, r) /\ OnLine(r)
  <2>1. Begin(kind, u, "account").at = "account"
    BY DEF Begin, Idle
  <2> QED BY <1>2, <2>1 DEF SetDisabled, OnLine
<1>3. ASSUME NEW t \in Rows, NEW new \in Free, Refresh(p, t, new) PROVE \E r : Goto(p, r) /\ OnLine(r)
  <2> DEFINE r == [Begin("refresh", token[t].user, "rotate") EXCEPT
                      !.from = t, !.tok = t, !.new = new, !.older = Begun]
  <2>1. r.at = "rotate" /\ r.from = t /\ r.tok = t
    BY DEF Begin, Idle
  <2>2. Goto(p, r)
    BY <1>3 DEF Refresh
  <2> HIDE DEF r
  <2> QED BY <2>1, <2>2 DEF OnLine
<1>4. ASSUME NEW t \in Rows, RefreshAgain(p, t) \/ Logout(p, t) PROVE \E r : Goto(p, r) /\ OnLine(r)
  <2> SUFFICES ASSUME NEW kind,
                      Goto(p, [Begin(kind, token[t].user, "walk") EXCEPT !.from = t, !.tok = t])
               PROVE  \E r : Goto(p, r) /\ OnLine(r)
    BY <1>4 DEF RefreshAgain, Logout
  <2> DEFINE r == [Begin(kind, token[t].user, "walk") EXCEPT !.from = t, !.tok = t]
  <2>1. r.at = "walk" /\ r.from = t /\ r.tok = t
    BY DEF Begin, Idle
  <2> HIDE DEF r
  <2> QED BY <2>1 DEF OnLine, r
<1>5. ASSUME NEW u \in Users, NEW new \in Free, ChangePassword(p, u, new)
      PROVE  \E r : Goto(p, r) /\ OnLine(r)
  <2> DEFINE r == [Begin("change", u, "account") EXCEPT !.new = new, !.older = Begun]
  <2>1. r.at = "account"
    BY DEF Begin, Idle
  <2>2. Goto(p, r)
    BY <1>5 DEF ChangePassword
  <2> HIDE DEF r
  <2> QED BY <2>1, <2>2 DEF OnLine
<1>6. ASSUME NEW t \in Rows, NEW f \in Phones, NEW kind, PushToken(p, kind, t, f)
      PROVE  \E r : Goto(p, r) /\ OnLine(r)
  <2> DEFINE r == [Begin(kind, token[t].user, "share") EXCEPT !.from = t, !.tok = t, !.phone = f]
  <2>1. r.at = "share"
    BY DEF Begin, Idle
  <2>2. Goto(p, r)
    BY <1>6 DEF PushToken
  <2> HIDE DEF r
  <2> QED BY <2>1, <2>2 DEF OnLine
<1> QED BY <1>1, <1>2, <1>3, <1>4, <1>5, <1>6 DEF Arrival

\* RevokeByHash's read finds the end of the chain, and its path.
LEMMA WalkOnLine ==
    ASSUME IInv, NEW p \in Procs, OnLine(proc[p]), Walk(p)
    PROVE  \E r : Goto(p, r) /\ OnLine(r)
<1> DEFINE old == proc[p]
<1>1. old \in Request /\ old.at = "walk" /\ old.tok \in Rows /\ old.from = old.tok
  BY DEF IInv, TypeOK, Good, Sees, Walk, Runs, OnLine
<1>2. PICK chain \in Chains(old.tok), k \in 0 .. MaxReuseSteps :
          /\ chain[k] = chain[MaxReuseSteps]
          /\ \A j \in 0 .. k - 1 : chain[j] # chain[k]
          /\ Goto(p, [old EXCEPT !.at = "follow", !.tok = chain[k], !.steps = k])
  BY DEF Walk
<1> DEFINE r == [old EXCEPT !.at = "follow", !.tok = chain[k], !.steps = k]
<1>3. chain \in Paths /\ chain[0] = old.from
  BY <1>1 DEF Chains, Paths
<1>4. \A j \in 1 .. k : token[chain[j - 1]].next = chain[j]
  BY <1>1, <1>2, ChainIsAPath
<1>5. Goto(p, r)
  BY <1>2
<1> HIDE DEF old
<1>6. r.at = "follow" /\ r.from = old.from /\ r.tok = chain[k] /\ r.steps = k
  BY <1>1 DEF Request
<1> HIDE DEF r
<1>7. Path(chain, r)
  BY <1>3, <1>4, <1>6 DEF Path
<1> QED BY <1>3, <1>5, <1>6, <1>7 DEF OnLine

\* One step on: the path is one longer.
LEMMA FollowOnLine ==
    ASSUME IInv, NEW p \in Procs, OnLine(proc[p]), Follow(p)
    PROVE  \E r : Goto(p, r) /\ OnLine(r)
<1> DEFINE old == proc[p]
           n == old.steps
           next == token[old.tok].next
<1>1. old \in Request /\ old.at = "follow" /\ old.tok \in Rows
  BY DEF IInv, TypeOK, Good, Sees, Follow, Runs
<1>2. CASE Done(p)
  BY <1>2, IdleRequest DEF Done, OnLine
<1>3. CASE ~Done(p)
  <2>1. /\ next # None /\ n # MaxReuseSteps
        /\ Goto(p, [Holding(old, old.tok) EXCEPT !.tok = next, !.steps = @ + 1])
    BY <1>3 DEF Follow, MoreToFollow, LimitReached
  <2>2. next \in Rows
    BY <1>1, <2>1 DEF IInv, RowsAgree
  <2>3. PICK c \in Paths : Path(c, old)
    BY <1>1 DEF OnLine
  <2>4. n \in 0 .. MaxReuseSteps /\ n + 1 \in 0 .. MaxReuseSteps /\ n \in Nat /\ MaxReuseSteps \in Nat
    BY <1>1, <2>1, RowsAssumption DEF Request
  <2> DEFINE held == [old EXCEPT !.exc = old.exc \cup {old.tok}]
             r == [held EXCEPT !.tok = next, !.steps = n + 1]
             d == [c EXCEPT ![n + 1] = next]
  <2>5. Holding(old, old.tok) = held
    BY DEF Holding
  <2>6. d \in Paths /\ d[n + 1] = next /\ \A k \in 0 .. n : d[k] = c[k]
    BY <2>2, <2>4 DEF Paths
  <2> HIDE DEF old, next, d
  <2>7. held \in Request /\ held.steps = n /\ held.at = old.at /\ held.from = old.from
    BY <1>1, RowIsNotNone DEF Request
  <2>8. Goto(p, r)
    BY <2>1, <2>5, <2>7 DEF Request
  <2>9. r.at = "follow" /\ r.from = old.from /\ r.tok = next /\ r.steps = n + 1
    BY <1>1, <2>7 DEF Request
  <2> HIDE DEF r
  <2>10. \A k \in 1 .. n + 1 : token[d[k - 1]].next = d[k]
    <3> SUFFICES ASSUME NEW k \in 1 .. n + 1 PROVE token[d[k - 1]].next = d[k]
      OBVIOUS
    <3>1. CASE k = n + 1
      BY <2>3, <2>4, <2>6, <3>1 DEF Path, next
    <3>2. CASE k # n + 1
      <4>1. k \in 1 .. n /\ k \in 0 .. n /\ k - 1 \in 0 .. n
        BY <2>4, <3>2
      <4> QED BY <2>3, <2>6, <4>1 DEF Path
    <3> QED BY <3>1, <3>2
  <2>11. d[0] = old.from
    BY <2>3, <2>4, <2>6 DEF Path
  <2>12. Path(d, r)
    BY <2>6, <2>9, <2>10, <2>11 DEF Path
  <2> QED BY <2>6, <2>8, <2>9, <2>12 DEF OnLine
<1> QED BY <1>2, <1>3

LEMMA StepOnLine ==
    ASSUME IInv, NEW p \in Procs, OnLine(proc[p]), Step(p)
    PROVE  \E r : Goto(p, r) /\ OnLine(r)
<1> DEFINE old == proc[p]
<1>1. old \in Request /\ Shape(old)
  BY DEF IInv, TypeOK, Good
<1>2. ASSUME Done(p) PROVE \E r : Goto(p, r) /\ OnLine(r)
  BY <1>2, IdleRequest DEF Done, OnLine
<1>3. CASE (\E new \in Free : InsertToken(p, new)) \/ CommitRotate(p) \/ CommitAccount(p) \/ DecidePhone(p)
  BY <1>2, <1>3 DEF InsertToken, CommitRotate, CommitAccount, DecidePhone
<1>4. CASE Rotate(p)
  <2> DEFINE live == [Holding(old, old.tok) EXCEPT !.at = "move"]
             dead == [old EXCEPT !.at = "walk", !.new = None, !.older = {}]
  <2>1. old.at = "rotate" /\ old.from = old.tok /\ (Goto(p, live) \/ Goto(p, dead))
    BY <1>4 DEF Rotate, Runs, OnLine
  <2> HIDE DEF old
  <2>2. live.at = "move" /\ dead.at = "walk" /\ dead.from = old.from /\ dead.tok = old.tok
    BY <1>1 DEF Request, Holding
  <2> HIDE DEF live, dead
  <2> QED BY <2>1, <2>2 DEF OnLine
<1>5. CASE Account(p)
  <2> DEFINE r == [Holding(old, old.user) EXCEPT !.at = "first"]
  <2>1. Done(p) \/ Goto(p, r)
    BY <1>5 DEF Account
  <2> HIDE DEF old
  <2>2. r.at = "first"
    BY <1>1 DEF Request, Holding
  <2> HIDE DEF r
  <2> QED BY <1>2, <2>1, <2>2 DEF OnLine
<1>6. CASE Select(p)
  <2>1. PICK r \in Request :
            Goto(p, r) /\ (r.at = NextStatement[old.at] \/ r.at = old.at)
    BY <1>6, SelectIs
  <2>2. old.at \in {"first", "second", "push", "move"}
    BY <1>6, StatementsIn DEF Select
  <2> QED BY <2>1, <2>2, StatementsIn DEF OnLine
<1>7. CASE TakeRow(p)
  <2>1. PICK r \in Request :
            Goto(p, r) /\ (r.at = NextStatement[old.at] \/ r.at = old.at)
    BY <1>7, TakeRowIs
  <2>2. old.at \in {"first", "second", "push", "move"}
    BY <1>1, <1>7 DEF TakeRow, Shape
  <2> QED BY <2>1, <2>2, StatementsIn DEF OnLine
<1>8. CASE ShareToken(p)
  <2> DEFINE sh   == Sharing(old, old.tok)
             last == [sh EXCEPT !.at = "phone"]
             on   == [sh EXCEPT !.tok = token[old.tok].next]
  <2>1. old.at = "share" /\ (Goto(p, last) \/ Goto(p, on))
    BY <1>8 DEF ShareToken, Runs
  <2> HIDE DEF old
  <2>2. last.at = "phone" /\ on.at = old.at
    BY <1>1 DEF Request, Sharing
  <2> HIDE DEF last, on
  <2> QED BY <2>1, <2>2 DEF OnLine
<1>9. CASE HoldPhone(p)
  <2> DEFINE r == [Holding(old, old.phone) EXCEPT !.at = "bound"]
  <2>1. Done(p) \/ Goto(p, r)
    BY <1>9 DEF HoldPhone
  <2> HIDE DEF old
  <2>2. r.at = "bound"
    BY <1>1 DEF Request, Holding
  <2> HIDE DEF r
  <2> QED BY <1>2, <2>1, <2>2 DEF OnLine
<1> QED BY <1>3, <1>4, <1>5, <1>6, <1>7, <1>8, <1>9, WalkOnLine, FollowOnLine DEF Step

LEMMA LineKeeps == IInv /\ LineInv /\ [Next]_vars => LineInv'
<1> SUFFICES ASSUME IInv, LineInv, [Next]_vars PROVE LineInv'
  OBVIOUS
<1>1. OneLine'
  BY LineGrows DEF LineInv
<1>2. proc' \in [Procs -> Request]
  BY StepKeeps DEF IInv, TypeOK
<1>3. \A q \in Procs : OnLine(proc'[q])
  <2>1. CASE UNCHANGED vars
    BY <2>1 DEF vars, LineInv
  <2>2. ASSUME NEW p \in Procs, Arrival(p) \/ Step(p) PROVE \A q \in Procs : OnLine(proc'[q])
    <3>1. PICK r : Goto(p, r) /\ OnLine(r)
      BY <2>2, ArrivalOnLine, StepOnLine DEF LineInv
    <3>2. \A q \in Procs : proc'[q] = IF q = p THEN r ELSE proc[q]
      BY <3>1 DEF Goto, IInv, TypeOK
    <3> QED BY <3>1, <3>2 DEF LineInv
  <2> QED BY <2>1, <2>2 DEF Next
<1>4. \A r \in Request : OnLine(r) => OnLine(r)'
  BY PathStays DEF LineInv
<1>5. \A q \in Procs : OnLine(proc[q])'
  BY <1>2, <1>3, <1>4 DEF OnLine, Path, Paths
<1> QED BY <1>1, <1>5 DEF LineInv

LEMMA LineInit == Init => LineInv
<1> SUFFICES ASSUME Init PROVE LineInv
  OBVIOUS
<1>1. IInv
  BY InitHolds
<1>2. \A i \in Rows : token[i].next = None /\ token[i].session = i
  <2> SUFFICES ASSUME NEW i \in Rows PROVE token[i].next = None /\ token[i].session = i
    OBVIOUS
  <2>1. i \in Ids /\ i \in DOMAIN Owner
    BY DEF Rows, Init
  <2>2. token[i] = NewToken(Owner[i], i, {j \in DOMAIN Owner : j < i}, i)
    BY <2>1 DEF Init
  <2> QED BY <2>2 DEF NewToken
<1>3. \A p \in Procs : OnLine(proc[p])
  BY IdleRequest DEF Init, OnLine
<1> QED BY <1>2, <1>3 DEF LineInv, OneLine

\* The step that answers a request which follows its session is its Follow.
LEMMA AnsweredByFollow ==
    ASSUME IInv, LineInv, [Next]_vars, NEW p \in Procs,
           proc[p].at = "follow", proc'[p] = Idle
    PROVE  Follow(p)
<1>1. proc[p] # Idle /\ Shape(proc[p])
  BY IdleRequest DEF IInv, Good
<1>2. PICK q \in Procs : Arrival(q) \/ Step(q)
  BY <1>1 DEF Next, vars
<1>3. PICK r : Goto(q, r)
  BY <1>2, ArrivalOnLine, StepOnLine DEF LineInv
<1>4. q = p
  BY <1>1, <1>3 DEF Goto, IInv, TypeOK
<1>5. ~Arrival(p)
  BY <1>1 DEF Arrival, Arrives, Login, Refresh, RefreshAgain, Logout, ChangePassword,
              SetDisabled, PushToken
<1>6. ~(Select(p) \/ TakeRow(p))
  BY <1>1, StatementsIn DEF Select, TakeRow, Shape
<1> QED BY <1>2, <1>4, <1>5, <1>6
        DEF Step, Runs, InsertToken, Rotate, CommitRotate, Walk, Account, CommitAccount,
            ShareToken, HoldPhone, DecidePhone

LEMMA RevokeEnds ==
    ASSUME IInv, LineInv, [Next]_vars, NEW p \in Procs, NEW s \in Ids,
           proc[p].at = "follow", proc'[p] = Idle, s = token[proc[p].from].session,
           NEW chain \in Chains(proc[p].from), token[chain[MaxReuseSteps]].next = None
    PROVE  \A i \in Rows' : ~(token'[i].session = s /\ token'[i].live)
<1> DEFINE old == proc[p]
           t   == old.tok
<1>1. Follow(p) /\ old \in Request /\ t \in Rows
  BY AnsweredByFollow DEF IInv, TypeOK, Good, Sees
<1>2. PICK c \in Paths : Path(c, old)
  BY DEF LineInv, OnLine
<1>3. token[t].session = s
  BY <1>2, PathOfOneSession
<1>4. CASE ~MoreToFollow(p)
  <2>1. token' = [token EXCEPT ![t].live = FALSE] /\ token[t].next = None
    BY <1>1, <1>4 DEF Follow, MoreToFollow
  <2>2. /\ Rows' = Rows /\ ~token'[t].live
        /\ \A i \in Rows : /\ token'[i].session = token[i].session
                           /\ token'[i].live => token[i].live
    BY <1>1, <2>1, RevokeWrites
  <2>3. \A i \in Rows : token[i].session = s /\ token[i].live => i = t
    BY <1>1, <1>3, <2>1 DEF LineInv, OneLine, IInv, RowsAgree
  <2> QED BY <2>2, <2>3
<1>5. CASE MoreToFollow(p) /\ LimitReached(p)
  <2>1. chain[MaxReuseSteps] = t
    BY <1>2, <1>5, PathIsTheChain DEF LimitReached
  <2> QED BY <1>5, <2>1 DEF MoreToFollow
<1>6. CASE MoreToFollow(p) /\ ~LimitReached(p)
  <2> DEFINE next == token[t].next
             r == [Holding(old, t) EXCEPT !.tok = next, !.steps = @ + 1]
  <2>1. Goto(p, r)
    BY <1>1, <1>6 DEF Follow
  <2> HIDE DEF next
  <2>2. r.at = old.at
    BY <1>1 DEF Request, Holding
  <2> HIDE DEF r
  <2>3. proc'[p] = r
    BY <2>1 DEF Goto, IInv, TypeOK
  <2> QED BY <2>2, <2>3, IdleRequest
<1> QED BY <1>4, <1>5, <1>6

-----------------------------------------------------------------------------
(* The order in which rows are held (session_locks.go): the account, the   *)
(* tokens of a session from its first to its last, and the phones by id.   *)

\* The token i comes before j in their session.
Behind(rank, i, j) ==
    /\ i \in Rows /\ j \in Rows
    /\ token[i].session = token[j].session /\ rank[i] < rank[j]

\* A rank for each token: it grows along a session, to its end.
Ranks(rank) ==
    /\ \A i \in Rows : token[token[i].session].user = token[i].user
    /\ \A i \in Rows : token[i].next # None => rank[i] < rank[token[i].next]
    /\ \A i, j \in Rows :
           token[i].session = token[j].session /\ token[j].next = None => rank[i] =< rank[j]

\* What a request holds comes before what it will take.  A password change or a
\* disable takes its tokens by id, not along the sessions: that is in order
\* because the rows it selected were live, so each was the last of its session.
TokensInOrder(rank, r) ==
    /\ r.at \in {"idle", "insert", "rotate", "walk", "account"} => r.exc = {} /\ r.shr = {}
    /\ r.at = "follow" => r.shr = {} /\ \A i \in r.exc : Behind(rank, i, r.tok)
    /\ r.at = "share" => r.exc = {} /\ \A i \in r.shr : Behind(rank, i, r.tok)
    /\ r.at = "phone" => r.exc = {}
    /\ r.at \in {"first", "second", "push"} =>
           /\ r.user \in r.exc
           /\ \A i \in r.exc \cap Ids : i \in Rows /\ token[i].user = r.user
           /\ \A j \in r.todo \cap Ids : j \in Rows /\ token[j].user = r.user
           /\ \A i \in r.exc \cap Ids, j \in r.todo \cap Ids :
                  token[i].session = token[j].session => rank[i] =< rank[j]
           /\ \A i, j \in r.todo \cap Ids : token[i].session = token[j].session => i = j

PhonesInOrder(r) ==
    /\ r.at \in {"first", "second", "push", "move"} => r.shr = {}
    /\ r.at \in {"first", "second"} => r.exc \cap Phones = {}
    /\ r.at \in {"push", "move"} /\ ~r.taking => r.exc \cap Phones = {}
    /\ \A f \in r.exc \cap Phones, g \in r.todo \cap Phones : f < g

InOrder(rank, r) == TokensInOrder(rank, r) /\ PhonesInOrder(r)

OrderInv ==
    /\ LineInv
    /\ \E rank \in [Ids -> Nat] : Ranks(rank) /\ \A p \in Procs : InOrder(rank, proc[p])

\* Of finitely many requests one is the furthest.
LEMMA Furthest ==
    ASSUME NEW S \in SUBSET Procs, S # {}, NEW f \in [S -> Int]
    PROVE  \E p \in S : \A q \in S : f[q] =< f[p]
<1> DEFINE Past(p) == {q \in S : f[p] < f[q]}
           C == {Cardinality(Past(p)) : p \in S}
<1>1. IsFiniteSet(S)
  BY ProcsAssumption, FS_Subset
<1>2. \A p \in S : IsFiniteSet(Past(p)) /\ Cardinality(Past(p)) \in Nat
  BY <1>1, FS_Subset, FS_CardinalityType
<1>3. C \in SUBSET Nat /\ C # {}
  BY <1>2
<1> HIDE DEF C
<1>4. PICK c \in C : \A d \in C : c =< d
  BY <1>3, LeastOf
<1>5. PICK p \in S : c = Cardinality(Past(p))
  BY DEF C
<1>6. ASSUME NEW q \in S, ~(f[q] =< f[p]) PROVE FALSE
  <2>1. f[p] < f[q] /\ f[p] \in Int /\ f[q] \in Int
    BY <1>6
  <2>2. \A x \in Past(q) : x \in Past(p)
    BY <2>1
  <2>3. q \in Past(p) /\ q \notin Past(q)
    BY <2>1
  <2>4. Past(q) \in SUBSET Past(p) /\ Past(q) # Past(p)
    BY <2>2, <2>3
  <2>5. Cardinality(Past(q)) \in C
    BY DEF C
  <2> HIDE DEF Past
  <2>6. Cardinality(Past(q)) =< Cardinality(Past(p)) /\ Cardinality(Past(q)) # Cardinality(Past(p))
    BY <1>2, <2>4, FS_Subset
  <2> QED BY <1>2, <1>4, <1>5, <2>5, <2>6
<1> QED BY <1>6

\* The first of the rows of a statement comes before the others.
LEMMA LeastRow ==
    ASSUME NEW S \in SUBSET (Ids \cup Phones), S # {}
    PROVE  Min(S) \in S /\ \A j \in S \ {Min(S)} : Min(S) < j
<1>1. \E i \in S : \A j \in S : i =< j
  BY FirstRowAssumption
<1>2. Min(S) \in S /\ \A j \in S : Min(S) =< j
  BY <1>1 DEF Min
<1>3. \A j \in S : j \in Int
  BY RowsAssumption
<1> QED BY <1>2, <1>3

-----------------------------------------------------------------------------

\* A token never changes hands.
LEMMA UsersStay ==
    ASSUME IInv, [Next]_vars
    PROVE  \A i \in Rows : token'[i].user = token[i].user
<1>1. CASE UNCHANGED token
  BY <1>1
<1>2. ASSUME NEW p \in Procs, NEW new \in Free, InsertToken(p, new)
      PROVE  \A i \in Rows : token'[i].user = token[i].user
  BY <1>2, InsertTokenWrites
<1>3. ASSUME NEW p \in Procs, CommitRotate(p)
      PROVE  \A i \in Rows : token'[i].user = token[i].user
  <2> DEFINE t == proc[p].tok
  <2>1. token'[t].user = token[t].user /\ \A i \in Rows : i # t => token'[i] = token[i]
    BY <1>3, CommitRotateWrites
  <2> QED BY <2>1
<1>4. ASSUME NEW p \in Procs, CommitAccount(p)
      PROVE  \A i \in Rows : token'[i].user = token[i].user
  BY <1>4, CommitAccountWrites
<1>5. ASSUME NEW p \in Procs, Follow(p), ~MoreToFollow(p)
      PROVE  \A i \in Rows : token'[i].user = token[i].user
  <2>1. proc[p].tok \in Rows /\ token' = [token EXCEPT ![proc[p].tok].live = FALSE]
    BY <1>5 DEF Follow, Runs, IInv, Good, Sees
  <2> QED BY <2>1, RevokeWrites
<1> QED BY <1>1, <1>2, <1>3, <1>4, <1>5, TokensStay

\* The ranks grow with the sessions.
LEMMA RanksGrow ==
    ASSUME IInv, OneLine, [Next]_vars, NEW rank \in [Ids -> Nat], Ranks(rank)
    PROVE  \E new \in [Ids -> Nat] : Ranks(new)' /\ \A i \in Rows : new[i] = rank[i]
<1>0. /\ \A i \in Rows : i \in Ids /\ i # None /\ token[i].session \in Rows
      /\ \A i \in Rows : token[i].next # None => token[i].next \in Rows
      /\ \A i \in Rows : token[token[i].session].user = token[i].user
  BY RowIsNotNone DEF IInv, RowsAgree, Ranks
<1>1. RowsAgree' /\ OneLine' /\ Rows \subseteq Rows'
  BY StepKeeps, LineGrows DEF IInv
<1>2. \A i \in Rows : token'[i].user = token[i].user
  BY UsersStay
<1>3. CASE /\ \A i \in Rows : token'[i].next = token[i].next /\ token'[i].session = token[i].session
           /\ \A i \in Rows' \ Rows : token'[i].next = None /\ token'[i].session = i
  <2>1. \A i \in Rows' : token'[token'[i].session].user = token'[i].user
    BY <1>0, <1>2, <1>3
  <2>2. \A i \in Rows' : token'[i].next # None => rank[i] < rank[token'[i].next]
    BY <1>3 DEF Ranks
  <2>3. ASSUME NEW i \in Rows', NEW j \in Rows',
               token'[i].session = token'[j].session, token'[j].next = None
        PROVE  rank[i] =< rank[j]
    <3>1. CASE i \in Rows /\ j \in Rows
      BY <1>3, <2>3, <3>1 DEF Ranks
    <3>2. CASE ~(i \in Rows /\ j \in Rows)
      <4>1. i = j
        BY <1>0, <1>3, <2>3, <3>2
      <4>2. j \in Ids
        BY DEF Rows
      <4>3. rank[j] \in Nat
        BY <4>2
      <4> QED BY <4>1, <4>3
    <3> QED BY <3>1, <3>2
  <2> QED BY <2>1, <2>2, <2>3 DEF Ranks
<1>4. ASSUME NEW t \in Rows, NEW n \in Ids,
             token[t].next = None, n # None, n \notin Rows, Rows' = Rows \cup {n},
             token'[n].next = None, token'[n].session = token[t].session,
             token'[t].next = n, token'[t].session = token[t].session,
             \A i \in Rows : i # t => token'[i] = token[i]
      PROVE  \E new \in [Ids -> Nat] : Ranks(new)' /\ \A i \in Rows : new[i] = rank[i]
  <2> DEFINE new == [rank EXCEPT ![n] = rank[t] + 1]
  <2>1. /\ new \in [Ids -> Nat] /\ new[n] = rank[t] + 1 /\ \A i \in Rows : new[i] = rank[i]
        /\ \A i \in Rows : rank[i] \in Nat
    BY <1>0, <1>4
  <2> HIDE DEF new
  <2>2. \A i \in Rows : token'[i].session = token[i].session
    BY <1>4
  <2>3. \A i \in Rows' : token'[token'[i].session].user = token'[i].user
    <3>1. token'[n].user = token'[t].user
      BY <1>1, <1>4 DEF RowsAgree
    <3> QED BY <1>0, <1>2, <1>4, <2>2, <3>1
  <2>4. ASSUME NEW i \in Rows', token'[i].next # None PROVE new[i] < new[token'[i].next]
    <3>1. CASE i = t
      BY <1>4, <2>1, <3>1
    <3>2. CASE i # t
      <4>1. i \in Rows /\ token'[i] = token[i]
        BY <1>4, <2>4, <3>2
      <4>2. token[i].next \in Rows /\ rank[i] < rank[token[i].next]
        BY <1>0, <2>4, <4>1 DEF Ranks
      <4> QED BY <2>1, <4>1, <4>2
    <3> QED BY <3>1, <3>2
  <2>5. \A i \in Rows : token[i].session = token[t].session => rank[i] =< rank[t]
    BY <1>4 DEF Ranks
  <2>6. ASSUME NEW i \in Rows', NEW j \in Rows',
               token'[i].session = token'[j].session, token'[j].next = None
        PROVE  new[i] =< new[j]
    <3>1. j # t
      BY <1>4, <2>6
    <3>2. CASE j = n
      <4>1. i = n \/ (i \in Rows /\ token[i].session = token[t].session)
        BY <1>4, <2>2, <2>6, <3>2
      <4>2. CASE i = n
        BY <2>1, <3>2, <4>2, <1>0, <1>4
      <4>3. CASE i \in Rows /\ token[i].session = token[t].session
        BY <2>1, <2>5, <3>2, <4>3, <1>4
      <4> QED BY <4>1, <4>2, <4>3
    <3>3. CASE j # n
      <4>1. j \in Rows /\ token'[j] = token[j] /\ token[j].next = None
        BY <1>4, <2>6, <3>1, <3>3
      <4>2. token[j].session # token[t].session
        BY <1>4, <3>1, <4>1 DEF OneLine
      <4>3. i \in Rows /\ token[i].session = token[j].session
        BY <1>4, <2>2, <2>6, <4>1, <4>2
      <4>4. rank[i] =< rank[j]
        BY <4>1, <4>3 DEF Ranks
      <4> QED BY <2>1, <4>1, <4>3, <4>4
    <3> QED BY <3>2, <3>3
  <2>7. Ranks(new)'
    BY <2>3, <2>4, <2>6 DEF Ranks
  <2> QED BY <2>1, <2>7
<1> QED BY <1>3, <1>4, RowsGrow

\* A request that waits stays in order, whatever the others write.
LEMMA OrderStays ==
    ASSUME IInv, OneLine, [Next]_vars, NEW rank \in [Ids -> Nat], NEW new \in [Ids -> Nat],
           \A i \in Rows : new[i] = rank[i],
           NEW r \in Request, InOrder(rank, r)
    PROVE  InOrder(new, r)'
<1>1. /\ \A i \in Rows : token'[i].user = token[i].user
      /\ \A i \in Rows : token'[i].session = token[i].session
      /\ Rows \subseteq Rows'
  BY UsersStay, LineGrows, RowsGrow
<1>2. \A i, j : Behind(rank, i, j) => Behind(new, i, j)'
  BY <1>1 DEF Behind
<1>3. TokensInOrder(rank, r) => TokensInOrder(new, r)'
  BY <1>1, <1>2 DEF TokensInOrder
<1>4. PhonesInOrder(r)'
  BY DEF InOrder, PhonesInOrder
<1> QED BY <1>3, <1>4 DEF InOrder

\* A request that holds and takes nothing.
LEMMA EmptyHanded ==
    ASSUME NEW rank, NEW r, r.exc = {}, r.shr = {},
           r.at \in {"idle", "insert", "rotate", "walk", "follow", "account", "share"}
    PROVE  InOrder(rank, r)
BY DEF InOrder, TokensInOrder, PhonesInOrder

LEMMA ArrivalInOrder ==
    ASSUME IInv, NEW rank, NEW p \in Procs, Arrival(p)
    PROVE  \E r : Goto(p, r) /\ InOrder(rank, r)
<1>1. ASSUME NEW b, NEW kind, NEW u,
             NEW at \in {"insert", "rotate", "walk", "account", "share"},
             b = Begin(kind, u, at)
      PROVE  b.at = at /\ b.exc = {} /\ b.shr = {}
  BY <1>1 DEF Begin, Idle
<1>2. ASSUME NEW u \in Users, Login(p, u) PROVE \E r : Goto(p, r) /\ InOrder(rank, r)
  BY <1>1, <1>2, EmptyHanded DEF Login
<1>3. ASSUME NEW u \in Users, NEW kind, SetDisabled(p, u, kind)
      PROVE  \E r : Goto(p, r) /\ InOrder(rank, r)
  BY <1>1, <1>3, EmptyHanded DEF SetDisabled
<1>4. ASSUME NEW t \in Rows, NEW new \in Free, Refresh(p, t, new)
      PROVE  \E r : Goto(p, r) /\ InOrder(rank, r)
  <2> DEFINE r == [Begin("refresh", token[t].user, "rotate") EXCEPT
                      !.from = t, !.tok = t, !.new = new, !.older = Begun]
  <2>1. r.at = "rotate" /\ r.exc = {} /\ r.shr = {}
    BY DEF Begin, Idle
  <2>2. Goto(p, r)
    BY <1>4 DEF Refresh
  <2> HIDE DEF r
  <2> QED BY <2>1, <2>2, EmptyHanded
<1>5. ASSUME NEW t \in Rows, RefreshAgain(p, t) \/ Logout(p, t)
      PROVE  \E r : Goto(p, r) /\ InOrder(rank, r)
  <2> SUFFICES ASSUME NEW kind,
                      Goto(p, [Begin(kind, token[t].user, "walk") EXCEPT !.from = t, !.tok = t])
               PROVE  \E r : Goto(p, r) /\ InOrder(rank, r)
    BY <1>5 DEF RefreshAgain, Logout
  <2> DEFINE r == [Begin(kind, token[t].user, "walk") EXCEPT !.from = t, !.tok = t]
  <2>1. r.at = "walk" /\ r.exc = {} /\ r.shr = {}
    BY DEF Begin, Idle
  <2>2. Goto(p, r)
    OBVIOUS
  <2> HIDE DEF r
  <2> QED BY <2>1, <2>2, EmptyHanded
<1>6. ASSUME NEW u \in Users, NEW new \in Free, ChangePassword(p, u, new)
      PROVE  \E r : Goto(p, r) /\ InOrder(rank, r)
  <2> DEFINE r == [Begin("change", u, "account") EXCEPT !.new = new, !.older = Begun]
  <2>1. r.at = "account" /\ r.exc = {} /\ r.shr = {}
    BY DEF Begin, Idle
  <2>2. Goto(p, r)
    BY <1>6 DEF ChangePassword
  <2> HIDE DEF r
  <2> QED BY <2>1, <2>2, EmptyHanded
<1>7. ASSUME NEW t \in Rows, NEW f \in Phones, NEW kind, PushToken(p, kind, t, f)
      PROVE  \E r : Goto(p, r) /\ InOrder(rank, r)
  <2> DEFINE r == [Begin(kind, token[t].user, "share") EXCEPT !.from = t, !.tok = t, !.phone = f]
  <2>1. r.at = "share" /\ r.exc = {} /\ r.shr = {}
    BY DEF Begin, Idle
  <2>2. Goto(p, r)
    BY <1>7 DEF PushToken
  <2> HIDE DEF r
  <2> QED BY <2>1, <2>2, EmptyHanded
<1> QED BY <1>2, <1>3, <1>4, <1>5, <1>6, <1>7 DEF Arrival

\* The token after the one that is held.
LEMMA NextIsAhead ==
    ASSUME IInv, OneLine, NEW rank \in [Ids -> Nat], Ranks(rank),
           NEW t \in Rows, token[t].next # None
    PROVE  /\ Behind(rank, t, token[t].next)
           /\ \A i : Behind(rank, i, t) => Behind(rank, i, token[t].next)
<1>1. token[t].next \in Rows /\ token[token[t].next].session = token[t].session
      /\ rank[t] < rank[token[t].next]
  BY DEF IInv, RowsAgree, OneLine, Ranks
<1>2. \A i \in Rows : rank[i] \in Int
  BY RowIsNotNone
<1> QED BY <1>1, <1>2 DEF Behind

LEMMA DoneInOrder ==
    ASSUME NEW rank, NEW p \in Procs, Done(p)
    PROVE  \E r : Goto(p, r) /\ InOrder(rank, r)
BY IdleRequest, EmptyHanded DEF Done

LEMMA RotateInOrder ==
    ASSUME IInv, NEW rank, NEW p \in Procs, InOrder(rank, proc[p]), Rotate(p)
    PROVE  \E r : Goto(p, r) /\ InOrder(rank, r)
<1> DEFINE old  == proc[p]
           live == [old EXCEPT !.exc = old.exc \cup {old.tok}, !.at = "move"]
           dead == [old EXCEPT !.at = "walk", !.new = None, !.older = {}]
<1>1. old \in Request /\ old.at = "rotate" /\ old.tok \in Ids /\ old.todo = {}
  BY DEF IInv, TypeOK, Good, Shape, Sees, Rows, Rotate, Runs
<1>2. old.exc = {} /\ old.shr = {}
  BY <1>1 DEF InOrder, TokensInOrder
<1>3. Goto(p, live) \/ Goto(p, dead)
  BY DEF Rotate, Holding
<1> HIDE DEF old
<1>4. /\ live.at = "move" /\ live.exc = {old.tok} /\ live.shr = {} /\ live.todo = {}
      /\ dead.at = "walk" /\ dead.exc = {} /\ dead.shr = {}
  BY <1>1, <1>2 DEF Request
<1> HIDE DEF live, dead
<1>5. old.tok \notin Phones
  BY <1>1, RowsAssumption
<1>6. InOrder(rank, live)
  BY <1>4, <1>5 DEF InOrder, TokensInOrder, PhonesInOrder
<1> QED BY <1>3, <1>4, <1>6, EmptyHanded

LEMMA WalkInOrder ==
    ASSUME IInv, NEW rank, NEW p \in Procs, InOrder(rank, proc[p]), Walk(p)
    PROVE  \E r : Goto(p, r) /\ InOrder(rank, r)
<1> DEFINE old == proc[p]
<1>1. old \in Request /\ old.at = "walk"
  BY DEF IInv, TypeOK, Walk, Runs
<1>2. old.exc = {} /\ old.shr = {}
  BY <1>1 DEF InOrder, TokensInOrder
<1>3. PICK t, k : Goto(p, [old EXCEPT !.at = "follow", !.tok = t, !.steps = k])
  BY DEF Walk
<1> DEFINE r == [old EXCEPT !.at = "follow", !.tok = t, !.steps = k]
<1>4. Goto(p, r)
  BY <1>3
<1> HIDE DEF old
<1>5. r.at = "follow" /\ r.exc = {} /\ r.shr = {}
  BY <1>1, <1>2 DEF Request
<1> HIDE DEF r
<1> QED BY <1>4, <1>5, EmptyHanded

LEMMA FollowInOrder ==
    ASSUME IInv, OneLine, NEW rank \in [Ids -> Nat], Ranks(rank),
           NEW p \in Procs, InOrder(rank, proc[p]), Follow(p)
    PROVE  \E r : Goto(p, r) /\ InOrder(rank, r)
<1> DEFINE old == proc[p]
           next == token[old.tok].next
           held == [old EXCEPT !.exc = old.exc \cup {old.tok}]
           r == [held EXCEPT !.tok = next, !.steps = held.steps + 1]
<1>1. /\ old \in Request /\ old.at = "follow" /\ old.tok \in Rows /\ old.tok \in Ids
      /\ old.todo = {}
  BY RowIsNotNone DEF IInv, TypeOK, Good, Shape, Sees, Follow, Runs
<1>2. CASE Done(p)
  BY <1>2, DoneInOrder
<1>3. CASE ~Done(p)
  <2>1. next # None /\ Goto(p, r)
    BY <1>3 DEF Follow, MoreToFollow, Holding
  <2>2. Behind(rank, old.tok, next) /\ \A i : Behind(rank, i, old.tok) => Behind(rank, i, next)
    BY <1>1, <2>1, NextIsAhead
  <2>3. old.shr = {} /\ \A i \in old.exc : Behind(rank, i, old.tok)
    BY <1>1 DEF InOrder, TokensInOrder
  <2> HIDE DEF old, next
  <2>4. /\ r.at = "follow" /\ r.exc = old.exc \cup {old.tok} /\ r.shr = {} /\ r.tok = next
        /\ r.todo = {}
    BY <1>1, <2>3 DEF Request
  <2> HIDE DEF r
  <2>5. InOrder(rank, r)
    BY <2>2, <2>3, <2>4 DEF InOrder, TokensInOrder, PhonesInOrder
  <2> QED BY <2>1, <2>5
<1> QED BY <1>2, <1>3

LEMMA ShareInOrder ==
    ASSUME IInv, OneLine, NEW rank \in [Ids -> Nat], Ranks(rank),
           NEW p \in Procs, InOrder(rank, proc[p]), ShareToken(p)
    PROVE  \E r : Goto(p, r) /\ InOrder(rank, r)
<1> DEFINE old == proc[p]
           next == token[old.tok].next
           held == [old EXCEPT !.shr = old.shr \cup {old.tok}]
           last == [held EXCEPT !.at = "phone"]
           on   == [held EXCEPT !.tok = next]
<1>1. /\ old \in Request /\ old.at = "share" /\ old.tok \in Rows /\ old.tok \in Ids
      /\ old.todo = {}
  BY RowIsNotNone DEF IInv, TypeOK, Good, Shape, Sees, ShareToken, Runs
<1>2. IF next = None THEN Goto(p, last) ELSE Goto(p, on)
  BY DEF ShareToken, Sharing
<1>3. old.exc = {} /\ \A i \in old.shr : Behind(rank, i, old.tok)
  BY <1>1 DEF InOrder, TokensInOrder
<1>4. next # None =>
          Behind(rank, old.tok, next) /\ \A i : Behind(rank, i, old.tok) => Behind(rank, i, next)
  BY <1>1, NextIsAhead
<1> HIDE DEF old, next
<1>5. /\ last.at = "phone" /\ last.exc = {} /\ last.todo = {}
      /\ on.at = "share" /\ on.exc = {} /\ on.shr = old.shr \cup {old.tok} /\ on.tok = next
      /\ on.todo = {}
  BY <1>1, <1>3 DEF Request
<1> HIDE DEF last, on
<1>6. InOrder(rank, last)
  BY <1>5 DEF InOrder, TokensInOrder, PhonesInOrder
<1>7. next # None => InOrder(rank, on)
  BY <1>3, <1>4, <1>5 DEF InOrder, TokensInOrder, PhonesInOrder
<1> QED BY <1>2, <1>6, <1>7

LEMMA HoldPhoneInOrder ==
    ASSUME IInv, NEW rank, NEW p \in Procs, HoldPhone(p)
    PROVE  \E r : Goto(p, r) /\ InOrder(rank, r)
<1> DEFINE old == proc[p]
           r == [old EXCEPT !.exc = old.exc \cup {old.phone}, !.at = "bound"]
<1>1. old \in Request /\ old.at = "phone" /\ old.todo = {}
  BY DEF IInv, TypeOK, Good, Shape, HoldPhone, Runs
<1>2. Done(p) \/ Goto(p, r)
  BY DEF HoldPhone, Holding
<1> HIDE DEF old
<1>3. r.at = "bound" /\ r.todo = {}
  BY <1>1 DEF Request
<1> HIDE DEF r
<1>4. InOrder(rank, r)
  BY <1>3 DEF InOrder, TokensInOrder, PhonesInOrder
<1> QED BY <1>2, <1>4, DoneInOrder

LEMMA AccountInOrder ==
    ASSUME IInv, NEW rank, NEW p \in Procs, InOrder(rank, proc[p]), Account(p)
    PROVE  \E r : Goto(p, r) /\ InOrder(rank, r)
<1> DEFINE old == proc[p]
           r == [old EXCEPT !.exc = old.exc \cup {old.user}, !.at = "first"]
<1>1. old \in Request /\ old.at = "account" /\ old.todo = {} /\ old.user \in Users
  BY DEF IInv, TypeOK, Good, Shape, Account, Runs
<1>2. Done(p) \/ Goto(p, r)
  BY DEF Account, Holding
<1>3. old.exc = {} /\ old.shr = {}
  BY <1>1 DEF InOrder, TokensInOrder
<1> HIDE DEF old
<1>4. /\ r.at = "first" /\ r.exc = {old.user} /\ r.shr = {} /\ r.todo = {}
      /\ r.user = old.user
  BY <1>1, <1>3 DEF Request
<1> HIDE DEF r
<1>5. r.exc \cap Ids = {} /\ r.exc \cap Phones = {}
  BY <1>1, <1>4, RowsAssumption
<1>6. InOrder(rank, r)
  BY <1>4, <1>5 DEF InOrder, TokensInOrder, PhonesInOrder
<1> QED BY <1>2, <1>6, DoneInOrder

\* The live tokens a statement selects are each the last of its session.
LEMMA SelectInOrder ==
    ASSUME IInv, NEW rank \in [Ids -> Nat], Ranks(rank),
           NEW p \in Procs, InOrder(rank, proc[p]), Select(p)
    PROVE  \E r : Goto(p, r) /\ InOrder(rank, r)
<1> DEFINE old == proc[p]
           rows == Selected(p)
<1>1. /\ old \in Request /\ ~old.taking /\ old.at \in {"first", "second", "push", "move"}
      /\ old.todo = {}
  BY StatementsIn DEF IInv, TypeOK, Good, Shape, Select, Runs
<1>2. PICK r \in Request :
          /\ Goto(p, r) /\ SameBut(r, old) /\ r.exc = old.exc
          /\ IF rows = {} THEN r.at = NextStatement[old.at] /\ ~r.taking /\ r.todo = {}
                          ELSE r.at = old.at /\ r.taking /\ r.todo = rows
  BY SelectIs
<1>3. old.shr = {} /\ r.shr = {} /\ old.exc \cap Phones = {} /\ r.user = old.user
  BY <1>1, <1>2 DEF InOrder, PhonesInOrder, SameBut
<1>4. CASE old.at = "move"
  <2>1. r.at \in {"move", "commit"}
    BY <1>2, <1>4, StatementsIn
  <2> QED BY <1>2, <1>3, <2>1 DEF InOrder, TokensInOrder, PhonesInOrder
<1>5. CASE old.at = "push"
  <2>1. r.at \in {"push", "commit"} /\ r.todo \cap Ids = {}
    BY <1>2, <1>5, StatementsIn, SelectedIs, RowsAssumption
  <2> QED BY <1>2, <1>3, <1>5, <2>1 DEF InOrder, TokensInOrder, PhonesInOrder
<1>6. CASE old.at \in {"first", "second"}
  <2>1. \A i \in rows : i \in Ids /\ i \in Rows /\ token[i].user = old.user /\ token[i].live
    BY <1>6, SelectedIs
  <2>2. \A i \in rows : token[i].next = None
    BY <2>1 DEF IInv, RowsAgree
  <2>3. \A i, j \in rows : token[i].session = token[j].session => i = j
    BY <2>1 DEF IInv, SessionHasOneLiveToken
  <2>4. \A i \in old.exc \cap Ids : i \in Rows /\ token[i].user = old.user
    BY <1>6 DEF InOrder, TokensInOrder
  <2>5. \A i \in old.exc \cap Ids, j \in rows :
            token[i].session = token[j].session => rank[i] =< rank[j]
    BY <2>1, <2>2, <2>4 DEF Ranks
  <2>6. r.at \in {"first", "second", "push"} /\ (r.todo = {} \/ r.todo = rows)
        /\ (r.at = "push" => ~r.taking)
    BY <1>2, <1>6, StatementsIn
  <2>7. old.user \in r.exc
    BY <1>2, <1>6 DEF InOrder, TokensInOrder
  <2>8. TokensInOrder(rank, r)
    BY <1>2, <1>3, <2>1, <2>3, <2>4, <2>5, <2>6, <2>7 DEF TokensInOrder
  <2>9. PhonesInOrder(r)
    BY <1>2, <1>3 DEF PhonesInOrder
  <2> QED BY <1>2, <2>8, <2>9 DEF InOrder
<1> QED BY <1>1, <1>4, <1>5, <1>6

\* Rows are taken from the lowest id up.
LEMMA TakeRowInOrder ==
    ASSUME IInv, NEW rank \in [Ids -> Nat], Ranks(rank),
           NEW p \in Procs, InOrder(rank, proc[p]), TakeRow(p)
    PROVE  \E r : Goto(p, r) /\ InOrder(rank, r)
<1> DEFINE old == proc[p]
<1>1. /\ old \in Request /\ old.taking /\ old.at \in {"first", "second", "push", "move"}
      /\ old.at \in {"first", "second"} => old.todo \subseteq Ids
      /\ old.at \in {"push", "move"} => old.todo \subseteq Phones
  BY DEF IInv, TypeOK, Good, Shape, TakeRow
<1>2. PICK r \in Request, i \in old.todo :
          /\ Goto(p, r) /\ SameBut(r, old) /\ i = Wants(p)
          /\ r.exc = old.exc \cup {i} /\ r.todo = old.todo \ {i}
          /\ IF r.todo = {} THEN r.at = NextStatement[old.at] /\ ~r.taking
                            ELSE r.at = old.at /\ r.taking
  BY TakeRowIs
<1>3. \A j \in old.todo \ {i} : i < j
  <2>1. i = Min(old.todo) /\ old.todo \in SUBSET (Ids \cup Phones)
    BY <1>1, <1>2 DEF Wants, Request
  <2> QED BY <2>1, LeastRow
<1>4. old.shr = {} /\ r.shr = {} /\ r.user = old.user
  BY <1>1, <1>2 DEF InOrder, PhonesInOrder, SameBut
<1>5. \A f \in old.exc \cap Phones, g \in old.todo \cap Phones : f < g
  BY DEF InOrder, PhonesInOrder
<1>6. \A f \in r.exc \cap Phones, g \in r.todo \cap Phones : f < g
  BY <1>2, <1>3, <1>5
<1>7. CASE old.at = "move"
  <2>1. r.at = "commit" \/ (r.at = "move" /\ r.taking)
    BY <1>2, <1>7, StatementsIn
  <2> QED BY <1>2, <1>4, <1>6, <2>1 DEF InOrder, TokensInOrder, PhonesInOrder
<1>8. CASE old.at = "push"
  <2>1. r.at = "commit" \/ (r.at = "push" /\ r.taking)
    BY <1>2, <1>8, StatementsIn
  <2>2. r.todo \cap Ids = {} /\ i \notin Ids
    BY <1>1, <1>2, <1>8, RowsAssumption
  <2>3. old.user \in old.exc /\ \A k \in old.exc \cap Ids : k \in Rows /\ token[k].user = old.user
    BY <1>8 DEF InOrder, TokensInOrder
  <2>4. TokensInOrder(rank, r)
    BY <1>2, <1>4, <2>1, <2>2, <2>3 DEF TokensInOrder
  <2>5. PhonesInOrder(r)
    BY <1>4, <1>6, <2>1 DEF PhonesInOrder
  <2> QED BY <1>2, <2>4, <2>5 DEF InOrder
<1>9. CASE old.at \in {"first", "second"}
  <2>1. /\ old.user \in old.exc
        /\ \A k \in old.exc \cap Ids : k \in Rows /\ token[k].user = old.user
        /\ \A j \in old.todo \cap Ids : j \in Rows /\ token[j].user = old.user
        /\ \A k \in old.exc \cap Ids, j \in old.todo \cap Ids :
               token[k].session = token[j].session => rank[k] =< rank[j]
        /\ \A k, j \in old.todo \cap Ids : token[k].session = token[j].session => k = j
    BY <1>9 DEF InOrder, TokensInOrder
  <2>2. i \in Ids /\ i \notin Phones /\ i \in Rows /\ token[i].user = old.user
    BY <1>1, <1>2, <1>9, <2>1, RowsAssumption
  <2>3. \A j \in r.todo \cap Ids : token[i].session # token[j].session
    BY <1>2, <2>1, <2>2
  <2>4. r.at \in {"first", "second", "push"} /\ (r.at = "push" => ~r.taking)
    BY <1>2, <1>9, StatementsIn
  <2>5. TokensInOrder(rank, r)
    BY <1>2, <1>4, <2>1, <2>2, <2>3, <2>4 DEF TokensInOrder
  <2>6. r.exc \cap Phones = {}
    BY <1>2, <1>9, <2>2 DEF InOrder, PhonesInOrder
  <2>7. PhonesInOrder(r)
    BY <1>4, <2>6 DEF PhonesInOrder
  <2> QED BY <1>2, <2>5, <2>7 DEF InOrder
<1> QED BY <1>1, <1>7, <1>8, <1>9

LEMMA StepInOrder ==
    ASSUME IInv, OneLine, NEW rank \in [Ids -> Nat], Ranks(rank),
           NEW p \in Procs, InOrder(rank, proc[p]), Step(p)
    PROVE  \E r : Goto(p, r) /\ InOrder(rank, r)
<1>1. CASE (\E new \in Free : InsertToken(p, new)) \/ CommitRotate(p) \/ CommitAccount(p) \/ DecidePhone(p)
  <2>1. Done(p)
    BY <1>1 DEF InsertToken, CommitRotate, CommitAccount, DecidePhone
  <2> QED BY <2>1, DoneInOrder
<1>2. CASE Rotate(p) \/ Walk(p) \/ Follow(p)
  BY <1>2, RotateInOrder, WalkInOrder, FollowInOrder
<1>3. CASE Account(p) \/ Select(p) \/ TakeRow(p)
  BY <1>3, AccountInOrder, SelectInOrder, TakeRowInOrder
<1>4. CASE ShareToken(p) \/ HoldPhone(p)
  BY <1>4, ShareInOrder, HoldPhoneInOrder
<1> QED BY <1>1, <1>2, <1>3, <1>4 DEF Step

LEMMA OrderKeeps == IInv /\ OrderInv /\ [Next]_vars => OrderInv'
<1> SUFFICES ASSUME IInv, OrderInv, [Next]_vars PROVE OrderInv'
  OBVIOUS
<1>1. LineInv' /\ OneLine
  BY LineKeeps DEF OrderInv, LineInv
<1>2. PICK rank \in [Ids -> Nat] : Ranks(rank) /\ \A p \in Procs : InOrder(rank, proc[p])
  BY DEF OrderInv
<1>3. PICK new \in [Ids -> Nat] : Ranks(new)' /\ \A i \in Rows : new[i] = rank[i]
  BY <1>1, <1>2, RanksGrow
<1>4. proc' \in [Procs -> Request]
  BY StepKeeps DEF IInv, TypeOK
<1>5. \A q \in Procs : InOrder(rank, proc'[q])
  <2>1. CASE UNCHANGED vars
    BY <1>2, <2>1 DEF vars
  <2>2. ASSUME NEW p \in Procs, Arrival(p) \/ Step(p)
        PROVE  \A q \in Procs : InOrder(rank, proc'[q])
    <3>1. PICK r : Goto(p, r) /\ InOrder(rank, r)
      BY <1>1, <1>2, <2>2, ArrivalInOrder, StepInOrder
    <3>2. \A q \in Procs : proc'[q] = IF q = p THEN r ELSE proc[q]
      BY <3>1 DEF Goto, IInv, TypeOK
    <3> QED BY <1>2, <3>1, <3>2
  <2> QED BY <2>1, <2>2 DEF Next
<1>6. \A r \in Request : InOrder(rank, r) => InOrder(new, r)'
  BY <1>1, <1>3, OrderStays
<1>7. \A q \in Procs : InOrder(new, proc[q])'
  BY <1>4, <1>5, <1>6 DEF InOrder, TokensInOrder, PhonesInOrder, Behind
<1> QED BY <1>1, <1>3, <1>7 DEF OrderInv

LEMMA OrderInit == Init => OrderInv
<1> SUFFICES ASSUME Init PROVE OrderInv
  OBVIOUS
<1>1. LineInv /\ IInv
  BY LineInit, InitHolds
<1>2. \A i \in Rows : token[i].next = None /\ token[i].session = i
  <2> SUFFICES ASSUME NEW i \in Rows PROVE token[i].next = None /\ token[i].session = i
    OBVIOUS
  <2>1. i \in Ids /\ i \in DOMAIN Owner
    BY DEF Rows, Init
  <2>2. token[i] = NewToken(Owner[i], i, {j \in DOMAIN Owner : j < i}, i)
    BY <2>1 DEF Init
  <2> QED BY <2>2 DEF NewToken
<1> DEFINE rank == [i \in Ids |-> 0]
<1>3. rank \in [Ids -> Nat] /\ \A i \in Rows : rank[i] = 0
  BY RowIsNotNone
<1> HIDE DEF rank
<1>4. Ranks(rank)
  BY <1>2, <1>3 DEF Ranks
<1>5. \A p \in Procs : InOrder(rank, proc[p])
  BY IdleRequest, EmptyHanded DEF Init
<1> QED BY <1>1, <1>3, <1>4, <1>5 DEF OrderInv

-----------------------------------------------------------------------------
(* What a request waits for, and who holds it.                             *)

LEMMA WantsIs ==
    ASSUME IInv, NEW p \in Procs, Wants(p) # None
    PROVE  \/ /\ proc[p].at \in {"first", "second"}
              /\ Wants(p) \in proc[p].todo /\ Wants(p) \in Ids
           \/ /\ proc[p].at \in {"push", "move"} /\ proc[p].taking
              /\ Wants(p) \in proc[p].todo /\ Wants(p) \in Phones
           \/ proc[p].at \in {"account", "rotate"}
           \/ /\ proc[p].at \in {"follow", "share"}
              /\ Wants(p) = proc[p].tok /\ Wants(p) \in Ids
           \/ proc[p].at = "phone" /\ Wants(p) \in Phones
<1> DEFINE r == proc[p]
<1>1. r \in Request /\ Shape(r) /\ Sees(r)
  BY DEF IInv, TypeOK, Good
<1>2. CASE r.taking
  <2>1. Wants(p) = Min(r.todo) /\ r.todo # {} /\ r.todo \in SUBSET (Ids \cup Phones)
        /\ r.at \in {"first", "second", "push", "move"}
    BY <1>1, <1>2 DEF Wants, Request, Shape
  <2>2. Wants(p) \in r.todo
    BY <2>1, LeastRow
  <2> QED BY <1>1, <1>2, <2>1, <2>2 DEF Shape
<1>3. CASE ~r.taking
  <2>1. CASE r.at \in {"account", "rotate"}
    BY <2>1
  <2>2. CASE r.at \in {"follow", "share"}
    BY <1>1, <1>3, <2>2, RowIsNotNone DEF Wants, Sees
  <2>3. CASE r.at = "phone"
    BY <1>1, <1>3, <2>3 DEF Wants, Shape
  <2>4. CASE r.at \notin {"account", "rotate", "follow", "share", "phone"}
    BY <1>3, <2>4 DEF Wants
  <2> QED BY <2>1, <2>2, <2>3, <2>4
<1> QED BY <1>2, <1>3

\* A blocked request wants a row that the other holds.
LEMMA BlockedBy ==
    ASSUME IInv, NEW p \in Procs, NEW q \in Blockers(p)
    PROVE  /\ q \in Procs /\ q # p /\ Wants(p) # None
           /\ Wants(p) \in proc[q].exc \/ Wants(p) \in proc[q].shr
           /\ Wants(p) \in Phones => Wants(p) \in proc[q].exc
<1>1. q \in Procs /\ q # p /\ (Wants(p) \in proc[q].exc \/ Wants(p) \in proc[q].shr)
  BY DEF Blockers
<1>2. proc[q].exc \in SUBSET (Ids \cup Phones \cup Users) /\ proc[q].shr \in SUBSET Ids
  BY <1>1 DEF IInv, TypeOK, Request
<1>3. None \notin Ids \cup Phones \cup Users /\ Ids \cap Phones = {}
  BY RowsAssumption
<1> QED BY <1>1, <1>2, <1>3

\* Who holds a phone waits, if at all, for a phone of a greater id.
LEMMA PhoneAhead ==
    ASSUME IInv, NEW rank, NEW q \in Procs, InOrder(rank, proc[q]), Wants(q) # None,
           NEW f \in Phones, f \in proc[q].exc
    PROVE  Wants(q) \in Phones /\ f < Wants(q)
<1>1. proc[q].at \notin {"account", "rotate", "share", "phone", "first", "second"}
  BY DEF InOrder, TokensInOrder, PhonesInOrder
<1>2. proc[q].at # "follow"
  <2>1. f \notin Rows
    BY RowsAssumption, RowIsNotNone
  <2> QED BY <2>1 DEF InOrder, TokensInOrder, Behind
<1>3. Wants(q) \in proc[q].todo /\ Wants(q) \in Phones
  BY <1>1, <1>2, WantsIs
<1> QED BY <1>3 DEF InOrder, PhonesInOrder

\* Who holds a token waits, if at all, for a phone, or for a later token of the
\* session; or it is the password change or disable of the token's account.
LEMMA TokenAhead ==
    ASSUME IInv, NEW rank, NEW q \in Procs, InOrder(rank, proc[q]), Wants(q) # None,
           NEW i \in Ids, i \in proc[q].exc \/ i \in proc[q].shr
    PROVE  \/ Wants(q) \in Phones
           \/ Wants(q) \in Ids /\ Behind(rank, i, Wants(q))
           \/ /\ proc[q].at \in {"first", "second"} /\ Wants(q) \in Ids
              /\ proc[q].user \in proc[q].exc
              /\ i \in Rows /\ token[i].user = proc[q].user
              /\ Wants(q) \in Rows /\ token[Wants(q)].user = proc[q].user
              /\ token[i].session = token[Wants(q)].session => rank[i] =< rank[Wants(q)]
<1>1. proc[q].at \notin {"account", "rotate"}
  BY DEF InOrder, TokensInOrder
<1>2. CASE proc[q].at \in {"follow", "share"}
  BY <1>2, WantsIs DEF InOrder, TokensInOrder
<1>3. CASE proc[q].at \in {"first", "second"}
  BY <1>3, WantsIs DEF InOrder, TokensInOrder, PhonesInOrder
<1>4. CASE proc[q].at \notin {"follow", "share", "first", "second"}
  BY <1>1, <1>4, WantsIs
<1> QED BY <1>2, <1>3, <1>4

\* The account's row is one request's at a time.
LEMMA OneEnds ==
    ASSUME IInv, NEW p \in Procs, NEW q \in Procs, NEW u, u \in proc[p].exc, u \in proc[q].exc
    PROVE  p = q
BY DEF IInv, Good, Apart

\* A password change or a disable that waits for one of its account's tokens.
AtTokens(q) ==
    /\ proc[q].at \in {"first", "second"} /\ proc[q].user \in proc[q].exc
    /\ Wants(q) \in Rows /\ token[Wants(q)].user = proc[q].user

\* Waiting along a session, or for the account that ends it.
Further(rank, p, q) ==
    \/ Behind(rank, Wants(p), Wants(q))
    \/ /\ AtTokens(q) /\ Wants(p) \in Rows /\ token[Wants(p)].user = proc[q].user
       /\ token[Wants(p)].session = token[Wants(q)].session => rank[Wants(p)] =< rank[Wants(q)]

LEMMA WaitsFurther ==
    ASSUME IInv, NEW rank, NEW p \in Procs, NEW q \in Procs, InOrder(rank, proc[q]),
           Wants(p) \in Ids, Wants(q) # None, Wants(q) \notin Phones,
           Wants(p) \in proc[q].exc \/ Wants(p) \in proc[q].shr
    PROVE  Wants(q) \in Ids /\ Further(rank, p, q)
<1> SUFFICES ASSUME NEW i \in Ids, i = Wants(p) PROVE Wants(q) \in Ids /\ Further(rank, p, q)
  OBVIOUS
<1>1. \/ Wants(q) \in Ids /\ Behind(rank, i, Wants(q))
      \/ /\ proc[q].at \in {"first", "second"} /\ Wants(q) \in Ids
         /\ proc[q].user \in proc[q].exc
         /\ i \in Rows /\ token[i].user = proc[q].user
         /\ Wants(q) \in Rows /\ token[Wants(q)].user = proc[q].user
         /\ token[i].session = token[Wants(q)].session => rank[i] =< rank[Wants(q)]
  BY TokenAhead
<1> QED BY <1>1 DEF Further, AtTokens

LEMMA OrderFreesSomeone ==
    ASSUME IInv, OrderInv, NEW W \in SUBSET Procs, W # {},
           \A p \in W : Blockers(p) \cap W # {}
    PROVE  FALSE
<1>1. PICK rank \in [Ids -> Nat] : Ranks(rank) /\ \A p \in Procs : InOrder(rank, proc[p])
  BY DEF OrderInv
<1>2. ASSUME NEW p \in W
      PROVE  \E q \in W : /\ q # p /\ Wants(q) # None
                          /\ Wants(p) \in proc[q].exc \/ Wants(p) \in proc[q].shr
                          /\ Wants(p) \in Phones => Wants(p) \in proc[q].exc
  <2>1. PICK q \in W : q \in Blockers(p)
    OBVIOUS
  <2>2. Wants(q) # None
    BY BlockedBy
  <2> QED BY <2>1, <2>2, BlockedBy
<1>3. \A p \in W : Wants(p) \notin Phones
  <2> DEFINE S == {p \in W : Wants(p) \in Phones}
  <2>1. ASSUME NEW p \in S PROVE \E q \in S : Wants(p) < Wants(q)
    <3>1. p \in W /\ Wants(p) \in Phones
      OBVIOUS
    <3>2. PICK q \in W : Wants(q) # None /\ Wants(p) \in proc[q].exc
      BY <1>2, <3>1
    <3>3. Wants(q) \in Phones /\ Wants(p) < Wants(q)
      BY <1>1, <3>1, <3>2, PhoneAhead
    <3> QED BY <3>3
  <2>2. CASE S # {}
    <3> DEFINE f == [p \in S |-> Wants(p)]
    <3>1. f \in [S -> Int] /\ S \in SUBSET Procs /\ \A p \in S : f[p] = Wants(p)
      BY RowsAssumption
    <3> HIDE DEF f, S
    <3>2. PICK p \in S : \A q \in S : f[q] =< f[p]
      BY <2>2, <3>1, Furthest
    <3>3. PICK q \in S : Wants(p) < Wants(q)
      BY <2>1
    <3>4. f[q] =< f[p] /\ f[p] < f[q] /\ f[p] \in Int /\ f[q] \in Int
      BY <3>1, <3>2, <3>3
    <3> QED BY <3>4
  <2> QED BY <2>2
\* The requests of the circle that hold something: each is held up by one of them.
<1> DEFINE T == {q \in W : Wants(q) \in Ids}
<1>4. T # {}
  <2>1. PICK p \in W : TRUE
    OBVIOUS
  <2>2. PICK q \in W : Wants(q) # None /\ (Wants(p) \in proc[q].exc \/ Wants(p) \in proc[q].shr)
    BY <1>2
  <2>3. proc[q].at \notin {"account", "rotate"}
    BY <1>1, <2>2 DEF InOrder, TokensInOrder
  <2>4. Wants(q) \in Ids
    BY <1>3, <2>2, <2>3, WantsIs
  <2> QED BY <2>4
<1> HIDE DEF T
<1>5. ASSUME NEW p \in T PROVE \E q \in T : q # p /\ Further(rank, p, q)
  <2>1. p \in W /\ p \in Procs /\ Wants(p) \in Ids
    BY DEF T
  <2>2. PICK q \in W : /\ q # p /\ Wants(q) # None /\ Wants(q) \notin Phones
                       /\ Wants(p) \in proc[q].exc \/ Wants(p) \in proc[q].shr
    BY <1>2, <1>3, <2>1
  <2>3. q \in Procs /\ InOrder(rank, proc[q])
    BY <1>1
  <2>4. Wants(q) \in Ids /\ Further(rank, p, q)
    BY <2>1, <2>2, <2>3, WaitsFurther
  <2>5. q \in T
    BY <2>4 DEF T
  <2> QED BY <2>2, <2>4, <2>5
<1>6. \A p, q \in T : AtTokens(p) /\ AtTokens(q) /\ proc[p].user = proc[q].user => p = q
  BY OneEnds DEF AtTokens, T
<1>7. \A i \in Ids : rank[i] \in Int
  OBVIOUS
<1>8. \A i, j \in Rows : token[i].session = token[j].session => token[i].user = token[j].user
  BY <1>1 DEF Ranks
\* No set of them goes on only to later tokens of their sessions.
<1>9. ASSUME NEW S \in SUBSET T, S # {},
             \A p \in S : \E q \in S : Behind(rank, Wants(p), Wants(q))
      PROVE  FALSE
  <2> DEFINE f == [p \in S |-> rank[Wants(p)]]
  <2>1. f \in [S -> Int] /\ S \in SUBSET Procs /\ \A p \in S : f[p] = rank[Wants(p)]
    BY <1>7, <1>9 DEF T
  <2> HIDE DEF f
  <2>2. PICK p \in S : \A q \in S : f[q] =< f[p]
    BY <1>9, <2>1, Furthest
  <2>3. PICK q \in S : Behind(rank, Wants(p), Wants(q))
    BY <1>9
  <2>4. f[q] =< f[p] /\ f[p] < f[q] /\ f[p] \in Int /\ f[q] \in Int
    BY <2>1, <2>2, <2>3 DEF Behind
  <2> QED BY <2>4
<1>10. CASE \A q \in T : ~AtTokens(q)
  <2>1. \A p \in T : \E q \in T : Behind(rank, Wants(p), Wants(q))
    BY <1>5, <1>10 DEF Further
  <2> QED BY <1>4, <1>9, <2>1
<1>11. ASSUME NEW a \in T, AtTokens(a) PROVE FALSE
  <2> DEFINE S == {q \in T : Behind(rank, Wants(a), Wants(q))}
  <2>1. Wants(a) \in Rows /\ token[Wants(a)].user = proc[a].user
    BY <1>11 DEF AtTokens
  <2>2. S # {}
    <3>1. PICK q \in T : q # a /\ Further(rank, a, q)
      BY <1>5
    <3>2. Behind(rank, Wants(a), Wants(q))
      BY <1>6, <1>11, <2>1, <3>1 DEF Further
    <3> QED BY <3>2
  <2>3. \A p \in S : \E q \in S : Behind(rank, Wants(p), Wants(q))
    <3> SUFFICES ASSUME NEW p \in S PROVE \E q \in S : Behind(rank, Wants(p), Wants(q))
      OBVIOUS
    <3>1. p \in T /\ Behind(rank, Wants(a), Wants(p))
      OBVIOUS
    <3>2. /\ Wants(p) \in Rows /\ token[Wants(p)].session = token[Wants(a)].session
          /\ rank[Wants(a)] < rank[Wants(p)]
          /\ token[Wants(p)].user = token[Wants(a)].user
          /\ rank[Wants(a)] \in Int /\ rank[Wants(p)] \in Int
      BY <1>7, <1>8, <2>1, <3>1, RowIsNotNone DEF Behind
    <3>3. PICK q \in T : Further(rank, p, q)
      BY <1>5, <3>1
    <3>4. CASE Behind(rank, Wants(p), Wants(q))
      <4>1. rank[Wants(q)] \in Int
        BY <1>7, <3>4, RowIsNotNone DEF Behind
      <4>2. Behind(rank, Wants(a), Wants(q))
        BY <3>1, <3>2, <3>4, <4>1 DEF Behind
      <4> QED BY <3>4, <4>2
    <3>5. CASE ~Behind(rank, Wants(p), Wants(q))
      <4>1. AtTokens(q) /\ proc[q].user = proc[a].user
        BY <2>1, <3>2, <3>3, <3>5 DEF Further
      <4>2. q = a
        BY <1>6, <1>11, <4>1
      <4>3. rank[Wants(p)] =< rank[Wants(a)]
        BY <3>2, <3>3, <3>5, <4>2 DEF Further
      <4> QED BY <3>2, <4>3
    <3> QED BY <3>4, <3>5
  <2> QED BY <1>9, <2>2, <2>3
<1> QED BY <1>10, <1>11

-----------------------------------------------------------------------------
(* The theorems.                                                           *)

\* The invariant that the others rest on holds in every state.
THEOREM Invariance == Spec => []IInv
BY InitHolds, StepKeeps, PTL DEF Spec

\* Every variable keeps its type: RevokeByHash never goes further than
\* MaxReuseSteps, and no row loses a column.
THEOREM TypeCorrect == Spec => []TypeOK
<1>1. IInv => TypeOK
  BY DEF IInv
<1> QED BY <1>1, Invariance, PTL

\* However many refreshes come with one token, their session has one live
\* token at most (Rotate).
THEOREM OneLiveToken == Spec => []SessionHasOneLiveToken
<1>1. IInv => SessionHasOneLiveToken
  BY DEF IInv
<1> QED BY <1>1, Invariance, PTL

\* A phone's push token is on the newest token of a session of its own account
\* (currentSession, Rotate).
THEOREM PushFollowsTheSession == Spec => []PushOnCurrentToken
<1>1. IInv => PushOnCurrentToken
  BY DEF IInv, PushAgrees, PushOnCurrentToken
<1> QED BY <1>1, Invariance, PTL

\* No refresh in flight brings a session back that was ended.
THEOREM EndedIsEnded == Spec => EndedStaysEnded
<1>1. IInv /\ [Next]_vars =>
          [\A s \in {token[i].session : i \in Rows} : ~SessionLive(s) => ~SessionLive(s)']_vars
  BY NoneIsRevived DEF SessionLive
<1> QED BY <1>1, Invariance, PTL DEF Spec, EndedStaysEnded

\* A password change and a disable catch the token that a refresh makes beside
\* them (the second revoke).
THEOREM RefreshDies == Spec => RefreshInFlightDies
<1>1. IInv /\ [Next]_vars =>
          [\A p \in Procs :
               CommitAccount(p) =>
                   \A i \in proc[p].seen :
                       /\ ~token'[i].live
                       /\ token'[i].next # None => ~token'[token'[i].next].live]_vars
  BY CommitEndsAll
<1> QED BY <1>1, Invariance, PTL DEF Spec, RefreshInFlightDies

\* A live session loses its phone only to its own account's change, disable or
\* delete, or to a live session that is not older (PushRepo).
THEOREM PhoneStays == Spec => LiveSessionKeepsPhone
<1>1. IInv /\ [Next]_vars =>
          [\A f \in Phones :
               push[f] # None /\ IsLive(push[f].tok) /\ push'[f] # push[f] => Loses(f)]_vars
  BY PhoneIsKept
<1> QED BY <1>1, Invariance, PTL DEF Spec, LiveSessionKeepsPhone, Loses

\* When a log out or a reused token has been answered, its session is over,
\* whatever refreshes it met (RevokeByHash).
THEOREM SessionIsOver == Spec => RevokeEndsTheSession
<1>1. Init => IInv /\ LineInv
  BY InitHolds, LineInit
<1>2. (IInv /\ LineInv) /\ [Next]_vars => (IInv /\ LineInv)'
  BY StepKeeps, LineKeeps
<1>3. IInv /\ LineInv /\ [Next]_vars =>
          [\A p \in Procs, s \in Ids :
               /\ proc[p].at = "follow" /\ proc'[p] = Idle
               /\ s = token[proc[p].from].session
               /\ \E chain \in Chains(proc[p].from) : token[chain[MaxReuseSteps]].next = None
               => ~SessionLive(s)']_vars
  BY RevokeEnds DEF SessionLive
<1> QED BY <1>1, <1>2, <1>3, PTL DEF Spec, RevokeEndsTheSession

\* No requests ever wait on each other in a circle, however many run at once:
\* each takes its rows in one order (session_locks.go).
THEOREM NoOneWaitsInACircle == Spec => []NoWaitCycle
<1>1. Init => IInv /\ OrderInv
  BY InitHolds, OrderInit
<1>2. (IInv /\ OrderInv) /\ [Next]_vars => (IInv /\ OrderInv)'
  BY StepKeeps, OrderKeeps
<1>3. IInv /\ OrderInv => NoWaitCycle
  BY OrderFreesSomeone DEF NoWaitCycle
<1> QED BY <1>1, <1>2, <1>3, PTL DEF Spec

=============================================================================
