------------------------- MODULE PasswordResetProofs -------------------------
(***************************************************************************)
(* The Forgot password code, for any number of requests, codes and tries.  *)
(***************************************************************************)
EXTENDS PasswordReset, TLAPS

-----------------------------------------------------------------------------
(* Type correctness.                                                       *)

LEMMA BeginType ==
    ASSUME NEW kind \in {"none", "forgot", "reset", "disable", "enable"},
           NEW at \in {"idle", "read", "issue", "try", "trying", "delete",
                       "deleting", "account", "commit"},
           NEW c \in Codes \cup {None}, NEW time \in Nat
    PROVE  Begin(kind, at, c, time) \in Request
BY DEF Begin, Request

LEMMA GotoType ==
    ASSUME TypeOK, NEW p \in Procs, NEW r \in Request, Goto(p, r)
    PROVE  proc' \in [Procs -> Request]
BY DEF Goto, TypeOK

LEMMA NewCodeType ==
    ASSUME TypeOK, NEW c \in Codes, NEW at \in Nat
    PROVE  NewCode(c, at) \in CodeRow
<1>1. at + Life \in Nat
  BY ResetAssumption
<1>2. CASE code = None
  BY <1>1, <1>2, ResetAssumption DEF NewCode, CodeRow
<1>3. CASE code \in CodeRow
  BY <1>1, <1>3, ResetAssumption DEF NewCode, CodeRow, KeptTries
<1> QED BY <1>2, <1>3 DEF TypeOK

\* What the types come to for one request.
LEMMA RequestFields ==
    ASSUME TypeOK, NEW p \in Procs
    PROVE  /\ proc[p] \in Request
           /\ proc[p].code \in Codes \cup {None}
           /\ proc[p].time \in Nat
           /\ proc[p].sees \in BOOLEAN
           /\ Idle \in Request
BY DEF TypeOK, Request, Idle

-----------------------------------------------------------------------------
(* The inductive invariant.                                                *)

\* Only a code asked for is issued, and only a code typed is tried.
KindOfStep ==
    \A p \in Procs :
        /\ proc[p].at \in {"read", "issue"} =>
               proc[p].kind = "forgot" /\ proc[p].code \in Codes
        /\ proc[p].at \in {"try", "trying"} =>
               proc[p].kind = "reset" /\ proc[p].code \in Codes

RowShape == code # None => code.expires = code.created + Life

\* A reset past its delete holds the code it was tried with.
Spending ==
    \A p \in Procs :
        proc[p].kind = "reset" /\ proc[p].at \in {"account", "commit"} =>
            proc[p].sees /\ code # None /\ code.code = proc[p].code

\* And past the account, an account that is not disabled.
StillOpen ==
    \A p \in Procs : proc[p].kind = "reset" /\ proc[p].at = "commit" => ~disabled

OneHolder ==
    \A p, q \in Procs :
        (HoldsCode(p) /\ HoldsCode(q)) \/ (HoldsAccount(p) /\ HoldsAccount(q)) => p = q

IInv == TypeOK /\ KindOfStep /\ RowShape /\ Spending /\ StillOpen /\ OneHolder

\* A request nobody blocks at the code's row finds nobody holding it.
LEMMA NobodyHolds ==
    ASSUME NEW p \in Procs, Blockers(p) = {},
           proc[p].at \in {"issue", "trying", "deleting"}
    PROVE  \A q \in Procs : ~HoldsCode(q)
BY DEF Blockers, HoldsCode

\* A change of one request alone: it keeps the rows in order when the request
\* holds nothing afterwards that it did not hold before.
LEMMA LettingGo ==
    ASSUME IInv, NEW p \in Procs, NEW r \in Request, Goto(p, r),
           r.at \notin {"account", "commit"},
           UNCHANGED <<code, disabled>>
    PROVE  Spending' /\ StillOpen' /\ OneHolder'
<1>1. \A q \in Procs : proc'[q] = IF q = p THEN r ELSE proc[q]
  BY DEF Goto, IInv, TypeOK
<1> QED BY <1>1 DEF IInv, Spending, StillOpen, OneHolder, HoldsCode, HoldsAccount

-----------------------------------------------------------------------------
(* Each step keeps it.                                                     *)

LEMMA BeginKeeps ==
    ASSUME IInv, NEW p \in Procs, NEW c \in Codes, Forgot(p, c) \/ Reset(p, c)
    PROVE  IInv'
<1> DEFINE r == IF Forgot(p, c) THEN Begin("forgot", "read", c, now)
                                ELSE Begin("reset", "try", c, now)
<1>1. r \in Request /\ Goto(p, r) /\ UNCHANGED <<code, disabled, now>>
  BY BeginType DEF IInv, TypeOK, Forgot, Reset
<1>2. \A q \in Procs : proc'[q] = IF q = p THEN r ELSE proc[q]
  BY <1>1 DEF Goto, IInv, TypeOK
<1>3. r.at \in {"read", "try"} /\ r.code = c
      /\ (r.at = "read" => r.kind = "forgot") /\ (r.at = "try" => r.kind = "reset")
  BY DEF Begin
<1>4. TypeOK'
  BY <1>1, GotoType DEF IInv, TypeOK
<1>5. KindOfStep'
  BY <1>2, <1>3 DEF IInv, KindOfStep
<1>6. Spending' /\ StillOpen' /\ OneHolder'
  BY <1>1, <1>3, LettingGo
<1>7. RowShape'
  BY <1>1 DEF IInv, RowShape
<1> QED BY <1>4, <1>5, <1>6, <1>7 DEF IInv

\* A request that ends, with nothing written.
LEMMA DoneKeeps ==
    ASSUME IInv, NEW p \in Procs, Done(p), UNCHANGED <<code, disabled, now>>
    PROVE  IInv'
<1>1. Idle \in Request /\ Idle.at = "idle"
  BY RequestFields DEF IInv, Idle
<1>2. \A q \in Procs : proc'[q] = IF q = p THEN Idle ELSE proc[q]
  BY DEF Done, Goto, IInv, TypeOK
<1>3. TypeOK'
  BY <1>1, GotoType DEF IInv, TypeOK, Done
<1>4. KindOfStep'
  BY <1>1, <1>2 DEF IInv, KindOfStep
<1>5. Spending' /\ StillOpen' /\ OneHolder'
  BY <1>1, LettingGo DEF Done
<1> QED BY <1>3, <1>4, <1>5 DEF IInv, RowShape

\* The code's row changes while nobody holds it.
LEMMA RowChangesUnheld ==
    ASSUME IInv, NEW p \in Procs, NEW r \in Request, Goto(p, r),
           r.at \notin {"account", "commit"},
           \A q \in Procs : ~HoldsCode(q), UNCHANGED disabled
    PROVE  Spending' /\ StillOpen' /\ OneHolder'
<1>1. \A q \in Procs : proc'[q] = IF q = p THEN r ELSE proc[q]
  BY DEF Goto, IInv, TypeOK
<1>2. \A q \in Procs : ~(proc[q].kind = "reset" /\ proc[q].at \in {"account", "commit"})
  BY DEF IInv, Spending, HoldsCode
<1> QED BY <1>1, <1>2 DEF IInv, Spending, StillOpen, OneHolder, HoldsCode, HoldsAccount

LEMMA IssueKeeps == ASSUME IInv, NEW p \in Procs, Issue(p) PROVE IInv'
<1> DEFINE new == NewCode(proc[p].code, proc[p].time)
<1>1. /\ proc[p].code \in Codes /\ proc[p].time \in Nat
      /\ Idle \in Request /\ Idle.at = "idle"
  BY RequestFields DEF IInv, KindOfStep, Issue, Runs, Idle
<1>2. new \in CodeRow /\ new.expires = new.created + Life
  <2>1. new \in CodeRow
    BY <1>1, NewCodeType DEF IInv
  <2> QED BY <2>1 DEF NewCode
<1>3. /\ code' \in {code, new} /\ Goto(p, Idle) /\ UNCHANGED <<disabled, now>>
  BY DEF Issue, Done
<1>4. TypeOK'
  BY <1>1, <1>2, <1>3, GotoType DEF IInv, TypeOK
<1>5. \A q \in Procs : proc'[q] = IF q = p THEN Idle ELSE proc[q]
  BY <1>3 DEF Goto, IInv, TypeOK
<1>6. KindOfStep'
  BY <1>1, <1>5 DEF IInv, KindOfStep
<1>7. RowShape'
  BY <1>2, <1>3 DEF IInv, RowShape
<1>8. \A q \in Procs : ~HoldsCode(q)
  BY NobodyHolds DEF Issue, Runs
<1> QED BY <1>1, <1>3, <1>4, <1>6, <1>7, <1>8, RowChangesUnheld DEF IInv

\* A request that goes on, with nothing written and no row held.
LEMMA MoveKeeps ==
    ASSUME IInv, NEW p \in Procs, NEW r \in Request, Goto(p, r),
           r.at \in {"issue", "trying", "delete", "deleting"},
           r.at = "issue" => r.kind = "forgot" /\ r.code \in Codes,
           r.at = "trying" => r.kind = "reset" /\ r.code \in Codes,
           UNCHANGED <<code, disabled, now>>
    PROVE  IInv'
<1>1. \A q \in Procs : proc'[q] = IF q = p THEN r ELSE proc[q]
  BY DEF Goto, IInv, TypeOK
<1>2. TypeOK'
  BY GotoType DEF IInv, TypeOK
<1>3. KindOfStep'
  BY <1>1 DEF IInv, KindOfStep
<1>4. Spending' /\ StillOpen' /\ OneHolder'
  BY LettingGo
<1> QED BY <1>2, <1>3, <1>4 DEF IInv, RowShape

LEMMA StartKeeps ==
    ASSUME IInv, NEW p \in Procs, StartIssue(p) \/ StartTry(p)
    PROVE  IInv'
<1> DEFINE issue  == [proc[p] EXCEPT !.at = "issue"]
           trying == [proc[p] EXCEPT !.at = "trying", !.sees = TRUE]
<1>1. proc[p] \in Request /\ UNCHANGED <<code, disabled, now>>
  BY RequestFields DEF IInv, StartIssue, StartTry
<1>2. CASE Done(p)
  BY <1>1, <1>2, DoneKeeps
<1>3. CASE StartIssue(p) /\ Goto(p, issue)
  <2>1. issue \in Request /\ issue.at = "issue"
        /\ issue.kind = proc[p].kind /\ issue.code = proc[p].code
    BY <1>1 DEF Request
  <2>2. proc[p].kind = "forgot" /\ proc[p].code \in Codes
    BY <1>3 DEF StartIssue, Runs, IInv, KindOfStep
  <2> QED BY <1>1, <1>3, <2>1, <2>2, MoveKeeps
<1>4. CASE StartTry(p) /\ Goto(p, trying)
  <2>1. trying \in Request /\ trying.at = "trying"
        /\ trying.kind = proc[p].kind /\ trying.code = proc[p].code
    BY <1>1 DEF Request
  <2>2. proc[p].kind = "reset" /\ proc[p].code \in Codes
    BY <1>4 DEF StartTry, Runs, IInv, KindOfStep
  <2> QED BY <1>1, <1>4, <2>1, <2>2, MoveKeeps
<1> QED BY <1>2, <1>3, <1>4 DEF StartIssue, StartTry

LEMMA TryKeeps == ASSUME IInv, NEW p \in Procs, Try(p) PROVE IInv'
<1> DEFINE right  == [proc[p] EXCEPT !.at = "delete", !.sees = FALSE, !.time = 0]
           wrong  == [code EXCEPT !.tries = @ + 1]
<1>1. proc[p] \in Request /\ Idle \in Request /\ UNCHANGED <<disabled, now>>
  BY RequestFields DEF IInv, Try
<1>2. right \in Request /\ right.at = "delete"
  BY <1>1 DEF Request
<1>3. PICK r \in {right, Idle} : Goto(p, r)
  BY DEF Try, Done
<1>4. r \in Request /\ r.at \in {"delete", "idle"}
  <2>1. Idle.at = "idle"
    BY DEF Idle
  <2> HIDE DEF right
  <2> QED BY <1>1, <1>2, <2>1
<1>5. \A q \in Procs : proc'[q] = IF q = p THEN r ELSE proc[q]
  BY <1>3 DEF Goto, IInv, TypeOK
<1>6. \/ code' = code
      \/ code # None /\ code \in CodeRow /\ code.tries < MaxTries /\ code' = wrong
  BY DEF Try, Live, IInv, TypeOK
<1>7. /\ code' \in CodeRow \cup {None}
      /\ RowShape'
  <2>1. CASE code' = code
    BY <2>1 DEF IInv, TypeOK, RowShape
  <2>2. CASE /\ code # None /\ code \in CodeRow
             /\ code.tries < MaxTries /\ code' = wrong
    <3>1. code.tries + 1 \in 0 .. MaxTries
      BY <2>2, ResetAssumption DEF CodeRow
    <3>2. wrong \in CodeRow /\ wrong.created = code.created
          /\ wrong.expires = code.expires
      BY <2>2, <3>1 DEF CodeRow
    <3> QED BY <2>2, <3>2 DEF IInv, RowShape
  <2> QED BY <1>6, <2>1, <2>2
<1>8. TypeOK'
  BY <1>1, <1>3, <1>4, <1>7, GotoType DEF IInv, TypeOK
<1>9. KindOfStep'
  BY <1>4, <1>5 DEF IInv, KindOfStep
<1>10. \A q \in Procs : ~HoldsCode(q)
  BY NobodyHolds DEF Try, Runs
<1> QED BY <1>1, <1>3, <1>4, <1>7, <1>8, <1>9, <1>10, RowChangesUnheld DEF IInv

LEMMA SetDisabledKeeps ==
    ASSUME IInv, NEW p \in Procs, NEW kind \in {"disable", "enable"},
           SetDisabled(p, kind)
    PROVE  IInv'
<1> DEFINE at == IF kind = "disable" THEN "delete" ELSE "account"
           r  == Begin(kind, at, None, 0)
<1>1. r \in Request /\ Goto(p, r) /\ UNCHANGED <<code, disabled, now>>
  BY BeginType DEF SetDisabled
<1>2. r.kind = kind /\ r.at = at /\ ~r.sees
  BY DEF Begin
<1>3. \A q \in Procs : proc'[q] = IF q = p THEN r ELSE proc[q]
  BY <1>1 DEF Goto, IInv, TypeOK
<1>4. TypeOK'
  BY <1>1, GotoType DEF IInv, TypeOK
<1>5. KindOfStep'
  BY <1>2, <1>3 DEF IInv, KindOfStep
<1>6. Spending' /\ StillOpen' /\ OneHolder'
  BY <1>1, <1>2, <1>3 DEF IInv, Spending, StillOpen, OneHolder, HoldsCode, HoldsAccount
<1> QED BY <1>1, <1>4, <1>5, <1>6 DEF IInv, RowShape

\* Nothing to delete: a reset ends, a disable goes on with no row held.
LEMMA UnfoundKeeps ==
    ASSUME IInv, NEW p \in Procs, Unfound(p), UNCHANGED <<code, disabled, now>>
    PROVE  IInv'
<1>1. CASE proc[p].kind = "reset"
  BY <1>1, DoneKeeps DEF Unfound
<1>2. CASE proc[p].kind # "reset"
  <2> DEFINE r == [proc[p] EXCEPT !.at = "account", !.sees = FALSE]
  <2>1. r \in Request /\ r.kind # "reset" /\ r.at = "account" /\ ~r.sees
    BY <1>2, RequestFields DEF Request, IInv
  <2>2. Goto(p, r)
    BY <1>2 DEF Unfound
  <2>3. \A q \in Procs : proc'[q] = IF q = p THEN r ELSE proc[q]
    BY <2>2 DEF Goto, IInv, TypeOK
  <2>4. TypeOK'
    BY <2>1, <2>2, GotoType DEF IInv, TypeOK
  <2> HIDE DEF r
  <2>5. KindOfStep'
    BY <2>1, <2>3 DEF IInv, KindOfStep
  <2>6. Spending' /\ StillOpen' /\ OneHolder'
    BY <2>1, <2>3 DEF IInv, Spending, StillOpen, OneHolder, HoldsCode, HoldsAccount
  <2> QED BY <2>4, <2>5, <2>6 DEF IInv, RowShape
<1> QED BY <1>1, <1>2

LEMMA StartDeleteKeeps == ASSUME IInv, NEW p \in Procs, StartDelete(p) PROVE IInv'
<1> DEFINE r == [proc[p] EXCEPT !.at = "deleting", !.sees = TRUE]
<1>1. CASE Wanted(proc[p])
  <2>1. r \in Request /\ r.at = "deleting"
    BY RequestFields DEF Request, IInv
  <2>2. Goto(p, r) /\ UNCHANGED <<code, disabled, now>>
    BY <1>1 DEF StartDelete
  <2> HIDE DEF r
  <2> QED BY <2>1, <2>2, MoveKeeps
<1>2. CASE ~Wanted(proc[p])
  BY <1>2, UnfoundKeeps DEF StartDelete
<1> QED BY <1>1, <1>2

LEMMA DeleteKeeps == ASSUME IInv, NEW p \in Procs, Delete(p) PROVE IInv'
<1> DEFINE r == [proc[p] EXCEPT !.at = "account"]
<1>1. CASE proc[p].sees /\ Wanted(proc[p])
  <2>1. /\ r \in Request /\ r.at = "account" /\ r.sees
        /\ r.kind = proc[p].kind /\ r.code = proc[p].code
    BY <1>1, RequestFields DEF Request, IInv
  <2>2. Goto(p, r) /\ UNCHANGED <<code, disabled, now>>
    BY <1>1 DEF Delete
  <2>3. \A q \in Procs : proc'[q] = IF q = p THEN r ELSE proc[q]
    BY <2>2 DEF Goto, IInv, TypeOK
  <2>4. TypeOK'
    BY <2>1, <2>2, GotoType DEF IInv, TypeOK
  <2> HIDE DEF r
  <2>5. KindOfStep'
    BY <2>1, <2>3 DEF IInv, KindOfStep
  <2>6. \A q \in Procs : ~HoldsCode(q)
    BY NobodyHolds DEF Delete, Runs
  <2>7. Spending' /\ StillOpen'
    BY <1>1, <2>1, <2>2, <2>3 DEF IInv, Spending, StillOpen, Wanted
  <2>8. OneHolder'
    BY <2>1, <2>3, <2>6 DEF IInv, OneHolder, HoldsCode, HoldsAccount
  <2> QED BY <2>2, <2>4, <2>5, <2>7, <2>8 DEF IInv, RowShape
<1>2. CASE ~(proc[p].sees /\ Wanted(proc[p]))
  BY <1>2, UnfoundKeeps DEF Delete
<1> QED BY <1>1, <1>2

LEMMA AccountKeeps == ASSUME IInv, NEW p \in Procs, Account(p) PROVE IInv'
<1> DEFINE r == [proc[p] EXCEPT !.at = "commit"]
<1>1. \A q \in Procs \ {p} : ~HoldsAccount(q)
  BY DEF Account, Runs, Blockers
<1>2. proc[p].at = "account"
  BY DEF Account, Runs
<1>3. CASE proc[p].kind = "enable"
  <2>1. disabled' = FALSE /\ Done(p) /\ UNCHANGED <<code, now>>
    BY <1>3 DEF Account
  <2>2. \A q \in Procs : proc'[q] = IF q = p THEN Idle ELSE proc[q]
    BY <2>1 DEF Done, Goto, IInv, TypeOK
  <2>3. Idle \in Request /\ Idle.at = "idle"
    BY RequestFields DEF IInv, Idle
  <2>4. TypeOK'
    BY <2>1, <2>3, GotoType DEF IInv, TypeOK, Done
  <2>5. KindOfStep'
    BY <2>2, <2>3 DEF IInv, KindOfStep
  <2>6. Spending' /\ StillOpen' /\ OneHolder'
    BY <2>1, <2>2, <2>3
       DEF IInv, Spending, StillOpen, OneHolder, HoldsCode, HoldsAccount
  <2> QED BY <2>1, <2>4, <2>5, <2>6 DEF IInv, RowShape
<1>4. CASE proc[p].kind = "reset" /\ disabled
  BY <1>4, DoneKeeps DEF Account
<1>5. CASE proc[p].kind # "enable" /\ ~(proc[p].kind = "reset" /\ disabled)
  <2>1. /\ r \in Request /\ r.at = "commit" /\ r.sees = proc[p].sees
        /\ r.kind = proc[p].kind /\ r.code = proc[p].code
    BY RequestFields DEF Request, IInv
  <2>2. Goto(p, r) /\ UNCHANGED <<code, disabled, now>>
    BY <1>5 DEF Account
  <2>3. \A q \in Procs : proc'[q] = IF q = p THEN r ELSE proc[q]
    BY <2>2 DEF Goto, IInv, TypeOK
  <2>4. TypeOK'
    BY <2>1, <2>2, GotoType DEF IInv, TypeOK
  <2> HIDE DEF r
  <2>5. KindOfStep'
    BY <2>1, <2>3 DEF IInv, KindOfStep
  <2>6. Spending' /\ StillOpen'
    BY <1>2, <1>5, <2>1, <2>2, <2>3 DEF IInv, Spending, StillOpen
  <2>7. OneHolder'
    BY <1>1, <1>2, <2>1, <2>3 DEF IInv, OneHolder, HoldsCode, HoldsAccount
  <2> QED BY <2>2, <2>4, <2>5, <2>6, <2>7 DEF IInv, RowShape
<1> QED BY <1>3, <1>4, <1>5

\* The holder of the code's row commits: the row goes.
LEMMA CommitDeleteKeeps ==
    ASSUME IInv, NEW p \in Procs, HoldsCode(p), HoldsAccount(p), CommitDelete(p),
           disabled' \in BOOLEAN, UNCHANGED now
    PROVE  IInv'
<1> DEFINE after(q) == IF q = p THEN Idle ELSE [proc[q] EXCEPT !.sees = FALSE]
<1>1. \A q \in Procs : /\ after(q) \in Request
                       /\ q # p => /\ after(q).kind = proc[q].kind
                                   /\ after(q).at = proc[q].at
                                   /\ after(q).code = proc[q].code
  BY RequestFields DEF Request, IInv
<1>2. /\ code' = None
      /\ proc' = [q \in Procs |-> after(q)]
  BY DEF CommitDelete
<1> HIDE DEF after
<1>3. TypeOK'
  BY <1>1, <1>2 DEF IInv, TypeOK
<1>4. Idle.at = "idle" /\ after(p) = Idle
  BY DEF Idle, after
<1>5. \A q \in Procs \ {p} :
          ~HoldsAccount(q) /\ ~(proc[q].kind = "reset" /\ proc[q].at \in {"account", "commit"})
  BY DEF IInv, OneHolder, Spending, HoldsCode
<1>6. KindOfStep'
  BY <1>1, <1>2, <1>4 DEF IInv, KindOfStep
<1>7. Spending' /\ StillOpen'
  BY <1>1, <1>2, <1>4, <1>5 DEF Spending, StillOpen
<1>8. \A q \in Procs : proc'[q].at = "commit" => FALSE
  BY <1>1, <1>2, <1>4, <1>5 DEF HoldsAccount
<1>9. \A q \in Procs : ~proc'[q].sees
  <2>1. \A q \in Procs : ~after(q).sees
    BY RequestFields DEF after, Idle, Request, IInv
  <2> QED BY <1>2, <2>1
<1>10. OneHolder'
  BY <1>8, <1>9 DEF OneHolder, HoldsCode, HoldsAccount
<1> QED BY <1>2, <1>3, <1>6, <1>7, <1>10 DEF IInv, RowShape

\* What a reset holds when it commits.
LEMMA CommitResetHolds ==
    ASSUME IInv, NEW p \in Procs, CommitReset(p)
    PROVE  /\ HoldsCode(p) /\ HoldsAccount(p)
           /\ code # None /\ code.code = proc[p].code /\ ~disabled
BY DEF CommitReset, Runs, IInv, Spending, StillOpen, HoldsCode, HoldsAccount

LEMMA CommitDisableKeeps == ASSUME IInv, NEW p \in Procs, CommitDisable(p) PROVE IInv'
<1>1. proc[p].at = "commit" /\ proc[p].kind = "disable" /\ disabled' = TRUE /\ UNCHANGED now
  BY DEF CommitDisable, Runs
<1>2. CASE proc[p].sees
  BY <1>1, <1>2, CommitDeleteKeeps DEF CommitDisable, HoldsCode, HoldsAccount
<1>3. CASE ~proc[p].sees
  <2>1. Done(p) /\ UNCHANGED code
    BY <1>3 DEF CommitDisable
  <2>2. \A q \in Procs : proc'[q] = IF q = p THEN Idle ELSE proc[q]
    BY <2>1 DEF Done, Goto, IInv, TypeOK
  <2>3. Idle \in Request /\ Idle.at = "idle"
    BY RequestFields DEF IInv, Idle
  <2>4. TypeOK'
    BY <1>1, <2>1, <2>3, GotoType DEF IInv, TypeOK, Done
  <2>5. KindOfStep'
    BY <2>2, <2>3 DEF IInv, KindOfStep
  <2>6. \A q \in Procs \ {p} : proc[q].at # "commit"
    BY <1>1 DEF IInv, OneHolder, HoldsAccount
  <2>7. Spending' /\ StillOpen' /\ OneHolder'
    BY <2>1, <2>2, <2>3, <2>6
       DEF IInv, Spending, StillOpen, OneHolder, HoldsCode, HoldsAccount
  <2> QED BY <2>1, <2>4, <2>5, <2>7 DEF IInv, RowShape
<1> QED BY <1>2, <1>3

LEMMA StepKeeps == ASSUME IInv, NEW p \in Procs, Step(p) PROVE IInv'
<1>1. ASSUME NEW c \in Codes, Forgot(p, c) \/ Reset(p, c) PROVE IInv'
  BY <1>1, BeginKeeps
<1>2. ASSUME NEW kind \in {"disable", "enable"}, SetDisabled(p, kind) PROVE IInv'
  BY <1>2, SetDisabledKeeps
<1>3. CASE StartIssue(p) \/ StartTry(p)
  BY <1>3, StartKeeps
<1>4. CASE Issue(p)
  BY <1>4, IssueKeeps
<1>5. CASE Try(p)
  BY <1>5, TryKeeps
<1>6. CASE StartDelete(p)
  BY <1>6, StartDeleteKeeps
<1>7. CASE Delete(p)
  BY <1>7, DeleteKeeps
<1>8. CASE Account(p)
  BY <1>8, AccountKeeps
<1>9. CASE CommitReset(p)
  <2>1. CommitDelete(p) /\ disabled' \in BOOLEAN /\ UNCHANGED now
    BY <1>9 DEF CommitReset, IInv, TypeOK
  <2> QED BY <1>9, <2>1, CommitResetHolds, CommitDeleteKeeps
<1>10. CASE CommitDisable(p)
  BY <1>10, CommitDisableKeeps
<1>11. CASE GiveUp(p)
  BY <1>11, DoneKeeps DEF GiveUp
<1> QED BY <1>1, <1>2, <1>3, <1>4, <1>5, <1>6, <1>7, <1>8, <1>9, <1>10, <1>11 DEF Step

\* Everything of IInv but the clock speaks of what a tick leaves alone.
LEMMA TickKeeps == ASSUME IInv, now' \in Nat, UNCHANGED <<code, disabled, proc>> PROVE IInv'
BY DEF IInv, TypeOK, KindOfStep, RowShape, Spending, StillOpen, OneHolder,
       HoldsCode, HoldsAccount

LEMMA InitIInv == Init => IInv
<1> SUFFICES ASSUME Init PROVE IInv
  OBVIOUS
<1>1. Idle \in Request /\ Idle.at = "idle"
  BY DEF Idle, Request
<1>2. code = None /\ disabled = FALSE /\ now = 0 /\ proc = [p \in Procs |-> Idle]
  BY DEF Init
<1> QED BY <1>1, <1>2 DEF IInv, TypeOK, KindOfStep, RowShape, Spending,
                          StillOpen, OneHolder, HoldsCode, HoldsAccount

LEMMA NextKeeps == IInv /\ [Next]_vars => IInv'
<1> SUFFICES ASSUME IInv, [Next]_vars PROVE IInv'
  OBVIOUS
<1>1. CASE Tick
  BY <1>1, TickKeeps DEF Tick, IInv, TypeOK
<1>2. ASSUME NEW p \in Procs, Step(p) PROVE IInv'
  BY <1>2, StepKeeps
<1>3. CASE UNCHANGED vars
  BY <1>3, TickKeeps DEF vars, IInv, TypeOK
<1> QED BY <1>1, <1>2, <1>3 DEF Next

\* The rows held and the codes in hand fit together in every state.
THEOREM Invariance == Spec => []IInv
BY InitIInv, NextKeeps, PTL DEF Spec

-----------------------------------------------------------------------------
(* What it gives.                                                          *)

\* Every row, and every request, is of its type; the tries never pass MaxTries.
THEOREM TypeCorrect == Spec => []TypeOK
<1>1. IInv => TypeOK
  BY DEF IInv
<1> QED BY <1>1, Invariance, PTL

\* However many requests race, a password is only changed with the newest
\* code, while it is still there, of an account that is not disabled.
THEOREM ChangedOnlyWithTheNewestCode == Spec => OnlyTheNewestCode
<1>1. IInv => [\A p \in Procs :
                   CommitReset(p) => /\ code # None
                                     /\ code.code = proc[p].code
                                     /\ ~disabled]_vars
  BY CommitResetHolds
<1> QED BY <1>1, Invariance, PTL DEF OnlyTheNewestCode

\* The row goes as a whole, or a new code or a wrong try changes it.
LEMMA RowSteps ==
    [Next]_vars => \/ code' \in {code, None}
                   \/ \E p \in Procs : Issue(p) \/ Try(p)
<1> SUFFICES ASSUME [Next]_vars, ~(\E p \in Procs : Issue(p) \/ Try(p))
             PROVE  code' \in {code, None}
  OBVIOUS
<1>1. CASE Tick \/ UNCHANGED vars
  BY <1>1 DEF Tick, vars
<1>2. ASSUME NEW p \in Procs, Step(p) PROVE code' \in {code, None}
  <2>1. CASE CommitReset(p) \/ CommitDisable(p)
    BY <2>1 DEF CommitReset, CommitDisable, CommitDelete
  <2>2. CASE ~(CommitReset(p) \/ CommitDisable(p))
    BY <1>2, <2>2 DEF Step, Forgot, Reset, SetDisabled, StartIssue, StartTry,
                      StartDelete, Delete, Account, GiveUp
  <2> QED BY <2>1, <2>2
<1> QED BY <1>1, <1>2 DEF Next

\* A new code keeps the tries of an unexpired one and comes a minute after it.
LEMMA IssueStands ==
    ASSUME IInv, NEW p \in Procs, Issue(p), code # None, code' # code
    PROVE  /\ code'.created >= code.expires
              \/ (code'.tries = code.tries /\ code.tries < MaxTries)
           /\ code'.created >= code.created + Resend
<1> DEFINE at == proc[p].time
<1>1. at \in Nat
  BY RequestFields DEF IInv
<1>2. /\ code' = NewCode(proc[p].code, at)
      /\ MayReplace(at)
  BY DEF Issue
<1>3. code'.created = at /\ code'.tries = KeptTries(at)
  BY <1>2 DEF NewCode
<1>4. code \in CodeRow /\ code.expires = code.created + Life
  BY DEF IInv, TypeOK, RowShape
<1>5. CASE Expired(at)
  BY <1>1, <1>3, <1>4, <1>5, ResetAssumption DEF Expired, CodeRow
<1>6. CASE ~Expired(at)
  <2>1. code'.tries = code.tries /\ code.tries < MaxTries
    BY <1>2, <1>3, <1>6 DEF MayReplace, KeptTries
  <2>2. code.created <= at - Resend
    BY <1>2, <1>6 DEF MayReplace
  <2>3. at >= code.created + Resend
    BY <1>1, <1>4, <2>2, ResetAssumption DEF CodeRow
  <2> QED BY <1>3, <2>1, <2>3
<1> QED BY <1>5, <1>6

\* A try counts at most one, and only while tries are left.
LEMMA TryStands ==
    ASSUME IInv, NEW p \in Procs, Try(p), code # None, code' # code
    PROVE  /\ code'.code = code.code /\ code.tries < MaxTries
           /\ code'.tries = code.tries + 1
<1>1. code' = [code EXCEPT !.tries = @ + 1] /\ Live(proc[p].time)
  BY DEF Try
<1>2. code \in CodeRow
  BY DEF IInv, TypeOK
<1> QED BY <1>1, <1>2 DEF Live, CodeRow

\* Asking again, at any time and by any number of requests, never buys guesses.
THEOREM GuessesAreSpent == Spec => GuessesAreNeverGivenBack
<1>1. IInv /\ [Next]_vars =>
          [code # None /\ code' # None =>
               \/ code'.created >= code.expires
               \/ /\ code'.tries >= code.tries
                  /\ code.tries = MaxTries => code' = code]_vars
  <2> SUFFICES ASSUME IInv, [Next]_vars, code # None, code' # None
               PROVE  \/ code'.created >= code.expires
                      \/ /\ code'.tries >= code.tries
                         /\ code.tries = MaxTries => code' = code
    OBVIOUS
  <2>1. code.tries \in Nat /\ MaxTries \in Nat
    BY ResetAssumption DEF IInv, TypeOK, CodeRow
  <2>2. CASE code' = code
    BY <2>1, <2>2
  <2>3. CASE code' # code
    <3>1. PICK p \in Procs : Issue(p) \/ Try(p)
      BY <2>3, RowSteps
    <3>2. CASE Issue(p)
      BY <2>1, <2>3, <3>2, IssueStands
    <3>3. CASE Try(p)
      BY <2>1, <2>3, <3>3, TryStands
    <3> QED BY <3>1, <3>2, <3>3
  <2> QED BY <2>2, <2>3
<1> QED BY <1>1, Invariance, PTL DEF Spec, GuessesAreNeverGivenBack

\* No request replaces a code within a minute of its making.
THEOREM AMinuteApart == Spec => CodeStandsForAMinute
<1>1. IInv /\ [Next]_vars =>
          [code # None /\ code' # None /\ code'.code # code.code =>
               code'.created >= code.created + Resend]_vars
  <2> SUFFICES ASSUME IInv, [Next]_vars, code # None, code' # None,
                      code'.code # code.code
               PROVE  code'.created >= code.created + Resend
    OBVIOUS
  <2>1. PICK p \in Procs : Issue(p) \/ Try(p)
    BY RowSteps
  <2>2. CASE Issue(p)
    BY <2>2, IssueStands
  <2>3. CASE Try(p)
    BY <2>3, TryStands
  <2> QED BY <2>1, <2>2, <2>3
<1> QED BY <1>1, Invariance, PTL DEF Spec, CodeStandsForAMinute

\* Whoever waits for the code's row waits for a request that waits at most for
\* the account's, and whoever holds that one waits for nobody.
THEOREM NobodyWaitsInACircle == Spec => []NoWaitCycle
<1>1. NoWaitCycle
  <2> SUFFICES ASSUME NEW waiting \in (SUBSET Procs) \ {{}},
                      \A p \in waiting : Blockers(p) \cap waiting # {}
               PROVE  FALSE
    BY DEF NoWaitCycle
  <2>1. \A p \in waiting : proc[p].at # "commit"
    BY DEF Blockers
  <2>2. \A p \in waiting : proc[p].at # "account"
    BY <2>1 DEF Blockers, HoldsAccount
  <2>3. PICK p : p \in waiting
    <3>1. waiting # {}
      OBVIOUS
    <3> QED BY <3>1
  <2>4. PICK q : q \in Blockers(p) \cap waiting
    BY <2>3
  <2>5. proc[q].at \in {"account", "commit"}
    BY <2>4 DEF Blockers, HoldsCode, HoldsAccount
  <2> QED BY <2>1, <2>2, <2>4, <2>5
<1> QED BY <1>1, PTL DEF Spec
=============================================================================
