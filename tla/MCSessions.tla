----------------------------- MODULE MCSessions -----------------------------
(***************************************************************************)
(* The two instances of Sessions that TLC checks, side by side in one run: *)
(* two sessions of one account, and a session each of two accounts.        *)
(***************************************************************************)
EXTENDS Sessions, TLC

CONSTANTS ann, bob, p1, p2

\* Ann and Bob have a session each; two requests at once, of every kind.
OneEach == 1 :> ann @@ 4 :> bob
OfBoth == INSTANCE Sessions WITH Procs <- {p1, p2}

\* Ann has two sessions, on two phones or left over on one; as many requests
\* at once as there are processes, that refresh, log out and change a password.
TwoOfAnn == 1 :> ann @@ 4 :> ann
AnnTwice == INSTANCE Sessions WITH Owner <- TwoOfAnn
OfAnn    == INSTANCE Sessions WITH
    Users <- {ann}, Kinds <- {"refresh", "logout", "change"}

\* The rows that are there at first stay, so they tell the two apart.
IsOfAnn == token[4].user = ann

MCInit == Init \/ AnnTwice!Init
MCNext ==
    \/ IsOfAnn /\ OfAnn!Next
    \/ ~IsOfAnn /\ OfBoth!Next
MCSpec == MCInit /\ [][MCNext]_vars

\* Two tokens more for Ann's sessions, one more for Ann's and Bob's.
NewTokens == IsOfAnn \/ 2 \notin Begun'

\* Requests are interchangeable.  (Where p3 never runs, only the permutations
\* of p1 and p2 lead to states that are reached.)
AnyProc == Permutations(Procs)
=============================================================================
