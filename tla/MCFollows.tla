----------------------------- MODULE MCFollows -----------------------------
(***************************************************************************)
(* The instance of Follows that TLC checks.                                *)
(***************************************************************************)
EXTENDS Follows, TLC

\* People, requests and rows are interchangeable.
Alike == Permutations(People) \cup Permutations(Ids) \cup Permutations(Procs)
=============================================================================
