-------------------------- MODULE MCPasswordReset --------------------------
(***************************************************************************)
(* The instance of PasswordReset that TLC checks.                          *)
(***************************************************************************)
EXTENDS PasswordReset, TLC

\* Requests are interchangeable, and so are codes.
Alike == Permutations(Procs) \cup Permutations(Codes)
=============================================================================
