----------------------------- MODULE PhoneBonds -----------------------------
(***************************************************************************)
(* What stands between the person and another one, as the phone's screens  *)
(* of people meet it: their requests to the server, each in one step (the  *)
(* statements and the locks are in Follows), and what the others do.       *)
(***************************************************************************)

Relations == {"none", "requested", "following"}
Bond(out, in) == [out |-> out, in |-> in, blocked |-> FALSE, muted |-> FALSE]

\* follow, unfollow (which also takes a request back), remove, accept, decline, block, unblock, mute, unmute.
Accepts(b, what) ==
    CASE what \in {"accept", "decline"} -> b.in = "requested"
      [] what = "follow" -> ~b.blocked
      [] OTHER -> TRUE
After(b, what) ==
    IF ~Accepts(b, what) THEN b ELSE
    CASE what = "follow"   -> [b EXCEPT !.out = IF @ = "none" THEN "requested" ELSE @]
      [] what = "unfollow" -> [b EXCEPT !.out = "none"]
      [] what = "accept"   -> [b EXCEPT !.in = "following"]
      [] what \in {"remove", "decline"} -> [b EXCEPT !.in = "none"]
      [] what = "block"    -> [b EXCEPT !.out = "none", !.in = "none", !.blocked = TRUE]
      [] what = "unblock"  -> [b EXCEPT !.blocked = FALSE]
      [] what = "mute"     -> [b EXCEPT !.muted = TRUE]
      [] what = "unmute"   -> [b EXCEPT !.muted = FALSE]
      [] OTHER -> b

\* The other person answers a request, or asks.
Theirs(b) ==
    (IF b.out = "requested" THEN {[b EXCEPT !.out = "following"], [b EXCEPT !.out = "none"]} ELSE {})
        \cup (IF b.in = "none" /\ ~b.blocked THEN {[b EXCEPT !.in = "requested"]} ELSE {})
=============================================================================
