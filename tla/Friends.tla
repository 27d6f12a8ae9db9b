------------------------------ MODULE Friends ------------------------------
(***************************************************************************)
(* What follows and blocks promise: one person asks, the other answers,    *)
(* and a block ends whatever there is between the two, both ways, and      *)
(* keeps it ended.  Every operation is one step.  Follows implements this. *)
(***************************************************************************)
CONSTANT People

VARIABLES
    friend,     \* a pair <<a, b>> to "none", "requested" or "following" (social.Relation)
    blocks,     \* the pairs <<a, b>> where a blocked b
    disabled    \* the accounts an admin disabled

vars == <<friend, blocks, disabled>>

Pairs == {ab \in People \X People : ab[1] # ab[2]}

Back(ab) == <<ab[2], ab[1]>>

Between(ab) == {ab, Back(ab)}

Init ==
    /\ friend = [ab \in Pairs |-> "none"]
    /\ blocks = {}
    /\ disabled = {}

\* Nobody asks across a block, nor somebody disabled.
Ask(ab) ==
    /\ friend[ab] = "none"
    /\ Between(ab) \cap blocks = {}
    /\ ab[2] \notin disabled
    /\ friend' = [friend EXCEPT ![ab] = "requested"]
    /\ UNCHANGED <<blocks, disabled>>

\* The person asked accepts.
Accept(ab) ==
    /\ friend[ab] = "requested"
    /\ friend' = [friend EXCEPT ![ab] = "following"]
    /\ UNCHANGED <<blocks, disabled>>

\* Unfollow, cancel, decline, remove a follower.
End(ab) ==
    /\ friend' = [friend EXCEPT ![ab] = "none"]
    /\ UNCHANGED <<blocks, disabled>>

Block(ab) ==
    /\ blocks' = blocks \cup {ab}
    /\ friend' = [cd \in Pairs |-> IF cd \in Between(ab) THEN "none" ELSE friend[cd]]
    /\ UNCHANGED disabled

Unblock(ab) ==
    /\ blocks' = blocks \ {ab}
    /\ UNCHANGED <<friend, disabled>>

SetDisabled(a) ==
    /\ disabled' \in {disabled \cup {a}, disabled \ {a}}
    /\ UNCHANGED <<friend, blocks>>

Next ==
    \/ \E ab \in Pairs : Ask(ab) \/ Accept(ab) \/ End(ab) \/ Block(ab) \/ Unblock(ab)
    \/ \E a \in People : SetDisabled(a)

Spec == Init /\ [][Next]_vars
=============================================================================
