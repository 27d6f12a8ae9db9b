------------------------------ MODULE PhoneBell ------------------------------
(***************************************************************************)
(* What the rows of the page behind the bell do on one phone               *)
(* (NotificationsScreen.tsx): the button beside a new follower, read from  *)
(* the follow lists whenever the page comes to the front, "Follow back",   *)
(* and the pages the rows open on top of it.  Its items and dots are in    *)
(* PhoneInbox.                                                             *)
(***************************************************************************)
EXTENDS Integers, Sequences, TLC, PhoneBonds

CONSTANTS
    MaxBellTaps,    \* bound: what the person does
    MaxBellFails,   \* bound: requests without an answer
    MaxBellMoves    \* bound: what the others do

Followers == {1, 2}                     \* the people of the follow rows
NoRelation == [p \in Followers |-> "none"]
NoFollow == [st |-> "none", on |-> 0, ok |-> TRUE, rel |-> "none"]

VARIABLES
    rowBonds,                           \* the server
    relations, relationsOn,             \* relations, and whether a read filled them
    relationReads,                      \* loadRelations() under way
    followBack,                         \* followBack() under way (busyRef)
    openingReply,                       \* openReply()'s read (openingRef)
    above,                              \* the pages on top of the list
    bellLate,                           \* history: a read was on its way while the person acted
    bellMoved,                          \* history: the others acted, or an answer was lost
    bellTaps, bellFails, bellMoves

rowState == <<relations, relationsOn, relationReads>>
bellPast == <<bellLate, bellMoved>>
bellBounds == <<bellTaps, bellFails, bellMoves>>
vars == <<rowBonds, rowState, followBack, openingReply, above, bellPast, bellBounds>>

Out == [p \in Followers |-> rowBonds[p].out]
Acts == bellTaps > 0 /\ bellTaps' = bellTaps - 1 /\ UNCHANGED <<bellFails, bellMoves>>
OnTheList == above = <<>>

(* ---- the buttons ------------------------------------------------------------ *)

LoadRelations == relationReads \cup {[n |-> bellTaps, st |-> "sent", rel |-> NoRelation]}
LoadOnce == IF relationsOn THEN relationReads ELSE LoadRelations   \* (mutant: what was read is kept)
OnFocus == LoadRelations
RelationsServed(r) ==
    /\ r.st = "sent" /\ relationReads' = (relationReads \ {r}) \cup {[r EXCEPT !.st = "served", !.rel = Out]}
    /\ UNCHANGED <<rowBonds, relations, relationsOn, followBack, openingReply, above, bellPast, bellBounds>>
RelationsAnswered(r) ==
    /\ r.st = "served" /\ relationReads' = relationReads \ {r}
    /\ relations' = r.rel /\ relationsOn' = TRUE
    /\ UNCHANGED <<rowBonds, followBack, openingReply, above, bellPast, bellBounds>>
\* The rows keep the buttons they have.
RelationsFail(r) ==
    /\ bellFails > 0 /\ bellFails' = bellFails - 1 /\ relationReads' = relationReads \ {r} /\ bellMoved' = TRUE
    /\ UNCHANGED <<rowBonds, relations, relationsOn, followBack, openingReply, above, bellLate, bellTaps, bellMoves>>

FollowBack(p) ==
    /\ Acts /\ OnTheList /\ relations[p] = "none" /\ followBack.st = "none"
    /\ followBack' = [NoFollow EXCEPT !.st = "sent", !.on = p]
    /\ UNCHANGED <<rowBonds, rowState, openingReply, above, bellPast>>
FollowServed ==
    /\ followBack.st = "sent"
    /\ LET b == rowBonds[followBack.on] IN
        /\ rowBonds' = [rowBonds EXCEPT ![followBack.on] = After(b, "follow")]
        /\ followBack' = [followBack EXCEPT !.st = "served", !.ok = Accepts(b, "follow"), !.rel = After(b, "follow").out]
    /\ UNCHANGED <<rowState, openingReply, above, bellPast, bellBounds>>
FollowAnswered ==
    /\ followBack.st = "served" /\ followBack' = NoFollow /\ bellLate' = (bellLate \/ relationReads # {})
    /\ relations' = IF followBack.ok THEN [relations EXCEPT ![followBack.on] = followBack.rel] ELSE relations
    /\ UNCHANGED <<rowBonds, relationsOn, relationReads, openingReply, above, bellMoved, bellBounds>>
FollowFails ==
    /\ followBack.st \in {"sent", "served"} /\ bellFails > 0 /\ bellFails' = bellFails - 1
    /\ followBack' = NoFollow /\ bellMoved' = TRUE
    /\ UNCHANGED <<rowBonds, rowState, openingReply, above, bellLate, bellTaps, bellMoves>>

(* ---- the pages the rows open -------------------------------------------------- *)

Opens(p) == above' = Append(above, p)
\* A comment, or a person.
OpenRow ==
    /\ Acts /\ OnTheList /\ \E p \in {"entry", "person"} : Opens(p)
    /\ UNCHANGED <<rowBonds, rowState, followBack, openingReply, bellPast>>
\* A reply: one read of the post decides which page; other rows can be tapped meanwhile.
OpenReply ==
    /\ Acts /\ OnTheList /\ ~openingReply /\ openingReply' = TRUE
    /\ UNCHANGED <<rowBonds, rowState, followBack, above, bellPast>>
ReplyRead ==
    /\ openingReply /\ openingReply' = FALSE /\ \E p \in {"entry", "post"} : Opens(p)
    /\ UNCHANGED <<rowBonds, rowState, followBack, bellPast, bellBounds>>
\* Follow or unfollow on the page of a person.
OnPersonPage ==
    /\ Acts /\ ~OnTheList /\ above[Len(above)] = "person" /\ bellLate' = (bellLate \/ relationReads # {} \/ followBack.st # "none")
    /\ \E p \in Followers, what \in {"follow", "unfollow"} : rowBonds' = [rowBonds EXCEPT ![p] = After(@, what)]
    /\ UNCHANGED <<rowState, followBack, openingReply, above, bellMoved>>
\* The list is in front again: its buttons are read again.
BackToList ==
    /\ Acts /\ ~OnTheList /\ above' = SubSeq(above, 1, Len(above) - 1)
    /\ bellLate' = (bellLate \/ (above' = <<>> /\ followBack.st # "none"))
    /\ relationReads' = IF above' = <<>> THEN OnFocus ELSE relationReads
    /\ UNCHANGED <<rowBonds, relations, relationsOn, followBack, openingReply, bellMoved>>
OthersMove ==
    /\ bellMoves > 0 /\ bellMoves' = bellMoves - 1 /\ bellMoved' = TRUE
    /\ \E p \in Followers : \E b \in Theirs(rowBonds[p]) : rowBonds' = [rowBonds EXCEPT ![p] = b]
    /\ UNCHANGED <<rowState, followBack, openingReply, above, bellLate, bellTaps, bellFails>>

Init ==
    /\ rowBonds = (1 :> Bond("none", "following") @@ 2 :> Bond("following", "following"))
    /\ relations = NoRelation /\ relationsOn = FALSE
    /\ relationReads = {[n |-> MaxBellTaps + 1, st |-> "sent", rel |-> NoRelation]}
    /\ followBack = NoFollow /\ openingReply = FALSE /\ above = <<>> /\ bellLate = FALSE /\ bellMoved = FALSE
    /\ bellTaps = MaxBellTaps /\ bellFails = MaxBellFails /\ bellMoves = MaxBellMoves

Answers ==
    \/ \E r \in relationReads : RelationsServed(r) \/ RelationsAnswered(r)
    \/ FollowServed \/ FollowAnswered \/ ReplyRead
Next ==
    \/ Answers \/ FollowFails
    \/ \E r \in relationReads : RelationsFail(r)
    \/ \E p \in Followers : FollowBack(p)
    \/ OpenRow \/ OpenReply \/ OnPersonPage \/ BackToList \/ OthersMove
LiveSpec == Init /\ [][Next]_vars /\ WF_vars(Answers)

(* ---- properties ---------------------------------------------------------------- *)

\* At rest on the list, a row's button says what the person is toward that follower, also after a
\* follow or an unfollow on that one's own page.  (Not when a read crossed an action of the person,
\* when a request had no answer, or before the others' own steps are read.)
ButtonsRight ==
    OnTheList /\ relationReads = {} /\ followBack.st = "none" /\ ~bellLate /\ ~bellMoved => relations = Out

\* The reads, a follow and the opening of a reply end.
BellBusy == relationReads # {} \/ followBack.st # "none" \/ openingReply
BellSettles == BellBusy ~> ~BellBusy
=============================================================================
