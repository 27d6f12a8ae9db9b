----------------------------- MODULE PhonePeople -----------------------------
(***************************************************************************)
(* The People page of one phone (PeopleScreen.tsx): the lists GET /follows *)
(* gives, under two tabs, the buttons of their rows, and one action at a   *)
(* time, after which the lists are read again.                             *)
(***************************************************************************)
EXTENDS Integers, FiniteSets, TLC, PhoneBonds

CONSTANTS
    MaxPeopleTaps,  \* bound: what the person does
    MaxPeopleFails, \* bound: requests without an answer
    MaxTheirs       \* bound: what the others do

Others == {1, 2}
NoLists == [on |-> FALSE, v |-> 0, bonds |-> [p \in {} |-> Bond("none", "none")]]

VARIABLES
    peopleBonds, peopleV,           \* the server; its changes so far
    lists, peopleStatus,            \* follows and status
    peopleReads, readNo,            \* reads of the lists under way; reads asked for so far
    peopleDeeds, peopleMenu, tab,   \* what act() runs (busyRef); menu; the open tab
    peopleFailed,                   \* the line under the tabs
    actedV, missedRead,             \* history: changes when the last action was answered; a read after one had no answer
    overtaken,                      \* history: an older read was shown after a newer one
    shownNo,                        \* history: the read on screen
    peopleTaps, peopleFails, theirs

served == <<peopleBonds, peopleV>>
page == <<lists, peopleStatus, shownNo, overtaken>>
vars == <<served, page, peopleReads, readNo, peopleDeeds, peopleMenu, tab, peopleFailed, actedV, missedRead,
          peopleTaps, peopleFails, theirs>>

\* The rows of the lists as the page draws them.
Followers == {p \in DOMAIN lists.bonds : lists.bonds[p].in = "following"}
Following == {p \in DOMAIN lists.bonds : lists.bonds[p].out = "following"}
Outgoing  == {p \in DOMAIN lists.bonds : lists.bonds[p].out = "requested"} \ Following
Incoming  == {p \in DOMAIN lists.bonds : lists.bonds[p].in = "requested"}

\* What can be tapped.  The buttons of followers and requests are off while an action runs, those of
\* the other tab are not.
FollowerButton(p) == IF p \in Following THEN {} ELSE IF p \in Outgoing THEN {"unfollow"} ELSE {"follow"}
Buttons(p) ==
    IF tab = "followers"
    THEN IF peopleDeeds # {} THEN {}
         ELSE (IF p \in Incoming THEN {"accept", "decline"} ELSE {}) \cup (IF p \in Followers THEN FollowerButton(p) ELSE {})
    ELSE IF p \in Outgoing THEN {"unfollow"} ELSE {}
MenuItems(p) ==
    IF peopleMenu # p THEN {}
    ELSE IF tab = "followers" THEN {"remove", "block"} ELSE {"unfollow", "block"}

(* ---- the lists ---------------------------------------------------------------- *)

ReadLists ==
    /\ readNo' = readNo + 1
    /\ peopleReads' = peopleReads \cup {[n |-> readNo + 1, st |-> "sent", v |-> 0, bonds |-> NoLists.bonds]}
ReadNothing == UNCHANGED <<readNo, peopleReads>>  \* (mutant: nothing is read after an action)
ReadAfterDeed == ReadLists

ListsServed(c) ==
    /\ c.st = "sent"
    /\ peopleReads' = (peopleReads \ {c}) \cup {[c EXCEPT !.st = "served", !.v = peopleV, !.bonds = peopleBonds]}
    /\ UNCHANGED <<served, page, readNo, peopleDeeds, peopleMenu, tab, peopleFailed, actedV, missedRead, peopleTaps, peopleFails, theirs>>
\* The answer that comes last is shown, whichever was asked for last.
ListsAnswered(c) ==
    /\ c.st = "served" /\ peopleReads' = peopleReads \ {c}
    /\ lists' = [on |-> TRUE, v |-> c.v, bonds |-> c.bonds] /\ peopleStatus' = "ready"
    /\ overtaken' = (c.n < shownNo) /\ shownNo' = IF c.n < shownNo THEN shownNo ELSE c.n
    /\ UNCHANGED <<served, readNo, peopleDeeds, peopleMenu, tab, peopleFailed, actedV, missedRead, peopleTaps, peopleFails, theirs>>
ListsFail(c) ==
    /\ peopleFails > 0 /\ peopleFails' = peopleFails - 1 /\ peopleReads' = peopleReads \ {c}
    /\ peopleStatus' = IF lists.on THEN peopleStatus ELSE "offline"
    /\ missedRead' = TRUE
    /\ UNCHANGED <<served, lists, shownNo, overtaken, readNo, peopleDeeds, peopleMenu, tab, peopleFailed, actedV, peopleTaps, theirs>>

(* ---- one action at a time ------------------------------------------------------- *)

Taps == peopleTaps > 0 /\ peopleTaps' = peopleTaps - 1
Acts(p) ==
    /\ Taps /\ peopleDeeds = {}
    /\ \E what \in Buttons(p) \cup MenuItems(p) :
        peopleDeeds' = {[on |-> p, what |-> what, st |-> "sent", ok |-> TRUE]}
    /\ peopleMenu' = 0 /\ peopleFailed' = FALSE
    /\ UNCHANGED <<served, page, peopleReads, readNo, tab, actedV, missedRead, peopleFails, theirs>>
ActServed(d) ==
    /\ d.st = "sent"
    /\ peopleDeeds' = {[d EXCEPT !.st = "served", !.ok = Accepts(peopleBonds[d.on], d.what)]}
    /\ peopleBonds' = [peopleBonds EXCEPT ![d.on] = After(@, d.what)] /\ peopleV' = peopleV + 1
    /\ UNCHANGED <<page, peopleReads, readNo, peopleMenu, tab, peopleFailed, actedV, missedRead, peopleTaps, peopleFails, theirs>>
\* Answered or not: the lists are read again.
ActEnds(d) ==
    /\ peopleDeeds' = {} /\ ReadAfterDeed /\ actedV' = peopleV
    /\ \/ d.st = "served" /\ peopleFailed' = ~d.ok /\ UNCHANGED peopleFails
       \/ peopleFails > 0 /\ peopleFails' = peopleFails - 1 /\ peopleFailed' = TRUE
    /\ missedRead' = FALSE
    /\ UNCHANGED <<served, page, peopleMenu, tab, peopleTaps, theirs>>

(* ---- what the person and the others do -------------------------------------------- *)

TabTapped ==
    /\ Taps /\ peopleMenu = 0 /\ tab' = IF tab = "followers" THEN "following" ELSE "followers"
    /\ UNCHANGED <<served, page, peopleReads, readNo, peopleDeeds, peopleMenu, peopleFailed, actedV, missedRead, peopleFails, theirs>>
OpenMore(p) ==
    /\ peopleMenu = 0 /\ peopleStatus = "ready" /\ peopleTaps > 0
    /\ p \in IF tab = "followers" THEN Followers ELSE Following
    /\ peopleMenu' = p
    /\ UNCHANGED <<served, page, peopleReads, readNo, peopleDeeds, tab, peopleFailed, actedV, missedRead, peopleTaps, peopleFails, theirs>>
\* The page comes into focus, or "Try again".
PeopleFocus ==
    /\ Taps /\ ReadLists
    /\ UNCHANGED <<served, page, peopleDeeds, peopleMenu, tab, peopleFailed, actedV, missedRead, peopleFails, theirs>>
TheyMove ==
    /\ theirs > 0 /\ theirs' = theirs - 1
    /\ \E p \in Others : \E b \in Theirs(peopleBonds[p]) : peopleBonds' = [peopleBonds EXCEPT ![p] = b]
    /\ peopleV' = peopleV + 1
    /\ UNCHANGED <<page, peopleReads, readNo, peopleDeeds, peopleMenu, tab, peopleFailed, actedV, missedRead, peopleTaps, peopleFails>>

Init ==
    /\ peopleBonds = (1 :> Bond("none", "requested") @@ 2 :> Bond("following", "following")) /\ peopleV = 0
    /\ lists = NoLists /\ peopleStatus = "loading" /\ shownNo = 0 /\ overtaken = FALSE
    /\ readNo = 1 /\ peopleReads = {[n |-> 1, st |-> "sent", v |-> 0, bonds |-> NoLists.bonds]}
    /\ peopleDeeds = {} /\ peopleMenu = 0 /\ tab = "followers" /\ peopleFailed = FALSE
    /\ actedV = 0 /\ missedRead = FALSE
    /\ peopleTaps = MaxPeopleTaps /\ peopleFails = MaxPeopleFails /\ theirs = MaxTheirs

Answers ==
    \/ \E c \in peopleReads : ListsServed(c) \/ ListsAnswered(c)
    \/ \E d \in peopleDeeds : ActServed(d) \/ (d.st = "served" /\ ActEnds(d))
Next ==
    \/ Answers
    \/ \E c \in peopleReads : ListsFail(c)
    \/ \E d \in peopleDeeds : ActEnds(d)
    \/ \E p \in Others : Acts(p) \/ OpenMore(p)
    \/ TabTapped \/ PeopleFocus \/ TheyMove
LiveSpec == Init /\ [][Next]_vars /\ WF_vars(Answers)

(* ---- properties ------------------------------------------------------------------ *)

\* When nothing is under way the lists hold what the last action left on the server, unless its read
\* had no answer or a read asked for earlier was answered after it (then the older lists are shown).
ListsCatchUp ==
    peopleDeeds = {} /\ peopleReads = {} /\ lists.on /\ ~missedRead /\ ~overtaken => lists.v >= actedV

\* Reading and an action end.
PeopleBusy == peopleStatus = "loading" \/ peopleDeeds # {}
PeopleSettles == PeopleBusy ~> ~PeopleBusy
=============================================================================
