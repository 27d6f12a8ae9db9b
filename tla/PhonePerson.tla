----------------------------- MODULE PhonePerson -----------------------------
(***************************************************************************)
(* Another person's page on one phone (PersonScreen.tsx): who they are,    *)
(* the one button, the three dots, and their grid of posts, read page by   *)
(* page.  One action at a time; it ends only when the page was read again. *)
(***************************************************************************)
EXTENDS Integers, Sequences, TLC, PhoneBonds

CONSTANTS
    GridPages,      \* the pages of the other person's grid
    MaxPersonTaps,  \* bound: what the person does
    MaxPersonFails, \* bound: requests without an answer
    MaxPersonMoves  \* bound: what the other person does

NoGrid == <<0>>                         \* posts is null

VARIABLES
    bond, bondV, blocksMe,          \* the server; its changes so far
    personPage, personStatus,       \* <<>> or the page on screen
    personReads, personReadNo,      \* reads of the page under way
    gridReads,                      \* pages of the grid under way (pagingRef)
    personDeed, personMenu,         \* act(): "none", or its stage; the sheet
    personLine,                     \* message
    gridCrossed, personActedV, personShown, personLate, personMissed, \* history
    personTaps, personFails, personMoves

bonds == <<bond, bondV, blocksMe>>
screen == <<personPage, personStatus>>
history == <<gridCrossed, personActedV, personShown, personLate, personMissed>>
budget == <<personTaps, personFails, personMoves>>
vars == <<bonds, screen, personReads, personReadNo, gridReads, personDeed, personMenu, personLine, history, budget>>

NoDeedRun == [st |-> "none", what |-> "none", ok |-> TRUE, n |-> 0]
Page == personPage[1]
HasPage == personPage # <<>>
Drawn == personStatus = "ready" /\ HasPage

\* GET /people/{id}: nothing for somebody who blocked the person; the grid only while following.
PersonAnswer ==
    IF blocksMe THEN <<>>
    ELSE <<[bond |-> bond, v |-> bondV, grid |-> IF bond.out = "following" THEN <<1>> ELSE NoGrid,
            next |-> IF bond.out = "following" /\ GridPages > 1 THEN 2 ELSE 0]>>

(* ---- reading the page ------------------------------------------------------------ *)

ReadPerson(n) == [n |-> n, st |-> "sent", ans |-> <<>>]
LoadPerson ==
    /\ personReadNo' = personReadNo + 1
    /\ personReads' = personReads \cup {ReadPerson(personReadNo + 1)}
PersonServed(c) ==
    /\ c.st = "sent" /\ personReads' = (personReads \ {c}) \cup {[c EXCEPT !.st = "served", !.ans = PersonAnswer]}
    /\ UNCHANGED <<bonds, screen, personReadNo, gridReads, personDeed, personMenu, personLine, history, budget>>
\* act() goes on when the read it asked for is answered, or has no answer.
DeedAfter(c) == IF personDeed.st = "reading" /\ c.n = personDeed.n THEN NoDeedRun ELSE personDeed
LineAfter(c) == IF personDeed.st = "reading" /\ c.n = personDeed.n THEN "done" ELSE personLine
PersonAnswered(c) ==
    /\ c.st = "served" /\ personReads' = personReads \ {c}
    /\ IF c.ans = <<>> THEN personStatus' = "gone" /\ UNCHANGED personPage
       ELSE personPage' = c.ans /\ personStatus' = "ready"
    /\ gridCrossed' = (gridCrossed \/ gridReads # {})
    /\ personLate' = (c.n < personShown) /\ personShown' = IF c.n < personShown THEN personShown ELSE c.n
    /\ personDeed' = DeedAfter(c) /\ personLine' = LineAfter(c)
    /\ UNCHANGED <<bonds, personReadNo, gridReads, personMenu, personActedV, personMissed, budget>>
PersonFails(c) ==
    /\ personFails > 0 /\ personFails' = personFails - 1 /\ personReads' = personReads \ {c}
    /\ personStatus' = IF HasPage THEN personStatus ELSE "offline"
    /\ personMissed' = TRUE /\ personDeed' = DeedAfter(c) /\ personLine' = LineAfter(c)
    /\ UNCHANGED <<bonds, personPage, personReadNo, gridReads, personMenu, gridCrossed, personActedV, personShown, personLate, personTaps, personMoves>>

(* ---- the grid --------------------------------------------------------------------- *)

PagingFreeAlways == TRUE                \* (mutant: pagingRef is not looked at)
PagingFree == gridReads = {}

\* handleScroll, within one screen of the end.
LoadMoreGrid ==
    /\ Drawn /\ PagingFree /\ Page.grid # NoGrid /\ Page.next # 0
    /\ personTaps > 0 /\ personTaps' = personTaps - 1
    /\ gridReads' = gridReads \cup {[n |-> personTaps, page |-> Page.next, st |-> "sent", ok |-> FALSE]}
    /\ gridCrossed' = (gridCrossed \/ personReads # {})
    /\ UNCHANGED <<bonds, screen, personReads, personReadNo, personDeed, personMenu, personLine,
                   personActedV, personShown, personLate, personMissed, personFails, personMoves>>
GridServed(g) ==
    /\ g.st = "sent"
    /\ gridReads' = (gridReads \ {g}) \cup {[g EXCEPT !.st = "served", !.ok = ~blocksMe /\ bond.out = "following"]}
    /\ UNCHANGED <<bonds, screen, personReads, personReadNo, personDeed, personMenu, personLine, history, budget>>
GridAnswered(g) ==
    /\ g.st = "served" /\ gridReads' = gridReads \ {g}
    /\ personPage' = IF ~g.ok \/ ~HasPage THEN personPage
                     ELSE <<[Page EXCEPT !.grid = (IF @ = NoGrid THEN <<>> ELSE @) \o <<g.page>>,
                                         !.next = IF g.page < GridPages THEN g.page + 1 ELSE 0]>>
    /\ UNCHANGED <<bonds, personStatus, personReads, personReadNo, personDeed, personMenu, personLine, history, budget>>
GridFails(g) ==
    /\ personFails > 0 /\ personFails' = personFails - 1 /\ gridReads' = gridReads \ {g}
    /\ UNCHANGED <<bonds, screen, personReads, personReadNo, personDeed, personMenu, personLine, history, personTaps, personMoves>>

(* ---- the button and the three dots -------------------------------------------------- *)

RelationButton ==
    IF Page.bond.blocked THEN {"unblock"} ELSE
    CASE Page.bond.out = "following" -> {}                 \* opens the sheet
      [] Page.bond.out = "requested" -> {"unfollow"}
      [] OTHER -> {"follow"}
SheetItems ==
    CASE personMenu = "following" -> {"unfollow"}
      [] personMenu = "more" ->
            {IF Page.bond.muted THEN "unmute" ELSE "mute", "block"}
                \cup IF Page.bond.in = "following" THEN {"remove"} ELSE {}
      [] personMenu = "report" -> {"report"}
      [] OTHER -> {}
OpenSheet(which) ==
    /\ Drawn /\ personMenu' = which /\ personTaps > 0
    /\ CASE which = "following" -> personMenu = "closed" /\ Page.bond.out = "following" /\ personDeed.st = "none"
         [] which = "more"      -> personMenu = "closed" /\ ~Page.bond.blocked
         [] which = "report"    -> personMenu = "more"
    /\ UNCHANGED <<bonds, screen, personReads, personReadNo, gridReads, personDeed, personLine, history, budget>>
ReadsAgainNever(n) ==                   \* (mutant: the page is not read after the action)
    /\ personDeed' = NoDeedRun /\ UNCHANGED <<personReads, personReadNo>>
ReadsAgain(n) == LoadPerson /\ personDeed' = [personDeed EXCEPT !.st = "reading", !.n = n]

ActPerson ==
    /\ Drawn /\ personDeed.st = "none" /\ personTaps > 0 /\ personTaps' = personTaps - 1
    /\ \E what \in SheetItems \cup IF personMenu = "closed" THEN RelationButton ELSE {} :
        personDeed' = [NoDeedRun EXCEPT !.st = "sent", !.what = what]
    /\ personMenu' = "closed" /\ personLine' = ""
    /\ UNCHANGED <<bonds, screen, personReads, personReadNo, gridReads, history, personFails, personMoves>>
PersonDeedServed ==
    /\ personDeed.st = "sent"
    /\ personDeed' = [personDeed EXCEPT !.st = "served", 
                                       !.ok = Accepts(bond, personDeed.what) /\ ~(blocksMe /\ personDeed.what = "follow")]
    /\ bond' = IF blocksMe THEN bond ELSE After(bond, personDeed.what)
    /\ bondV' = bondV + 1
    /\ UNCHANGED <<blocksMe, screen, personReads, personReadNo, gridReads, personMenu, personLine, history, budget>>
PersonDeedAnswered ==
    /\ personDeed.st = "served"
    /\ IF personDeed.ok
       THEN ReadsAgain(personReadNo + 1) /\ personActedV' = bondV /\ personMissed' = FALSE /\ UNCHANGED personLine
       ELSE personDeed' = NoDeedRun /\ personLine' = "failed"
            /\ UNCHANGED <<personReads, personReadNo, personActedV, personMissed>>
    /\ UNCHANGED <<bonds, screen, gridReads, personMenu, gridCrossed, personShown, personLate, budget>>
PersonDeedFails ==
    /\ personDeed.st \in {"sent", "served"} /\ personFails > 0 /\ personFails' = personFails - 1
    /\ personDeed' = NoDeedRun /\ personLine' = "failed"
    /\ UNCHANGED <<bonds, screen, personReads, personReadNo, gridReads, personMenu, history, personTaps, personMoves>>

(* ---- focus, and the other person ---------------------------------------------------- *)

PersonFocus ==
    /\ personTaps > 0 /\ personTaps' = personTaps - 1 /\ LoadPerson
    /\ UNCHANGED <<bonds, screen, gridReads, personDeed, personMenu, personLine, history, personFails, personMoves>>
OtherMoves ==
    /\ personMoves > 0 /\ personMoves' = personMoves - 1 /\ bondV' = bondV + 1
    /\ \/ bond' \in Theirs(bond) /\ UNCHANGED blocksMe
       \/ ~blocksMe /\ blocksMe' = TRUE /\ bond' = [bond EXCEPT !.out = "none", !.in = "none"]
    /\ UNCHANGED <<screen, personReads, personReadNo, gridReads, personDeed, personMenu, personLine, history, personTaps, personFails>>

Init ==
    /\ bond = Bond("following", "following") /\ bondV = 0 /\ blocksMe = FALSE
    /\ personPage = <<>> /\ personStatus = "loading" /\ personReadNo = 1 /\ personReads = {ReadPerson(1)}
    /\ gridReads = {} /\ personDeed = NoDeedRun /\ personMenu = "closed" /\ personLine = ""
    /\ gridCrossed = FALSE /\ personActedV = 0 /\ personShown = 0 /\ personLate = FALSE /\ personMissed = FALSE
    /\ personTaps = MaxPersonTaps /\ personFails = MaxPersonFails /\ personMoves = MaxPersonMoves

Answers ==
    \/ \E c \in personReads : PersonServed(c) \/ PersonAnswered(c)
    \/ \E g \in gridReads : GridServed(g) \/ GridAnswered(g)
    \/ PersonDeedServed \/ PersonDeedAnswered
Next ==
    \/ Answers \/ PersonDeedFails
    \/ \E c \in personReads : PersonFails(c)
    \/ \E g \in gridReads : GridFails(g)
    \/ \E which \in {"more", "following", "report"} : OpenSheet(which)
    \/ LoadMoreGrid \/ ActPerson \/ PersonFocus \/ OtherMoves
LiveSpec == Init /\ [][Next]_vars /\ WF_vars(Answers)

(* ---- properties ---------------------------------------------------------------------- *)

\* The grid is their pages in order, each once, unless a page of it was on its way while the whole page
\* was read again (then it is put after whatever that read left).
GridInOrder ==
    HasPage /\ Page.grid # NoGrid /\ ~gridCrossed => \A i \in DOMAIN Page.grid : Page.grid[i] = i

\* When nothing is under way the page holds what the last action left on the server, unless its read
\* had no answer or an older read came after it.
PageCatchesUp ==
    personDeed.st = "none" /\ personReads = {} /\ Drawn /\ ~personLate /\ ~personMissed => Page.v >= personActedV

\* Reading, paging and an action end.
PersonBusy == personStatus = "loading" \/ gridReads # {} \/ personDeed.st # "none"
PersonSettles == PersonBusy ~> ~PersonBusy
=============================================================================
