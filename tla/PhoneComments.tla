---------------------------- MODULE PhoneComments ----------------------------
(***************************************************************************)
(* The rows of the comment list under one's own post (CommentList in       *)
(* Comments.tsx): Hide and Unhide, which answer at once on the row, the    *)
(* long-press menu with Delete and Report, and the reads of the post that  *)
(* cross them.  The bar below the list, replies and photos are in          *)
(* PhonePost.                                                              *)
(***************************************************************************)
EXTENDS Integers, FiniteSets, TLC

CONSTANTS
    MaxRowTaps,     \* bound: what the person does
    MaxRowFails,    \* bound: requests without an answer
    MaxWriters      \* bound: what others, and the person's other phone, do

Comments == {1, 2}
Mine == {2}                             \* the person's own comments
NoHide == [c \in {} |-> FALSE]
NoRowCall == [st |-> "none", on |-> 0, what |-> "none", ok |-> TRUE]
NoMenu == [on |-> 0, step |-> "none"]

VARIABLES
    written, hiddenThere, reported,     \* the server
    shown, shownHidden,                 \* the comments as last read, and which of them say hidden
    commentReads, readSeq,              \* reads of the post, and the newest one's number
    hiddenNow,                          \* hiddenNow: what Hide and Unhide answered
    rowCall,                            \* the request behind busyId
    rowMenu, askedRow,                        \* menuFor and menuStep; the comment of the open alert
    rowReports, note,                      \* reportComment() under way; message
    strayed,                            \* history: a request had no answer, or another phone hid or unhid
    rowTaps, rowFails, writers

there == <<written, hiddenThere, reported>>
listed == <<shown, shownHidden, commentReads, readSeq>>
dialogs == <<rowMenu, askedRow>>
rowBounds == <<rowTaps, rowFails, writers>>
vars == <<there, listed, hiddenNow, rowCall, dialogs, rowReports, note, strayed, rowBounds>>

Taps == rowTaps > 0 /\ rowTaps' = rowTaps - 1 /\ UNCHANGED <<rowFails, writers>>
Fails == rowFails > 0 /\ rowFails' = rowFails - 1 /\ strayed' = TRUE /\ UNCHANGED <<rowTaps, writers>>
Uncovered == rowMenu = NoMenu /\ askedRow = 0
Idle == rowCall.st = "none"
Hidden(c) == IF c \in DOMAIN hiddenNow THEN hiddenNow[c] ELSE c \in shownHidden

(* ---- reads of the post (usePost.ts: only the newest one's answer is taken) ---- *)

CommentRead(n) == [n |-> n, st |-> "sent", has |-> {}, hides |-> {}]
ReadPost ==
    /\ Taps /\ Uncovered
    /\ readSeq' = readSeq + 1 /\ commentReads' = commentReads \cup {CommentRead(readSeq + 1)}
    /\ UNCHANGED <<there, shown, shownHidden, hiddenNow, rowCall, dialogs, rowReports, note, strayed>>
ReadServed(r) ==
    /\ r.st = "sent"
    /\ commentReads' = (commentReads \ {r}) \cup {[r EXCEPT !.st = "served", !.has = written, !.hides = hiddenThere]}
    /\ UNCHANGED <<there, shown, shownHidden, readSeq, hiddenNow, rowCall, dialogs, rowReports, note, strayed, rowBounds>>
\* What the row answered at once outlives a read.
ReadClears == NoHide                    \* (mutant: the read alone counts)
AfterRead == hiddenNow
ReadAnswered(r) ==
    /\ r.st = "served" /\ commentReads' = commentReads \ {r}
    /\ IF r.n = readSeq THEN shown' = r.has /\ shownHidden' = r.hides /\ hiddenNow' = AfterRead
       ELSE UNCHANGED <<shown, shownHidden, hiddenNow>>
    /\ UNCHANGED <<there, readSeq, rowCall, dialogs, rowReports, note, strayed, rowBounds>>
ReadFails(r) ==
    /\ Fails /\ commentReads' = commentReads \ {r}
    /\ UNCHANGED <<there, shown, shownHidden, readSeq, hiddenNow, rowCall, dialogs, rowReports, note>>

(* ---- Hide, Unhide --------------------------------------------------------------- *)

CanHide(c) == c \in shown \ Mine
ToggleHidden(c) ==
    /\ Taps /\ Uncovered /\ Idle /\ CanHide(c)
    /\ rowCall' = [NoRowCall EXCEPT !.st = "sent", !.on = c, !.what = IF Hidden(c) THEN "unhide" ELSE "hide"]
    /\ note' = "none"
    /\ UNCHANGED <<there, listed, hiddenNow, dialogs, rowReports, strayed>>
\* Hide and Unhide of a comment that is gone are refused; deleting it counts as done.
RowServed ==
    /\ rowCall.st = "sent"
    /\ LET c == rowCall.on  del == rowCall.what = "delete"  IN
        /\ rowCall' = [rowCall EXCEPT !.st = "served", !.ok = del \/ c \in written]
        /\ written' = IF del THEN written \ {c} ELSE written
        /\ hiddenThere' = IF rowCall.what = "hide" THEN hiddenThere \cup ({c} \cap written) ELSE hiddenThere \ {c}
    /\ UNCHANGED <<reported, listed, hiddenNow, dialogs, rowReports, note, strayed, rowBounds>>
RowAnswered ==
    /\ rowCall.st = "served" /\ rowCall.ok /\ rowCall' = NoRowCall
    /\ IF rowCall.what = "delete"
       THEN shown' = shown \ {rowCall.on} /\ UNCHANGED hiddenNow
       ELSE hiddenNow' = rowCall.on :> (rowCall.what = "hide") @@ hiddenNow /\ UNCHANGED shown
    /\ UNCHANGED <<there, shownHidden, commentReads, readSeq, dialogs, rowReports, note, strayed, rowBounds>>
RowRefused ==
    /\ rowCall.st = "served" /\ ~rowCall.ok /\ rowCall' = NoRowCall /\ note' = "failed"
    /\ UNCHANGED <<there, listed, hiddenNow, dialogs, rowReports, strayed, rowBounds>>
RowLost ==
    /\ Fails /\ rowCall.st \in {"sent", "served"} /\ rowCall' = NoRowCall /\ note' = "failed"
    /\ UNCHANGED <<there, listed, hiddenNow, dialogs, rowReports>>

(* ---- the menu, Delete, Report ----------------------------------------------------- *)

\* A long press; a screen reader's Report opens the reasons at once, also while a request runs.
OpenMenu(c) ==
    /\ Taps /\ Uncovered /\ c \in shown
    /\ \/ Idle /\ rowMenu' = [on |-> c, step |-> "actions"]
       \/ c \notin Mine /\ rowMenu' = [on |-> c, step |-> "reasons"]
    /\ UNCHANGED <<there, listed, hiddenNow, rowCall, askedRow, rowReports, note, strayed>>
\* Report: the reasons; a reason, or Delete, closes the menu first.
MenuTap ==
    /\ Taps /\ rowMenu # NoMenu
    /\ \/ rowMenu.step = "actions" /\ rowMenu.on \notin Mine /\ rowMenu' = [rowMenu EXCEPT !.step = "reasons"]
            /\ UNCHANGED <<askedRow, rowReports, note>>
       \/ rowMenu.step = "actions" /\ rowMenu' = NoMenu /\ askedRow' = (IF Idle THEN rowMenu.on ELSE 0) /\ UNCHANGED <<rowReports, note>>
       \/ rowMenu.step = "reasons" /\ rowMenu' = NoMenu /\ note' = "none" /\ UNCHANGED askedRow
            /\ rowReports' = rowReports \cup {[on |-> rowMenu.on, st |-> "sent"]}
       \/ rowMenu' = NoMenu /\ UNCHANGED <<askedRow, rowReports, note>>
    /\ UNCHANGED <<there, listed, hiddenNow, rowCall, strayed>>
AlertTap ==
    /\ Taps /\ askedRow # 0 /\ askedRow' = 0
    /\ \/ rowCall' = [NoRowCall EXCEPT !.st = "sent", !.on = askedRow, !.what = "delete"] /\ note' = "none"
       \/ UNCHANGED <<rowCall, note>>
    /\ UNCHANGED <<there, listed, hiddenNow, rowMenu, rowReports, strayed>>
ReportServed(r) ==
    /\ r.st = "sent" /\ reported' = reported \cup ({r.on} \cap written)
    /\ rowReports' = (rowReports \ {r}) \cup {[r EXCEPT !.st = IF r.on \in written THEN "served" ELSE "gone"]}
    /\ UNCHANGED <<written, hiddenThere, listed, hiddenNow, rowCall, dialogs, note, strayed, rowBounds>>
ReportAnswered(r) ==
    /\ r.st # "sent" /\ rowReports' = rowReports \ {r} /\ note' = IF r.st = "served" THEN "thanks" ELSE "failed"
    /\ UNCHANGED <<there, listed, hiddenNow, rowCall, dialogs, strayed, rowBounds>>
ReportFails(r) ==
    /\ Fails /\ rowReports' = rowReports \ {r} /\ note' = "failed"
    /\ UNCHANGED <<there, listed, hiddenNow, rowCall, dialogs>>

\* A writer takes a comment back; the other phone hides or unhides one.
WritersAct ==
    /\ writers > 0 /\ writers' = writers - 1 /\ UNCHANGED <<rowTaps, rowFails>>
    /\ \E c \in written \ Mine :
        \/ written' = written \ {c} /\ hiddenThere' = hiddenThere \ {c} /\ UNCHANGED strayed
        \/ hiddenThere' = (IF c \in hiddenThere THEN hiddenThere \ {c} ELSE hiddenThere \cup {c})
             /\ strayed' = TRUE /\ UNCHANGED written
    /\ UNCHANGED <<reported, listed, hiddenNow, rowCall, dialogs, rowReports, note>>

Init ==
    /\ written = Comments /\ hiddenThere = {} /\ reported = {}
    /\ shown = Comments /\ shownHidden = {} /\ commentReads = {} /\ readSeq = 1 /\ hiddenNow = NoHide
    /\ rowCall = NoRowCall /\ rowMenu = NoMenu /\ askedRow = 0 /\ rowReports = {} /\ note = "none" /\ strayed = FALSE
    /\ rowTaps = MaxRowTaps /\ rowFails = MaxRowFails /\ writers = MaxWriters

Answers ==
    \/ \E r \in commentReads : ReadServed(r) \/ ReadAnswered(r)
    \/ RowServed \/ RowAnswered \/ RowRefused
    \/ \E r \in rowReports : ReportServed(r) \/ ReportAnswered(r)
Next ==
    \/ Answers \/ RowLost
    \/ \E r \in commentReads : ReadFails(r)
    \/ \E r \in rowReports : ReportFails(r)
    \/ \E c \in Comments : ToggleHidden(c) \/ OpenMenu(c)
    \/ ReadPost \/ MenuTap \/ AlertTap \/ WritersAct
LiveSpec == Init /\ [][Next]_vars /\ WF_vars(Answers)

(* ---- properties ------------------------------------------------------------------- *)

\* At rest a row reads "Hidden" exactly when the comment is hidden, also when a read of the post that
\* the server answered before a Hide or Unhide comes in after it.  (Not when a request had no answer,
\* or when another phone hid or unhid.)
HiddenAgrees ==
    Idle /\ commentReads = {} /\ ~strayed => \A c \in shown \cap written : Hidden(c) <=> c \in hiddenThere

\* A request of a row, and a report, end.
RowsBusy == rowCall.st # "none" \/ rowReports # {} \/ commentReads # {}
RowsSettle == RowsBusy ~> ~RowsBusy
=============================================================================
