----------------------------- MODULE PhoneWheel -----------------------------
(***************************************************************************)
(* Edit wheel of one phone (WheelEditor.tsx), against SaveWheel of the     *)
(* server, with the person's other phone that saves the same wheel and     *)
(* spins that draw from it meanwhile.                                      *)
(*                                                                         *)
(* A category is its id and its name; id 0 is a row the server does not    *)
(* know yet.  Trimming and case are left out: a name is a model value, ""  *)
(* the empty one.  The order of the rows is their position.                *)
(***************************************************************************)
EXTENDS Integers, Sequences, FiniteSets, SequencesExt

CONSTANTS
    Names,          \* what the person types
    WheelMin, WheelMax,  \* limits (2 and 12 in the code)
    RowCap,         \* MaxCategoryRows (500), archived rows included
    MaxKeys,        \* bound: edits of a row
    MaxRivals,      \* bound: saves of the other phone, and spins
    MaxBreaks       \* bound: answers that are lost

NoEditorCall == [k |-> "none", st |-> "sent", version |-> 0, list |-> <<>>, base |-> <<>>, res |-> ""]

VARIABLES
    wheelRows, archivedRows, spunRows, wheelVersion, lastRowId,  \* the server
    editorStatus,                   \* loading, ready, error; closed: left
    editorVersion, editorRows, editorBase,
    editorCall,                     \* getWheel or saveWheel under way; savingRef is its kind
    leaveSheet,                     \* leaveOpen
    keys, rivals, breaks

server == <<wheelRows, archivedRows, spunRows, wheelVersion, lastRowId>>
draft  == <<editorVersion, editorRows, editorBase>>
bounds == <<keys, rivals, breaks>>
vars   == <<server, editorStatus, draft, editorCall, leaveSheet, bounds>>

Row(id, name) == [id |-> id, name |-> name]
Ids(rows) == {r.id : r \in ToSet(rows)}

(* ---- SaveWheel ----------------------------------------------------------- *)

NamesTaken(rows) == \E i, j \in DOMAIN rows : i # j /\ rows[i].name = rows[j].name
\* ValidateWheel, which the editor's own checks repeat.
Valid(rows) ==
    /\ Len(rows) \in WheelMin .. WheelMax
    /\ \A r \in ToSet(rows) : r.name # ""
    /\ ~NamesTaken(rows)

NewRows(list) == Len(SelectSeq(list, LAMBDA r : r.id = 0))
KeepsAll == archivedRows                     \* (mutant: rows of past spins are deleted too)
UnusedArchived == archivedRows \ spunRows
TotalRows == Cardinality(archivedRows) + Len(wheelRows)
OverCap(list) == TotalRows + NewRows(list) > RowCap
ArchivedAfter(list) == IF OverCap(list) THEN archivedRows \ UnusedArchived ELSE archivedRows

SaveResult(version, list) ==
    IF version # wheelVersion THEN "wheel_stale"
    ELSE IF ~Valid(list) \/ ~(Ids(list) \ {0} \subseteq Ids(wheelRows)) THEN "invalid"
    ELSE IF Cardinality(ArchivedAfter(list)) + Len(wheelRows) + NewRows(list) > RowCap THEN "invalid"
    ELSE "saved"
\* The new rows get the next ids, in order.
WithIds(list) ==
    [i \in DOMAIN list |->
        IF list[i].id # 0 THEN list[i] ELSE Row(lastRowId + NewRows(SubSeq(list, 1, i)), list[i].name)]
SaveWheel(version, list) ==
    IF SaveResult(version, list) = "saved"
    THEN /\ wheelRows' = WithIds(list) /\ wheelVersion' = wheelVersion + 1
         /\ lastRowId' = lastRowId + NewRows(list)
         /\ archivedRows' = ArchivedAfter(list) \cup (Ids(wheelRows) \ Ids(list))
         /\ UNCHANGED spunRows
    ELSE UNCHANGED server

\* The other phone, which has the wheel as it is: a category less, one more, or one renamed.
RivalLists ==
    {SubSeq(wheelRows, 1, Len(wheelRows) - 1)}
    \cup {Append(wheelRows, Row(0, n)) : n \in Names}
    \cup {[wheelRows EXCEPT ![1].name = n] : n \in Names}
RivalSaves(list) ==
    /\ rivals > 0 /\ rivals' = rivals - 1
    /\ list # wheelRows /\ SaveResult(wheelVersion, list) = "saved" /\ SaveWheel(wheelVersion, list)
    /\ UNCHANGED <<editorStatus, draft, editorCall, leaveSheet, keys, breaks>>
SpinDraws(r) ==
    /\ rivals > 0 /\ rivals' = rivals - 1 /\ spunRows' = spunRows \cup {r.id}
    /\ UNCHANGED <<wheelRows, archivedRows, wheelVersion, lastRowId, editorStatus, draft, editorCall, leaveSheet, keys, breaks>>

(* ---- the editor ---------------------------------------------------------- *)

Saving == editorCall.k \in {"save", "reload"}
CountsDiffer == Len(editorRows) # Len(editorBase)   \* (mutant: only the number of rows is compared)
RowsDiffer == editorRows # editorBase
HasChanges == editorStatus = "ready" /\ RowsDiffer

Served ==
    /\ editorCall.k # "none" /\ editorCall.st = "sent"
    /\ IF editorCall.k = "save"
       THEN /\ SaveWheel(editorCall.version, editorCall.list)
            /\ editorCall' = [editorCall EXCEPT !.st = "answered", !.res = SaveResult(editorCall.version, editorCall.list)]
       ELSE /\ editorCall' = [editorCall EXCEPT !.st = "answered", !.version = wheelVersion, !.list = wheelRows]
            /\ UNCHANGED server
    /\ UNCHANGED <<editorStatus, draft, leaveSheet, bounds>>

\* applyServerWheel
AppliedVersion(call) == editorVersion' = call.version /\ UNCHANGED <<editorRows, editorBase>>  \* (mutant: the rows stay)
Applied(call) == editorVersion' = call.version /\ editorRows' = call.list /\ editorBase' = call.list
Open == editorStatus # "closed"
LoadAnswered ==
    /\ editorCall.k \in {"load", "reload"} /\ editorCall.st = "answered" /\ editorCall' = NoEditorCall
    /\ IF Open THEN Applied(editorCall) /\ editorStatus' = "ready" ELSE UNCHANGED <<draft, editorStatus>>
    /\ UNCHANGED <<server, leaveSheet, bounds>>
SaveAnswered ==
    /\ editorCall.k = "save" /\ editorCall.st = "answered"
    /\ IF editorCall.res = "saved" /\ Open
       THEN editorStatus' = "closed" /\ leaveSheet' = FALSE ELSE UNCHANGED <<editorStatus, leaveSheet>>
    /\ editorCall' = IF editorCall.res = "wheel_stale" THEN [NoEditorCall EXCEPT !.k = "reload"] ELSE NoEditorCall
    /\ UNCHANGED <<server, draft, bounds>>
\* No answer: what is on screen stays, and a save may have been stored or not.
CallLost ==
    /\ editorCall.k # "none" /\ breaks > 0 /\ breaks' = breaks - 1
    /\ editorCall' = NoEditorCall
    /\ editorStatus' = IF editorCall.k = "load" /\ Open THEN "error" ELSE editorStatus
    /\ UNCHANGED <<server, draft, leaveSheet, keys, rivals>>
TryAgain ==
    /\ editorStatus = "error" /\ editorStatus' = "loading" /\ editorCall' = [NoEditorCall EXCEPT !.k = "load"]
    /\ UNCHANGED <<server, draft, leaveSheet, bounds>>

Edits == editorStatus = "ready" /\ ~leaveSheet /\ keys > 0 /\ keys' = keys - 1
Edit(rows) ==
    /\ editorRows' = rows
    /\ UNCHANGED <<server, editorStatus, editorVersion, editorBase, editorCall, leaveSheet, rivals, breaks>>
UpdateRow(i, name) == Edits /\ editorRows[i].name # name /\ Edit([editorRows EXCEPT ![i].name = name])
RemoveRow(i) == Edits /\ Len(editorRows) > WheelMin /\ Edit(RemoveAt(editorRows, i))
AddRow == Edits /\ Len(editorRows) < WheelMax /\ Edit(Append(editorRows, Row(0, "")))

Save ==
    /\ HasChanges /\ Valid(editorRows) /\ ~Saving /\ ~leaveSheet
    /\ editorCall' = [NoEditorCall EXCEPT !.k = "save", !.version = editorVersion, !.list = editorRows, !.base = editorBase]
    /\ UNCHANGED <<server, editorStatus, draft, leaveSheet, bounds>>

\* Back, the swipe or a tab: the guard of beforeRemove.
Back ==
    /\ Open /\ ~leaveSheet
    /\ IF HasChanges THEN leaveSheet' = TRUE /\ UNCHANGED editorStatus
       ELSE editorStatus' = "closed" /\ UNCHANGED leaveSheet
    /\ UNCHANGED <<server, draft, editorCall, bounds>>
ConfirmLeave ==
    /\ leaveSheet /\ leaveSheet' = FALSE /\ editorStatus' = "closed"
    /\ UNCHANGED <<server, draft, editorCall, bounds>>
KeepEditing ==
    /\ leaveSheet /\ leaveSheet' = FALSE /\ UNCHANGED <<server, editorStatus, draft, editorCall, bounds>>

FirstNames == CHOOSE f \in [1 .. WheelMin -> Names] : \A i, j \in 1 .. WheelMin : f[i] = f[j] => i = j
Init ==
    /\ wheelRows = [i \in 1 .. WheelMin |-> Row(i, FirstNames[i])]
    /\ archivedRows = {WheelMin + 1} /\ spunRows \in SUBSET {WheelMin + 1}
    /\ wheelVersion = 1 /\ lastRowId = WheelMin + 1
    /\ editorStatus = "loading" /\ editorVersion = 0 /\ editorRows = <<>> /\ editorBase = <<>>
    /\ editorCall = [NoEditorCall EXCEPT !.k = "load"] /\ leaveSheet = FALSE
    /\ keys = MaxKeys /\ rivals = MaxRivals /\ breaks = MaxBreaks

Answers == Served \/ LoadAnswered \/ SaveAnswered
Next ==
    \/ Answers \/ CallLost \/ TryAgain \/ AddRow \/ Save \/ Back \/ ConfirmLeave \/ KeepEditing
    \/ \E list \in RivalLists : RivalSaves(list)
    \/ \E r \in ToSet(wheelRows) : SpinDraws(r)
    \/ \E i \in DOMAIN editorRows : RemoveRow(i) \/ \E n \in Names \cup {""} : UpdateRow(i, n)
Spec == Init /\ [][Next]_vars
LiveSpec == Spec /\ WF_vars(Answers)

(* ---- properties ------------------------------------------------------------ *)

\* What keeps the next one: a version stands for one list, so an editor, an answer or a save at the
\* server's version has the server's list behind it.
VersionsAgree ==
    /\ wheelVersion \in Nat /\ editorVersion \in Nat
    /\ DOMAIN editorCall = {"k", "st", "version", "list", "base", "res"} /\ editorCall.version \in Nat
    /\ editorVersion <= wheelVersion /\ (editorVersion = wheelVersion => editorBase = wheelRows)
    /\ editorCall.k \in {"load", "reload"} /\ editorCall.st = "answered" =>
          editorCall.version <= wheelVersion /\ (editorCall.version = wheelVersion => editorCall.list = wheelRows)
    /\ editorCall.k = "save" /\ editorCall.st = "sent" =>
          editorCall.version <= wheelVersion /\ (editorCall.version = wheelVersion => editorCall.base = wheelRows)
    /\ editorCall.st = "sent" => editorCall.res = ""

\* A save replaces the very wheel the person had in front when they changed it: what the other phone
\* saved meanwhile is never overwritten unseen, not by the retry after a refusal either
\* (of every step).
SavesOverSeen ==
    editorCall.k = "save" /\ editorCall'.res = "saved" /\ editorCall.st = "sent" => wheelRows = editorCall.base
\* Whatever is saved by whom, a spin's category stays in the table and the table stays within its cap.
SpunRowsStay ==
    /\ spunRows \subseteq archivedRows \cup Ids(wheelRows)
    /\ TotalRows <= RowCap /\ Valid(wheelRows)
\* Unsaved changes are only left behind through the sheet, or by a save that was taken (of
\* every step).
EditsLeftOnPurpose ==
    Open /\ editorStatus' = "closed" =>
        editorRows = editorBase \/ editorStatus # "ready" \/ leaveSheet \/ editorCall.res = "saved"
\* Loading and saving end.
EditorBusy == editorCall.k # "none"
EditorSettles == EditorBusy ~> ~EditorBusy
=============================================================================
