--------------------------- MODULE PhoneSwitches ---------------------------
(***************************************************************************)
(* Settings > Notifications of one phone (NotificationSettingsScreen.tsx): *)
(* the switches the server keeps, read once when the page opens and each   *)
(* saved by its own toggle, against UpdateSettings of the server, which    *)
(* reads the row and writes the whole of it.                               *)
(***************************************************************************)
EXTENDS Integers, Sequences

CONSTANTS
    MaxToggles,     \* bound: switches the person turns
    MaxRefused      \* bound: saves without an answer

Switches == {"reactions", "comments"}
NoPatch == [st |-> "idle", want |-> FALSE, seen |-> <<>>]

VARIABLES
    switchesKept,                   \* the server's row
    shownAs, touched, patches, firstRead, \* values, touched.current, saves and the first read under way
    crossed, lastSaved,             \* history: two saves crossed on the server; switches whose last save was answered
    toggles, refusals

vars == <<switchesKept, shownAs, touched, patches, firstRead, crossed, lastSaved, toggles, refusals>>

FirstRead ==
    /\ firstRead = <<>> /\ firstRead' = <<switchesKept>>
    /\ UNCHANGED <<switchesKept, shownAs, touched, patches, crossed, lastSaved, toggles, refusals>>
FollowsAll(k) == k \in Switches  \* (mutant: the first read overwrites what was touched)
Follows(k) == k \notin touched
FirstShown ==
    /\ Len(firstRead) = 1 /\ firstRead' = <<firstRead[1], firstRead[1]>>
    /\ shownAs' = [k \in Switches |-> IF Follows(k) THEN firstRead[1][k] ELSE shownAs[k]]
    /\ UNCHANGED <<switchesKept, touched, patches, crossed, lastSaved, toggles, refusals>>
\* One save at a time for each switch.
Toggle(k) ==
    /\ patches[k].st = "idle" /\ toggles > 0 /\ toggles' = toggles - 1
    /\ patches' = [patches EXCEPT ![k] = [st |-> "sent", want |-> ~shownAs[k], seen |-> <<>>]]
    /\ touched' = touched \cup {k} /\ shownAs' = [shownAs EXCEPT ![k] = ~@]
    /\ lastSaved' = lastSaved \ {k}
    /\ UNCHANGED <<switchesKept, firstRead, crossed, refusals>>
\* UpdateSettings reads the row, and later writes it with the one switch changed.
PatchReads(k) ==
    /\ patches[k].st = "sent"
    /\ patches' = [patches EXCEPT ![k].st = "read", ![k].seen = <<switchesKept>>]
    /\ UNCHANGED <<switchesKept, shownAs, touched, firstRead, crossed, lastSaved, toggles, refusals>>
PatchWrites(k) ==
    /\ patches[k].st = "read" /\ patches' = [patches EXCEPT ![k].st = "stored"]
    /\ switchesKept' = [patches[k].seen[1] EXCEPT ![k] = patches[k].want]
    /\ crossed' = (crossed \/ patches[k].seen[1] # switchesKept)
    /\ UNCHANGED <<shownAs, touched, firstRead, lastSaved, toggles, refusals>>
PatchAnswered(k) ==
    /\ patches[k].st = "stored" /\ patches' = [patches EXCEPT ![k] = NoPatch]
    /\ shownAs' = [shownAs EXCEPT ![k] = patches[k].want] /\ lastSaved' = lastSaved \cup {k}
    /\ UNCHANGED <<switchesKept, touched, firstRead, crossed, toggles, refusals>>
\* No answer, whether it was stored or not: the switch goes back.
PatchFails(k) ==
    /\ patches[k].st \in {"sent", "stored"} /\ refusals > 0 /\ refusals' = refusals - 1
    /\ patches' = [patches EXCEPT ![k] = NoPatch]
    /\ shownAs' = [shownAs EXCEPT ![k] = ~patches[k].want]
    /\ UNCHANGED <<switchesKept, touched, firstRead, crossed, lastSaved, toggles>>

Init ==
    /\ switchesKept \in [Switches -> BOOLEAN] /\ shownAs = [k \in Switches |-> TRUE] /\ touched = {}
    /\ patches = [k \in Switches |-> NoPatch] /\ firstRead = <<>> /\ crossed = FALSE /\ lastSaved = {}
    /\ toggles = MaxToggles /\ refusals = MaxRefused

Servers == FirstRead \/ FirstShown \/ \E k \in Switches : PatchReads(k) \/ PatchWrites(k) \/ PatchAnswered(k)
Next == Servers \/ \E k \in Switches : Toggle(k) \/ PatchFails(k)
LiveSpec == Init /\ [][Next]_vars /\ WF_vars(Servers)

(* ---- properties ----------------------------------------------------------- *)

\* A switch whose last save was answered shows what is stored: a first read that comes late does not
\* undo it on the screen.  (Two saves that cross on the server may lose one: the row is written whole.)
SwitchesAgree == ~crossed => \A k \in lastSaved : shownAs[k] = switchesKept[k]
\* Every save ends.
SavingSwitch == \E k \in Switches : patches[k].st # "idle"
SwitchesSettle == \A k \in Switches : patches[k].st # "idle" ~> patches[k].st = "idle"
=============================================================================
