---------------------------- MODULE PhoneSettings ----------------------------
(***************************************************************************)
(* The pages of Settings pushed over the Profile page of a phone: the      *)
(* Archive, Blocked accounts, the Password page, and the notice a page     *)
(* leaves behind (lib/settings/notice.ts).                                 *)
(*                                                                         *)
(* Archived entries and blocked people are numbers, a password is a name.  *)
(***************************************************************************)
EXTENDS Integers, FiniteSets

CONSTANTS
    Rows,               \* archived entries, and people blocked, at the start
    NoticeTime,         \* NOTICE_MS, in ticks
    MaxVisits,          \* bound: pages opened
    MaxSettingsFails    \* bound: answers that fail

Passwords == {"first", "second"}
NoDeed == [st |-> "none", row |-> 0]
NoSave == [st |-> "none", current |-> "", next |-> "", answer |-> "", here |-> TRUE]

VARIABLES
    archived, blocked, password,            \* the server
    page,                                   \* "profile", or the page over it
    archiveList, archiveReads, putBack,     \* entries ({} or loaded); reads on their way; the call of a row
    blockedLoaded, blockedList, unblocking,
    currentBox, nextBox, currentError, saving,  \* saving.here: the page that asked is still mounted
    notice, noticeTimers,                   \* the line; the times left of timers that run
    noticeAge,                              \* history: ticks since the line was set
    putBackHere, unblockedHere,             \* history: rows this visit's own deeds took away,
    putBackCrossed,                                \* and rows put back while an older read was on its way
    lateRows,                               \* rows of put backs whose page was left
    settingsVisits, settingsFails

server  == <<archived, blocked, password>>
archive == <<archiveList, archiveReads, putBack, putBackHere, putBackCrossed, lateRows>>
blocks  == <<blockedLoaded, blockedList, unblocking, unblockedHere>>
boxes   == <<currentBox, nextBox, currentError, saving>>
line    == <<notice, noticeTimers, noticeAge>>
bounds  == <<settingsVisits, settingsFails>>
vars    == <<server, page, archive, blocks, boxes, line, bounds>>

Fails == settingsFails > 0 /\ settingsFails' = settingsFails - 1 /\ UNCHANGED settingsVisits
Fine  == UNCHANGED bounds

(* ---- the pages --------------------------------------------------------------- *)

Fresh ==
    /\ archiveList' = {} /\ putBack' = NoDeed /\ putBackHere' = {} /\ putBackCrossed' = {}
    /\ lateRows' = IF putBack.st = "sent" THEN lateRows \cup {putBack.row} ELSE lateRows
    /\ blockedLoaded' = FALSE /\ blockedList' = {} /\ unblocking' = NoDeed /\ unblockedHere' = {}
    /\ currentBox' = "" /\ nextBox' = "" /\ currentError' = FALSE
\* A page is mounted by its opening, and the Archive reads its list then.
OpenPage(p) ==
    /\ page = "profile" /\ settingsVisits > 0 /\ settingsVisits' = settingsVisits - 1 /\ page' = p
    /\ Fresh /\ archiveReads' = IF p = "archive" THEN {{0}} ELSE {}
    /\ UNCHANGED <<server, saving, line, settingsFails>>
\* Profile is in view again; the answers to what the page asked find no one.
Leaves == page' = "profile" /\ Fresh /\ archiveReads' = {}
Back ==
    /\ page # "profile" /\ Leaves
    /\ saving' = [saving EXCEPT !.here = (saving.st = "none")]
    /\ UNCHANGED <<server, line>> /\ Fine

(* ---- the Archive --------------------------------------------------------------- *)

\* The read of the list, {0} until the server has given its answer.  A return of the page to view
\* (another tab, and back) reads again, so two may be on their way.
ArchiveAgain ==
    /\ page = "archive" /\ settingsVisits > 0 /\ settingsVisits' = settingsVisits - 1
    /\ archiveReads' = archiveReads \cup {{0}}
    /\ UNCHANGED <<server, page, archiveList, putBack, putBackHere, putBackCrossed, lateRows, blocks, boxes, line, settingsFails>>
ArchiveServed ==
    /\ {0} \in archiveReads /\ archiveReads' = (archiveReads \ {{0}}) \cup {archived}
    /\ UNCHANGED <<server, page, archiveList, putBack, putBackHere, putBackCrossed, lateRows, blocks, boxes, line>> /\ Fine
ArchiveLands(read) ==
    /\ read # {0} /\ archiveReads' = archiveReads \ {read} /\ archiveList' = read
    /\ UNCHANGED <<server, page, putBack, putBackHere, putBackCrossed, lateRows, blocks, boxes, line>> /\ Fine
ArchiveFails(read) ==
    /\ Fails /\ archiveReads' = archiveReads \ {read}
    /\ UNCHANGED <<server, page, archiveList, putBack, putBackHere, putBackCrossed, lateRows, blocks, boxes, line>>

PutBack(row) ==
    /\ page = "archive" /\ row \in archiveList /\ putBack.st = "none"
    /\ putBack' = [st |-> "sent", row |-> row]
    /\ UNCHANGED <<server, page, archiveList, archiveReads, putBackHere, putBackCrossed, lateRows, blocks, boxes,
                   line>> /\ Fine
\* An entry that is not archived any more is refused (PutBackFails).
PutBackServed ==
    /\ putBack.st = "sent" /\ putBack.row \in archived
    /\ archived' = archived \ {putBack.row} /\ putBack' = [putBack EXCEPT !.st = "done"]
    /\ putBackCrossed' = IF \E read \in archiveReads : putBack.row \in read THEN putBackCrossed \cup {putBack.row} ELSE putBackCrossed
    /\ UNCHANGED <<blocked, password, page, archiveList, archiveReads, putBackHere, lateRows, blocks,
                   boxes, line>> /\ Fine
\* A put back whose page was left is served all the same.
LatePutBack(row) ==
    /\ archived' = archived \ {row} /\ lateRows' = lateRows \ {row}
    /\ putBackCrossed' = IF \E read \in archiveReads : row \in read THEN putBackCrossed \cup {row} ELSE putBackCrossed
    /\ UNCHANGED <<blocked, password, page, archiveList, archiveReads, putBack, putBackHere, blocks,
                   boxes, line>> /\ Fine
Keeps(list, row) == list  \* (mutant: the row is left for the next read to take away)
Without(list, row) == list \ {row}
PutBackDone ==
    /\ putBack.st = "done" /\ putBack' = NoDeed
    /\ archiveList' = Without(archiveList, putBack.row) /\ putBackHere' = putBackHere \cup {putBack.row}
    /\ UNCHANGED <<server, page, archiveReads, putBackCrossed, lateRows, blocks, boxes, line>> /\ Fine
PutBackFails ==
    /\ putBack.st # "none" /\ putBack' = NoDeed
    /\ IF putBack.st = "sent" /\ putBack.row \notin archived THEN Fine ELSE Fails
    /\ UNCHANGED <<server, page, archiveList, archiveReads, putBackHere, putBackCrossed, lateRows, blocks, boxes, line>>

(* ---- Blocked accounts ------------------------------------------------------------ *)

BlockedLands ==
    /\ page = "blocked" /\ ~blockedLoaded /\ blockedLoaded' = TRUE /\ blockedList' = blocked
    /\ UNCHANGED <<server, page, archive, unblocking, unblockedHere, boxes, line>> /\ Fine
\* A list that cannot be read is an empty one.
BlockedFails ==
    /\ page = "blocked" /\ ~blockedLoaded /\ Fails /\ blockedLoaded' = TRUE
    /\ UNCHANGED <<server, page, archive, blockedList, unblocking, unblockedHere, boxes, line>>
Unblock(row) ==
    /\ page = "blocked" /\ row \in blockedList /\ unblocking.st = "none"
    /\ unblocking' = [st |-> "sent", row |-> row]
    /\ UNCHANGED <<server, page, archive, blockedLoaded, blockedList, unblockedHere, boxes, line>> /\ Fine
UnblockServed ==
    /\ unblocking.st = "sent" /\ blocked' = blocked \ {unblocking.row} /\ unblocking' = [unblocking EXCEPT !.st = "done"]
    /\ UNCHANGED <<archived, password, page, archive, blockedLoaded, blockedList, unblockedHere,
                   boxes, line>> /\ Fine
UnblockDone ==
    /\ unblocking.st = "done" /\ unblocking' = NoDeed
    /\ blockedList' = Without(blockedList, unblocking.row) /\ unblockedHere' = unblockedHere \cup {unblocking.row}
    /\ UNCHANGED <<server, page, archive, blockedLoaded, boxes, line>> /\ Fine
UnblockFails ==
    /\ unblocking.st # "none" /\ Fails /\ unblocking' = NoDeed
    /\ UNCHANGED <<server, page, archive, blockedLoaded, blockedList, unblockedHere, boxes, line>>

(* ---- the Password page and the notice ---------------------------------------------- *)

\* Both boxes typed; what was wrong is forgotten with the first letter.
TypeBoxes(current, next) ==
    /\ page = "password" /\ (current # currentBox \/ next # nextBox)
    /\ currentBox' = current /\ nextBox' = next
    /\ currentError' = (currentError /\ current = currentBox)
    /\ UNCHANGED <<server, page, archive, blocks, saving, line>> /\ Fine
\* newPasswordProblem: a weak one, or the current one again.
CanSave == currentBox # "" /\ nextBox \in Passwords /\ nextBox # currentBox
Save ==
    /\ page = "password" /\ CanSave /\ saving.st = "none"
    /\ saving' = [NoSave EXCEPT !.st = "sent", !.current = currentBox, !.next = nextBox]
    /\ UNCHANGED <<server, page, archive, blocks, currentBox, nextBox, currentError, line>> /\ Fine
SaveServed ==
    /\ saving.st = "sent"
    /\ IF saving.current = password
       THEN password' = saving.next /\ saving' = [saving EXCEPT !.st = "answered", !.answer = "ok"]
       ELSE UNCHANGED password /\ saving' = [saving EXCEPT !.st = "answered", !.answer = "wrong"]
    /\ UNCHANGED <<archived, blocked, page, archive, blocks, currentBox, nextBox, currentError, line>> /\ Fine
\* setSettingsNotice: the timer of the line before is cleared, the new one starts.
StartedTimers == noticeTimers \cup {NoticeTime}  \* (mutant: the old timer goes on)
Restarted == {NoticeTime}
Notices(text) == notice' = text /\ noticeTimers' = Restarted /\ noticeAge' = 0
SaveLands ==
    /\ saving.st = "answered" /\ saving.answer = "ok" /\ saving' = NoSave
    /\ Notices("password")
    /\ IF page = "profile" THEN UNCHANGED <<page, archive, blocks, currentBox, nextBox, currentError>>
       ELSE Leaves
    /\ UNCHANGED server /\ Fine
SaveRefused ==
    /\ saving.st = "answered" /\ saving.answer = "wrong" /\ saving' = NoSave
    /\ currentError' = (currentError \/ saving.here)
    /\ UNCHANGED <<server, page, archive, blocks, currentBox, nextBox, line>> /\ Fine
\* No connection, or the keychain took no tokens: the boxes keep their text, whatever the server did.
SaveFails ==
    /\ saving.st # "none" /\ Fails /\ saving' = NoSave
    /\ UNCHANGED <<server, page, archive, blocks, currentBox, nextBox, currentError, line>>
\* The Edit page, saved: Profile again with its notice.
EditSaved ==
    /\ page = "profile" /\ settingsVisits > 0 /\ settingsVisits' = settingsVisits - 1 /\ Notices("Saved.")
    /\ UNCHANGED <<server, page, archive, blocks, boxes, settingsFails>>
\* A timer's end clears the line, whichever it is.
Ticks ==
    /\ noticeTimers # {}
    /\ noticeTimers' = {t - 1 : t \in noticeTimers} \ {0}
    /\ notice' = (IF 1 \in noticeTimers THEN "" ELSE notice)
    /\ noticeAge' = (IF noticeAge < NoticeTime THEN noticeAge + 1 ELSE noticeAge)
    /\ UNCHANGED <<server, page, archive, blocks, boxes>> /\ Fine

Init ==
    /\ archived = Rows /\ blocked = Rows /\ password = "first"
    /\ page = "profile"
    /\ archiveList = {} /\ archiveReads = {} /\ putBack = NoDeed /\ putBackHere = {}
    /\ putBackCrossed = {} /\ lateRows = {}
    /\ blockedLoaded = FALSE /\ blockedList = {} /\ unblocking = NoDeed /\ unblockedHere = {}
    /\ currentBox = "" /\ nextBox = "" /\ currentError = FALSE /\ saving = NoSave
    /\ notice = "" /\ noticeTimers = {} /\ noticeAge = 0
    /\ settingsVisits = MaxVisits /\ settingsFails = MaxSettingsFails

Saving == SaveServed \/ SaveLands \/ SaveRefused
Answers ==
    \/ ArchiveServed \/ PutBackServed \/ PutBackDone \/ BlockedLands \/ UnblockServed \/ UnblockDone
    \/ (putBack.st = "sent" /\ putBack.row \notin archived /\ PutBackFails)
    \/ \E read \in archiveReads : ArchiveLands(read)
Next ==
    \/ Answers \/ Saving \/ Ticks \/ Back \/ ArchiveAgain \/ BlockedFails \/ PutBackFails \/ UnblockFails
    \/ Save \/ SaveFails \/ EditSaved
    \/ \E p \in {"archive", "blocked", "password"} : OpenPage(p)
    \/ \E read \in archiveReads : ArchiveFails(read)
    \/ \E row \in lateRows : LatePutBack(row)
    \/ \E row \in Rows : PutBack(row) \/ Unblock(row)
    \/ \E p \in Passwords : TypeBoxes("first", p) \/ TypeBoxes(p, "first")
LiveSpec == Init /\ [][Next]_vars /\ WF_vars(Saving) /\ WF_vars(Ticks)

(* ---- properties ---------------------------------------------------------------------- *)

\* A row this page put back or unblocked is not shown again, unless a read of the archive that the
\* server answered before the deed lands after it.
RowsGone ==
    /\ blockedList \cap unblockedHere = {}
    /\ archiveList \cap putBackHere \subseteq putBackCrossed
\* What keeps the next one: a line has one timer, which has left what the line has not stood yet.
NoticeTimed ==
    \/ noticeTimers = {} /\ (noticeAge = 0 \/ noticeAge >= NoticeTime)
    \/ noticeAge \in 0 .. NoticeTime - 1 /\ noticeTimers = {NoticeTime - noticeAge} /\ notice # ""
\* A notice stays its whole time unless another takes its place.
NoticeStays == notice # "" \/ noticeAge = 0 \/ noticeAge >= NoticeTime
\* A save ends, and a notice goes.
SettingsBusy == saving.st # "none" \/ notice # ""
SettingsSettle == SettingsBusy ~> ~SettingsBusy
=============================================================================
