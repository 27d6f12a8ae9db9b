--------------------------- MODULE PhonePagesProofs ---------------------------
(***************************************************************************)
(* What the pages and parts of a phone keep, each by itself, for every     *)
(* bound: what MCPhone's NewestKept, GoesByRule and DoneOnce ask of them.  *)
(* Of each page stands first what it keeps always, then that each of its   *)
(* steps keeps it and is one the property allows.  Each part is an         *)
(* instance over the variables of its own, and none needs another.         *)
(*                                                                         *)
(* No older answer replaces a newer one: a read takes the next number, so  *)
(* one read has the newest; what the server answers is no older than       *)
(* anything it answered before; and only the newest read's answer is       *)
(* shown.  The wheel's versions do the same work: a version stands for one *)
(* list.                                                                   *)
(*                                                                         *)
(* What is typed or drawn goes in few ways: the day that is drawn stays    *)
(* because the snapshot follows the server only while the wheel stands     *)
(* still; the comment bar clears with a send of its own, of which it has   *)
(* one, and what is typed after that send goes with it; the entry's form   *)
(* is in step with what it was opened on until its save is done; each      *)
(* touch of the profile form counts; the extras' bar is passed or skipped  *)
(* by a tap.                                                               *)
(*                                                                         *)
(* Nothing is done twice: what was done leaves a mark before it could be   *)
(* done again.  A file is remembered with its key, a tap has a number, a   *)
(* page is busy, a code is spent, an evening is planned, a line has its    *)
(* timer.                                                                  *)
(*                                                                         *)
(* A push token that counts as sent is the server's for the session in     *)
(* place: no POST or DELETE that could move it is on its way.              *)
(***************************************************************************)
EXTENDS Integers, Sequences, FiniteSets, FiniteSetTheorems, SequenceTheorems, WellFoundedInduction, TLAPS

CONSTANTS
    \* PhoneBoard
    Days, MaxEdits, MaxLooks, MaxDrops,
    \* PhonePost
    MaxDeeds, MaxTaps, MaxCuts, MaxSends,
    \* PhoneWheel
    Names, WheelMin, WheelMax, RowCap, MaxKeys, MaxRivals, MaxBreaks,
    \* PhoneEntryPage
    MaxPageActs, MaxPageFaults, MaxOtherPhones,
    \* PhoneInbox
    MaxItems, MaxOpens, MaxUnheard,
    \* PhoneFigures
    MaxFigures, MaxFocus, MaxFigureFails,
    \* PhoneToday
    MaxChanges, MaxAsks, MaxMisses, ZeroRetries,
    \* PhoneEntry
    PhotosMax, MaxActs, MaxFaults, MaxOthers,
    \* PhoneProfile
    MaxTypings, MaxTaken, MaxSnags,
    \* PhoneLaunch
    MaxLaunchTaps, MaxEntries, MaxLaunchFails,
    \* PhoneReset
    MaxResetSends, MaxHolds,
    \* PhoneReminder
    DaysAhead, MaxNights, MaxTurns, MaxSlips,
    \* PhoneDisc
    Turn, Counts, MinTurns, MaxDiscSpins,
    \* PhoneSettings
    Rows, NoticeTime, MaxVisits, MaxSettingsFails,
    \* PhonePush
    People, MaxSessions, MaxEvents, Limit

VARIABLES
    \* PhoneBoard
    shelf, edition, account, held, boardStatus, refreshing, loadingMore, moreFailed, boardSeq, moreBusy,
    boardCalls, looks, drops,
    \* PhonePost
    thread, last, deeds, canComment, gone, post, postStatus, postSeq, postCalls, replyTo, commenting,
    text, photo, sendingRef, drawn, barFrom, memory, filesUp, sends, tries, row, taps, cuts,
    \* PhoneWheel
    wheelRows, archivedRows, spunRows, wheelVersion, lastRowId, editorStatus, editorVersion, editorRows,
    editorBase, editorCall, leaveSheet, keys, rivals, breaks,
    \* PhoneEntryPage
    kept, keptV, shownEntry, entryStatus, entrySeq, entryCalls, pageMenu, deedsRun, deedMessage, where,
    popped, backTapped, pageActs, pageFaults, otherPhones,
    \* PhoneInbox
    arrived, seenTo, dot, asking, inbox, inboxStatus, inboxReads, inboxOpen, inboxFrom, newest,
    dotCrossed, opens, unheard,
    \* PhoneFigures
    figures, mounted, loading, summary, newestAsk, figureAsks, focuses, figureFails,
    \* PhoneToday
    day, due, still, today, anchor, requesting, failure, spinning, pendingSpin, again, loadFailure, queue,
    call, retryAt, retryUsed, zeroAt, zeroTries, phase, bonusActive, sheet, afterSeq, stable, write, told,
    asks, misses,
    \* PhoneEntry
    mode, entry, settled, draft, picked, picking, remembered, uploads, save, busy, done, ended,
    photoMessage, message, leaveOpen, allowLeave, saved, open, covered, pops, base, lost, acts, faults,
    others,
    \* PhoneProfile
    formMode, profile, me, takenNames, boxes, usernameEdited, suggestionFetched, usernameStatus,
    usernameError, verdictOf, debounce, checks, suggestion, avatar, uploadedAvatar, avatarUploads, submit,
    formError, formOpen, typings, snags,
    \* PhoneLaunch
    status, extrasPending, fonts, introResolved, splashUp, restoring, rootPage, appTab, top, loginTyped,
    loginError, loginFormError, loginCall, launchTaps, lastTap, handled, launchReads, followed,
    tapOvertaken, entriesLeft, launchFails,
    \* PhoneReset
    codeRow, codeFresh, lastMail, passwordSet, step, codeTyped, codeError, resetFormError, sendingReset,
    maybeChanged, codeSpent, forgot, reset, adrift, lostSince, prevRow, sendsLeft, holds,
    \* PhoneReminder
    evening, nextOpen, reminderOn, reminderAsked, permission, planned, chain, job, askStage, rowOn, rowToggle,
    rowRead, failedPlan, until, turns, slips,
    \* PhoneDisc
    shownDay, keptDay, turn, turning, discPhase, bonus, baseId, disc, motion, reports,
    \* PhoneSettings
    archived, blocked, password, page, archiveList, archiveReads, putBack, blockedLoaded, blockedList,
    unblocking, currentBox, nextBox, currentError, saving, notice, noticeTimers, noticeAge, putBackHere,
    unblockedHere, putBackCrossed, lateRows, settingsVisits, settingsFails,
    \* PhonePush
    live, who, pushRow, kc, mem, count, writing, loggedOut, user, registered, before, reg, pushPost, en,
    pending, mayHave, keptOuts, drain, over, dropped, left

(* ---- A post's page (usePost) ------------------------------------------- *)

Post == INSTANCE PhonePost

LEMMA PostStarts == Post!Init => Post!PostReadsInOrder
BY DEF Post!Init, Post!PostReadsInOrder, Post!PostCall, Post!NoPost

LEMMA NewCall ==
    ASSUME NEW seq, NEW c, c = Post!PostCall(seq)
    PROVE  DOMAIN c = {"seq", "st", "ans"} /\ DOMAIN c.ans = {"has", "v", "list", "can"}
           /\ c.seq = seq /\ c.st = "sent" /\ c.ans.v = 0 /\ c.ans.has = FALSE
BY DEF Post!PostCall, Post!NoPost

LEMMA LoadKeeps ==
    ASSUME Post!PostReadsInOrder, Post!Load, UNCHANGED <<deeds, post>>
    PROVE  Post!PostReadsInOrder'
<1> DEFINE c == Post!PostCall(postSeq + 1)
<1>1. DOMAIN c = {"seq", "st", "ans"} /\ DOMAIN c.ans = {"has", "v", "list", "can"}
           /\ c.seq = postSeq + 1 /\ c.st = "sent" /\ c.ans.v = 0 /\ c.ans.has = FALSE
  BY NewCall
<1>2. postSeq' = postSeq + 1 /\ postCalls' = postCalls \cup {c}
  BY DEF Post!Load
<1> HIDE DEF c
<1> QED BY <1>1, <1>2 DEF Post!PostReadsInOrder

LEMMA CommentRefusedKeeps ==
    ASSUME Post!PostReadsInOrder, NEW s, Post!CommentRefused(s)
    PROVE  Post!PostReadsInOrder' /\ Post!PostIsNewest
<1>1. UNCHANGED <<deeds, post>> /\ (Post!Load \/ UNCHANGED <<postSeq, postCalls>>)
  BY DEF Post!CommentRefused, Post!there
<1> QED BY <1>1, LoadKeeps DEF Post!PostReadsInOrder, Post!PostIsNewest

LEMMA CommentServedKeeps ==
    ASSUME Post!PostReadsInOrder, NEW s, Post!CommentServed(s)
    PROVE  Post!PostReadsInOrder' /\ Post!PostIsNewest
<1>1. UNCHANGED <<deeds, post, postSeq, postCalls>>
  BY DEF Post!CommentServed, Post!page
<1> QED BY <1>1 DEF Post!PostReadsInOrder, Post!PostIsNewest

LEMMA PostServedKeeps ==
    ASSUME Post!PostReadsInOrder, NEW c \in postCalls, Post!PostServed(c)
    PROVE  Post!PostReadsInOrder' /\ Post!PostIsNewest
<1>1. UNCHANGED <<deeds, post, postSeq>>
  BY DEF Post!PostServed, Post!there
<1>2. PICK d : /\ postCalls' = (postCalls \ {c}) \cup {d}
               /\ DOMAIN d = {"seq", "st", "ans"} /\ DOMAIN d.ans = {"has", "v", "list", "can"}
               /\ d.seq = c.seq
               /\ \/ d.st = "served" /\ d.ans.v = deeds
                  \/ d.st = "not_found" /\ d.ans.v = 0 /\ d.ans.has = FALSE
  <2> DEFINE d == [c EXCEPT !.st = IF gone THEN "not_found" ELSE "served", !.ans = IF gone THEN Post!NoPost ELSE Post!PostRead]
  <2>1. postCalls' = (postCalls \ {c}) \cup {d}
    BY DEF Post!PostServed
  <2>2. DOMAIN c = {"seq", "st", "ans"}
    BY DEF Post!PostReadsInOrder
  <2>3. CASE gone
    <3>1. DOMAIN d = {"seq", "st", "ans"} /\ d.seq = c.seq /\ d.st = "not_found" /\ d.ans = Post!NoPost
      BY <2>2, <2>3
    <3> HIDE DEF d
    <3> QED BY <2>1, <3>1 DEF Post!NoPost
  <2>4. CASE ~gone
    <3>1. DOMAIN d = {"seq", "st", "ans"} /\ d.seq = c.seq /\ d.st = "served" /\ d.ans = Post!PostRead
      BY <2>2, <2>4
    <3> HIDE DEF d
    <3> QED BY <2>1, <3>1 DEF Post!PostRead
  <2> QED BY <2>3, <2>4
<1>3. deeds \in Nat /\ post.v \in 0 .. deeds /\ postSeq \in Nat
  BY DEF Post!PostReadsInOrder
<1> QED BY <1>1, <1>2, <1>3 DEF Post!PostReadsInOrder, Post!PostIsNewest

LEMMA PostKeeps ==
    ASSUME Post!PostReadsInOrder, Post!Next \/ UNCHANGED Post!vars
    PROVE  Post!PostReadsInOrder' /\ Post!PostIsNewest
<1>1. ASSUME NEW c \in postCalls, Post!PostServed(c)
      PROVE  Post!PostReadsInOrder' /\ Post!PostIsNewest
  BY <1>1, PostServedKeeps
<1>2. ASSUME NEW c \in postCalls, Post!PostAnswered(c)
      PROVE  Post!PostReadsInOrder' /\ Post!PostIsNewest
  <2>1. UNCHANGED <<deeds, postSeq>> /\ postCalls' = postCalls \ {c} /\ post' \in {post, c.ans}
    BY <1>2 DEF Post!PostAnswered, Post!there
  <2>2. post' # post => c.seq = postSeq /\ post' = c.ans
    BY <1>2 DEF Post!PostAnswered, Post!CurrentCall, Post!NewestCall
  <2>3. CASE post' = post
    BY <2>1, <2>3 DEF Post!PostReadsInOrder, Post!PostIsNewest
  <2>4. CASE post' # post
    <3>1. \A b \in postCalls' : b.seq # postSeq
      BY <2>1, <2>2, <2>4 DEF Post!PostReadsInOrder
    <3>2. DOMAIN post' = {"has", "v", "list", "can"} /\ post'.v \in 0 .. deeds
      BY <2>2, <2>4 DEF Post!PostReadsInOrder
    <3>3. Post!PostIsNewest
      BY <2>2, <2>4 DEF Post!PostReadsInOrder, Post!PostIsNewest
    <3> QED BY <2>1, <3>1, <3>2, <3>3 DEF Post!PostReadsInOrder
  <2> QED BY <2>3, <2>4
<1>3. ASSUME NEW c \in postCalls, Post!PostLost(c)
      PROVE  Post!PostReadsInOrder' /\ Post!PostIsNewest
  BY <1>3 DEF Post!PostLost, Post!PostReadsInOrder, Post!PostIsNewest, Post!there, Post!page
<1>4. ASSUME NEW s, Post!UploadEnds(s)
      PROVE  Post!PostReadsInOrder' /\ Post!PostIsNewest
  BY <1>4 DEF Post!UploadEnds, Post!PostReadsInOrder, Post!PostIsNewest, Post!there, Post!page
<1>5. ASSUME NEW s, Post!CommentStarts(s)
      PROVE  Post!PostReadsInOrder' /\ Post!PostIsNewest
  BY <1>5 DEF Post!CommentStarts, Post!PostReadsInOrder, Post!PostIsNewest, Post!there, Post!page
<1>6. ASSUME NEW s, Post!CommentServed(s)
      PROVE  Post!PostReadsInOrder' /\ Post!PostIsNewest
  BY <1>6, CommentServedKeeps
<1>7. ASSUME NEW s, Post!CommentAnswered(s)
      PROVE  Post!PostReadsInOrder' /\ Post!PostIsNewest
  BY <1>7 DEF Post!CommentAnswered, Post!PostReadsInOrder, Post!PostIsNewest, Post!there, Post!page
<1>8. ASSUME NEW s, Post!CommentRefused(s)
      PROVE  Post!PostReadsInOrder' /\ Post!PostIsNewest
  BY <1>8, CommentRefusedKeeps
<1>9. CASE Post!DeleteServed
  BY <1>9 DEF Post!DeleteServed, Post!PostReadsInOrder, Post!PostIsNewest, Post!there, Post!page
<1>10. CASE Post!DeleteAnswered
  BY <1>10 DEF Post!DeleteAnswered, Post!PostReadsInOrder, Post!PostIsNewest, Post!there, Post!page
<1>11. CASE Post!Render
  BY <1>11 DEF Post!Render, Post!PostReadsInOrder, Post!PostIsNewest, Post!there, Post!page
<1>12. ASSUME NEW s, Post!UploadFails(s)
      PROVE  Post!PostReadsInOrder' /\ Post!PostIsNewest
  BY <1>12 DEF Post!UploadFails, Post!PostReadsInOrder, Post!PostIsNewest, Post!there, Post!page
<1>13. ASSUME NEW s, Post!CommentLost(s)
      PROVE  Post!PostReadsInOrder' /\ Post!PostIsNewest
  BY <1>13 DEF Post!CommentLost, Post!PostReadsInOrder, Post!PostIsNewest, Post!there, Post!page
<1>14. CASE Post!DeleteLost
  BY <1>14 DEF Post!DeleteLost, Post!PostReadsInOrder, Post!PostIsNewest, Post!there, Post!page
<1>15. CASE Post!Focus
  <2>1. Post!Load /\ UNCHANGED <<deeds, post>>
    BY <1>15 DEF Post!Focus, Post!there
  <2> QED BY <2>1, LoadKeeps DEF Post!PostReadsInOrder, Post!PostIsNewest
<1>16. CASE Post!CancelReply
  BY <1>16 DEF Post!CancelReply, Post!PostReadsInOrder, Post!PostIsNewest, Post!there, Post!page
<1>17. CASE Post!Type
  BY <1>17 DEF Post!Type, Post!PostReadsInOrder, Post!PostIsNewest, Post!there, Post!page
<1>18. CASE Post!Pick
  BY <1>18 DEF Post!Pick, Post!PostReadsInOrder, Post!PostIsNewest, Post!there, Post!page
<1>19. CASE Post!DropPhoto
  BY <1>19 DEF Post!DropPhoto, Post!PostReadsInOrder, Post!PostIsNewest, Post!there, Post!page
<1>20. CASE Post!SendTap
  BY <1>20 DEF Post!SendTap, Post!PostReadsInOrder, Post!PostIsNewest, Post!there, Post!page
<1>21. ASSUME NEW c, Post!StartReply(c)
      PROVE  Post!PostReadsInOrder' /\ Post!PostIsNewest
  BY <1>21 DEF Post!StartReply, Post!PostReadsInOrder, Post!PostIsNewest, Post!there, Post!page
<1>22. ASSUME NEW c, Post!Delete(c)
      PROVE  Post!PostReadsInOrder' /\ Post!PostIsNewest
  BY <1>22 DEF Post!Delete, Post!PostReadsInOrder, Post!PostIsNewest, Post!there, Post!page
<1>23. CASE Post!Others
  BY <1>23 DEF Post!Others, Post!PostReadsInOrder, Post!PostIsNewest, Post!Deed, Post!there,
     Post!page
<1>24. CASE UNCHANGED Post!vars
  BY <1>24 DEF Post!PostReadsInOrder, Post!PostIsNewest, Post!vars, Post!there, Post!page
<1> QED BY <1>1, <1>2, <1>3, <1>4, <1>5, <1>6, <1>7, <1>8, <1>9, <1>10, <1>11, <1>12, <1>13, <1>14,
     <1>15, <1>16, <1>17, <1>18, <1>19, <1>20, <1>21, <1>22, <1>23, <1>24 DEF Post!Next, Post!Comes, Post!Fails,
     Post!Does

(* ---- The comment bar of a post --------------------------------------------- *)

LEMMA BarStarts == Post!Init => Post!BarHasOneSend
BY DEF Post!Init, Post!BarHasOneSend, Post!Blank

\* What leaves the bar, the sends and the comment alone.
LEMMA BarRests ==
    ASSUME Post!BarHasOneSend, UNCHANGED <<Post!bar, sends, tries, commenting>>
    PROVE  Post!BarHasOneSend' /\ Post!DraftKept
BY DEF Post!BarHasOneSend, Post!DraftKept, Post!bar, Post!OfBar, Post!UnderWay

\* What changes the text alone.
LEMMA TextAlone ==
    ASSUME Post!BarHasOneSend, UNCHANGED <<sendingRef, barFrom, sends, tries, commenting>>,
           DOMAIN text' = {"at", "n"}, text'.n \in Nat, text'.n = 0 => text.n = 0
    PROVE  Post!BarHasOneSend' /\ Post!DraftKept
BY DEF Post!BarHasOneSend, Post!DraftKept, Post!OfBar, Post!UnderWay

LEMMA SendTapKeeps ==
    ASSUME Post!BarHasOneSend, Post!SendTap
    PROVE  Post!BarHasOneSend' /\ Post!DraftKept
<1>1. PICK s : /\ sends' = sends \cup {s} /\ s.n = tries + 1
               /\ DOMAIN s = {"n", "text", "photo", "up", "to", "saved", "st"}
  <2> DEFINE up == IF photo = 0 THEN 0 ELSE memory'[photo]
             at == IF up = tries + 1 \/ Post!Uploading(up) THEN "uploading" ELSE "ready"
             s == [n |-> tries + 1, text |-> text.n, photo |-> photo, up |-> up, to |-> Post!NoReply,
                   saved |-> Post!NoComment, st |-> at]
  <2>1. sends' = sends \cup {s}
    BY DEF Post!SendTap
  <2> HIDE DEF up, at
  <2>2. s.n = tries + 1 /\ DOMAIN s = {"n", "text", "photo", "up", "to", "saved", "st"}
    OBVIOUS
  <2> HIDE DEF s
  <2> QED BY <2>1, <2>2
<1>2. /\ UNCHANGED <<text, barFrom, commenting>>
      /\ tries' = tries + 1 /\ sendingRef' = TRUE
      /\ ~sendingRef
  BY DEF Post!SendTap, Post!MaySend
<1>3. \A t \in sends : ~Post!OfBar(t)
  BY <1>2 DEF Post!BarHasOneSend
<1>4. tries \in Nat /\ barFrom \in 1 .. tries + 1
  BY DEF Post!BarHasOneSend
<1>5. tries' \in Nat /\ barFrom' \in 1 .. tries' + 1
  BY <1>2, <1>4
<1>6. \A t \in sends' : t = s \/ (t \in sends /\ ~Post!OfBar(t)')
  BY <1>1, <1>2, <1>3 DEF Post!OfBar
<1>7. \A t \in sends' : DOMAIN t = {"n", "text", "photo", "up", "to", "saved", "st"} /\ t.n \in 1 .. tries'
  BY <1>1, <1>2, <1>4 DEF Post!BarHasOneSend
<1> QED BY <1>1, <1>2, <1>5, <1>6, <1>7 DEF Post!BarHasOneSend, Post!DraftKept, Post!UnderWay

\* A send that goes, with the bar told of it when it is the bar's own.
LEMMA SendGoes ==
    ASSUME Post!BarHasOneSend, NEW s \in sends,
           sends' \subseteq sends \ {s}, UNCHANGED <<tries, barFrom>>,
           Post!OfBar(s) => sendingRef' = FALSE, ~Post!OfBar(s) => (sendingRef => sendingRef'),
           DOMAIN text' = {"at", "n"}, text'.n \in Nat,
           commenting' => \E t \in sends' : Post!UnderWay(t)
    PROVE  Post!BarHasOneSend'
<1>1. \A t \in sends' : t \in sends /\ t # s /\ (Post!OfBar(t)' = Post!OfBar(t))
  BY DEF Post!OfBar
<1>2. \A t \in sends' : Post!OfBar(t) => ~Post!OfBar(s)
  BY <1>1 DEF Post!BarHasOneSend
<1>3. \A t \in sends' : Post!OfBar(t)' => sendingRef' /\ \A u \in sends' : Post!OfBar(u)' => u = t
  BY <1>1, <1>2 DEF Post!BarHasOneSend
<1>4. \A t \in sends' : DOMAIN t = {"n", "text", "photo", "up", "to", "saved", "st"} /\ t.n \in 1 .. tries'
  BY <1>1 DEF Post!BarHasOneSend
<1>5. tries' \in Nat /\ barFrom' \in 1 .. tries' + 1
  BY DEF Post!BarHasOneSend
<1> QED BY <1>3, <1>4, <1>5 DEF Post!BarHasOneSend, Post!UnderWay

\* A send that goes on: its record changes and nothing else of the bar.
LEMMA SendGoesOn ==
    ASSUME Post!BarHasOneSend, NEW s \in sends, NEW r,
           sends' = (sends \ {s}) \cup {r}, UNCHANGED <<Post!bar, tries>>,
           DOMAIN r = DOMAIN s, r.n = s.n,
           commenting' => commenting \/ Post!UnderWay(r), Post!UnderWay(s) => Post!UnderWay(r)
    PROVE  Post!BarHasOneSend' /\ Post!DraftKept
<1>1. UNCHANGED <<text, sendingRef, barFrom>>
  BY DEF Post!bar
<1>2. \A t \in sends' : t = r \/ (t \in sends /\ t # s)
  OBVIOUS
<1>3. Post!OfBar(r)' = Post!OfBar(s) /\ \A t : Post!OfBar(t)' = Post!OfBar(t)
  BY <1>1 DEF Post!OfBar
<1>4. \A t \in sends' : Post!OfBar(t)' => sendingRef' /\ \A u \in sends' : Post!OfBar(u)' => u = t
  BY <1>1, <1>2, <1>3 DEF Post!BarHasOneSend
<1>5. \A t \in sends' : DOMAIN t = {"n", "text", "photo", "up", "to", "saved", "st"} /\ t.n \in 1 .. tries'
  BY <1>2 DEF Post!BarHasOneSend
<1>6. commenting' => \E t \in sends' : Post!UnderWay(t)
  BY DEF Post!BarHasOneSend
<1>7. tries' \in Nat /\ barFrom' \in 1 .. tries' + 1
  BY <1>1 DEF Post!BarHasOneSend
<1> QED BY <1>1, <1>4, <1>5, <1>6, <1>7 DEF Post!BarHasOneSend, Post!DraftKept, Post!UnderWay

LEMMA UploadEndsKeeps ==
    ASSUME Post!BarHasOneSend, NEW s \in sends, Post!UploadEnds(s)
    PROVE  Post!BarHasOneSend' /\ Post!DraftKept
<1> DEFINE after(t) == IF t.st = "uploading" /\ t.up = s.n THEN [t EXCEPT !.st = "ready"] ELSE t
<1>1. sends' = {after(t) : t \in sends} /\ UNCHANGED <<text, sendingRef, barFrom, tries, commenting>>
  BY DEF Post!UploadEnds, Post!bar
<1>2. \A t \in sends : DOMAIN after(t) = DOMAIN t /\ after(t).n = t.n /\ (Post!UnderWay(t) => after(t) = t)
  BY DEF Post!BarHasOneSend, Post!UnderWay
<1>3. \A t \in sends : Post!OfBar(after(t))' = Post!OfBar(t)
  BY <1>1, <1>2 DEF Post!OfBar
<1> HIDE DEF after
<1>4. \A t \in sends' : Post!OfBar(t)' => sendingRef' /\ \A u \in sends' : Post!OfBar(u)' => u = t
  BY <1>1, <1>3 DEF Post!BarHasOneSend
<1>5. \A t \in sends' : DOMAIN t = {"n", "text", "photo", "up", "to", "saved", "st"} /\ t.n \in 1 .. tries'
  BY <1>1, <1>2 DEF Post!BarHasOneSend
<1>6. commenting' => \E t \in sends' : Post!UnderWay(t)
  BY <1>1, <1>2 DEF Post!BarHasOneSend
<1>7. tries' \in Nat /\ barFrom' \in 1 .. tries' + 1
  BY <1>1 DEF Post!BarHasOneSend
<1> QED BY <1>1, <1>4, <1>5, <1>6, <1>7 DEF Post!BarHasOneSend, Post!DraftKept, Post!UnderWay

LEMMA BarGoesKeeps ==
    ASSUME Post!BarHasOneSend, Post!BarGoes, UNCHANGED <<sends, tries, commenting>>
    PROVE  Post!BarHasOneSend' /\ Post!DraftKept
<1>1. CASE Post!BarShown'
  <2>1. UNCHANGED <<sendingRef, barFrom>> /\ DOMAIN text' = DOMAIN text /\ text'.n = text.n
    BY <1>1 DEF Post!BarGoes, Post!BarHasOneSend
  <2> QED BY <2>1, TextAlone DEF Post!BarHasOneSend
<1>2. CASE ~Post!BarShown'
  <2>1. barFrom' = tries + 1 /\ text' = Post!Blank
    BY <1>2 DEF Post!BarGoes
  <2>2. DOMAIN text' = {"at", "n"} /\ text'.n \in Nat
    BY <2>1 DEF Post!Blank
  <2>3. tries' \in Nat /\ barFrom' \in 1 .. tries' + 1
    BY <2>1 DEF Post!BarHasOneSend
  <2>4. \A t \in sends' : ~Post!OfBar(t)'
    BY <2>1 DEF Post!BarHasOneSend, Post!OfBar
  <2> QED BY <1>2, <2>2, <2>3, <2>4 DEF Post!BarHasOneSend, Post!DraftKept, Post!UnderWay
<1> QED BY <1>1, <1>2

LEMMA CommentStartsKeeps ==
    ASSUME Post!BarHasOneSend, NEW s \in sends, Post!CommentStarts(s)
    PROVE  Post!BarHasOneSend' /\ Post!DraftKept
<1>1. s.st = "ready" /\ UNCHANGED <<post, postStatus, tries>>
  BY DEF Post!CommentStarts, Post!page
<1>2. CASE commenting \/ ~post.has
  <2>1. sends' = sends \ {s} /\ Post!BarClears(s) /\ UNCHANGED commenting
    BY <1>2 DEF Post!CommentStarts
  <2>2. UNCHANGED barFrom /\ DOMAIN text' = {"at", "n"} /\ text'.n \in Nat
    BY <2>1 DEF Post!BarClears, Post!BarHasOneSend, Post!Blank, Post!bar
  <2>3. /\ Post!OfBar(s) => sendingRef' = FALSE
        /\ ~Post!OfBar(s) => UNCHANGED text /\ (sendingRef => sendingRef')
    BY <2>1 DEF Post!BarClears, Post!bar
  <2>4. commenting => \E t \in sends' : t \in sends /\ Post!UnderWay(t)
    BY <1>1, <2>1 DEF Post!BarHasOneSend, Post!UnderWay
  <2>5. Post!BarHasOneSend'
    BY <1>1, <2>1, <2>2, <2>3, <2>4, SendGoes
  <2>6. ASSUME text.n # 0, text'.n = 0, Post!BarShown'
        PROVE  Post!OfBar(s) /\ \E t \in sends : Post!UnderWay(t) /\ ~Post!OfBar(t)
    <3>1. Post!OfBar(s)
      BY <2>3, <2>6
    <3>2. post.has
      BY <1>1, <2>6 DEF Post!BarShown, Post!Ready
    <3>3. PICK t \in sends' : t \in sends /\ Post!UnderWay(t)
      BY <1>2, <2>4, <3>2
    <3> QED BY <2>1, <3>1, <3>3 DEF Post!BarHasOneSend
  <2>7. s \in sends \ sends'
    BY <2>1
  <2> QED BY <1>1, <2>5, <2>6, <2>7 DEF Post!DraftKept
<1>3. CASE ~commenting /\ post.has
  <2> DEFINE r == [s EXCEPT !.st = "sent", !.to = replyTo]
  <2>1. sends' = (sends \ {s}) \cup {r} /\ UNCHANGED <<Post!bar, tries>>
    BY <1>3 DEF Post!CommentStarts
  <2>2. DOMAIN r = DOMAIN s /\ r.n = s.n /\ Post!UnderWay(r)
    BY DEF Post!BarHasOneSend, Post!UnderWay
  <2> HIDE DEF r
  <2> QED BY <2>1, <2>2, SendGoesOn
<1> QED BY <1>2, <1>3

LEMMA CommentServedGoesOn ==
    ASSUME Post!BarHasOneSend, NEW s \in sends, Post!CommentServed(s)
    PROVE  Post!BarHasOneSend' /\ Post!DraftKept
<1>1. UNCHANGED <<Post!bar, tries, commenting>>
  BY DEF Post!CommentServed
<1>2. PICK st \in {"saved", "not_found", "comments_off"} :
         \E c : sends' = (sends \ {s}) \cup {[s EXCEPT !.st = st, !.saved = c]}
  <2>1. \A st : [s EXCEPT !.st = st] = [s EXCEPT !.st = st, !.saved = s.saved]
    BY DEF Post!BarHasOneSend
  <2>2. CASE \E st \in {"not_found", "comments_off"} : sends' = Post!Sent(s, st)
    BY <2>1, <2>2 DEF Post!Sent
  <2>3. CASE \E c : sends' = (sends \ {s}) \cup {[s EXCEPT !.st = "saved", !.saved = c]}
    BY <2>3
  <2> QED BY <2>2, <2>3 DEF Post!CommentServed
<1>3. PICK c : sends' = (sends \ {s}) \cup {[s EXCEPT !.st = st, !.saved = c]}
  BY <1>2
<1> DEFINE r == [s EXCEPT !.st = st, !.saved = c]
<1>4. DOMAIN r = DOMAIN s /\ r.n = s.n /\ r.st = st
  BY DEF Post!BarHasOneSend
<1>5. sends' = (sends \ {s}) \cup {r}
  BY <1>3
<1> HIDE DEF r
<1>6. Post!UnderWay(r)
  BY <1>4 DEF Post!UnderWay
<1> QED BY <1>1, <1>4, <1>5, <1>6, SendGoesOn

LEMMA CommentAnsweredClears ==
    ASSUME Post!BarHasOneSend, NEW s \in sends, Post!CommentAnswered(s)
    PROVE  Post!BarHasOneSend' /\ Post!DraftKept
<1>1. /\ s.st = "saved" /\ sends' = sends \ {s} /\ commenting' = FALSE
      /\ UNCHANGED <<tries, cuts>> /\ Post!BarClears(s)
  BY DEF Post!CommentAnswered
<1>2. UNCHANGED barFrom /\ DOMAIN text' = {"at", "n"} /\ text'.n \in Nat
  BY <1>1 DEF Post!BarClears, Post!BarHasOneSend, Post!Blank, Post!bar
<1>3. /\ Post!OfBar(s) => sendingRef' = FALSE
      /\ ~Post!OfBar(s) => UNCHANGED text /\ (sendingRef => sendingRef')
  BY <1>1 DEF Post!BarClears, Post!bar
<1>4. Post!BarHasOneSend'
  BY <1>1, <1>2, <1>3, SendGoes
<1>5. s \in sends \ sends'
  BY <1>1
<1> QED BY <1>1, <1>3, <1>4, <1>5 DEF Post!DraftKept

\* A send that fails leaves the text.
LEMMA SendFails ==
    ASSUME Post!BarHasOneSend, NEW s \in sends, Post!BarKeeps(s), sends' \subseteq sends \ {s}, UNCHANGED tries,
           commenting' => \E t \in sends' : Post!UnderWay(t)
    PROVE  Post!BarHasOneSend' /\ Post!DraftKept
<1>1. /\ UNCHANGED <<text, barFrom>>
      /\ Post!OfBar(s) => sendingRef' = FALSE
  BY DEF Post!BarKeeps
<1>2. ~Post!OfBar(s) => (sendingRef => sendingRef')
  BY DEF Post!BarKeeps
<1>3. DOMAIN text' = {"at", "n"} /\ text'.n \in Nat
  BY <1>1 DEF Post!BarHasOneSend
<1> QED BY <1>1, <1>2, <1>3, SendGoes DEF Post!DraftKept

LEMMA BarKeepsDraft ==
    ASSUME Post!BarHasOneSend, Post!Next \/ UNCHANGED Post!vars
    PROVE  Post!BarHasOneSend' /\ Post!DraftKept
<1>1. ASSUME NEW c, Post!PostServed(c)
      PROVE  Post!BarHasOneSend' /\ Post!DraftKept
  BY <1>1, BarRests DEF Post!PostServed, Post!bar
<1>2. ASSUME NEW c, Post!PostAnswered(c)
      PROVE  Post!BarHasOneSend' /\ Post!DraftKept
  BY <1>2, BarGoesKeeps DEF Post!PostAnswered
<1>3. ASSUME NEW c, Post!PostLost(c)
      PROVE  Post!BarHasOneSend' /\ Post!DraftKept
  BY <1>3, BarRests DEF Post!PostLost, Post!bar
<1>4. ASSUME NEW s \in sends, Post!UploadEnds(s)
      PROVE  Post!BarHasOneSend' /\ Post!DraftKept
  BY <1>4, UploadEndsKeeps
<1>5. ASSUME NEW s \in sends, Post!CommentStarts(s)
      PROVE  Post!BarHasOneSend' /\ Post!DraftKept
  BY <1>5, CommentStartsKeeps
<1>6. ASSUME NEW s \in sends, Post!CommentServed(s)
      PROVE  Post!BarHasOneSend' /\ Post!DraftKept
  BY <1>6, CommentServedGoesOn
<1>7. ASSUME NEW s \in sends, Post!CommentAnswered(s)
      PROVE  Post!BarHasOneSend' /\ Post!DraftKept
  BY <1>7, CommentAnsweredClears
<1>8. ASSUME NEW s \in sends, Post!CommentRefused(s)
      PROVE  Post!BarHasOneSend' /\ Post!DraftKept
  BY <1>8, SendFails DEF Post!CommentRefused
<1>9. ASSUME NEW s \in sends, Post!CommentLost(s)
      PROVE  Post!BarHasOneSend' /\ Post!DraftKept
  BY <1>9, SendFails DEF Post!CommentLost
<1>10. ASSUME NEW s \in sends, Post!UploadFails(s)
      PROVE  Post!BarHasOneSend' /\ Post!DraftKept
  <2>1. sends' = {t \in sends : ~(t.st = "uploading" /\ t.up = s.n)} /\ s.st = "uploading" /\ s.up = s.n
    BY <1>10 DEF Post!UploadFails
  <2>2. Post!BarKeeps(s) /\ UNCHANGED <<tries, commenting>>
    BY <1>10 DEF Post!UploadFails
  <2>3. commenting => \E t \in sends' : Post!UnderWay(t)
    BY <2>1 DEF Post!BarHasOneSend, Post!UnderWay
  <2> QED BY <2>1, <2>2, <2>3, SendFails
<1>11. CASE Post!DeleteServed
  BY <1>11, BarRests DEF Post!DeleteServed, Post!bar
<1>12. CASE Post!DeleteAnswered
  BY <1>12, BarRests DEF Post!DeleteAnswered, Post!bar
<1>13. CASE Post!DeleteLost
  BY <1>13, BarRests DEF Post!DeleteLost, Post!bar
<1>14. CASE Post!Others
  BY <1>14, BarRests DEF Post!Others, Post!bar
<1>15. CASE Post!Render
  BY <1>15, BarRests DEF Post!Render, Post!bar
<1>16. CASE Post!Focus
  BY <1>16, BarRests DEF Post!Focus, Post!bar
<1>17. ASSUME NEW c, Post!StartReply(c)
      PROVE  Post!BarHasOneSend' /\ Post!DraftKept
  BY <1>17, TextAlone DEF Post!StartReply, Post!BarHasOneSend
<1>18. CASE Post!CancelReply
  BY <1>18, TextAlone DEF Post!CancelReply, Post!BarHasOneSend, Post!Blank
<1>19. CASE Post!Type
  BY <1>19, TextAlone DEF Post!Type, Post!BarHasOneSend
<1>20. CASE Post!Pick
  BY <1>20, TextAlone DEF Post!Pick, Post!BarHasOneSend
<1>21. CASE Post!DropPhoto
  BY <1>21, TextAlone DEF Post!DropPhoto, Post!BarHasOneSend
<1>22. CASE Post!SendTap
  BY <1>22, SendTapKeeps
<1>23. ASSUME NEW c, Post!Delete(c)
      PROVE  Post!BarHasOneSend' /\ Post!DraftKept
  BY <1>23, BarRests DEF Post!Delete, Post!bar
<1>24. CASE UNCHANGED Post!vars
  BY <1>24, BarRests DEF Post!vars, Post!bar
<1> QED BY <1>1, <1>2, <1>3, <1>4, <1>5, <1>6, <1>7, <1>8, <1>9, <1>10, <1>11, <1>12, <1>13, <1>14, <1>15, <1>16,
      <1>17, <1>18, <1>19, <1>20, <1>21, <1>22, <1>23, <1>24
   DEF Post!Next, Post!Comes, Post!Fails, Post!Does

(* ---- A file of the comment bar is uploaded once ------------------------------ *)

LEMMA UploadsStart == Post!Init => Post!UploadsHeld
<1> SUFFICES ASSUME Post!Init PROVE Post!UploadsHeld
  OBVIOUS
<1>1. /\ sends = {} /\ photo = 0 /\ tries = 0
      /\ memory = [p \in Post!Photos |-> 0] /\ filesUp = [p \in Post!Photos |-> 0]
  BY DEF Post!Init
<1>2. \A p \in Post!Photos : /\ filesUp[p] \in {0, 1} /\ memory[p] \in 0 .. tries
                             /\ filesUp[p] = 0 /\ Post!UploadOf(p) = {}
  BY <1>1 DEF Post!UploadOf
<1> QED BY <1>1, <1>2 DEF Post!UploadsHeld

\* No upload begins or works: each that is under way was, and the bar forgets a file, if any, that is
\* no longer its own or has none.
LEMMA UploadsRest ==
    ASSUME Post!UploadsHeld, UNCHANGED <<filesUp, tries>>,
           photo' \in {photo, 0}, barFrom' = barFrom \/ photo' = 0, DOMAIN memory' = Post!Photos,
           \A p \in Post!Photos : /\ memory'[p] \in {memory[p], 0}
                                  /\ Post!UploadOf(p)' \subseteq Post!UploadOf(p)
                                  /\ memory'[p] = memory[p] \/ photo' # p \/ (Post!UploadOf(p)' = {} /\ filesUp[p] = 0),
           \A t \in sends' : \E u \in sends : t.photo = u.photo /\ t.n = u.n
    PROVE  Post!UploadsHeld'
<1>1. DOMAIN filesUp' = Post!Photos /\ photo' \in Post!Photos \cup {0} /\ tries' \in Nat
  BY DEF Post!UploadsHeld
<1>2. ASSUME NEW t \in sends'
      PROVE  t.photo \in Post!Photos \cup {0} /\ (photo' = t.photo /\ photo' # 0 => Post!OfBar(t)')
  <2> PICK u \in sends : t.photo = u.photo /\ t.n = u.n
    OBVIOUS
  <2>1. u.photo \in Post!Photos \cup {0} /\ (photo = u.photo /\ photo # 0 => Post!OfBar(u))
    BY DEF Post!UploadsHeld
  <2>2. photo' # 0 => barFrom' = barFrom /\ photo' = photo
    OBVIOUS
  <2>3. photo' # 0 /\ Post!OfBar(u) => Post!OfBar(t)'
    BY <2>2 DEF Post!OfBar
  <2> QED BY <2>1, <2>2, <2>3
<1>3. ASSUME NEW p \in Post!Photos
      PROVE  /\ filesUp'[p] \in {0, 1} /\ memory'[p] \in 0 .. tries'
             /\ \A s, t \in Post!UploadOf(p)' : s = t
             /\ Post!UploadOf(p)' # {} => filesUp'[p] = 0
             /\ photo' = p /\ (Post!UploadOf(p)' # {} \/ filesUp'[p] = 1) => memory'[p] # 0
  <2>1. /\ \A s, t \in Post!UploadOf(p) : s = t
        /\ Post!UploadOf(p) # {} => filesUp[p] = 0
        /\ photo = p /\ (Post!UploadOf(p) # {} \/ filesUp[p] = 1) => memory[p] # 0
    BY DEF Post!UploadsHeld
  <2>2. filesUp[p] \in {0, 1} /\ memory[p] \in 0 .. tries /\ 0 \in 0 .. tries
    BY DEF Post!UploadsHeld
  <2>3. memory'[p] \in 0 .. tries'
    BY <2>2
  <2>4. photo' = p => photo = p
    BY DEF Post!Photos
  <2>5. Post!UploadOf(p)' \subseteq Post!UploadOf(p) /\ filesUp'[p] = filesUp[p]
    OBVIOUS
  <2>6. photo' = p => memory'[p] = memory[p] \/ (Post!UploadOf(p)' = {} /\ filesUp[p] = 0)
    OBVIOUS
  <2>7. photo' = p /\ (Post!UploadOf(p)' # {} \/ filesUp'[p] = 1) => memory'[p] # 0
    BY <2>1, <2>4, <2>5, <2>6
  <2> QED BY <2>1, <2>2, <2>3, <2>5, <2>7
<1> QED BY <1>1, <1>2, <1>3 DEF Post!UploadsHeld

\* The bar, the sends and the files as they were.
LEMMA BarStands ==
    ASSUME Post!UploadsHeld, UNCHANGED <<photo, barFrom, memory, filesUp, sends, tries>>
    PROVE  Post!UploadsHeld'
BY DEF Post!UploadsHeld, Post!UploadOf, Post!OfBar

\* A send goes: the bar keeps its file or lets go of it, and a file whose send took it is forgotten.
LEMMA SendLeaves ==
    ASSUME Post!UploadsHeld, NEW s \in sends, sends' \subseteq sends \ {s}, UNCHANGED <<filesUp, tries, barFrom>>,
           photo' = IF Post!OfBar(s) THEN 0 ELSE photo, 
           memory' = IF s.photo = 0 THEN memory ELSE [memory EXCEPT ![s.photo] = 0]
    PROVE  Post!UploadsHeld'
<1>1. s.photo \in Post!Photos \cup {0} /\ (photo = s.photo /\ photo # 0 => Post!OfBar(s)) /\ DOMAIN memory = Post!Photos
  BY DEF Post!UploadsHeld
<1>2. DOMAIN memory' = Post!Photos
  BY <1>1
<1>3. ASSUME NEW p \in Post!Photos
      PROVE  /\ memory'[p] \in {memory[p], 0} /\ Post!UploadOf(p)' \subseteq Post!UploadOf(p)
             /\ memory'[p] = memory[p] \/ photo' # p
  <2>1. p # 0
    BY DEF Post!Photos
  <2>2. CASE p = s.photo
    <3>1. memory'[p] = 0
      BY <1>1, <2>1, <2>2
    <3>2. photo' # p
      BY <1>1, <2>1, <2>2
    <3> QED BY <3>1, <3>2 DEF Post!UploadOf
  <2>3. CASE p # s.photo
    BY <1>1, <2>3 DEF Post!UploadOf
  <2> QED BY <2>2, <2>3
<1> QED BY <1>2, <1>3, UploadsRest

\* A send goes on that uploads nothing.
LEMMA SendPasses ==
    ASSUME Post!UploadsHeld, NEW s \in sends, NEW r, sends' = (sends \ {s}) \cup {r},
           UNCHANGED <<photo, barFrom, memory, filesUp, tries>>,
           r.photo = s.photo, r.n = s.n, r.st # "uploading"
    PROVE  Post!UploadsHeld'
<1>1. \A t \in sends' : \E u \in sends : t.photo = u.photo /\ t.n = u.n
  OBVIOUS
<1>2. \A p \in Post!Photos : Post!UploadOf(p)' \subseteq Post!UploadOf(p)
  BY DEF Post!UploadOf
<1>3. DOMAIN memory = Post!Photos
  BY DEF Post!UploadsHeld
<1> QED BY <1>1, <1>2, <1>3, UploadsRest

LEMMA BarGoesRests ==
    ASSUME Post!UploadsHeld, Post!BarGoes, UNCHANGED <<Post!files, sends, tries>>
    PROVE  Post!UploadsHeld'
<1>1. photo' \in {photo, 0} /\ (barFrom' = barFrom \/ photo' = 0) /\ UNCHANGED <<memory, filesUp, sends, tries>>
  BY DEF Post!BarGoes, Post!files
<1>2. \A p \in Post!Photos : Post!UploadOf(p)' = Post!UploadOf(p)
  BY <1>1 DEF Post!UploadOf
<1>3. DOMAIN memory = Post!Photos
  BY DEF Post!UploadsHeld
<1> QED BY <1>1, <1>2, <1>3, UploadsRest

LEMMA DropRests ==
    ASSUME Post!UploadsHeld, Post!DropPhoto
    PROVE  Post!UploadsHeld'
<1>1. photo # 0 /\ photo' = 0 /\ memory' = [memory EXCEPT ![photo] = 0] /\ UNCHANGED <<filesUp, sends, tries>>
  BY DEF Post!DropPhoto
<1>2. \A p \in Post!Photos : Post!UploadOf(p)' = Post!UploadOf(p) /\ p # 0
  BY <1>1 DEF Post!UploadOf, Post!Photos
<1>3. DOMAIN memory' = Post!Photos /\ \A p \in Post!Photos : memory'[p] \in {memory[p], 0}
  BY <1>1 DEF Post!UploadsHeld
<1> QED BY <1>1, <1>2, <1>3, UploadsRest

\* The file picked is one no send carries and no upload had.
LEMMA PickKeeps ==
    ASSUME Post!UploadsHeld, Post!Pick
    PROVE  Post!UploadsHeld'
<1> DEFINE other == {p \in Post!Photos : /\ p > photo /\ filesUp[p] = 0 /\ memory[p] = 0
                                         /\ \A s \in sends : s.photo # p}
<1>1. other # {} /\ photo' = Post!Min(other) /\ UNCHANGED <<barFrom, memory, filesUp, sends, tries>>
  BY DEF Post!Pick, Post!files
<1>2. other \subseteq {1, 2}
  BY DEF Post!Photos
<1>3. \E x \in other : \A y \in other : x <= y
  <2>1. CASE 1 \in other
    BY <1>2, <2>1
  <2>2. CASE 1 \notin other
    BY <1>1, <1>2, <2>2
  <2> QED BY <2>1, <2>2
<1>4. photo' \in other
  BY <1>1, <1>3 DEF Post!Min
<1>5. photo' \in Post!Photos /\ filesUp[photo'] = 0 /\ \A s \in sends : s.photo # photo'
  BY <1>4
<1> HIDE DEF other
<1>6. \A p : Post!UploadOf(p)' = Post!UploadOf(p)
  BY <1>1 DEF Post!UploadOf
<1>7. \A p : photo' = p => Post!UploadOf(p) = {}
  BY <1>5 DEF Post!UploadOf
<1> QED BY <1>1, <1>5, <1>6, <1>7 DEF Post!UploadsHeld

\* A send of the bar: no other send has its file, for that would be the bar's own.
LEMMA SendTapHolds ==
    ASSUME Post!UploadsHeld, Post!BarHasOneSend, Post!SendTap
    PROVE  Post!UploadsHeld'
<1> PICK n \in Nat : n = tries + 1
  BY DEF Post!BarHasOneSend
<1> PICK r : /\ sends' = sends \cup {r} /\ r.photo = photo /\ r.n = n
             /\ r.up = IF photo = 0 THEN 0 ELSE memory'[photo]
  <2> DEFINE up == IF photo = 0 THEN 0 ELSE memory'[photo]
             at == IF up = tries + 1 \/ Post!Uploading(up) THEN "uploading" ELSE "ready"
             r == [n |-> tries + 1, text |-> text.n, photo |-> photo, up |-> up, to |-> Post!NoReply,
                   saved |-> Post!NoComment, st |-> at]
  <2>1. sends' = sends \cup {r}
    BY DEF Post!SendTap
  <2> HIDE DEF at
  <2>2. r.photo = photo /\ r.n = n /\ r.up = up
    OBVIOUS
  <2> HIDE DEF r
  <2> QED BY <2>1, <2>2
<1>1. sends' = sends \cup {r} /\ tries' = n /\ UNCHANGED <<photo, barFrom, filesUp>> /\ ~sendingRef
  BY DEF Post!SendTap, Post!MaySend
<1>2. memory' = IF photo = 0 THEN memory ELSE IF memory[photo] = 0 THEN [memory EXCEPT ![photo] = n] ELSE memory
  BY DEF Post!SendTap, Post!Ensure
<1>3. r.photo = photo /\ r.n = n /\ (photo # 0 => r.up = memory'[photo])
  OBVIOUS
<1>4. tries \in Nat /\ n = tries + 1 /\ barFrom \in 1 .. n /\ \A s \in sends : ~Post!OfBar(s)
  BY <1>1 DEF Post!BarHasOneSend
<1>5. DOMAIN memory = Post!Photos /\ DOMAIN filesUp = Post!Photos /\ photo \in Post!Photos \cup {0}
  BY DEF Post!UploadsHeld
<1>6. \A s \in sends : s.photo \in Post!Photos \cup {0} /\ (photo # 0 => s.photo # photo)
  BY <1>4 DEF Post!UploadsHeld
<1>7. Post!OfBar(r)'
  BY <1>1, <1>3, <1>4 DEF Post!OfBar
<1>8. \A p \in Post!Photos : p # 0
  BY DEF Post!Photos
<1>9. \A s \in sends' : s.photo \in Post!Photos \cup {0} /\ (photo' = s.photo /\ photo' # 0 => Post!OfBar(s)')
  BY <1>1, <1>3, <1>5, <1>6, <1>7
<1>10. DOMAIN memory' = Post!Photos /\ tries' \in Nat
  BY <1>1, <1>2, <1>4, <1>5
<1>11. ASSUME NEW p \in Post!Photos
       PROVE  /\ filesUp'[p] \in {0, 1} /\ memory'[p] \in 0 .. tries'
              /\ \A s, t \in Post!UploadOf(p)' : s = t
              /\ Post!UploadOf(p)' # {} => filesUp'[p] = 0
              /\ photo' = p /\ (Post!UploadOf(p)' # {} \/ filesUp'[p] = 1) => memory'[p] # 0
  <2>1. /\ \A s, t \in Post!UploadOf(p) : s = t
        /\ Post!UploadOf(p) # {} => filesUp[p] = 0
        /\ photo = p /\ (Post!UploadOf(p) # {} \/ filesUp[p] = 1) => memory[p] # 0
    BY DEF Post!UploadsHeld
  <2>2. filesUp[p] \in {0, 1} /\ memory[p] \in 0 .. tries
    BY DEF Post!UploadsHeld
  <2>3. memory[p] \in 0 .. n /\ memory[p] # n /\ n \in 0 .. n /\ n # 0
    BY <1>4, <2>2
  <2>4. CASE p # photo
    <3>1. Post!UploadOf(p)' = Post!UploadOf(p)
      BY <1>1, <1>3, <2>4 DEF Post!UploadOf
    <3>2. memory'[p] = memory[p]
      BY <1>2, <1>5, <2>4
    <3> QED BY <1>1, <2>1, <2>2, <2>3, <2>4, <3>1, <3>2
  <2>5. CASE p = photo
    <3>1. photo # 0 /\ Post!UploadOf(p) = {}
      BY <1>6, <1>8, <2>5 DEF Post!UploadOf
    <3>2. Post!UploadOf(p)' \subseteq {r}
      BY <1>1, <3>1 DEF Post!UploadOf
    <3>3. memory'[p] = IF memory[p] = 0 THEN n ELSE memory[p]
      BY <1>2, <1>5, <2>5, <3>1
    <3>4. memory'[p] \in 0 .. n /\ memory'[p] # 0
      BY <2>3, <3>3
    <3>5. ASSUME Post!UploadOf(p)' # {}
          PROVE  filesUp[p] = 0
      <4>1. r.up = r.n
        BY <3>2, <3>5 DEF Post!UploadOf
      <4>2. memory'[p] = n
        BY <1>3, <2>5, <3>1, <4>1
      <4>3. memory[p] = 0
        BY <2>3, <3>3, <4>2
      <4> QED BY <2>1, <2>2, <2>5, <4>3
    <3>6. \A s, t \in Post!UploadOf(p)' : s = t
      BY <3>2
    <3> QED BY <1>1, <2>2, <3>4, <3>5, <3>6
  <2> QED BY <2>4, <2>5
<1> QED BY <1>1, <1>5, <1>9, <1>10, <1>11 DEF Post!UploadsHeld

\* An upload that works was the file's only one.
LEMMA UploadEndsHolds ==
    ASSUME Post!UploadsHeld, Post!BarHasOneSend, NEW s \in sends, Post!UploadEnds(s)
    PROVE  Post!UploadsHeld'
<1> DEFINE after(t) == IF t.st = "uploading" /\ t.up = s.n THEN [t EXCEPT !.st = "ready"] ELSE t
<1>1. /\ s.st = "uploading" /\ s.up = s.n /\ sends' = {after(t) : t \in sends}
      /\ filesUp' = [filesUp EXCEPT ![s.photo] = @ + 1] /\ UNCHANGED <<photo, barFrom, memory, tries>>
  BY DEF Post!UploadEnds, Post!bar
<1>2. \A t \in sends : /\ after(t).n = t.n /\ after(t).photo = t.photo
                       /\ after(t).st = "uploading" => after(t) = t /\ t.up # s.n
  BY DEF Post!BarHasOneSend
<1> HIDE DEF after
<1>3. \A t \in sends' : \E u \in sends : t = after(u)
  BY <1>1
<1>4. \A p \in Post!Photos : Post!UploadOf(p)' \subseteq Post!UploadOf(p) \ {s}
  BY <1>1, <1>2, <1>3 DEF Post!UploadOf
<1>5. DOMAIN memory = Post!Photos /\ DOMAIN filesUp = Post!Photos /\ photo \in Post!Photos \cup {0} /\ tries \in Nat
  BY DEF Post!UploadsHeld
<1>6. ASSUME NEW t \in sends'
      PROVE  t.photo \in Post!Photos \cup {0} /\ (photo' = t.photo /\ photo' # 0 => Post!OfBar(t)')
  <2> PICK u \in sends : t = after(u)
    BY <1>3
  <2>1. u.photo \in Post!Photos \cup {0} /\ (photo = u.photo /\ photo # 0 => Post!OfBar(u))
    BY DEF Post!UploadsHeld
  <2> QED BY <1>1, <1>2, <2>1 DEF Post!OfBar
<1>7. ASSUME NEW p \in Post!Photos
      PROVE  /\ filesUp'[p] \in {0, 1} /\ memory'[p] \in 0 .. tries'
             /\ \A t, u \in Post!UploadOf(p)' : t = u
             /\ Post!UploadOf(p)' # {} => filesUp'[p] = 0
             /\ photo' = p /\ (Post!UploadOf(p)' # {} \/ filesUp'[p] = 1) => memory'[p] # 0
  <2>1. /\ \A t, u \in Post!UploadOf(p) : t = u
        /\ Post!UploadOf(p) # {} => filesUp[p] = 0
        /\ photo = p /\ (Post!UploadOf(p) # {} \/ filesUp[p] = 1) => memory[p] # 0
    BY DEF Post!UploadsHeld
  <2>2. filesUp[p] \in {0, 1} /\ memory[p] \in 0 .. tries
    BY DEF Post!UploadsHeld
  <2>3. CASE p # s.photo
    <3>1. filesUp'[p] = filesUp[p]
      BY <1>1, <1>5, <2>3
    <3> QED BY <1>1, <1>4, <2>1, <2>2, <3>1
  <2>4. CASE p = s.photo
    <3>1. s \in Post!UploadOf(p)
      BY <1>1, <2>4 DEF Post!UploadOf
    <3>2. filesUp[p] = 0 /\ (photo = p => memory[p] # 0) /\ Post!UploadOf(p)' = {}
      BY <1>4, <2>1, <3>1
    <3>3. filesUp'[p] = 1
      BY <1>1, <1>5, <2>4, <3>2
    <3> QED BY <1>1, <2>2, <3>2, <3>3
  <2> QED BY <2>3, <2>4
<1>8. DOMAIN filesUp' = Post!Photos
  BY <1>1, <1>5
<1> QED BY <1>1, <1>5, <1>6, <1>7, <1>8 DEF Post!UploadsHeld

LEMMA UploadFailsHolds ==
    ASSUME Post!UploadsHeld, NEW s \in sends, Post!UploadFails(s)
    PROVE  Post!UploadsHeld'
<1>1. /\ s.st = "uploading" /\ s.up = s.n /\ sends' \subseteq sends \ {s} /\ UNCHANGED <<photo, barFrom, filesUp, tries>>
      /\ memory' = IF memory[s.photo] = s.n THEN [memory EXCEPT ![s.photo] = 0] ELSE memory
  BY DEF Post!UploadFails, Post!BarKeeps
<1>2. DOMAIN memory = Post!Photos /\ DOMAIN memory' = Post!Photos
  BY <1>1 DEF Post!UploadsHeld
<1>3. ASSUME NEW p \in Post!Photos
      PROVE  /\ memory'[p] \in {memory[p], 0} /\ Post!UploadOf(p)' \subseteq Post!UploadOf(p)
             /\ memory'[p] = memory[p] \/ (Post!UploadOf(p)' = {} /\ filesUp[p] = 0)
  <2>1. Post!UploadOf(p)' \subseteq Post!UploadOf(p) \ {s}
    BY <1>1 DEF Post!UploadOf
  <2>2. CASE p # s.photo
    BY <1>1, <1>2, <2>1, <2>2
  <2>3. CASE p = s.photo
    <3>1. s \in Post!UploadOf(p)
      BY <1>1, <2>3 DEF Post!UploadOf
    <3>2. Post!UploadOf(p)' = {} /\ filesUp[p] = 0
      BY <2>1, <3>1 DEF Post!UploadsHeld
    <3> QED BY <1>1, <1>2, <2>1, <2>3, <3>2
  <2> QED BY <2>2, <2>3
<1> QED BY <1>1, <1>2, <1>3, UploadsRest

LEMMA UploadsKeep ==
    ASSUME Post!UploadsHeld, Post!BarHasOneSend, Post!Next \/ UNCHANGED Post!vars
    PROVE  Post!UploadsHeld'
<1>1. CASE UNCHANGED <<photo, barFrom, Post!files, sends, tries>>
  BY <1>1, BarStands DEF Post!files
<1>2. ASSUME NEW c, Post!PostAnswered(c)
      PROVE  Post!UploadsHeld'
  BY <1>2, BarGoesRests DEF Post!PostAnswered
<1>3. ASSUME NEW c, Post!PostServed(c) \/ Post!PostLost(c) \/ Post!StartReply(c) \/ Post!Delete(c)
      PROVE  Post!UploadsHeld'
  <2>1. UNCHANGED <<photo, barFrom, Post!files, sends, tries>>
    BY <1>3 DEF Post!PostServed, Post!PostLost, Post!StartReply, Post!Delete, Post!bar
  <2> QED BY <1>1, <2>1
<1>4. ASSUME NEW s \in sends, Post!UploadEnds(s)
      PROVE  Post!UploadsHeld'
  BY <1>4, UploadEndsHolds
<1>5. ASSUME NEW s \in sends, Post!UploadFails(s)
      PROVE  Post!UploadsHeld'
  BY <1>5, UploadFailsHolds
<1>6. ASSUME NEW s \in sends, Post!BarClears(s), sends' = sends \ {s}, UNCHANGED <<filesUp, tries>>
      PROVE  Post!UploadsHeld'
  <2>1. /\ photo' = IF Post!OfBar(s) THEN 0 ELSE photo
        /\ memory' = IF s.photo = 0 THEN memory ELSE [memory EXCEPT ![s.photo] = 0]
        /\ barFrom' = barFrom
    BY <1>6 DEF Post!BarClears, Post!bar
  <2> QED BY <1>6, <2>1, SendLeaves
<1>7. ASSUME NEW s \in sends, Post!CommentStarts(s)
      PROVE  Post!UploadsHeld'
  <2>1. CASE commenting \/ ~post.has
    BY <1>6, <1>7, <2>1 DEF Post!CommentStarts
  <2>2. CASE ~(commenting \/ ~post.has)
    <3> DEFINE r == [s EXCEPT !.st = "sent", !.to = replyTo]
    <3>1. sends' = (sends \ {s}) \cup {r} /\ UNCHANGED <<photo, barFrom, memory, filesUp, tries>>
      BY <1>7, <2>2 DEF Post!CommentStarts, Post!bar
    <3>2. r.photo = s.photo /\ r.n = s.n /\ r.st # "uploading"
      BY DEF Post!BarHasOneSend
    <3> HIDE DEF r
    <3> QED BY <3>1, <3>2, SendPasses
  <2> QED BY <2>1, <2>2
<1>8. ASSUME NEW s \in sends, Post!CommentServed(s)
      PROVE  Post!UploadsHeld'
  <2>1. UNCHANGED <<photo, barFrom, memory, filesUp, tries>>
    BY <1>8 DEF Post!CommentServed, Post!bar, Post!files
  <2>2. DOMAIN s = {"n", "text", "photo", "up", "to", "saved", "st"}
    BY DEF Post!BarHasOneSend
  <2>3. CASE \E st \in {"not_found", "comments_off"} : sends' = Post!Sent(s, st)
    <3> PICK st \in {"not_found", "comments_off"} : sends' = Post!Sent(s, st)
      BY <2>3
    <3> DEFINE r == [s EXCEPT !.st = st]
    <3>1. sends' = (sends \ {s}) \cup {r} /\ r.photo = s.photo /\ r.n = s.n /\ r.st # "uploading"
      BY <2>2 DEF Post!Sent
    <3> HIDE DEF r
    <3> QED BY <2>1, <3>1, SendPasses
  <2>4. CASE \E c : sends' = (sends \ {s}) \cup {[s EXCEPT !.st = "saved", !.saved = c]}
    <3> PICK c : sends' = (sends \ {s}) \cup {[s EXCEPT !.st = "saved", !.saved = c]}
      BY <2>4
    <3> DEFINE r == [s EXCEPT !.st = "saved", !.saved = c]
    <3>1. sends' = (sends \ {s}) \cup {r} /\ r.photo = s.photo /\ r.n = s.n /\ r.st # "uploading"
      BY <2>2
    <3> HIDE DEF r
    <3> QED BY <2>1, <3>1, SendPasses
  <2> QED BY <1>8, <2>3, <2>4 DEF Post!CommentServed
<1>9. ASSUME NEW s \in sends, Post!CommentAnswered(s)
      PROVE  Post!UploadsHeld'
  BY <1>6, <1>9 DEF Post!CommentAnswered
<1>10. ASSUME NEW s \in sends, Post!CommentRefused(s) \/ Post!CommentLost(s)
       PROVE  Post!UploadsHeld'
  <2>1. sends' = sends \ {s} /\ UNCHANGED <<photo, barFrom, memory, filesUp, tries>>
    BY <1>10 DEF Post!CommentRefused, Post!CommentLost, Post!BarKeeps, Post!files
  <2>2. \A p \in Post!Photos : Post!UploadOf(p)' \subseteq Post!UploadOf(p)
    BY <2>1 DEF Post!UploadOf
  <2>3. DOMAIN memory = Post!Photos
    BY DEF Post!UploadsHeld
  <2> QED BY <2>1, <2>2, <2>3, UploadsRest
<1>11. CASE \/ Post!DeleteServed \/ Post!DeleteAnswered \/ Post!DeleteLost \/ Post!Others \/ Post!Render \/ Post!Focus
            \/ Post!CancelReply \/ Post!Type
  <2>1. UNCHANGED <<photo, barFrom, Post!files, sends, tries>>
    BY <1>11 DEF Post!DeleteServed, Post!DeleteAnswered, Post!DeleteLost, Post!Others, Post!Render, Post!Focus,
         Post!CancelReply, Post!Type, Post!bar
  <2> QED BY <1>1, <2>1
<1>12. CASE Post!Pick
  BY <1>12, PickKeeps
<1>13. CASE Post!DropPhoto
  BY <1>13, DropRests
<1>14. CASE Post!SendTap
  BY <1>14, SendTapHolds
<1>15. CASE UNCHANGED Post!vars
  <2>1. UNCHANGED <<photo, barFrom, Post!files, sends, tries>>
    BY <1>15 DEF Post!vars, Post!bar
  <2> QED BY <1>1, <2>1
<1> QED BY <1>2, <1>3, <1>4, <1>5, <1>7, <1>8, <1>9, <1>10, <1>11, <1>12, <1>13, <1>14, <1>15
   DEF Post!Next, Post!Comes, Post!Fails, Post!Does

LEMMA PostFileUpOnce == Post!UploadsHeld => Post!UploadedOnce
BY DEF Post!UploadsHeld, Post!UploadedOnce

(* ---- Writing an entry ------------------------------------------------------ *)

Entry == INSTANCE PhoneEntry

LEMMA EntryStarts == Entry!Init => Entry!EntryInStep
BY DEF Entry!Init, Entry!EntryInStep, Entry!NoSave, Entry!Baseline

LEMMA EntryKeeps ==
    ASSUME Entry!EntryInStep, Entry!Next \/ UNCHANGED Entry!vars
    PROVE  Entry!EntryInStep' /\ Entry!NothingLeftBehind /\ Entry!SavedAsShown
<1>1. CASE Entry!SetTitle
  BY <1>1 DEF Entry!SetTitle, Entry!EntryInStep, Entry!NothingLeftBehind, Entry!SavedAsShown, Entry!stored,
      Entry!form, Entry!run, Entry!guard, Entry!screen, Entry!past
<1>2. CASE Entry!SetNote
  BY <1>2 DEF Entry!SetNote, Entry!EntryInStep, Entry!NothingLeftBehind, Entry!SavedAsShown, Entry!stored,
      Entry!form, Entry!run, Entry!guard, Entry!screen, Entry!past
<1>3. CASE Entry!Pick
  BY <1>3 DEF Entry!Pick, Entry!EntryInStep, Entry!NothingLeftBehind, Entry!SavedAsShown, Entry!stored, Entry!form,
      Entry!run, Entry!guard, Entry!screen, Entry!past
<1>4. CASE Entry!Accept
  BY <1>4 DEF Entry!Accept, Entry!EntryInStep, Entry!NothingLeftBehind, Entry!SavedAsShown, Entry!stored,
      Entry!form, Entry!run, Entry!guard, Entry!screen, Entry!past
<1>5. CASE Entry!KeepEditing
  BY <1>5 DEF Entry!KeepEditing, Entry!EntryInStep, Entry!NothingLeftBehind, Entry!SavedAsShown, Entry!stored,
      Entry!form, Entry!run, Entry!guard, Entry!screen, Entry!past
<1>6. CASE Entry!Covers
  BY <1>6 DEF Entry!Covers, Entry!EntryInStep, Entry!NothingLeftBehind, Entry!SavedAsShown, Entry!stored,
      Entry!form, Entry!run, Entry!guard, Entry!screen, Entry!past
<1>7. CASE Entry!Uncovers
  BY <1>7 DEF Entry!Uncovers, Entry!EntryInStep, Entry!NothingLeftBehind, Entry!SavedAsShown, Entry!stored,
      Entry!form, Entry!run, Entry!guard, Entry!screen, Entry!past
<1>8. ASSUME NEW p, Entry!RemovePhoto(p)
      PROVE  Entry!EntryInStep' /\ Entry!NothingLeftBehind /\ Entry!SavedAsShown
  BY <1>8 DEF Entry!RemovePhoto, Entry!EntryInStep, Entry!NothingLeftBehind, Entry!SavedAsShown, Entry!stored,
      Entry!form, Entry!run, Entry!guard, Entry!screen, Entry!past
<1>9. CASE Entry!Cancel
  BY <1>9 DEF Entry!Cancel, Entry!Out, Entry!Leaves, Entry!Unsaved, Entry!Dirty, Entry!EntryInStep,
      Entry!NothingLeftBehind, Entry!SavedAsShown, Entry!stored, Entry!form, Entry!run, Entry!guard, Entry!screen,
      Entry!past
<1>10. CASE Entry!Back
  BY <1>10 DEF Entry!Back, Entry!Out, Entry!Leaves, Entry!Unsaved, Entry!Dirty, Entry!EntryInStep,
      Entry!NothingLeftBehind, Entry!SavedAsShown, Entry!stored, Entry!form, Entry!run, Entry!guard, Entry!screen,
      Entry!past
<1>11. CASE Entry!ConfirmLeave
  BY <1>11 DEF Entry!ConfirmLeave, Entry!Leaves, Entry!EntryInStep, Entry!NothingLeftBehind, Entry!SavedAsShown,
      Entry!stored, Entry!form, Entry!run, Entry!guard, Entry!screen, Entry!past
<1>12. CASE Entry!BackToToday
  BY <1>12 DEF Entry!BackToToday, Entry!Leaves, Entry!EntryInStep, Entry!NothingLeftBehind, Entry!SavedAsShown,
      Entry!stored, Entry!form, Entry!run, Entry!guard, Entry!screen, Entry!past
<1>13. CASE Entry!Submit
  BY <1>13 DEF Entry!Submit, Entry!CanSubmit, Entry!EntryInStep, Entry!NothingLeftBehind, Entry!SavedAsShown,
      Entry!stored, Entry!form, Entry!run, Entry!guard, Entry!screen, Entry!past
<1>14. CASE Entry!NextPhoto
  BY <1>14 DEF Entry!NextPhoto, Entry!Uploading, Entry!EntryInStep, Entry!NothingLeftBehind, Entry!SavedAsShown,
      Entry!stored, Entry!form, Entry!run, Entry!guard, Entry!screen, Entry!past
<1>15. CASE Entry!Post
  BY <1>15 DEF Entry!Post, Entry!EntryInStep, Entry!NothingLeftBehind, Entry!SavedAsShown, Entry!stored, Entry!form,
      Entry!run, Entry!guard, Entry!screen, Entry!past
<1>16. CASE Entry!PostServed
  BY <1>16 DEF Entry!PostServed, Entry!EntryInStep, Entry!NothingLeftBehind, Entry!SavedAsShown, Entry!stored,
      Entry!form, Entry!run, Entry!guard, Entry!screen, Entry!past
<1>17. CASE Entry!PatchServed
  BY <1>17 DEF Entry!PatchServed, Entry!EntryInStep, Entry!NothingLeftBehind, Entry!SavedAsShown, Entry!stored,
      Entry!form, Entry!run, Entry!guard, Entry!screen, Entry!past
<1>18. CASE Entry!SaveAnswered
  BY <1>18 DEF Entry!SaveAnswered, Entry!SubmitEnds, Entry!NoSave, Entry!Patched, Entry!PatchedChanged,
      Entry!EntryInStep, Entry!NothingLeftBehind, Entry!SavedAsShown, Entry!stored, Entry!form, Entry!run,
      Entry!guard, Entry!screen, Entry!past
<1>19. CASE Entry!SaveRefused
  BY <1>19 DEF Entry!SaveRefused, Entry!SubmitEnds, Entry!NoSave, Entry!EntryInStep, Entry!NothingLeftBehind,
      Entry!SavedAsShown, Entry!stored, Entry!form, Entry!run, Entry!guard, Entry!screen, Entry!past
<1>20. CASE Entry!SaveLost
  BY <1>20 DEF Entry!SaveLost, Entry!SubmitEnds, Entry!NoSave, Entry!EntryInStep, Entry!NothingLeftBehind,
      Entry!SavedAsShown, Entry!stored, Entry!form, Entry!run, Entry!guard, Entry!screen, Entry!past
<1>21. CASE Entry!UploadFails
  BY <1>21 DEF Entry!UploadFails, Entry!Uploading, Entry!SubmitEnds, Entry!NoSave, Entry!EntryInStep,
      Entry!NothingLeftBehind, Entry!SavedAsShown, Entry!stored, Entry!form, Entry!run, Entry!guard, Entry!screen,
      Entry!past
<1>22. CASE Entry!Elsewhere
  BY <1>22 DEF Entry!Elsewhere, Entry!EntryInStep, Entry!NothingLeftBehind, Entry!SavedAsShown, Entry!stored,
      Entry!form, Entry!run, Entry!guard, Entry!screen, Entry!past
<1>23. CASE UNCHANGED Entry!vars
  BY <1>23 DEF Entry!vars, Entry!EntryInStep, Entry!NothingLeftBehind, Entry!SavedAsShown, Entry!stored, Entry!form,
      Entry!run, Entry!guard, Entry!screen, Entry!past
<1> QED BY <1>1, <1>2, <1>3, <1>4, <1>5, <1>6, <1>7, <1>8, <1>9, <1>10, <1>11, <1>12, <1>13, <1>14, <1>15, <1>16,
      <1>17, <1>18, <1>19, <1>20, <1>21, <1>22, <1>23 DEF Entry!Next, Entry!Runs, Entry!Person

(* ---- The entry form: it goes back once, and uploads a file once ------------- *)

LEMMA FormStarts == Entry!Init => Entry!GoneOnce
BY DEF Entry!Init, Entry!GoneOnce

LEMMA FormKeeps ==
    ASSUME Entry!GoneOnce, Entry!Next \/ UNCHANGED Entry!vars
    PROVE  Entry!GoneOnce'
<1>1. CASE UNCHANGED <<open, pops>>
  BY <1>1 DEF Entry!GoneOnce
<1>2. CASE open /\ open' = FALSE /\ pops' = pops + 1
  BY <1>2 DEF Entry!GoneOnce
<1>3. Entry!Out /\ open => UNCHANGED <<open, pops>> \/ (open /\ open' = FALSE /\ pops' = pops + 1)
  BY DEF Entry!Out, Entry!Leaves, Entry!screen
<1>4. Entry!Cancel \/ Entry!Back => Entry!Out /\ open
  BY DEF Entry!Cancel, Entry!Back, Entry!InHand
<1>5. Entry!ConfirmLeave \/ Entry!BackToToday => open /\ open' = FALSE /\ pops' = pops + 1
  BY DEF Entry!ConfirmLeave, Entry!BackToToday, Entry!Leaves, Entry!InHand
<1>6. Entry!SaveAnswered => UNCHANGED <<open, pops>> \/ (open /\ open' = FALSE /\ pops' = pops + 1)
  BY DEF Entry!SaveAnswered, Entry!GoesBack, Entry!Focused
<1>7. CASE \/ Entry!SetTitle \/ Entry!SetNote \/ Entry!Pick \/ Entry!Accept \/ Entry!Submit \/ Entry!NextPhoto \/ Entry!Post
           \/ Entry!PostServed \/ Entry!PatchServed \/ Entry!UploadFails \/ Entry!SaveRefused \/ Entry!SaveLost
           \/ Entry!KeepEditing \/ Entry!Covers \/ Entry!Uncovers \/ Entry!Elsewhere
  <2>1. UNCHANGED <<open, pops>>
    BY <1>7 DEF Entry!SetTitle, Entry!SetNote, Entry!Pick, Entry!Accept, Entry!Submit, Entry!NextPhoto, Entry!Post,
         Entry!PostServed, Entry!PatchServed, Entry!UploadFails, Entry!SaveRefused, Entry!SaveLost,
         Entry!KeepEditing, Entry!Covers, Entry!Uncovers, Entry!Elsewhere, Entry!screen
  <2> QED BY <1>1, <2>1
<1>8. \A i : Entry!RemovePhoto(i) => UNCHANGED <<open, pops>>
  BY DEF Entry!RemovePhoto, Entry!screen
<1>9. CASE UNCHANGED Entry!vars
  <2>1. UNCHANGED <<open, pops>>
    BY <1>9 DEF Entry!vars, Entry!screen
  <2> QED BY <1>1, <2>1
<1>10. CASE \E i \in DOMAIN draft.photos : Entry!RemovePhoto(i)
  BY <1>1, <1>8, <1>10
<1>11. CASE Entry!Cancel \/ Entry!Back \/ Entry!ConfirmLeave \/ Entry!BackToToday \/ Entry!SaveAnswered
  BY <1>1, <1>2, <1>3, <1>4, <1>5, <1>6, <1>11
<1> QED BY <1>1, <1>7, <1>9, <1>10, <1>11 DEF Entry!Next, Entry!Runs, Entry!Person

LEMMA FormGoesOnce == Entry!GoneOnce => Entry!GoesBackOnce
BY DEF Entry!GoneOnce, Entry!GoesBackOnce

LEMMA FilesStart == Entry!Init => Entry!UploadsRemembered
<1> SUFFICES ASSUME Entry!Init PROVE Entry!UploadsRemembered
  OBVIOUS
<1>1. draft.photos \in {<<>>, <<1>>} /\ DOMAIN draft = {"photos", "title", "note"} /\ picked = 1 /\ picking = FALSE
  BY DEF Entry!Init, Entry!Baseline, Entry!NoEntry, Entry!Original
<1>2. draft.photos \in Seq(Int) /\ DOMAIN draft.photos \subseteq {1} /\ \A i \in DOMAIN draft.photos : draft.photos[i] = 1
  <2>1. CASE draft.photos = <<>>
    BY <2>1
  <2>2. CASE draft.photos = <<1>>
    BY <2>2
  <2> QED BY <1>1, <2>1, <2>2
<1>3. save.st = "idle" /\ DOMAIN save = {"st", "i", "form"} /\ DOMAIN save.form = {"photos", "title", "note"}
  BY DEF Entry!Init, Entry!NoSave, Entry!NoEntry
<1>4. DOMAIN uploads \subseteq Int /\ \A p \in DOMAIN uploads : uploads[p] = 0
  BY DEF Entry!Init
<1> QED BY <1>1, <1>2, <1>3, <1>4 DEF Entry!UploadsRemembered, Entry!OneUploadEach

\* A save goes on or ends; the list and the memory are as they were.
LEMMA SaveRests ==
    ASSUME Entry!UploadsRemembered, UNCHANGED <<draft, picked, picking, remembered, uploads>>,
           \/ UNCHANGED <<save, busy>>
           \/ save' = Entry!NoSave
           \/ (busy' = busy /\ save.st # "idle" /\ \E w : save' = [save EXCEPT !.st = w])
    PROVE  Entry!UploadsRemembered'
<1>1. CASE UNCHANGED <<save, busy>>
  BY <1>1 DEF Entry!UploadsRemembered, Entry!OneUploadEach
<1>2. CASE save' = Entry!NoSave
  <2>1. save'.st = "idle" /\ DOMAIN save' = {"st", "i", "form"} /\ DOMAIN save'.form = {"photos", "title", "note"}
    BY <1>2 DEF Entry!NoSave, Entry!NoEntry
  <2> QED BY <2>1 DEF Entry!UploadsRemembered, Entry!OneUploadEach
<1>3. CASE busy' = busy /\ save.st # "idle" /\ \E w : save' = [save EXCEPT !.st = w]
  <2>1. DOMAIN save' = {"st", "i", "form"} /\ save'.form = save.form /\ save'.i = save.i
    BY <1>3 DEF Entry!UploadsRemembered, Entry!OneUploadEach
  <2>2. busy' /\ DOMAIN save'.form = {"photos", "title", "note"}
    BY <1>3, <2>1 DEF Entry!UploadsRemembered, Entry!OneUploadEach
  <2>3. /\ save.form.photos \in Seq(Int) /\ save.i \in Nat \ {0}
        /\ Entry!ToSet(save.form.photos) \subseteq Entry!ToSet(draft.photos)
    BY <1>3 DEF Entry!UploadsRemembered, Entry!OneUploadEach
  <2>4. /\ save'.form.photos \in Seq(Int) /\ save'.i \in Nat \ {0}
        /\ Entry!ToSet(save'.form.photos) \subseteq Entry!ToSet(draft'.photos)
    BY <2>1, <2>3
  <2> QED BY <2>1, <2>2, <2>4 DEF Entry!UploadsRemembered, Entry!OneUploadEach
<1> QED BY <1>1, <1>2, <1>3

\* The list without one of its places.
LEMMA WithoutPlace ==
    ASSUME NEW s \in Seq(Int), NEW i \in DOMAIN s, \A j, k \in DOMAIN s : s[j] = s[k] => j = k
    PROVE  LET r == Entry!RemoveAt(s, i)
           IN  /\ r \in Seq(Int) /\ \A j, k \in DOMAIN r : r[j] = r[k] => j = k
               /\ \A j \in DOMAIN r : r[j] # s[i] /\ \E k \in DOMAIN s : r[j] = s[k]
<1> DEFINE r == Entry!RemoveAt(s, i)
           a == SubSeq(s, 1, i - 1)
<1> PICK m \in Int : m = i + 1
  OBVIOUS
<1> DEFINE b == SubSeq(s, m, Len(s))
<1>1. i \in 1 .. Len(s) /\ Len(s) \in Nat /\ DOMAIN s = 1 .. Len(s)
  OBVIOUS
<1>2. a \in Seq(Int) /\ Len(a) = i - 1 /\ \A j \in 1 .. i - 1 : a[j] = s[j]
  <2>1. \A j \in 1 .. i - 1 : s[j] \in Int
    BY <1>1
  <2>2. /\ a \in Seq(Int) /\ Len(a) = IF 1 <= i - 1 THEN (i - 1) - 1 + 1 ELSE 0
        /\ \A j \in 1 .. (i - 1) - 1 + 1 : a[j] = s[1 + j - 1]
    BY <1>1, <2>1, SubSeqProperties
  <2> HIDE DEF a
  <2> QED BY <1>1, <2>2
<1>3. b \in Seq(Int) /\ Len(b) = Len(s) - i /\ \A j \in 1 .. Len(s) - i : b[j] = s[i + j]
  <2>1. (\A j \in m .. Len(s) : s[j] \in Int) /\ Len(s) \in Int
    BY <1>1
  <2>2. /\ b \in Seq(Int) /\ Len(b) = IF m <= Len(s) THEN Len(s) - m + 1 ELSE 0
        /\ \A j \in 1 .. Len(s) - m + 1 : b[j] = s[m + j - 1]
    BY <2>1, SubSeqProperties
  <2> HIDE DEF b
  <2>3. Len(s) - m + 1 = Len(s) - i /\ Len(b) = Len(s) - i
    BY <1>1, <2>2
  <2>4. \A j \in 1 .. Len(s) - i : b[j] = s[i + j]
    <3> TAKE j \in 1 .. Len(s) - i
    <3>1. m + j - 1 = i + j
      OBVIOUS
    <3> QED BY <2>2, <2>3, <3>1
  <2> QED BY <2>2, <2>3, <2>4
<1>4. r = a \o b
  BY DEF Entry!RemoveAt
<1> HIDE DEF a, b, r
<1>5. r \in Seq(Int) /\ Len(r) = Len(s) - 1 /\ DOMAIN r = 1 .. Len(s) - 1
  <2>1. r \in Seq(Int) /\ Len(r) = Len(a) + Len(b)
    BY <1>2, <1>3, <1>4, ConcatProperties
  <2> QED BY <1>1, <1>2, <1>3, <2>1
<1>6. \A j \in 1 .. Len(s) - 1 : r[j] = IF j <= i - 1 THEN a[j] ELSE b[j - (i - 1)]
  <2>1. \A j \in 1 .. Len(a) + Len(b) : (a \o b)[j] = IF j <= Len(a) THEN a[j] ELSE b[j - Len(a)]
    <3>1. a \in Seq(Int) /\ b \in Seq(Int)
      BY <1>2, <1>3
    <3> HIDE <1>2, <1>3
    <3> QED BY <3>1, ConcatProperties
  <2>2. Len(a) + Len(b) = Len(s) - 1
    BY <1>1, <1>2, <1>3
  <2> QED BY <1>2, <1>4, <2>1, <2>2
<1>7. ASSUME NEW j \in 1 .. Len(s) - 1
      PROVE  \E k \in DOMAIN s : k = (IF j < i THEN j ELSE j + 1) /\ k # i /\ r[j] = s[k]
  <2>1. CASE j < i
    <3>1. j \in 1 .. i - 1 /\ j \in DOMAIN s /\ j # i
      BY <1>1, <2>1
    <3>2. r[j] = a[j]
      BY <1>1, <1>6, <2>1, <3>1
    <3>3. r[j] = s[j]
      BY <1>2, <3>1, <3>2
    <3> QED BY <2>1, <3>1, <3>3
  <2>2. CASE ~(j < i)
    <3>1. j - (i - 1) \in 1 .. Len(s) - i /\ i + (j - (i - 1)) = j + 1 /\ j + 1 \in DOMAIN s /\ j + 1 # i
      BY <1>1, <2>2
    <3>2. r[j] = b[j - (i - 1)]
      BY <1>1, <1>6, <2>2
    <3>3. r[j] = s[j + 1]
      BY <1>3, <3>1, <3>2
    <3> QED BY <2>2, <3>1, <3>3
  <2> QED BY <2>1, <2>2
<1>8. ASSUME NEW j \in 1 .. Len(s) - 1
      PROVE  r[j] # s[i] /\ \E k \in DOMAIN s : r[j] = s[k]
  BY <1>7
<1>9. ASSUME NEW j \in 1 .. Len(s) - 1, NEW k \in 1 .. Len(s) - 1, r[j] = r[k]
      PROVE  j = k
  <2> PICK jj \in DOMAIN s : jj = (IF j < i THEN j ELSE j + 1) /\ r[j] = s[jj]
    BY <1>7
  <2> PICK kk \in DOMAIN s : kk = (IF k < i THEN k ELSE k + 1) /\ r[k] = s[kk]
    BY <1>7
  <2>1. jj = kk
    BY <1>9
  <2> QED BY <1>1, <2>1
<1> QED BY <1>5, <1>8, <1>9 DEF r

LEMMA PlaceAdded ==
    ASSUME NEW s \in Seq(Int), NEW x \in Int
    PROVE  LET r == Append(s, x)
               n == Len(s)
           IN  /\ r \in Seq(Int) /\ DOMAIN r = 1 .. n + 1 /\ r[n + 1] = x /\ \A i \in 1 .. n : r[i] = s[i]
               /\ Entry!ToSet(r) = Entry!ToSet(s) \cup {x}
<1> DEFINE r == Append(s, x)
           n == Len(s)
<1>1. n \in Nat /\ DOMAIN s = 1 .. n
  OBVIOUS
<1>2. r \in Seq(Int) /\ DOMAIN r = 1 .. n + 1 /\ r[n + 1] = x /\ \A i \in 1 .. n : r[i] = s[i]
  OBVIOUS
<1> HIDE DEF r, n
<1>3. ASSUME NEW y \in Entry!ToSet(r)
      PROVE  y \in Entry!ToSet(s) \cup {x}
  <2> PICK i \in 1 .. n + 1 : y = r[i]
    BY <1>2 DEF Entry!ToSet
  <2>1. i \in 1 .. n \/ i = n + 1
    BY <1>1
  <2> QED BY <1>1, <1>2, <2>1 DEF Entry!ToSet
<1>4. ASSUME NEW y \in Entry!ToSet(s) \cup {x}
      PROVE  y \in Entry!ToSet(r)
  <2>1. CASE y = x
    <3>1. n + 1 \in 1 .. n + 1
      BY <1>1
    <3> QED BY <1>2, <2>1, <3>1 DEF Entry!ToSet
  <2>2. CASE y \in Entry!ToSet(s)
    <3> PICK i \in 1 .. n : y = s[i]
      BY <1>1, <2>2 DEF Entry!ToSet
    <3>1. i \in 1 .. n + 1
      BY <1>1
    <3> QED BY <1>2, <3>1 DEF Entry!ToSet
  <2> QED BY <1>4, <2>1, <2>2
<1>5. Entry!ToSet(r) = Entry!ToSet(s) \cup {x}
  BY <1>3, <1>4
<1> QED BY <1>2, <1>5 DEF r, n

LEMMA FilesKeep ==
    ASSUME Entry!UploadsRemembered, Entry!Next \/ UNCHANGED Entry!vars
    PROVE  Entry!UploadsRemembered'
<1>1. CASE UNCHANGED <<Entry!form, Entry!files, save, busy>>
  BY <1>1, SaveRests DEF Entry!form, Entry!files
<1>2. CASE Entry!SetTitle \/ Entry!SetNote
  <2>1. /\ draft'.photos = draft.photos /\ DOMAIN draft' = DOMAIN draft
        /\ UNCHANGED <<picked, picking, remembered, uploads, save, busy>>
    BY <1>2 DEF Entry!SetTitle, Entry!SetNote, Entry!UploadsRemembered, Entry!OneUploadEach, Entry!files, Entry!run
  <2> QED BY <2>1 DEF Entry!UploadsRemembered, Entry!OneUploadEach
<1>3. CASE Entry!Pick
  <2>1. picked' = picked + 1 /\ picking' = TRUE /\ UNCHANGED <<draft, remembered, uploads, save, busy>>
    BY <1>3 DEF Entry!Pick, Entry!files, Entry!run
  <2> HIDE <1>3
  <2>2. picked \in Int
    BY DEF Entry!UploadsRemembered, Entry!OneUploadEach
  <2>3. \A i \in DOMAIN draft.photos : draft.photos[i] \in Int /\ draft.photos[i] <= picked
    BY DEF Entry!UploadsRemembered, Entry!OneUploadEach
  <2>4. \A i \in DOMAIN draft.photos : draft.photos[i] <= picked' /\ draft.photos[i] # picked'
    BY <2>1, <2>2, <2>3
  <2>5. DOMAIN uploads \subseteq Int /\ \A p \in DOMAIN uploads : /\ uploads[p] \in {0, 1}
                                 /\ uploads[p] = 1 => (p \in remembered \/ p \notin Entry!ToSet(draft.photos)) /\ p <= picked
    BY DEF Entry!UploadsRemembered, Entry!OneUploadEach
  <2>6. \A p \in DOMAIN uploads : uploads[p] = 1 => p <= picked' /\ p # picked'
    BY <2>1, <2>2, <2>5
  <2> QED BY <2>1, <2>2, <2>4, <2>5, <2>6 DEF Entry!UploadsRemembered, Entry!OneUploadEach
<1>4. CASE Entry!Accept
  <2>1. picking /\ picking' = FALSE /\ UNCHANGED <<picked, remembered, uploads, save, busy>>
    BY <1>4 DEF Entry!Accept, Entry!files, Entry!run
  <2>2. CASE draft'.photos = draft.photos /\ DOMAIN draft' = DOMAIN draft
    BY <2>1, <2>2 DEF Entry!UploadsRemembered, Entry!OneUploadEach
  <2>3. CASE draft'.photos = Append(draft.photos, picked) /\ DOMAIN draft' = DOMAIN draft
    <3> DEFINE n == Len(draft.photos)
    <3>1. draft.photos \in Seq(Int) /\ picked \in Int /\ n \in Nat /\ DOMAIN draft.photos = 1 .. n
      BY DEF Entry!UploadsRemembered, Entry!OneUploadEach
    <3>2. /\ draft'.photos \in Seq(Int) /\ DOMAIN draft'.photos = 1 .. n + 1
          /\ draft'.photos[n + 1] = picked /\ \A i \in 1 .. n : draft'.photos[i] = draft.photos[i]
          /\ Entry!ToSet(draft'.photos) = Entry!ToSet(draft.photos) \cup {picked}
      BY <2>3, <3>1, PlaceAdded
    <3>3. \A i \in 1 .. n : draft.photos[i] # picked /\ draft.photos[i] <= picked
      BY <2>1, <3>1 DEF Entry!UploadsRemembered, Entry!OneUploadEach
    <3>4. \A i, j \in 1 .. n : draft.photos[i] = draft.photos[j] => i = j
      BY <3>1 DEF Entry!UploadsRemembered, Entry!OneUploadEach
    <3> HIDE DEF n
    <3>6. \A i, j \in 1 .. n + 1 : draft'.photos[i] = draft'.photos[j] => i = j
      <4> TAKE i, j \in 1 .. n + 1
      <4>1. i \in 1 .. n \/ i = n + 1
        BY <3>1
      <4>2. j \in 1 .. n \/ j = n + 1
        BY <3>1
      <4> QED BY <3>2, <3>3, <3>4, <4>1, <4>2
    <3>7. \A i \in 1 .. n + 1 : draft'.photos[i] <= picked
      <4> TAKE i \in 1 .. n + 1
      <4>1. i \in 1 .. n \/ i = n + 1
        BY <3>1
      <4>2. picked <= picked
        BY <3>1
      <4> QED BY <3>2, <3>3, <4>1, <4>2
    <3>8. \A p \in DOMAIN uploads : /\ uploads[p] \in {0, 1}
                                    /\ uploads[p] = 1 => /\ p \in remembered \/ p \notin Entry!ToSet(draft.photos)
                                                         /\ p <= picked /\ p # picked
      BY <2>1 DEF Entry!UploadsRemembered, Entry!OneUploadEach
    <3> QED BY <2>1, <2>3, <3>2, <3>6, <3>7, <3>8 DEF Entry!UploadsRemembered, Entry!OneUploadEach
  <2>4. DOMAIN draft' = DOMAIN draft /\ draft'.photos \in {draft.photos, Append(draft.photos, picked)}
    <3>1. CASE draft' = draft
      BY <3>1
    <3>2. CASE draft' = [draft EXCEPT !.photos = IF Len(@) < PhotosMax THEN Append(@, picked) ELSE @]
      <4>1. DOMAIN draft = {"photos", "title", "note"}
        BY DEF Entry!UploadsRemembered, Entry!OneUploadEach
      <4> QED BY <3>2, <4>1
    <3> QED BY <1>4, <3>1, <3>2 DEF Entry!Accept
  <2> QED BY <2>2, <2>3, <2>4
<1>5. ASSUME NEW i \in DOMAIN draft.photos, Entry!RemovePhoto(i)
      PROVE  Entry!UploadsRemembered'
  <2> DEFINE s == draft.photos
             r == Entry!RemoveAt(s, i)
  <2>1. /\ s \in Seq(Int) /\ DOMAIN draft = {"photos", "title", "note"}
        /\ \A j, k \in DOMAIN s : s[j] = s[k] => j = k
        /\ \A j \in DOMAIN s : s[j] <= picked /\ (picking => s[j] # picked)
    BY DEF Entry!UploadsRemembered, Entry!OneUploadEach
  <2>2. draft' = [draft EXCEPT !.photos = r] /\ remembered' = remembered \ {s[i]}
    BY <1>5 DEF Entry!RemovePhoto
  <2>3. UNCHANGED <<picked, picking, uploads, save, busy>> /\ save.st = "idle"
    BY <1>5 DEF Entry!RemovePhoto, Entry!Live, Entry!run, Entry!UploadsRemembered, Entry!OneUploadEach
  <2>4. /\ r \in Seq(Int) /\ \A j, k \in DOMAIN r : r[j] = r[k] => j = k
        /\ \A j \in DOMAIN r : r[j] # s[i] /\ \E k \in DOMAIN s : r[j] = s[k]
    <3> HIDE DEF s
    <3> QED BY <1>5, <2>1, WithoutPlace DEF s
  <2> HIDE DEF r
  <2>5. draft'.photos = r /\ DOMAIN draft' = {"photos", "title", "note"}
    BY <2>1, <2>2
  <2>6. \A j \in DOMAIN r : r[j] <= picked /\ (picking => r[j] # picked)
    BY <2>1, <2>4
  <2>7. Entry!ToSet(r) \subseteq Entry!ToSet(s) \ {s[i]}
    BY <2>4 DEF Entry!ToSet
  <2>8. \A p \in DOMAIN uploads : /\ uploads[p] \in {0, 1}
                                  /\ uploads[p] = 1 => (p \in remembered \/ p \notin Entry!ToSet(s))
                                                       /\ p <= picked /\ (picking => p # picked)
    BY DEF Entry!UploadsRemembered, Entry!OneUploadEach
  <2> HIDE DEF s
  <2>9. \A p \in DOMAIN uploads' : /\ uploads'[p] \in {0, 1}
                                   /\ uploads'[p] = 1 => (p \in remembered' \/ p \notin Entry!ToSet(r))
                                                         /\ p <= picked' /\ (picking' => p # picked')
    BY <2>2, <2>3, <2>7, <2>8
  <2> QED BY <2>3, <2>4, <2>5, <2>6, <2>9 DEF Entry!UploadsRemembered, Entry!OneUploadEach
<1>6. CASE Entry!Submit
  <2> DEFINE f == [st |-> "uploading", i |-> 1, form |-> draft]
  <2>1. save' = f /\ busy' /\ UNCHANGED <<draft, picked, picking, remembered, uploads>>
    BY <1>6 DEF Entry!Submit, Entry!form, Entry!files
  <2>2. DOMAIN f = {"st", "i", "form"} /\ f.st = "uploading" /\ f.i = 1 /\ f.form = draft
    OBVIOUS
  <2> HIDE DEF f
  <2> QED BY <2>1, <2>2 DEF Entry!UploadsRemembered, Entry!OneUploadEach
<1>7. CASE Entry!NextPhoto
  <2> DEFINE p == save.form.photos[save.i]
  <2>1. /\ save.st = "uploading" /\ save' = [save EXCEPT !.i = @ + 1]
        /\ UNCHANGED <<draft, picked, picking, busy>>
    BY <1>7 DEF Entry!NextPhoto, Entry!Uploading, Entry!form
  <2>2. save.form.photos \in Seq(Int) /\ save.i \in Nat \ {0} /\ DOMAIN save = {"st", "i", "form"}
    BY <2>1 DEF Entry!UploadsRemembered, Entry!OneUploadEach
  <2>3. save.i \in DOMAIN save.form.photos
    BY <1>7, <2>2 DEF Entry!NextPhoto, Entry!Uploading
  <2>4. p \in Entry!ToSet(draft.photos)
    <3>1. p \in Entry!ToSet(save.form.photos)
      BY <2>3 DEF Entry!ToSet
    <3> QED BY <2>1, <3>1 DEF Entry!UploadsRemembered, Entry!OneUploadEach
  <2>5. p <= picked /\ (picking => p # picked)
    BY <2>4 DEF Entry!UploadsRemembered, Entry!OneUploadEach, Entry!ToSet
  <2>6. /\ DOMAIN save' = {"st", "i", "form"} /\ save'.st = save.st /\ save'.form = save.form
        /\ save'.i \in Nat \ {0}
    BY <2>1, <2>2
  <2>7. \/ UNCHANGED <<remembered, uploads>>
        \/ p \notin remembered /\ remembered' = remembered \cup {p} /\ uploads' = [uploads EXCEPT ![p] = @ + 1]
    BY <1>7 DEF Entry!NextPhoto, Entry!Held, Entry!Known, Entry!At, Entry!files
  <2> HIDE DEF p
  <2>8. \A q \in DOMAIN uploads : /\ uploads[q] \in {0, 1}
                                  /\ uploads[q] = 1 => (q \in remembered \/ q \notin Entry!ToSet(draft.photos))
                                                       /\ q <= picked /\ (picking => q # picked)
    BY DEF Entry!UploadsRemembered, Entry!OneUploadEach
  <2>9. \A q \in DOMAIN uploads' : /\ uploads'[q] \in {0, 1}
                                   /\ uploads'[q] = 1 => (q \in remembered' \/ q \notin Entry!ToSet(draft'.photos))
                                                         /\ q <= picked' /\ (picking' => q # picked')
    <3>1. CASE UNCHANGED <<remembered, uploads>>
      BY <2>1, <2>8, <3>1
    <3>2. CASE p \notin remembered /\ remembered' = remembered \cup {p} /\ uploads' = [uploads EXCEPT ![p] = @ + 1]
      <4>1. DOMAIN uploads' = DOMAIN uploads /\ \A q \in DOMAIN uploads : q # p => uploads'[q] = uploads[q]
        BY <3>2
      <4>2. p \in DOMAIN uploads => uploads[p] = 0 /\ uploads'[p] = 1
        <5>1. p \in DOMAIN uploads => uploads[p] \in {0, 1} /\ uploads[p] # 1
          <6>1. \A q \in DOMAIN uploads : uploads[q] \in {0, 1} /\
                                     (uploads[q] = 1 => q \in remembered \/ q \notin Entry!ToSet(draft.photos))
            BY DEF Entry!UploadsRemembered, Entry!OneUploadEach
          <6> QED BY <2>4, <3>2, <6>1
        <5>2. p \in DOMAIN uploads => uploads'[p] = uploads[p] + 1
          BY <3>2
        <5> QED BY <5>1, <5>2
      <4> QED BY <2>1, <2>5, <2>8, <3>2, <4>1, <4>2
    <3> QED BY <2>7, <3>1, <3>2
  <2>10. Entry!ToSet(save'.form.photos) \subseteq Entry!ToSet(draft'.photos) /\ save'.form.photos \in Seq(Int)
    <3>1. Entry!ToSet(save.form.photos) \subseteq Entry!ToSet(draft.photos)
      BY <2>1 DEF Entry!UploadsRemembered, Entry!OneUploadEach
    <3> QED BY <2>1, <2>2, <2>6, <3>1
  <2>11. DOMAIN uploads' = DOMAIN uploads
    BY <2>7
  <2>12. DOMAIN save'.form = {"photos", "title", "note"} /\ (~busy' => save'.st = "idle")
    BY <2>1, <2>6 DEF Entry!UploadsRemembered, Entry!OneUploadEach
  <2>13. /\ DOMAIN draft' = {"photos", "title", "note"} /\ draft'.photos \in Seq(Int) /\ picked' \in Int
         /\ \A i, j \in DOMAIN draft'.photos : draft'.photos[i] = draft'.photos[j] => i = j
         /\ \A i \in DOMAIN draft'.photos : draft'.photos[i] <= picked' /\ (picking' => draft'.photos[i] # picked')
    BY <2>1 DEF Entry!UploadsRemembered, Entry!OneUploadEach
  <2>14. DOMAIN uploads' \subseteq Int
    BY <2>11 DEF Entry!UploadsRemembered, Entry!OneUploadEach
  <2>15. Entry!OneUploadEach'
    BY <2>9, <2>14 DEF Entry!OneUploadEach
  <2> QED BY <2>6, <2>10, <2>12, <2>13, <2>15 DEF Entry!UploadsRemembered
<1>8. Entry!SaveAnswered \/ Entry!SaveRefused \/ Entry!SaveLost \/ Entry!UploadFails
         => UNCHANGED <<Entry!form, Entry!files>> /\ save' = Entry!NoSave
  BY DEF Entry!SaveAnswered, Entry!SaveRefused, Entry!SaveLost, Entry!UploadFails, Entry!SubmitEnds
<1>9. Entry!Post \/ Entry!PostServed \/ Entry!PatchServed
         => UNCHANGED <<Entry!form, Entry!files, busy>> /\ save.st # "idle" /\ \E w : save' = [save EXCEPT !.st = w]
  BY DEF Entry!Post, Entry!PostServed, Entry!PatchServed
<1>10. CASE \/ Entry!Cancel \/ Entry!Back \/ Entry!ConfirmLeave \/ Entry!KeepEditing \/ Entry!BackToToday \/ Entry!Covers
            \/ Entry!Uncovers \/ Entry!Elsewhere
  <2>1. UNCHANGED <<Entry!form, Entry!files, save, busy>>
    BY <1>10 DEF Entry!Cancel, Entry!Back, Entry!ConfirmLeave, Entry!KeepEditing, Entry!BackToToday, Entry!Covers,
         Entry!Uncovers, Entry!Elsewhere, Entry!run
  <2> QED BY <1>1, <2>1
<1>11. CASE UNCHANGED Entry!vars
  <2>1. UNCHANGED <<Entry!form, Entry!files, save, busy>>
    BY <1>11 DEF Entry!vars, Entry!run
  <2> QED BY <1>1, <2>1
<1>12. UNCHANGED <<Entry!form, Entry!files>> => UNCHANGED <<draft, picked, picking, remembered, uploads>>
  BY DEF Entry!form, Entry!files
<1>13. CASE Entry!SaveAnswered \/ Entry!SaveRefused \/ Entry!SaveLost \/ Entry!UploadFails
  BY <1>8, <1>12, <1>13, SaveRests
<1>14. CASE Entry!Post \/ Entry!PostServed \/ Entry!PatchServed
  <2>1. /\ UNCHANGED <<draft, picked, picking, remembered, uploads>>
        /\ busy' = busy /\ save.st # "idle" /\ \E w : save' = [save EXCEPT !.st = w]
    BY <1>9, <1>12, <1>14
  <2> QED BY <2>1, SaveRests
<1>15. CASE \E i \in DOMAIN draft.photos : Entry!RemovePhoto(i)
  BY <1>5, <1>15
<1> QED BY <1>2, <1>3, <1>4, <1>6, <1>7, <1>10, <1>11, <1>13, <1>14, <1>15
       DEF Entry!Next, Entry!Runs, Entry!Person

LEMMA FileUpOnce == Entry!UploadsRemembered => Entry!FileUploadedOnce
BY DEF Entry!UploadsRemembered, Entry!OneUploadEach, Entry!FileUploadedOnce

(* ---- Start-up, doors and taps -------------------------------------------- *)

Launch == INSTANCE PhoneLaunch

LEMMA LaunchStarts == Launch!Init => Launch!HooksMarked
BY DEF Launch!Init, Launch!HooksMarked

LEMMA DoorsKeep ==
    ASSUME Launch!HooksMarked, Launch!DoorsMove
    PROVE  Launch!HooksMarked' /\ Launch!ExtrasLeft
BY DEF Launch!DoorsMove, Launch!HooksMarked, Launch!ExtrasLeft

LEMMA OpenKeeps ==
    ASSUME Launch!HooksMarked, NEW h \in Launch!Hooks, NEW t, Launch!Open(h, t)
    PROVE  Launch!HooksMarked' /\ Launch!ExtrasLeft
<1>1. CASE Launch!Listens(h, t) /\ Launch!NewTap(h, t)
  <2>1. handled' = [handled EXCEPT ![h] = t] /\ handled[h] # t
    BY <1>1 DEF Launch!Open, Launch!NewTap
  <2>2. DOMAIN handled' = Launch!Hooks /\ handled'[h] = t
    BY <2>1 DEF Launch!HooksMarked
  <2> QED BY <2>1, <2>2 DEF Launch!HooksMarked, Launch!ExtrasLeft
<1>2. CASE ~(Launch!Listens(h, t) /\ Launch!NewTap(h, t))
  BY <1>2 DEF Launch!Open, Launch!HooksMarked, Launch!ExtrasLeft
<1> QED BY <1>1, <1>2

LEMMA LaunchKeeps ==
    ASSUME Launch!HooksMarked, Launch!Next \/ UNCHANGED Launch!vars
    PROVE  Launch!HooksMarked' /\ Launch!ExtrasLeft
<1>1. ASSUME NEW f, Launch!FontsEnd(f)
      PROVE  Launch!HooksMarked' /\ Launch!ExtrasLeft
  BY <1>1 DEF Launch!FontsEnd, Launch!HooksMarked, Launch!ExtrasLeft, Launch!pages, Launch!tapState
<1>2. CASE Launch!IntroRead
  BY <1>2 DEF Launch!IntroRead, Launch!HooksMarked, Launch!ExtrasLeft, Launch!pages, Launch!tapState
<1>3. CASE Launch!SplashHides
  BY <1>3 DEF Launch!SplashHides, Launch!HooksMarked, Launch!ExtrasLeft, Launch!pages, Launch!tapState
<1>4. CASE Launch!AsksRestore
  BY <1>4 DEF Launch!AsksRestore, Launch!HooksMarked, Launch!ExtrasLeft, Launch!pages, Launch!tapState
<1>5. ASSUME NEW outcome, Launch!RestoreEnds(outcome)
      PROVE  Launch!HooksMarked' /\ Launch!ExtrasLeft
  BY <1>5, DoorsKeep DEF Launch!RestoreEnds
<1>6. CASE Launch!Redirect
  BY <1>6 DEF Launch!Redirect, Launch!HooksMarked, Launch!ExtrasLeft
<1>7. CASE Launch!AuthMoves
  <2>1. rootPage # "app"
    BY <1>7 DEF Launch!AuthMoves, Launch!AuthGoes, Launch!On, Launch!Before
  <2> QED BY <1>7, <2>1 DEF Launch!AuthMoves, Launch!AuthGoes, Launch!HooksMarked, Launch!ExtrasLeft, Launch!tapState
<1>8. ASSUME NEW v, Launch!TypeLogin(v)
      PROVE  Launch!HooksMarked' /\ Launch!ExtrasLeft
  BY <1>8 DEF Launch!TypeLogin, Launch!HooksMarked, Launch!ExtrasLeft, Launch!pages, Launch!tapState
<1>9. CASE Launch!Submit
  BY <1>9 DEF Launch!Submit, Launch!HooksMarked, Launch!ExtrasLeft, Launch!pages, Launch!tapState
<1>10. CASE Launch!SignUpAnswered
  BY <1>10 DEF Launch!SignUpAnswered, Launch!HooksMarked, Launch!ExtrasLeft, Launch!pages, Launch!tapState
<1>11. CASE Launch!LoginTaken
  BY <1>11 DEF Launch!LoginTaken, Launch!HooksMarked, Launch!ExtrasLeft, Launch!pages, Launch!tapState
<1>12. ASSUME NEW why, Launch!LoginRefused(why)
      PROVE  Launch!HooksMarked' /\ Launch!ExtrasLeft
  BY <1>12 DEF Launch!LoginRefused, Launch!HooksMarked, Launch!ExtrasLeft, Launch!pages, Launch!tapState
<1>13. CASE Launch!SignInLands
  BY <1>13, DoorsKeep DEF Launch!SignInLands
<1>14. ASSUME NEW t, Launch!PressTab(t)
      PROVE  Launch!HooksMarked' /\ Launch!ExtrasLeft
  BY <1>14 DEF Launch!PressTab, Launch!BarHidden, Launch!HooksMarked, Launch!ExtrasLeft, Launch!tapState
<1>15. CASE Launch!PopPage
  BY <1>15 DEF Launch!PopPage, Launch!HooksMarked, Launch!ExtrasLeft, Launch!tapState
<1>16. CASE Launch!ExtrasDone
  BY <1>16 DEF Launch!ExtrasDone, Launch!HooksMarked, Launch!ExtrasLeft, Launch!tapState
<1>17. CASE Launch!SessionEnds
  BY <1>17, DoorsKeep DEF Launch!SessionEnds
<1>18. ASSUME NEW kind, Launch!Tap(kind)
      PROVE  Launch!HooksMarked' /\ Launch!ExtrasLeft
  <2>1. CASE rootPage = "app"
    <3>1. \E h \in Launch!Hooks : \E t : Launch!Open(h, t)
      BY <1>18, <2>1 DEF Launch!Tap, Launch!Hooks
    <3> QED BY <3>1, OpenKeeps
  <2>2. CASE rootPage # "app"
    BY <1>18, <2>2 DEF Launch!Tap, Launch!HooksMarked, Launch!ExtrasLeft
  <2> QED BY <2>1, <2>2
<1>19. ASSUME NEW h \in Launch!Hooks, Launch!LaunchRead(h)
      PROVE  Launch!HooksMarked' /\ Launch!ExtrasLeft
  <2>1. \E t : Launch!Open(h, t)
    BY <1>19 DEF Launch!LaunchRead
  <2> QED BY <2>1, OpenKeeps
<1>20. CASE UNCHANGED Launch!vars
  BY <1>20 DEF Launch!HooksMarked, Launch!ExtrasLeft, Launch!vars, Launch!pages, Launch!tapState
<1> QED BY <1>1, <1>2, <1>3, <1>4, <1>5, <1>6, <1>7, <1>8, <1>9, <1>10, <1>11, <1>12, <1>13, <1>14, <1>15, <1>16,
     <1>17, <1>18, <1>19, <1>20 DEF Launch!Next, Launch!LaunchSteps

(* ---- Taps that open a page once -------------------------------------------- *)

LEMMA TapsStart ==
    ASSUME MaxLaunchTaps \in Nat, Launch!Init
    PROVE  Launch!TapsMarked
<1>1. /\ lastTap = 0 /\ handled = [h \in Launch!Hooks |-> 0] /\ launchReads = [h \in Launch!Hooks |-> {}]
      /\ launchTaps = [t \in 1 .. MaxLaunchTaps |-> "nowhere"] /\ followed = [t \in 1 .. MaxLaunchTaps |-> 0]
  BY DEF Launch!Init, Launch!Unmounted
<1>2. lastTap \in 0 .. MaxLaunchTaps
  BY <1>1
<1>3. \A h \in Launch!Hooks : handled[h] \in 0 .. lastTap /\ launchReads[h] \subseteq 0 .. lastTap
  BY <1>1
<1>4. \A t \in 1 .. MaxLaunchTaps : followed[t] \in Nat /\ followed[t] = 0
  BY <1>1
<1> QED BY <1>1, <1>2, <1>3, <1>4 DEF Launch!TapsMarked

\* A launch read that answers no one, or for a layout that left.
LEMMA TapsRest ==
    ASSUME Launch!TapsMarked, UNCHANGED <<launchTaps, lastTap, handled, followed, tapOvertaken>>,
           DOMAIN launchReads' = Launch!Hooks, \A h \in Launch!Hooks : launchReads'[h] \subseteq launchReads[h]
    PROVE  Launch!TapsMarked'
<1>1. \A t : Launch!HookOf(t)' = Launch!HookOf(t) /\ Launch!HookOf(t) \in Launch!Hooks
  BY DEF Launch!HookOf, Launch!Hooks
<1>2. \A h \in Launch!Hooks : handled'[h] \in 0 .. lastTap' /\ launchReads'[h] \subseteq 0 .. lastTap'
  BY DEF Launch!TapsMarked
<1>3. \A t \in 1 .. MaxLaunchTaps : t \notin launchReads[Launch!HookOf(t)] => t \notin launchReads'[Launch!HookOf(t)]
  BY <1>1
<1> QED BY <1>1, <1>2, <1>3 DEF Launch!TapsMarked

LEMMA DoorsKeepTaps ==
    ASSUME Launch!TapsMarked, Launch!DoorsMove
    PROVE  Launch!TapsMarked'
<1>1. launchReads' = launchReads \/ launchReads' = [h \in Launch!Hooks |-> {}]
  BY DEF Launch!DoorsMove, Launch!Unmounted
<1>2. DOMAIN launchReads' = Launch!Hooks /\ \A h \in Launch!Hooks : launchReads'[h] \subseteq launchReads[h]
  BY <1>1 DEF Launch!TapsMarked
<1> QED BY <1>2, TapsRest DEF Launch!DoorsMove

LEMMA RedirectKeepsTaps ==
    ASSUME Launch!TapsMarked, Launch!Redirect
    PROVE  Launch!TapsMarked'
<1>1. UNCHANGED <<launchTaps, lastTap, handled, followed, tapOvertaken>>
  BY DEF Launch!Redirect
<1>2. CASE launchReads' = launchReads
  BY <1>1, <1>2, TapsRest DEF Launch!TapsMarked
<1>3. CASE launchReads' = [h \in Launch!Hooks |-> {lastTap}]
  <2>1. \A t : Launch!HookOf(t)' = Launch!HookOf(t) /\ Launch!HookOf(t) \in Launch!Hooks
    BY <1>1 DEF Launch!HookOf, Launch!Hooks
  <2>2. DOMAIN launchReads' = Launch!Hooks /\ \A h \in Launch!Hooks : launchReads'[h] = {lastTap}
    BY <1>3
  <2>3. \A h \in Launch!Hooks : handled'[h] \in 0 .. lastTap' /\ launchReads'[h] \subseteq 0 .. lastTap'
    BY <1>1, <2>2 DEF Launch!TapsMarked
  <2>4. \A t \in 1 .. MaxLaunchTaps : t < lastTap => t \notin launchReads'[Launch!HookOf(t)]
    BY <2>1, <2>2 DEF Launch!TapsMarked
  <2> QED BY <1>1, <2>1, <2>2, <2>3, <2>4 DEF Launch!TapsMarked
<1> QED BY <1>2, <1>3 DEF Launch!Redirect

\* A new tap: nothing of the older ones changes, and it is followed once at most.
LEMMA TapKeeps ==
    ASSUME MaxLaunchTaps \in Nat, Launch!TapsMarked, NEW kind, Launch!Tap(kind)
    PROVE  Launch!TapsMarked'
<1> PICK n \in Nat : n = lastTap + 1
  BY DEF Launch!TapsMarked
<1> DEFINE h == IF kind = "reminder" THEN "reminder" ELSE "push"
<1>1. n = lastTap + 1 /\ n \in 1 .. MaxLaunchTaps /\ lastTap \in Nat /\ lastTap' = n
  BY DEF Launch!Tap, Launch!TapsMarked
<1>2. launchTaps' = [launchTaps EXCEPT ![n] = kind]
  BY DEF Launch!Tap
<1>3. launchReads' = [g \in Launch!Hooks |-> IF launchReads[g] = {} THEN {} ELSE launchReads[g] \cup {n}]
  BY DEF Launch!Tap
<1>4. h \in Launch!Hooks /\ Launch!HookOf(n)' = h
  <2>1. launchTaps'[n] = kind
    BY <1>1, <1>2 DEF Launch!TapsMarked
  <2>2. Launch!HookOf(n)' = IF launchTaps'[n] = "reminder" THEN "reminder" ELSE "push"
    BY DEF Launch!HookOf
  <2>3. h \in Launch!Hooks
    BY DEF Launch!Hooks
  <2> QED BY <2>1, <2>2, <2>3
<1>5. \/ UNCHANGED <<handled, followed, tapOvertaken>>
      \/ /\ handled' = [handled EXCEPT ![h] = n] /\ followed' = [followed EXCEPT ![n] = @ + 1]
         /\ tapOvertaken' = IF n < handled[h] THEN tapOvertaken \cup {n, handled[h]} ELSE tapOvertaken
  BY DEF Launch!Tap, Launch!Open
<1> HIDE DEF h
<1>6. \A t \in 1 .. MaxLaunchTaps : t # n => Launch!HookOf(t)' = Launch!HookOf(t) /\ Launch!HookOf(t) \in Launch!Hooks
  BY <1>1, <1>2 DEF Launch!Hooks, Launch!HookOf, Launch!TapsMarked
<1>7. handled[h] \in 0 .. lastTap /\ followed[n] \in Nat
  BY <1>1, <1>4 DEF Launch!TapsMarked
<1>8. tapOvertaken' = tapOvertaken
  BY <1>1, <1>5, <1>7
<1>9. n \in tapOvertaken \/ followed[n] = 0
  BY <1>1 DEF Launch!TapsMarked
<1>10. /\ DOMAIN handled' = Launch!Hooks /\ DOMAIN launchReads' = Launch!Hooks
       /\ DOMAIN launchTaps' = 1 .. MaxLaunchTaps /\ DOMAIN followed' = 1 .. MaxLaunchTaps
  BY <1>2, <1>3, <1>5 DEF Launch!TapsMarked
<1>11. \A g \in Launch!Hooks : /\ handled'[g] \in {handled[g], n} /\ handled'[g] \in 0 .. n /\ handled'[g] >= handled[g]
                               /\ launchReads'[g] \subseteq launchReads[g] \cup {n} /\ launchReads'[g] \subseteq 0 .. n
  BY <1>1, <1>3, <1>5, <1>7 DEF Launch!TapsMarked
<1>12. \A t \in 1 .. MaxLaunchTaps : t # n => followed'[t] = followed[t]
  BY <1>5 DEF Launch!TapsMarked
<1>13. followed'[n] \in Nat /\ (n \in tapOvertaken' \/ followed'[n] = 0 \/ (followed'[n] = 1 /\ handled'[h] = n))
  BY <1>1, <1>4, <1>5, <1>7, <1>8, <1>9 DEF Launch!TapsMarked
<1>14. ASSUME NEW t \in 1 .. MaxLaunchTaps, t # n
       PROVE  /\ followed'[t] \in Nat
              /\ t \in tapOvertaken' \/ followed'[t] = 0 \/
                 (/\ followed'[t] = 1 /\ t <= lastTap'
                  /\ handled'[Launch!HookOf(t)'] >= t \/ (t < lastTap' /\ t \notin launchReads'[Launch!HookOf(t)']))
  <2> DEFINE g == Launch!HookOf(t)
  <2>1. g \in Launch!Hooks /\ Launch!HookOf(t)' = g /\ followed'[t] = followed[t] /\ tapOvertaken' = tapOvertaken
    BY <1>6, <1>8, <1>12, <1>14
  <2>2. followed[t] \in Nat /\ (t \in tapOvertaken \/ followed[t] = 0 \/
                 (/\ followed[t] = 1 /\ t <= lastTap
                  /\ handled[g] >= t \/ (t < lastTap /\ t \notin launchReads[g])))
    BY DEF Launch!TapsMarked
  <2> HIDE DEF g
  <2>3. handled[g] \in Nat /\ handled'[g] \in Nat /\ handled'[g] >= handled[g]
    BY <1>1, <1>11, <2>1 DEF Launch!TapsMarked
  <2>4. handled[g] >= t => handled'[g] >= t
    BY <2>3
  <2>5. t \notin launchReads[g] => t \notin launchReads'[g]
    BY <1>11, <1>14, <2>1
  <2>6. lastTap' = lastTap + 1 /\ (t <= lastTap => t <= lastTap') /\ (t < lastTap => t < lastTap')
    BY <1>1
  <2> QED BY <2>1, <2>2, <2>4, <2>5, <2>6
<1>15. /\ followed'[n] \in Nat
       /\ n \in tapOvertaken' \/ followed'[n] = 0 \/ (followed'[n] = 1 /\ n <= lastTap' /\ handled'[Launch!HookOf(n)'] >= n)
  BY <1>1, <1>4, <1>13
<1>16. \A t \in 1 .. MaxLaunchTaps :
          /\ followed'[t] \in Nat
          /\ t \in tapOvertaken' \/ followed'[t] = 0 \/
             (/\ followed'[t] = 1 /\ t <= lastTap'
              /\ handled'[Launch!HookOf(t)'] >= t \/ (t < lastTap' /\ t \notin launchReads'[Launch!HookOf(t)']))
  BY <1>14, <1>15
<1>17. lastTap' \in 0 .. MaxLaunchTaps
  BY <1>1
<1>18. \A g \in Launch!Hooks : handled'[g] \in 0 .. lastTap' /\ launchReads'[g] \subseteq 0 .. lastTap'
  BY <1>1, <1>11
<1> QED BY <1>10, <1>16, <1>17, <1>18 DEF Launch!TapsMarked

\* What a launch read answers: an older tap counts as overtaken, with the one that was followed.
LEMMA ReadKeeps ==
    ASSUME MaxLaunchTaps \in Nat, Launch!TapsMarked, NEW h \in Launch!Hooks, Launch!LaunchRead(h)
    PROVE  Launch!TapsMarked'
<1>1. UNCHANGED <<launchTaps, lastTap>> /\ launchReads' = [launchReads EXCEPT ![h] = {}]
  BY DEF Launch!LaunchRead
<1>2. PICK n \in launchReads[h] : Launch!Open(h, n)
  BY DEF Launch!LaunchRead
<1>3. /\ DOMAIN launchReads' = Launch!Hooks /\ launchReads'[h] = {}
      /\ \A g \in Launch!Hooks : g # h => launchReads'[g] = launchReads[g]
  BY <1>1 DEF Launch!TapsMarked
<1>4. CASE UNCHANGED <<handled, followed, tapOvertaken>>
  BY <1>1, <1>3, <1>4, TapsRest
<1>5. CASE ~UNCHANGED <<handled, followed, tapOvertaken>>
  <2>1. Launch!Listens(h, n) /\ Launch!NewTap(h, n)
    BY <1>2, <1>5 DEF Launch!Open
  <2>2. /\ handled' = [handled EXCEPT ![h] = n] /\ followed' = [followed EXCEPT ![n] = @ + 1]
        /\ tapOvertaken' = IF n < handled[h] THEN tapOvertaken \cup {n, handled[h]} ELSE tapOvertaken
    BY <1>2, <2>1 DEF Launch!Open
  <2>3. n # 0 /\ handled[h] # n /\ Launch!HookOf(n) = h
    BY <1>1, <2>1 DEF Launch!Listens, Launch!NewTap, Launch!HookOf, Launch!Hooks
  <2>4. \A t : Launch!HookOf(t)' = Launch!HookOf(t) /\ Launch!HookOf(t) \in Launch!Hooks
    BY <1>1 DEF Launch!HookOf, Launch!Hooks
  <2>5. n \in 0 .. lastTap /\ lastTap \in 0 .. MaxLaunchTaps /\ handled[h] \in 0 .. lastTap
    BY <1>2 DEF Launch!TapsMarked
  <2>6. n \in 1 .. MaxLaunchTaps /\ n <= lastTap
    <3>1. n \in Int /\ lastTap \in Int /\ n # 0
      BY <2>3, <2>5
    <3> QED BY <2>5, <3>1
  <2>7. /\ DOMAIN handled' = Launch!Hooks /\ DOMAIN followed' = 1 .. MaxLaunchTaps
        /\ handled'[h] = n /\ \A g \in Launch!Hooks : g # h => handled'[g] = handled[g]
        /\ followed'[n] = followed[n] + 1 /\ \A t \in 1 .. MaxLaunchTaps : t # n => followed'[t] = followed[t]
    BY <2>2, <2>6 DEF Launch!TapsMarked
  <2>8. \A g \in Launch!Hooks : handled'[g] \in 0 .. lastTap' /\ launchReads'[g] \subseteq 0 .. lastTap'
    BY <1>1, <1>3, <2>5, <2>7 DEF Launch!TapsMarked
  <2>9. ASSUME n \notin tapOvertaken'
        PROVE  followed[n] = 0
    <3>1. n \notin tapOvertaken /\ n > handled[h]
      BY <2>2, <2>3, <2>5, <2>9
    <3>2. n \in launchReads[Launch!HookOf(n)] /\ ~(handled[Launch!HookOf(n)] >= n)
      BY <1>2, <2>3, <2>5, <3>1
    <3> QED BY <2>6, <3>1, <3>2 DEF Launch!TapsMarked
  <2>10. followed'[n] \in Nat /\ (n \in tapOvertaken' \/ (followed'[n] = 1 /\ n <= lastTap' /\ handled'[Launch!HookOf(n)] >= n))
    BY <1>1, <2>3, <2>5, <2>6, <2>7, <2>9 DEF Launch!TapsMarked
  <2>11. ASSUME NEW t \in 1 .. MaxLaunchTaps, t # n
         PROVE  /\ followed'[t] \in Nat
                /\ t \in tapOvertaken' \/ followed'[t] = 0 \/
                   (/\ followed'[t] = 1 /\ t <= lastTap'
                    /\ handled'[Launch!HookOf(t)] >= t \/ (t < lastTap' /\ t \notin launchReads'[Launch!HookOf(t)]))
    <3> DEFINE g == Launch!HookOf(t)
    <3>1. g \in Launch!Hooks /\ followed'[t] = followed[t] /\ (t \in tapOvertaken => t \in tapOvertaken')
      BY <2>2, <2>4, <2>7, <2>11
    <3>2. followed[t] \in Nat /\ (t \in tapOvertaken \/ followed[t] = 0 \/
                   (/\ followed[t] = 1 /\ t <= lastTap
                    /\ handled[g] >= t \/ (t < lastTap /\ t \notin launchReads[g])))
      BY DEF Launch!TapsMarked
    <3> HIDE DEF g
    <3>3. CASE g # h
      <4>1. handled'[g] = handled[g] /\ launchReads'[g] = launchReads[g] /\ lastTap' = lastTap
        BY <1>1, <1>3, <2>7, <3>1, <3>3
      <4> QED BY <3>1, <3>2, <4>1 DEF g
    <3>4. CASE g = h
      <4>1. t \notin launchReads'[g]
        BY <1>3, <3>4
      <4>2. CASE t = lastTap
        <5>1. CASE n < handled[h]
          <6>1. t \in tapOvertaken' \/ handled[h] # t
            BY <2>2, <5>1
          <6> QED BY <2>5, <3>1, <3>2, <3>4, <4>2, <6>1
        <5>2. CASE ~(n < handled[h])
          BY <2>3, <2>5, <2>11, <3>1, <3>2, <3>4, <4>2, <5>2
        <5> QED BY <5>1, <5>2
      <4>3. CASE t # lastTap
        <5>1. lastTap' = lastTap /\ (t <= lastTap => t < lastTap)
          BY <1>1, <2>5, <4>3
        <5> QED BY <3>1, <3>2, <4>1, <5>1 DEF g
      <4> QED BY <4>2, <4>3
    <3> QED BY <3>3, <3>4 DEF g
  <2> QED BY <1>1, <1>3, <2>4, <2>5, <2>7, <2>8, <2>10, <2>11 DEF Launch!TapsMarked
<1> QED BY <1>4, <1>5

LEMMA TapsKeep ==
    ASSUME MaxLaunchTaps \in Nat, Launch!TapsMarked, Launch!Next \/ UNCHANGED Launch!vars
    PROVE  Launch!TapsMarked'
<1>1. CASE UNCHANGED Launch!tapState
  BY <1>1, TapsRest DEF Launch!tapState, Launch!TapsMarked
<1>2. CASE Launch!DoorsMove
  BY <1>2, DoorsKeepTaps
<1>3. CASE Launch!Redirect
  BY <1>3, RedirectKeepsTaps
<1>4. ASSUME NEW kind, Launch!Tap(kind)
      PROVE  Launch!TapsMarked'
  BY <1>4, TapKeeps
<1>5. ASSUME NEW h \in Launch!Hooks, Launch!LaunchRead(h)
      PROVE  Launch!TapsMarked'
  BY <1>5, ReadKeeps
<1>6. \A f : Launch!FontsEnd(f) => UNCHANGED Launch!tapState
  BY DEF Launch!FontsEnd
<1>7. Launch!IntroRead \/ Launch!SplashHides \/ Launch!AsksRestore \/ Launch!AuthMoves => UNCHANGED Launch!tapState
  BY DEF Launch!IntroRead, Launch!SplashHides, Launch!AsksRestore, Launch!AuthMoves, Launch!AuthGoes
<1>8. Launch!Submit \/ Launch!SignUpAnswered \/ Launch!LoginTaken \/ Launch!PopPage \/ Launch!ExtrasDone
         => UNCHANGED Launch!tapState
  BY DEF Launch!Submit, Launch!SignUpAnswered, Launch!LoginTaken, Launch!PopPage, Launch!ExtrasDone
<1>9. \A v : Launch!TypeLogin(v) \/ Launch!LoginRefused(v) \/ Launch!PressTab(v) => UNCHANGED Launch!tapState
  BY DEF Launch!TypeLogin, Launch!LoginRefused, Launch!PressTab
<1>10. Launch!SignInLands \/ Launch!SessionEnds => Launch!DoorsMove
  BY DEF Launch!SignInLands, Launch!SessionEnds
<1>11. \A outcome : Launch!RestoreEnds(outcome) => Launch!DoorsMove
  BY DEF Launch!RestoreEnds
<1>12. UNCHANGED Launch!vars => UNCHANGED Launch!tapState
  BY DEF Launch!vars
<1> QED BY <1>1, <1>2, <1>3, <1>4, <1>5, <1>6, <1>7, <1>8, <1>9, <1>10, <1>11, <1>12 DEF Launch!Next,
      Launch!LaunchSteps

LEMMA TapsOpenOnce == Launch!TapsMarked => Launch!TapOpensOnce
BY DEF Launch!TapsMarked, Launch!TapOpensOnce

(* ---- The wheel editor (WheelEditor) ------------------------------------ *)

Wheel == INSTANCE PhoneWheel

LEMMA WheelStarts == Wheel!Init => Wheel!VersionsAgree
<1> SUFFICES ASSUME Wheel!Init PROVE Wheel!VersionsAgree
  OBVIOUS
<1>1. wheelVersion = 1 /\ editorVersion = 0 /\ editorVersion # wheelVersion
  BY DEF Wheel!Init
<1>2. DOMAIN editorCall = {"k", "st", "version", "list", "base", "res"}
  BY DEF Wheel!Init, Wheel!NoEditorCall
<1>3. editorCall.k = "load" /\ editorCall.st = "sent" /\ editorCall.version \in Nat /\ editorCall.res = ""
  BY DEF Wheel!Init, Wheel!NoEditorCall
<1>4. wheelVersion \in Nat /\ editorVersion \in Nat /\ editorVersion <= wheelVersion
  BY <1>1
<1> QED BY <1>1, <1>2, <1>3, <1>4 DEF Wheel!VersionsAgree

LEMMA NewerWheel ==
    ASSUME Wheel!VersionsAgree, wheelVersion' = wheelVersion + 1, UNCHANGED <<editorVersion, editorBase>>,
           DOMAIN editorCall' = DOMAIN editorCall, editorCall'.version = editorCall.version,
           \/ editorCall'.k = editorCall.k /\ editorCall'.st = editorCall.st /\ editorCall'.res = editorCall.res
           \/ editorCall'.k = "save" /\ editorCall'.st = "answered"
    PROVE  Wheel!VersionsAgree'
<1>1. wheelVersion \in Nat /\ editorVersion \in Nat /\ editorCall.version \in Nat /\ editorVersion <= wheelVersion
  BY DEF Wheel!VersionsAgree
<1>2. wheelVersion' \in Nat /\ editorVersion' \in Nat /\ editorVersion' <= wheelVersion' /\ editorVersion' # wheelVersion'
  BY <1>1
<1>3. editorCall'.version \in Nat
  BY <1>1
<1>4. editorCall.version <= wheelVersion => editorCall'.version <= wheelVersion' /\ editorCall'.version # wheelVersion'
  BY <1>1
<1>5. editorCall'.st = "sent" => editorCall'.res = ""
  BY DEF Wheel!VersionsAgree
<1>6. DOMAIN editorCall' = {"k", "st", "version", "list", "base", "res"}
  BY DEF Wheel!VersionsAgree
<1>7. editorCall'.k \in {"load", "reload"} /\ editorCall'.st = "answered" => editorCall.version <= wheelVersion
  BY DEF Wheel!VersionsAgree
<1>8. editorCall'.k = "save" /\ editorCall'.st = "sent" => editorCall.version <= wheelVersion
  BY DEF Wheel!VersionsAgree
<1> QED BY <1>2, <1>3, <1>4, <1>5, <1>6, <1>7, <1>8 DEF Wheel!VersionsAgree

LEMMA RivalSavesKeeps ==
    ASSUME Wheel!VersionsAgree, NEW list, Wheel!RivalSaves(list)
    PROVE  Wheel!VersionsAgree' /\ Wheel!SavesOverSeen
<1>1. wheelVersion' = wheelVersion + 1 /\ UNCHANGED <<editorVersion, editorBase, editorCall>>
  BY DEF Wheel!RivalSaves, Wheel!SaveWheel, Wheel!draft
<1>2. Wheel!SavesOverSeen
  BY <1>1 DEF Wheel!VersionsAgree, Wheel!SavesOverSeen
<1>3. wheelVersion' = wheelVersion + 1 /\ UNCHANGED <<editorVersion, editorBase>> /\ DOMAIN editorCall' = DOMAIN editorCall /\ editorCall'.version = editorCall.version
      /\ editorCall'.k = editorCall.k /\ editorCall'.st = editorCall.st /\ editorCall'.res = editorCall.res
  BY <1>1
<1> QED BY <1>2, <1>3, NewerWheel

LEMMA WheelServedKeeps ==
    ASSUME Wheel!VersionsAgree, Wheel!Served
    PROVE  Wheel!VersionsAgree' /\ Wheel!SavesOverSeen
<1>1. UNCHANGED <<editorVersion, editorBase>>
  BY DEF Wheel!Served, Wheel!draft
<1>2. CASE editorCall.k = "save"
  <2>1. editorCall.st = "sent" /\ editorCall'.k = "save" /\ editorCall'.st = "answered" /\ editorCall'.version = editorCall.version /\ DOMAIN editorCall' = DOMAIN editorCall
        /\ editorCall'.res = Wheel!SaveResult(editorCall.version, editorCall.list)
    BY <1>2 DEF Wheel!Served, Wheel!VersionsAgree
  <2>2. CASE editorCall'.res = "saved"
    <3>1. wheelVersion' = wheelVersion + 1
      BY <1>2, <2>1, <2>2 DEF Wheel!Served, Wheel!SaveWheel
    <3>2. editorCall.version = wheelVersion
      BY <2>1, <2>2 DEF Wheel!SaveResult
    <3>3. wheelRows = editorCall.base
      BY <1>2, <2>1, <3>2 DEF Wheel!VersionsAgree
    <3> QED BY <1>1, <2>1, <3>1, <3>3, NewerWheel DEF Wheel!SavesOverSeen
  <2>3. CASE editorCall'.res # "saved"
    <3>1. UNCHANGED <<wheelRows, wheelVersion>>
      BY <1>2, <2>1, <2>3 DEF Wheel!Served, Wheel!SaveWheel, Wheel!server
    <3>2. editorCall'.version \in Nat
      BY <2>1 DEF Wheel!VersionsAgree
    <3> QED BY <1>1, <2>1, <2>3, <3>1, <3>2 DEF Wheel!VersionsAgree, Wheel!SavesOverSeen
  <2> QED BY <2>2, <2>3
<1>3. CASE editorCall.k # "save"
  <2>1. DOMAIN editorCall' = DOMAIN editorCall /\ editorCall'.k = editorCall.k /\ editorCall'.st = "answered" /\ editorCall'.version = wheelVersion /\ editorCall'.list = wheelRows
        /\ UNCHANGED <<wheelRows, wheelVersion>>
    BY <1>3 DEF Wheel!Served, Wheel!VersionsAgree, Wheel!server
  <2>2. wheelVersion \in Nat
    BY DEF Wheel!VersionsAgree
  <2>3. editorCall'.version \in Nat /\ editorCall'.version <= wheelVersion'
    BY <2>1, <2>2
  <2> QED BY <1>1, <1>3, <2>1, <2>2, <2>3 DEF Wheel!VersionsAgree, Wheel!SavesOverSeen
<1> QED BY <1>2, <1>3

LEMMA WheelKeeps ==
    ASSUME Wheel!VersionsAgree, Wheel!Next \/ UNCHANGED Wheel!vars
    PROVE  Wheel!VersionsAgree' /\ Wheel!SavesOverSeen
<1>1. CASE Wheel!Served
  BY <1>1, WheelServedKeeps
<1>2. CASE Wheel!LoadAnswered
  BY <1>2 DEF Wheel!LoadAnswered, Wheel!VersionsAgree, Wheel!SavesOverSeen, Wheel!Applied,
     Wheel!NoEditorCall, Wheel!server, Wheel!draft, Wheel!bounds
<1>3. CASE Wheel!SaveAnswered
  BY <1>3 DEF Wheel!SaveAnswered, Wheel!VersionsAgree, Wheel!SavesOverSeen, Wheel!NoEditorCall,
     Wheel!server, Wheel!draft, Wheel!bounds
<1>4. CASE Wheel!CallLost
  BY <1>4 DEF Wheel!CallLost, Wheel!VersionsAgree, Wheel!SavesOverSeen, Wheel!NoEditorCall,
     Wheel!server, Wheel!draft, Wheel!bounds
<1>5. CASE Wheel!TryAgain
  BY <1>5 DEF Wheel!TryAgain, Wheel!VersionsAgree, Wheel!SavesOverSeen, Wheel!NoEditorCall,
     Wheel!server, Wheel!draft, Wheel!bounds
<1>6. CASE Wheel!AddRow
  BY <1>6 DEF Wheel!AddRow, Wheel!VersionsAgree, Wheel!SavesOverSeen, Wheel!Edits, Wheel!Edit,
     Wheel!server, Wheel!draft, Wheel!bounds
<1>7. CASE Wheel!Save
  BY <1>7 DEF Wheel!Save, Wheel!VersionsAgree, Wheel!SavesOverSeen, Wheel!NoEditorCall,
     Wheel!server, Wheel!draft, Wheel!bounds
<1>8. CASE Wheel!Back
  BY <1>8 DEF Wheel!Back, Wheel!VersionsAgree, Wheel!SavesOverSeen, Wheel!server, Wheel!draft,
     Wheel!bounds
<1>9. CASE Wheel!ConfirmLeave
  BY <1>9 DEF Wheel!ConfirmLeave, Wheel!VersionsAgree, Wheel!SavesOverSeen, Wheel!server,
     Wheel!draft, Wheel!bounds
<1>10. CASE Wheel!KeepEditing
  BY <1>10 DEF Wheel!KeepEditing, Wheel!VersionsAgree, Wheel!SavesOverSeen, Wheel!server,
     Wheel!draft, Wheel!bounds
<1>11. ASSUME NEW list, Wheel!RivalSaves(list)
      PROVE  Wheel!VersionsAgree' /\ Wheel!SavesOverSeen
  BY <1>11, RivalSavesKeeps
<1>12. ASSUME NEW r, Wheel!SpinDraws(r)
      PROVE  Wheel!VersionsAgree' /\ Wheel!SavesOverSeen
  BY <1>12 DEF Wheel!SpinDraws, Wheel!VersionsAgree, Wheel!SavesOverSeen, Wheel!server, Wheel!draft,
     Wheel!bounds
<1>13. ASSUME NEW i, Wheel!RemoveRow(i)
      PROVE  Wheel!VersionsAgree' /\ Wheel!SavesOverSeen
  BY <1>13 DEF Wheel!RemoveRow, Wheel!VersionsAgree, Wheel!SavesOverSeen, Wheel!Edits, Wheel!Edit,
     Wheel!server, Wheel!draft, Wheel!bounds
<1>14. ASSUME NEW i, NEW n, Wheel!UpdateRow(i, n)
      PROVE  Wheel!VersionsAgree' /\ Wheel!SavesOverSeen
  BY <1>14 DEF Wheel!UpdateRow, Wheel!VersionsAgree, Wheel!SavesOverSeen, Wheel!Edits, Wheel!Edit,
     Wheel!server, Wheel!draft, Wheel!bounds
<1>15. CASE UNCHANGED Wheel!vars
  BY <1>15 DEF Wheel!VersionsAgree, Wheel!SavesOverSeen, Wheel!vars, Wheel!server, Wheel!draft,
     Wheel!bounds
<1> QED BY <1>1, <1>2, <1>3, <1>4, <1>5, <1>6, <1>7, <1>8, <1>9, <1>10, <1>11, <1>12, <1>13, <1>14,
     <1>15 DEF Wheel!Next, Wheel!Answers

(* ---- Leaving the wheel editor ---------------------------------------------- *)

LEMMA EditsStay ==
    ASSUME Wheel!Next \/ UNCHANGED Wheel!vars
    PROVE  Wheel!EditsLeftOnPurpose
<1>1. CASE Wheel!Served
  BY <1>1 DEF Wheel!Served, Wheel!EditsLeftOnPurpose, Wheel!Open, Wheel!HasChanges, Wheel!RowsDiffer
<1>2. CASE Wheel!LoadAnswered
  BY <1>2 DEF Wheel!LoadAnswered, Wheel!EditsLeftOnPurpose, Wheel!Open, Wheel!HasChanges, Wheel!RowsDiffer
<1>3. CASE Wheel!SaveAnswered
  BY <1>3 DEF Wheel!SaveAnswered, Wheel!EditsLeftOnPurpose, Wheel!Open, Wheel!HasChanges, Wheel!RowsDiffer
<1>4. CASE Wheel!CallLost
  BY <1>4 DEF Wheel!CallLost, Wheel!EditsLeftOnPurpose, Wheel!Open, Wheel!HasChanges, Wheel!RowsDiffer
<1>5. CASE Wheel!TryAgain
  BY <1>5 DEF Wheel!TryAgain, Wheel!EditsLeftOnPurpose, Wheel!Open, Wheel!HasChanges, Wheel!RowsDiffer
<1>6. CASE Wheel!Save
  BY <1>6 DEF Wheel!Save, Wheel!EditsLeftOnPurpose, Wheel!Open, Wheel!HasChanges, Wheel!RowsDiffer
<1>7. CASE Wheel!Back
  BY <1>7 DEF Wheel!Back, Wheel!EditsLeftOnPurpose, Wheel!Open, Wheel!HasChanges, Wheel!RowsDiffer
<1>8. CASE Wheel!ConfirmLeave
  BY <1>8 DEF Wheel!ConfirmLeave, Wheel!EditsLeftOnPurpose, Wheel!Open, Wheel!HasChanges, Wheel!RowsDiffer
<1>9. CASE Wheel!KeepEditing
  BY <1>9 DEF Wheel!KeepEditing, Wheel!EditsLeftOnPurpose, Wheel!Open, Wheel!HasChanges, Wheel!RowsDiffer
<1>10. CASE Wheel!AddRow
  BY <1>10 DEF Wheel!AddRow, Wheel!Edit, Wheel!EditsLeftOnPurpose, Wheel!Open, Wheel!HasChanges, Wheel!RowsDiffer
<1>11. ASSUME NEW list, Wheel!RivalSaves(list)
      PROVE  Wheel!EditsLeftOnPurpose
  BY <1>11 DEF Wheel!RivalSaves, Wheel!EditsLeftOnPurpose, Wheel!Open, Wheel!HasChanges, Wheel!RowsDiffer
<1>12. ASSUME NEW r, Wheel!SpinDraws(r)
      PROVE  Wheel!EditsLeftOnPurpose
  BY <1>12 DEF Wheel!SpinDraws, Wheel!EditsLeftOnPurpose, Wheel!Open, Wheel!HasChanges, Wheel!RowsDiffer
<1>13. ASSUME NEW i, Wheel!RemoveRow(i)
      PROVE  Wheel!EditsLeftOnPurpose
  BY <1>13 DEF Wheel!RemoveRow, Wheel!Edit, Wheel!EditsLeftOnPurpose, Wheel!Open, Wheel!HasChanges, Wheel!RowsDiffer
<1>14. ASSUME NEW i, NEW name, Wheel!UpdateRow(i, name)
      PROVE  Wheel!EditsLeftOnPurpose
  BY <1>14 DEF Wheel!UpdateRow, Wheel!Edit, Wheel!EditsLeftOnPurpose, Wheel!Open, Wheel!HasChanges, Wheel!RowsDiffer
<1>15. CASE UNCHANGED Wheel!vars
  BY <1>15 DEF Wheel!vars, Wheel!EditsLeftOnPurpose, Wheel!Open, Wheel!HasChanges, Wheel!RowsDiffer
<1> QED BY <1>1, <1>2, <1>3, <1>4, <1>5, <1>6, <1>7, <1>8, <1>9, <1>10, <1>11, <1>12, <1>13, <1>14,
      <1>15 DEF Wheel!Next, Wheel!Answers

(* ---- One reminder for an evening -------------------------------------------- *)

Reminder == INSTANCE PhoneReminder

\* The least of some numbers, as CHOOSE finds it.
LEMMA LessIsWellFounded ==
    \E R : IsWellFoundedOn(R, Nat) /\ \A x, y \in Nat : x < y => <<x, y>> \in R
<1>1. \A x, y \in Nat : x < y => <<x, y>> \in OpToRel(<, Nat)
  BY DEF OpToRel
<1> QED BY <1>1, NatLessThanWellFounded

LEMMA EarliestIsOne ==
    ASSUME NEW T, T \subseteq Nat, T # {}
    PROVE  Reminder!Earliest(T) \in T
<1>1. PICK R : IsWellFoundedOn(R, Nat) /\ \A x, y \in Nat : x < y => <<x, y>> \in R
  BY LessIsWellFounded
<1>2. \E x \in T : \A y \in T : ~(<<y, x>> \in R)
  <2>1. IsWellFoundedOn(R, Nat)
    BY <1>1
  <2> QED BY <2>1, WFMin
<1>3. PICK x \in T : \A y \in T : ~(<<y, x>> \in R)
  BY <1>2
<1>4. \A y \in T : x <= y
  <2>1. \A y \in T : ~(y < x)
    BY <1>1, <1>3
  <2> QED BY <2>1
<1> QED BY <1>4 DEF Reminder!Earliest

LEMMA PlanStarts == Reminder!Init => Reminder!PlannedOnce
BY DEF Reminder!Init, Reminder!PlannedOnce, Reminder!NoJob

\* The schedule stays, and the rebuild that runs goes on or is over.
LEMMA PlanRests ==
    ASSUME Reminder!PlannedOnce, UNCHANGED <<evening, planned>>, nextOpen' \in Nat,
           job' = job \/ job' = Reminder!NoJob
    PROVE  Reminder!PlannedOnce'
<1>1. CASE job' = job
  BY <1>1 DEF Reminder!PlannedOnce
<1>2. CASE job' = Reminder!NoJob
  <2>1. DOMAIN job' = {"st", "dates", "i"} /\ job'.st = "idle" /\ job'.dates = {}
    BY <1>2 DEF Reminder!NoJob
  <2> QED BY <2>1 DEF Reminder!PlannedOnce
<1> QED BY <1>1, <1>2

\* A rebuild that reads finds the schedule empty, and sets the daily one alone or evenings ahead.
LEMMA ReadsKeep ==
    ASSUME DaysAhead \in Nat, Reminder!PlannedOnce, Reminder!RebuildReads
    PROVE  Reminder!PlannedOnce'
<1>1. job.st = "reads" /\ UNCHANGED <<evening, nextOpen, planned>>
  BY DEF Reminder!RebuildReads, Reminder!clock
<1>2. CASE job' = Reminder!NoJob
  BY <1>1, <1>2, PlanRests DEF Reminder!PlannedOnce
<1>3. CASE job' = [st |-> "sets", i |-> 1,
                   dates |-> IF nextOpen = 0 THEN {Reminder!Daily} ELSE Reminder!ReminderDates(nextOpen)]
  <2> DEFINE D == IF nextOpen = 0 THEN {Reminder!Daily} ELSE Reminder!ReminderDates(nextOpen)
  <2>1. DOMAIN job' = {"st", "dates", "i"} /\ job'.st = "sets" /\ job'.dates = D
    BY <1>3
  <2>2. planned' = {} /\ evening \in Nat \ {0} /\ nextOpen \in Nat
    BY <1>1 DEF Reminder!PlannedOnce
  <2>3. D \subseteq Nat /\ (0 \in D => D = {0})
    BY <2>2 DEF Reminder!Daily, Reminder!ReminderDates
  <2> HIDE DEF D
  <2> QED BY <1>1, <2>1, <2>2, <2>3 DEF Reminder!PlannedOnce, Reminder!Daily
<1> QED BY <1>2, <1>3 DEF Reminder!RebuildReads

LEMMA SetsKeep ==
    ASSUME Reminder!PlannedOnce, Reminder!RebuildSets
    PROVE  Reminder!PlannedOnce'
<1> DEFINE e == Reminder!Earliest(job.dates)
           k == IF e = Reminder!Daily THEN 0 ELSE job.i
           n == [i |-> k, at |-> e]
<1>1. job.st = "sets" /\ job.dates # {} /\ UNCHANGED <<evening, nextOpen>>
  BY DEF Reminder!RebuildSets, Reminder!clock
<1>2. planned' = {p \in planned : p.i # k} \cup {n} /\ job' = [job EXCEPT !.dates = @ \ {e}, !.i = @ + 1]
  BY DEF Reminder!RebuildSets, Reminder!Plans
<1>3. DOMAIN n = {"i", "at"} /\ n.at = e
  OBVIOUS
<1>4. job.dates \subseteq Nat /\ e \in job.dates
  BY <1>1, EarliestIsOne DEF Reminder!PlannedOnce
<1> HIDE DEF n, k, e
<1>5. DOMAIN job' = {"st", "dates", "i"} /\ job'.st = "sets" /\ job'.dates = job.dates \ {e}
  BY <1>1, <1>2 DEF Reminder!PlannedOnce
<1>6. \A p \in planned : DOMAIN p = {"i", "at"} /\ p.at # 0 /\ p.at \notin job.dates
  BY <1>1 DEF Reminder!PlannedOnce, Reminder!Daily
<1>7. \A p, q \in planned : p.at = q.at => p = q
  BY DEF Reminder!PlannedOnce
<1>8. 0 \in job.dates => job.dates = {0} /\ planned = {}
  BY <1>1 DEF Reminder!PlannedOnce, Reminder!Daily
<1>9. \A p, q \in planned' : p.at = q.at \/ p.at = 0 => p = q
  <2> TAKE p, q \in planned'
  <2>1. (p \in planned \/ p = n) /\ (q \in planned \/ q = n)
    BY <1>2
  <2>2. \A r \in planned : r.at # n.at
    BY <1>3, <1>4, <1>6
  <2>3. n.at = 0 => planned = {}
    BY <1>3, <1>4, <1>8
  <2> QED BY <1>6, <1>7, <2>1, <2>2, <2>3
<1>10. \A p \in planned' : DOMAIN p = {"i", "at"}
  BY <1>2, <1>3, <1>6
<1>11. 0 \notin job'.dates
  BY <1>4, <1>5, <1>8
<1>12. \A p \in planned' : job'.dates # {} => p.at # 0 /\ p.at \notin job'.dates
  <2> TAKE p \in planned'
  <2>1. CASE p \in planned
    BY <1>5, <1>6, <2>1
  <2>2. CASE p = n
    BY <1>3, <1>4, <1>5, <1>8, <2>2
  <2> QED BY <1>2, <2>1, <2>2
<1> QED BY <1>1, <1>4, <1>5, <1>9, <1>10, <1>11, <1>12 DEF Reminder!PlannedOnce, Reminder!Daily

LEMMA EveningKeeps ==
    ASSUME Reminder!PlannedOnce, Reminder!EveningPasses
    PROVE  Reminder!PlannedOnce'
<1>1. /\ evening' = evening + 1 /\ nextOpen' = nextOpen /\ planned' = {p \in planned : p.at # evening}
      /\ job' = [job EXCEPT !.dates = @ \ {evening}]
  BY DEF Reminder!EveningPasses
<1>2. evening \in Nat \ {0} /\ evening' \in Nat \ {0} /\ nextOpen' \in Nat
  BY <1>1 DEF Reminder!PlannedOnce
<1>3. DOMAIN job' = {"st", "dates", "i"} /\ job'.st = job.st /\ job'.dates = job.dates \ {evening}
  BY <1>1 DEF Reminder!PlannedOnce
<1>4. planned' \subseteq planned
  BY <1>1
<1>5. job'.st = "sets" => /\ 0 \in job'.dates => job'.dates = {0} /\ planned' = {}
                          /\ job'.dates # {} => \A p \in planned' : p.at # 0 /\ p.at \notin job'.dates
  BY <1>2, <1>3, <1>4 DEF Reminder!PlannedOnce, Reminder!Daily
<1>6. job'.st = "reads" => planned' = {} /\ job'.dates = {}
  BY <1>3, <1>4 DEF Reminder!PlannedOnce
<1>7. job'.dates \subseteq Nat
  BY <1>3 DEF Reminder!PlannedOnce
<1> HIDE <1>1
<1> QED BY <1>2, <1>3, <1>4, <1>5, <1>6, <1>7 DEF Reminder!PlannedOnce, Reminder!Daily

LEMMA PlanKeeps ==
    ASSUME DaysAhead \in Nat, Reminder!PlannedOnce, Reminder!Next \/ UNCHANGED Reminder!vars
    PROVE  Reminder!PlannedOnce'
<1>1. CASE UNCHANGED <<Reminder!clock, planned, job>>
  BY <1>1, PlanRests DEF Reminder!clock, Reminder!PlannedOnce
<1>2. CASE Reminder!RebuildStarts
  <2>1. UNCHANGED <<evening, nextOpen>> /\ planned' = {} /\ job' = [Reminder!NoJob EXCEPT !.st = "reads"]
    BY <1>2 DEF Reminder!RebuildStarts, Reminder!AfterCancel, Reminder!clock
  <2>2. DOMAIN job' = {"st", "dates", "i"} /\ job'.st = "reads" /\ job'.dates = {}
    BY <2>1 DEF Reminder!NoJob
  <2> QED BY <2>1, <2>2 DEF Reminder!PlannedOnce
<1>3. CASE Reminder!RebuildReads
  BY <1>3, ReadsKeep
<1>4. CASE Reminder!RebuildSets
  BY <1>4, SetsKeep
<1>5. CASE Reminder!EveningPasses
  BY <1>5, EveningKeeps
<1>6. CASE Reminder!SetFails \/ Reminder!RebuildEnds
  <2>1. UNCHANGED <<evening, nextOpen, planned>> /\ job' = Reminder!NoJob
    BY <1>6 DEF Reminder!SetFails, Reminder!RebuildEnds, Reminder!clock
  <2> QED BY <2>1, PlanRests DEF Reminder!PlannedOnce
<1>7. ASSUME NEW m, Reminder!NoteNextOpen(m)
      PROVE  Reminder!PlannedOnce'
  <2>1. UNCHANGED <<evening, planned, job>> /\ nextOpen' \in {evening, evening + 1}
    BY <1>7 DEF Reminder!NoteNextOpen
  <2>2. nextOpen' \in Nat
    BY <2>1 DEF Reminder!PlannedOnce
  <2> QED BY <2>1, <2>2, PlanRests
<1>8. ASSUME NEW p, Reminder!SetPermission(p)
      PROVE  Reminder!PlannedOnce'
  <2>1. UNCHANGED <<Reminder!clock, planned, job>>
    BY <1>8 DEF Reminder!SetPermission
  <2> QED BY <1>1, <2>1
<1>9. CASE \/ Reminder!CancelFails \/ Reminder!ToFront \/ Reminder!RowToggles \/ Reminder!ToggleWrites
           \/ Reminder!ToggleEnds \/ Reminder!AskStarts \/ Reminder!AskPrompts \/ Reminder!AskWrites
           \/ Reminder!AskRebuilds \/ Reminder!RowReads \/ Reminder!RowShows
  <2>1. UNCHANGED <<Reminder!clock, planned, job>>
    BY <1>9 DEF Reminder!CancelFails, Reminder!ToFront, Reminder!RowToggles, Reminder!ToggleWrites,
         Reminder!ToggleEnds, Reminder!AskStarts, Reminder!AskPrompts, Reminder!AskWrites, Reminder!AskRebuilds,
         Reminder!RowReads, Reminder!RowShows, Reminder!plan
  <2> QED BY <1>1, <2>1
<1>10. CASE UNCHANGED Reminder!vars
  <2>1. UNCHANGED <<Reminder!clock, planned, job>>
    BY <1>10 DEF Reminder!vars, Reminder!plan
  <2> QED BY <1>1, <2>1
<1> QED BY <1>2, <1>3, <1>4, <1>5, <1>6, <1>7, <1>8, <1>9, <1>10 DEF Reminder!Next, Reminder!Natives

LEMMA OneReminder == Reminder!PlannedOnce => Reminder!NeverTwice
BY DEF Reminder!PlannedOnce, Reminder!NeverTwice, Reminder!Due

(* ---- The profile form ----------------------------------------------------- *)

Profile == INSTANCE PhoneProfile

LEMMA ProfileStarts ==
    ASSUME MaxTypings \in Nat, Profile!Init
    PROVE  Profile!TypingsCount
BY DEF Profile!Init, Profile!TypingsCount

\* One thing the person does.
LEMMA TypesCounts ==
    ASSUME Profile!TypingsCount, Profile!Types, DOMAIN boxes' = DOMAIN boxes
    PROVE  Profile!TypingsCount' /\ Profile!TypedNameStays
BY DEF Profile!Types, Profile!TypingsCount, Profile!TypedNameStays

LEMMA NameSetKeepsBoxes ==
    ASSUME NEW u, Profile!NameSet(u)
    PROVE  DOMAIN boxes' = DOMAIN boxes
BY DEF Profile!NameSet

LEMMA ProfileKeeps ==
    ASSUME Profile!TypingsCount, Profile!Next \/ UNCHANGED Profile!vars
    PROVE  Profile!TypingsCount' /\ Profile!TypedNameStays
<1>1. ASSUME NEW u, Profile!TypeUsername(u)
      PROVE  Profile!TypingsCount' /\ Profile!TypedNameStays
  BY <1>1, TypesCounts, NameSetKeepsBoxes DEF Profile!TypeUsername, Profile!boxed
<1>2. ASSUME NEW u, Profile!PressAlternate(u)
      PROVE  Profile!TypingsCount' /\ Profile!TypedNameStays
  BY <1>2, TypesCounts, NameSetKeepsBoxes DEF Profile!PressAlternate, Profile!boxed
<1>3. CASE Profile!FillName
  BY <1>3, TypesCounts DEF Profile!FillName, Profile!boxed
<1>4. CASE Profile!BlurName
  BY <1>4, TypesCounts DEF Profile!BlurName, Profile!boxed
<1>5. CASE Profile!FillRest
  BY <1>5, TypesCounts DEF Profile!FillRest, Profile!boxed
<1>6. CASE Profile!TypeBio
  BY <1>6, TypesCounts DEF Profile!TypeBio, Profile!boxed
<1>7. CASE Profile!PickAvatar
  BY <1>7, TypesCounts DEF Profile!PickAvatar, Profile!boxed
<1>8. CASE Profile!Submit
  BY <1>8, TypesCounts DEF Profile!Submit, Profile!boxed
<1>9. CASE Profile!SkipExtras
  BY <1>9, TypesCounts DEF Profile!SkipExtras, Profile!boxed
<1>10. CASE Profile!CheckStarts
  BY <1>10 DEF Profile!CheckStarts, Profile!TypingsCount, Profile!TypedNameStays, Profile!boxed
<1>11. CASE Profile!EnsureUploaded
  BY <1>11 DEF Profile!EnsureUploaded, Profile!TypingsCount, Profile!TypedNameStays, Profile!boxed
<1>12. CASE Profile!SubmitServed
  BY <1>12 DEF Profile!SubmitServed, Profile!TypingsCount, Profile!TypedNameStays, Profile!boxed
<1>13. CASE Profile!Conflict
  BY <1>13 DEF Profile!Conflict, Profile!TypingsCount, Profile!TypedNameStays, Profile!boxed
<1>14. CASE Profile!Leaves
  BY <1>14 DEF Profile!Leaves, Profile!TypingsCount, Profile!TypedNameStays, Profile!boxed
<1>15. CASE Profile!Saved
  BY <1>15 DEF Profile!Saved, Profile!TypingsCount, Profile!TypedNameStays, Profile!boxed
<1>16. CASE Profile!SuggestionLost
  BY <1>16 DEF Profile!SuggestionLost, Profile!TypingsCount, Profile!TypedNameStays, Profile!boxed
<1>17. CASE Profile!UploadFails
  BY <1>17 DEF Profile!UploadFails, Profile!TypingsCount, Profile!TypedNameStays, Profile!boxed
<1>18. CASE Profile!SubmitLost
  BY <1>18 DEF Profile!SubmitLost, Profile!TypingsCount, Profile!TypedNameStays, Profile!boxed
<1>19. ASSUME NEW c, Profile!CheckServed(c)
      PROVE  Profile!TypingsCount' /\ Profile!TypedNameStays
  BY <1>19 DEF Profile!CheckServed, Profile!TypingsCount, Profile!TypedNameStays, Profile!boxed
<1>20. ASSUME NEW c, Profile!CheckAnswered(c)
      PROVE  Profile!TypingsCount' /\ Profile!TypedNameStays
  BY <1>20 DEF Profile!CheckAnswered, Profile!TypingsCount, Profile!TypedNameStays, Profile!boxed
<1>21. ASSUME NEW c, Profile!CheckLost(c)
      PROVE  Profile!TypingsCount' /\ Profile!TypedNameStays
  BY <1>21 DEF Profile!CheckLost, Profile!TypingsCount, Profile!TypedNameStays, Profile!boxed
<1>22. ASSUME NEW u, Profile!Someone(u)
      PROVE  Profile!TypingsCount' /\ Profile!TypedNameStays
  BY <1>22 DEF Profile!Someone, Profile!TypingsCount, Profile!TypedNameStays, Profile!boxed
<1>23. CASE Profile!Suggested
  <2>1. UNCHANGED <<typings, usernameEdited>> /\ DOMAIN boxes' = DOMAIN boxes
    BY <1>23, NameSetKeepsBoxes DEF Profile!Suggested
  <2>2. usernameEdited => UNCHANGED boxes
    BY <1>23 DEF Profile!Suggested, Profile!SuggestionMayLand
  <2> QED BY <2>1, <2>2 DEF Profile!TypingsCount, Profile!TypedNameStays
<1>24. CASE UNCHANGED Profile!vars
  BY <1>24 DEF Profile!vars, Profile!TypingsCount, Profile!TypedNameStays, Profile!boxed
<1> QED BY <1>1, <1>2, <1>3, <1>4, <1>5, <1>6, <1>7, <1>8, <1>9, <1>10, <1>11, <1>12, <1>13, <1>14, <1>15, <1>16,
      <1>17, <1>18, <1>19, <1>20, <1>21, <1>22, <1>23, <1>24 DEF Profile!Next, Profile!Answers

(* ---- The profile form uploads a picture once -------------------------------- *)

LEMMA UploadStarts == Profile!Init => Profile!LastUploaded
<1> SUFFICES ASSUME Profile!Init PROVE Profile!LastUploaded
  OBVIOUS
<1>1. avatarUploads = <<>> /\ avatar = 0 /\ uploadedAvatar = 0
  BY DEF Profile!Init
<1>2. avatarUploads \in Seq(Nat) /\ Len(avatarUploads) = 0
  BY <1>1
<1>3. DOMAIN submit = {"st", "body"} /\ submit.st # "upload"
  BY DEF Profile!Init, Profile!NoSubmit
<1> QED BY <1>1, <1>2, <1>3 DEF Profile!LastUploaded

\* The upload that runs is over or another part of the save goes on.
LEMMA UploadRests ==
    ASSUME Profile!LastUploaded, UNCHANGED <<uploadedAvatar, avatarUploads>>, avatar' \in {0, avatar},
           \/ UNCHANGED submit
           \/ submit' = Profile!NoSubmit
           \/ \E w : w # "upload" /\ submit' = [submit EXCEPT !.st = w]
    PROVE  Profile!LastUploaded'
<1>1. /\ avatarUploads' \in Seq(Nat) /\ uploadedAvatar' \in 0 .. Len(avatarUploads') /\ avatar' \in {0, Len(avatarUploads')}
      /\ \A f \in 1 .. Len(avatarUploads') :
            avatarUploads'[f] <= 1 /\ (f > uploadedAvatar' => avatarUploads'[f] = 0)
  BY DEF Profile!LastUploaded
<1>2. CASE UNCHANGED submit
  BY <1>1, <1>2 DEF Profile!LastUploaded
<1>3. CASE submit' = Profile!NoSubmit \/ \E w : w # "upload" /\ submit' = [submit EXCEPT !.st = w]
  <2>1. DOMAIN submit' = {"st", "body"} /\ submit'.st # "upload"
    BY <1>3 DEF Profile!NoSubmit, Profile!LastUploaded
  <2> QED BY <1>1, <2>1 DEF Profile!LastUploaded
<1> QED BY <1>2, <1>3

LEMMA UploadKeeps ==
    ASSUME Profile!LastUploaded, Profile!Next \/ UNCHANGED Profile!vars
    PROVE  Profile!LastUploaded'
<1>1. CASE UNCHANGED <<Profile!picture, submit>>
  <2>1. UNCHANGED <<uploadedAvatar, avatarUploads, submit>> /\ avatar' \in {0, avatar}
    BY <1>1 DEF Profile!picture
  <2> QED BY <2>1, UploadRests
<1>2. CASE Profile!PickAvatar
  <2> DEFINE n == Len(avatarUploads)
  <2>1. UNCHANGED <<uploadedAvatar, submit>> /\ avatarUploads' = Append(avatarUploads, 0) /\ avatar' = n + 1
    BY <1>2 DEF Profile!PickAvatar
  <2>2. avatarUploads \in Seq(Nat) /\ n \in Nat /\ uploadedAvatar \in 0 .. n
    BY DEF Profile!LastUploaded
  <2>3. /\ avatarUploads' \in Seq(Nat) /\ Len(avatarUploads') = n + 1 /\ avatarUploads'[n + 1] = 0
        /\ \A f \in 1 .. n : avatarUploads'[f] = avatarUploads[f]
    BY <2>1, <2>2
  <2>4. \A f \in 1 .. n : avatarUploads[f] <= 1 /\ (f > uploadedAvatar => avatarUploads[f] = 0)
    BY DEF Profile!LastUploaded
  <2>5. /\ DOMAIN submit = {"st", "body"}
        /\ submit.st = "upload" => submit.body.avatar \in 1 .. n /\ submit.body.avatar >= uploadedAvatar
    BY DEF Profile!LastUploaded
  <2> HIDE DEF n
  <2>6. \A f \in 1 .. n + 1 : avatarUploads'[f] <= 1 /\ (f > uploadedAvatar => avatarUploads'[f] = 0)
    <3> TAKE f \in 1 .. n + 1
    <3>1. f \in 1 .. n \/ f = n + 1
      BY <2>2
    <3> QED BY <2>2, <2>3, <2>4, <3>1
  <2>7. uploadedAvatar' \in 0 .. n + 1 /\ avatar' = n + 1 /\ uploadedAvatar' = uploadedAvatar
    BY <2>1, <2>2
  <2>8. submit'.st = "upload" => submit'.body.avatar \in 1 .. n + 1 /\ submit'.body.avatar >= uploadedAvatar'
    BY <2>1, <2>2, <2>5
  <2>9. DOMAIN submit' = {"st", "body"}
    BY <2>1, <2>5
  <2> QED BY <2>3, <2>6, <2>7, <2>8, <2>9 DEF Profile!LastUploaded
<1>3. CASE Profile!Submit
  <2>1. UNCHANGED <<avatar, uploadedAvatar, avatarUploads>>
    BY <1>3 DEF Profile!Submit, Profile!picture
  <2>2. submit' = [st |-> IF avatar # 0 THEN "upload" ELSE "send", body |-> Profile!Patch]
    BY <1>3 DEF Profile!Submit
  <2>3. DOMAIN submit' = {"st", "body"} /\ (submit'.st = "upload" => avatar # 0) /\ submit'.body = Profile!Patch
    BY <2>2
  <2>4. Profile!Patch.avatar = avatar
    BY DEF Profile!Patch
  <2>5. avatar # 0 => avatar \in 1 .. Len(avatarUploads) /\ avatar >= uploadedAvatar
    BY DEF Profile!LastUploaded
  <2>6. submit'.st = "upload" => submit'.body.avatar \in 1 .. Len(avatarUploads) /\ submit'.body.avatar >= uploadedAvatar
    BY <2>3, <2>4, <2>5
  <2> QED BY <2>1, <2>3, <2>6 DEF Profile!LastUploaded
<1>4. CASE Profile!EnsureUploaded
  <2> DEFINE p == submit.body.avatar
             n == Len(avatarUploads)
  <2>1. submit.st = "upload" /\ submit' = [submit EXCEPT !.st = "send"] /\ avatar' = avatar
    BY <1>4 DEF Profile!EnsureUploaded
  <2>2. /\ avatarUploads \in Seq(Nat) /\ n \in Nat /\ uploadedAvatar \in 0 .. n /\ avatar \in {0, n}
        /\ p \in 1 .. n /\ p >= uploadedAvatar
        /\ \A f \in 1 .. n : avatarUploads[f] <= 1 /\ (f > uploadedAvatar => avatarUploads[f] = 0)
    BY <2>1 DEF Profile!LastUploaded
  <2>3. DOMAIN submit' = {"st", "body"} /\ submit'.st # "upload"
    BY <2>1 DEF Profile!LastUploaded
  <2>4. \/ UNCHANGED <<avatarUploads, uploadedAvatar>>
        \/ /\ uploadedAvatar # p /\ avatarUploads' = [avatarUploads EXCEPT ![p] = @ + 1] /\ uploadedAvatar' = p
    BY <1>4 DEF Profile!EnsureUploaded, Profile!NotUploaded
  <2> HIDE DEF p
  <2>5. CASE UNCHANGED <<avatarUploads, uploadedAvatar>>
    BY <2>1, <2>3, <2>5 DEF Profile!LastUploaded
  <2>6. CASE uploadedAvatar # p /\ avatarUploads' = [avatarUploads EXCEPT ![p] = @ + 1] /\ uploadedAvatar' = p
    <3>1. p > uploadedAvatar /\ avatarUploads[p] = 0
      BY <2>2, <2>6
    <3>2. /\ avatarUploads' \in Seq(Nat) /\ Len(avatarUploads') = n /\ avatarUploads'[p] = 1
          /\ \A f \in 1 .. n : f # p => avatarUploads'[f] = avatarUploads[f]
      BY <2>2, <2>6, <3>1
    <3> HIDE DEF n
    <3>3. \A f \in 1 .. n : avatarUploads'[f] <= 1 /\ (f > p => avatarUploads'[f] = 0)
      <4> TAKE f \in 1 .. n
      <4>1. CASE f = p
        BY <2>2, <3>2, <4>1
      <4>2. CASE f # p
        BY <2>2, <3>2, <4>2
      <4> QED BY <4>1, <4>2
    <3> QED BY <2>1, <2>2, <2>3, <2>6, <3>2, <3>3 DEF Profile!LastUploaded
  <2> QED BY <2>4, <2>5, <2>6
<1>5. CASE Profile!UploadFails \/ Profile!SubmitLost \/ Profile!Conflict \/ Profile!Leaves \/ Profile!Saved
  <2>1. UNCHANGED <<uploadedAvatar, avatarUploads>> /\ avatar' \in {0, avatar} /\ submit' = Profile!NoSubmit
    BY <1>5 DEF Profile!UploadFails, Profile!SubmitLost, Profile!Conflict, Profile!Leaves, Profile!Saved,
        Profile!Stops,
         Profile!picture
  <2> QED BY <2>1, UploadRests
<1>6. CASE Profile!SubmitServed
  <2>1. UNCHANGED <<uploadedAvatar, avatarUploads>> /\ avatar' \in {0, avatar}
    BY <1>6 DEF Profile!SubmitServed, Profile!picture
  <2>2. \E w : w # "upload" /\ submit' = [submit EXCEPT !.st = w]
    BY <1>6 DEF Profile!SubmitServed
  <2> QED BY <2>1, <2>2, UploadRests
<1>7. CASE \/ Profile!CheckStarts \/ Profile!Suggested \/ Profile!FillName \/ Profile!BlurName \/ Profile!FillRest
           \/ Profile!TypeBio \/ Profile!SkipExtras \/ Profile!SuggestionLost
  <2>1. UNCHANGED <<Profile!picture, submit>>
    BY <1>7 DEF Profile!CheckStarts, Profile!Suggested, Profile!FillName, Profile!BlurName, Profile!FillRest,
         Profile!TypeBio, Profile!SkipExtras, Profile!SuggestionLost
  <2> QED BY <1>1, <2>1
<1>8. ASSUME NEW c, Profile!CheckServed(c) \/ Profile!CheckAnswered(c) \/ Profile!CheckLost(c)
      PROVE  Profile!LastUploaded'
  <2>1. UNCHANGED <<Profile!picture, submit>>
    BY <1>8 DEF Profile!CheckServed, Profile!CheckAnswered, Profile!CheckLost
  <2> QED BY <1>1, <2>1
<1>9. ASSUME NEW u, Profile!TypeUsername(u) \/ Profile!PressAlternate(u) \/ Profile!Someone(u)
      PROVE  Profile!LastUploaded'
  <2>1. UNCHANGED <<Profile!picture, submit>>
    BY <1>9 DEF Profile!TypeUsername, Profile!PressAlternate, Profile!Someone
  <2> QED BY <1>1, <2>1
<1>10. CASE UNCHANGED Profile!vars
  <2>1. UNCHANGED <<Profile!picture, submit>>
    BY <1>10 DEF Profile!vars
  <2> QED BY <1>1, <2>1
<1> QED BY <1>2, <1>3, <1>4, <1>5, <1>6, <1>7, <1>8, <1>9, <1>10 DEF Profile!Next, Profile!Answers

LEMMA PictureUpOnce == Profile!LastUploaded => Profile!AvatarUploadedOnce
BY DEF Profile!LastUploaded, Profile!AvatarUploadedOnce

(* ---- An entry's own page (useEntry) ------------------------------------ *)

EntryPage == INSTANCE PhoneEntryPage

LEMMA EntryPageStarts == EntryPage!Init => EntryPage!EntryReadsInOrder
BY DEF EntryPage!Init, EntryPage!EntryReadsInOrder, EntryPage!EntryRead

LEMMA DoneIsNewer ==
    ASSUME NEW what \in {"delete", "archive", "restore", "off", "on"}, EntryPage!Done(what), keptV \in Nat
    PROVE  keptV' = keptV + 1
BY DEF EntryPage!Done, EntryPage!KeptAs

LEMMA OtherPhoneKeeps ==
    ASSUME EntryPage!EntryReadsInOrder, EntryPage!OtherPhone
    PROVE  EntryPage!EntryReadsInOrder' /\ EntryPage!EntryIsNewest
<1>1. keptV' = keptV + 1 /\ UNCHANGED <<shownEntry, entrySeq, entryCalls, deedsRun>>
  BY DoneIsNewer DEF EntryPage!OtherPhone, EntryPage!reads, EntryPage!EntryReadsInOrder
<1> QED BY <1>1 DEF EntryPage!EntryReadsInOrder, EntryPage!EntryIsNewest

LEMMA DeedServedKeeps ==
    ASSUME EntryPage!EntryReadsInOrder, NEW d \in deedsRun, EntryPage!DeedServed(d)
    PROVE  EntryPage!EntryReadsInOrder' /\ EntryPage!EntryIsNewest
<1>1. keptV' \in {keptV, keptV + 1} /\ UNCHANGED <<shownEntry, entrySeq, entryCalls>>
  BY DoneIsNewer DEF EntryPage!DeedServed, EntryPage!reads, EntryPage!entries, EntryPage!EntryReadsInOrder
<1>2. \A e \in deedsRun' : DOMAIN e = {"n", "st", "what"} /\ e.what \in {"delete", "archive", "restore", "off", "on"}
  BY DEF EntryPage!DeedServed, EntryPage!EntryReadsInOrder
<1> QED BY <1>1, <1>2 DEF EntryPage!EntryReadsInOrder, EntryPage!EntryIsNewest

LEMMA EntryServedKeeps ==
    ASSUME EntryPage!EntryReadsInOrder, NEW c \in entryCalls, EntryPage!EntryServed(c)
    PROVE  EntryPage!EntryReadsInOrder' /\ EntryPage!EntryIsNewest
<1> DEFINE d == [c EXCEPT !.st = "served", !.ans = <<EntryPage!Found>>]
<1>1. entryCalls' = (entryCalls \ {c}) \cup {d} /\ UNCHANGED <<keptV, shownEntry, entrySeq, deedsRun>>
  BY DEF EntryPage!EntryServed, EntryPage!entries
<1>2. DOMAIN d = DOMAIN c /\ d.seq = c.seq /\ d.st = "served" /\ d.ans[1].v = keptV
  BY DEF EntryPage!EntryReadsInOrder, EntryPage!Found
<1> HIDE DEF d
<1> QED BY <1>1, <1>2 DEF EntryPage!EntryReadsInOrder, EntryPage!EntryIsNewest

LEMMA EntryPageKeeps ==
    ASSUME EntryPage!EntryReadsInOrder, EntryPage!Next \/ UNCHANGED EntryPage!vars
    PROVE  EntryPage!EntryReadsInOrder' /\ EntryPage!EntryIsNewest
<1>1. CASE EntryPage!OtherPhone
  BY <1>1, OtherPhoneKeeps
<1>2. ASSUME NEW d \in deedsRun, EntryPage!DeedServed(d)
      PROVE  EntryPage!EntryReadsInOrder' /\ EntryPage!EntryIsNewest
  BY <1>2, DeedServedKeeps
<1>3. ASSUME NEW d \in deedsRun, EntryPage!DeedAnswered(d)
      PROVE  EntryPage!EntryReadsInOrder' /\ EntryPage!EntryIsNewest
  BY <1>3 DEF EntryPage!DeedAnswered, EntryPage!EntryReadsInOrder, EntryPage!EntryIsNewest,
     EntryPage!RunDelete, EntryPage!RunArchive, EntryPage!ReadsAgain, EntryPage!SaysSo,
     EntryPage!Ended, EntryPage!LoadEntry, EntryPage!EntryRead, EntryPage!entries, EntryPage!reads,
     EntryPage!pages
<1>4. ASSUME NEW d \in deedsRun, EntryPage!DeedFails(d)
      PROVE  EntryPage!EntryReadsInOrder' /\ EntryPage!EntryIsNewest
  BY <1>4 DEF EntryPage!DeedFails, EntryPage!EntryReadsInOrder, EntryPage!EntryIsNewest,
     EntryPage!Ended, EntryPage!entries, EntryPage!reads, EntryPage!pages
<1>5. ASSUME NEW c \in entryCalls, EntryPage!EntryServed(c)
      PROVE  EntryPage!EntryReadsInOrder' /\ EntryPage!EntryIsNewest
  BY <1>5, EntryServedKeeps
<1>6. ASSUME NEW c \in entryCalls, EntryPage!EntryAnswered(c)
      PROVE  EntryPage!EntryReadsInOrder' /\ EntryPage!EntryIsNewest
  BY <1>6 DEF EntryPage!EntryAnswered, EntryPage!EntryReadsInOrder, EntryPage!EntryIsNewest,
     EntryPage!LastRead, EntryPage!entries, EntryPage!reads, EntryPage!pages
<1>7. ASSUME NEW c \in entryCalls, EntryPage!EntryFails(c)
      PROVE  EntryPage!EntryReadsInOrder' /\ EntryPage!EntryIsNewest
  BY <1>7 DEF EntryPage!EntryFails, EntryPage!EntryReadsInOrder, EntryPage!EntryIsNewest,
     EntryPage!entries, EntryPage!reads, EntryPage!pages
<1>8. CASE EntryPage!DotsTapped
  BY <1>8 DEF EntryPage!DotsTapped, EntryPage!EntryReadsInOrder, EntryPage!EntryIsNewest,
     EntryPage!entries, EntryPage!reads, EntryPage!pages
<1>9. CASE EntryPage!Edit
  BY <1>9 DEF EntryPage!Edit, EntryPage!EntryReadsInOrder, EntryPage!EntryIsNewest,
     EntryPage!entries, EntryPage!reads, EntryPage!pages
<1>10. CASE EntryPage!AskDelete
  BY <1>10 DEF EntryPage!AskDelete, EntryPage!EntryReadsInOrder, EntryPage!EntryIsNewest,
     EntryPage!entries, EntryPage!reads, EntryPage!pages
<1>11. CASE EntryPage!Run
  BY <1>11 DEF EntryPage!Run, EntryPage!EntryReadsInOrder, EntryPage!EntryIsNewest,
     EntryPage!Chosen, EntryPage!entries, EntryPage!reads, EntryPage!pages
<1>12. CASE EntryPage!BackFromEdit
  BY <1>12 DEF EntryPage!BackFromEdit, EntryPage!EntryReadsInOrder, EntryPage!EntryIsNewest,
     EntryPage!LoadEntry, EntryPage!EntryRead, EntryPage!entries, EntryPage!reads, EntryPage!pages
<1>13. CASE EntryPage!BackTapped
  BY <1>13 DEF EntryPage!BackTapped, EntryPage!EntryReadsInOrder, EntryPage!EntryIsNewest,
     EntryPage!entries, EntryPage!reads, EntryPage!pages
<1>14. CASE EntryPage!Reload
  BY <1>14 DEF EntryPage!Reload, EntryPage!EntryReadsInOrder, EntryPage!EntryIsNewest,
     EntryPage!LoadEntry, EntryPage!EntryRead, EntryPage!entries, EntryPage!reads, EntryPage!pages
<1>15. CASE UNCHANGED EntryPage!vars
  BY <1>15 DEF EntryPage!EntryReadsInOrder, EntryPage!EntryIsNewest, EntryPage!vars,
     EntryPage!entries, EntryPage!reads, EntryPage!pages
<1> QED BY <1>1, <1>2, <1>3, <1>4, <1>5, <1>6, <1>7, <1>8, <1>9, <1>10, <1>11, <1>12, <1>13, <1>14,
     <1>15 DEF EntryPage!Next, EntryPage!Answers

(* ---- An entry's own page, left once ---------------------------------------- *)

LEMMA DeedStarts == EntryPage!Init => EntryPage!OneDeedRuns
BY DEF EntryPage!Init, EntryPage!OneDeedRuns

\* What changes neither the deeds nor where the person is.
LEMMA DeedRests ==
    ASSUME EntryPage!OneDeedRuns, UNCHANGED <<deedsRun, pageMenu, where, popped, backTapped>>
    PROVE  EntryPage!OneDeedRuns'
BY DEF EntryPage!OneDeedRuns

\* A deed's record changes.
LEMMA DeedGoesOn ==
    ASSUME EntryPage!OneDeedRuns, NEW d \in deedsRun, NEW e, d.st # "left",
           deedsRun' = (deedsRun \ {d}) \cup {e}, UNCHANGED <<pageMenu, where, popped, backTapped>>
    PROVE  EntryPage!OneDeedRuns'
<1>1. deedsRun' = {e} /\ pageMenu = "closed"
  BY DEF EntryPage!OneDeedRuns
<1> QED BY <1>1 DEF EntryPage!OneDeedRuns

LEMMA DeedKeeps ==
    ASSUME EntryPage!EntryReadsInOrder, EntryPage!OneDeedRuns, EntryPage!Next \/ UNCHANGED EntryPage!vars
    PROVE  EntryPage!OneDeedRuns'
<1>1. CASE EntryPage!OtherPhone
  BY <1>1, DeedRests DEF EntryPage!OtherPhone, EntryPage!pages
<1>2. ASSUME NEW d \in deedsRun, EntryPage!DeedServed(d)
      PROVE  EntryPage!OneDeedRuns'
  BY <1>2, DeedGoesOn DEF EntryPage!DeedServed, EntryPage!pages
<1>3. ASSUME NEW d \in deedsRun, EntryPage!RunDelete(d), UNCHANGED <<pageMenu, backTapped>>
      PROVE  EntryPage!OneDeedRuns'
  <2> DEFINE e == [d EXCEPT !.st = "left"]
  <2>1. e.st = "left"
    BY DEF EntryPage!EntryReadsInOrder
  <2>2. deedsRun' = (deedsRun \ {d}) \cup {e} /\ d.st # "left"
    BY <1>3 DEF EntryPage!RunDelete
  <2> HIDE DEF e
  <2>3. deedsRun' = {e} /\ pageMenu = "closed"
    BY <2>2 DEF EntryPage!OneDeedRuns
  <2>4. popped' = popped + 1 /\ where' = "left"
    BY <1>3 DEF EntryPage!RunDelete, EntryPage!GoBack
  <2> QED BY <1>3, <2>1, <2>2, <2>3, <2>4 DEF EntryPage!OneDeedRuns
<1>4. ASSUME NEW d \in deedsRun, EntryPage!RunArchive(d), UNCHANGED <<pageMenu, backTapped>>
      PROVE  EntryPage!OneDeedRuns'
  <2>1. deedsRun' = {} /\ pageMenu = "closed" /\ d.st # "left"
    BY <1>4 DEF EntryPage!RunArchive, EntryPage!Ended, EntryPage!OneDeedRuns
  <2>2. popped' = popped + 1 /\ where' = "left"
    BY <1>4 DEF EntryPage!RunArchive, EntryPage!GoBack
  <2> QED BY <1>4, <2>1, <2>2 DEF EntryPage!OneDeedRuns
<1>5. ASSUME NEW d \in deedsRun, deedsRun' = deedsRun \ {d}, UNCHANGED <<pageMenu, where, popped, backTapped>>
      PROVE  EntryPage!OneDeedRuns'
  BY <1>5 DEF EntryPage!OneDeedRuns
<1>6. ASSUME NEW d \in deedsRun, EntryPage!DeedAnswered(d)
      PROVE  EntryPage!OneDeedRuns'
  BY <1>3, <1>4, <1>5, <1>6 DEF EntryPage!DeedAnswered, EntryPage!ReadsAgain, EntryPage!SaysSo, EntryPage!Ended
<1>7. ASSUME NEW d \in deedsRun, EntryPage!DeedFails(d)
      PROVE  EntryPage!OneDeedRuns'
  BY <1>5, <1>7 DEF EntryPage!DeedFails, EntryPage!Ended, EntryPage!pages
<1>8. ASSUME NEW c, EntryPage!EntryServed(c) \/ EntryPage!EntryAnswered(c) \/ EntryPage!EntryFails(c)
      PROVE  EntryPage!OneDeedRuns'
  BY <1>8, DeedRests DEF EntryPage!EntryServed, EntryPage!EntryAnswered, EntryPage!EntryFails, EntryPage!pages
<1>9. CASE EntryPage!DotsTapped
  BY <1>9 DEF EntryPage!DotsTapped, EntryPage!MayRun, EntryPage!OneDeedRuns, EntryPage!pages
<1>10. CASE EntryPage!Edit
  BY <1>10 DEF EntryPage!Edit, EntryPage!OneDeedRuns
<1>11. CASE EntryPage!AskDelete
  BY <1>11 DEF EntryPage!AskDelete, EntryPage!MayRun, EntryPage!OneDeedRuns, EntryPage!pages
<1>12. CASE EntryPage!Run
  <2>1. PICK e : deedsRun' = deedsRun \cup {e}
    BY <1>12 DEF EntryPage!Run
  <2>2. deedsRun = {} /\ where = "page" /\ pageMenu' = "closed" /\ UNCHANGED <<where, popped, backTapped>>
    BY <1>12 DEF EntryPage!Run, EntryPage!MayRun, EntryPage!pages
  <2> QED BY <2>1, <2>2 DEF EntryPage!OneDeedRuns
<1>13. CASE EntryPage!BackFromEdit
  BY <1>13 DEF EntryPage!BackFromEdit, EntryPage!OneDeedRuns
<1>14. CASE EntryPage!BackTapped
  BY <1>14 DEF EntryPage!BackTapped, EntryPage!GoBack, EntryPage!OneDeedRuns
<1>15. CASE EntryPage!Reload
  BY <1>15, DeedRests DEF EntryPage!Reload, EntryPage!pages
<1>16. CASE UNCHANGED EntryPage!vars
  BY <1>16, DeedRests DEF EntryPage!vars, EntryPage!pages
<1> QED BY <1>1, <1>2, <1>6, <1>7, <1>8, <1>9, <1>10, <1>11, <1>12, <1>13, <1>14, <1>15, <1>16
   DEF EntryPage!Next, EntryPage!Answers

LEMMA PageLeftOnce == EntryPage!OneDeedRuns => EntryPage!LeftOnce
BY DEF EntryPage!OneDeedRuns, EntryPage!LeftOnce

(* ---- The Board (useBoard) ---------------------------------------------- *)

Board == INSTANCE PhoneBoard

LEMMA BoardStarts == Board!Init => Board!FirstsInOrder
<1> SUFFICES ASSUME Board!Init PROVE Board!FirstsInOrder
  OBVIOUS
<1> DEFINE c == Board!Call("first", "quiet", 1, 1, Days + 1, FALSE)
<1>1. edition = 0 /\ boardSeq = 1 /\ DOMAIN held = {"owner", "has", "v", "days", "next"} /\ held.v = 0
  BY DEF Board!Init, Board!NoBoard
<1>2. /\ DOMAIN c = {"k", "mode", "seq", "owner", "before", "crossed", "st", "ans"}
      /\ c.k = "first" /\ c.seq = 1 /\ c.st = "sent"
  BY DEF Board!Call
<1>3. boardCalls = {c}
  BY DEF Board!Init
<1> HIDE DEF c
<1> QED BY <1>1, <1>2, <1>3 DEF Board!FirstsInOrder, Board!Firsts

LEMMA LoadFirstKeeps ==
    ASSUME NEW how, NEW owner, Board!FirstsInOrder, Board!LoadFirst(how, owner),
           UNCHANGED held \/ held' = Board!NoBoard(owner)
    PROVE  Board!FirstsInOrder'
<1> DEFINE n == Board!Call("first", how, owner, boardSeq + 1, Days + 1, FALSE)
<1>1. edition' = edition /\ boardSeq' = boardSeq + 1 /\ DOMAIN held' = {"owner", "has", "v", "days", "next"} /\ held'.v \in 0 .. edition
  BY DEF Board!FirstsInOrder, Board!LoadFirst, Board!shelves, Board!NoBoard
<1>2. /\ DOMAIN n = {"k", "mode", "seq", "owner", "before", "crossed", "st", "ans"}
      /\ n.k = "first" /\ n.seq = boardSeq + 1 /\ n.st = "sent"
  BY DEF Board!Call
<1>3. boardCalls' = boardCalls \cup {n}
  BY DEF Board!LoadFirst
<1> HIDE DEF n
<1> QED BY <1>1, <1>2, <1>3 DEF Board!FirstsInOrder, Board!Firsts

LEMMA PageIsNow == \A c : Board!PageBefore(c).v = edition
BY DEF Board!PageBefore, Board!NoPage

LEMMA FirstServedKeeps ==
    ASSUME NEW c \in boardCalls, Board!FirstsInOrder, Board!Served(c)
    PROVE  Board!FirstsInOrder'
<1> DEFINE d == [c EXCEPT !.st = "served", !.ans = Board!PageBefore(c)]
<1>1. boardCalls' = (boardCalls \ {c}) \cup {d} /\ edition' = edition /\ boardSeq' = boardSeq /\ held' = held
  BY DEF Board!Served, Board!shelves
<1>2. DOMAIN d = DOMAIN c /\ d.k = c.k /\ d.seq = c.seq /\ d.ans.v = edition
  BY PageIsNow DEF Board!FirstsInOrder
<1> HIDE DEF d
<1> QED BY <1>1, <1>2 DEF Board!FirstsInOrder, Board!Firsts

LEMMA BoardKeeps ==
    ASSUME Board!FirstsInOrder, Board!Next \/ UNCHANGED Board!vars
    PROVE  Board!FirstsInOrder' /\ Board!FirstIsNewest
<1>1. ASSUME NEW c \in boardCalls, Board!Served(c)
      PROVE  Board!FirstsInOrder' /\ Board!FirstIsNewest
  <2>1. Board!FirstsInOrder'
    BY <1>1, FirstServedKeeps
  <2>2. UNCHANGED <<account, held>>
    BY <1>1 DEF Board!Served
  <2> QED BY <2>1, <2>2 DEF Board!FirstsInOrder, Board!FirstIsNewest, Board!Shown, Board!NoBoard
<1>2. ASSUME NEW c \in boardCalls, Board!FirstAnswered(c)
      PROVE  Board!FirstsInOrder' /\ Board!FirstIsNewest
  BY <1>2 DEF Board!FirstAnswered, Board!FirstsInOrder, Board!FirstIsNewest, Board!Current,
     Board!Latest, Board!Firsts, Board!Shown, Board!NoBoard, Board!shelves
<1>3. ASSUME NEW c \in boardCalls, Board!MoreAnswered(c)
      PROVE  Board!FirstsInOrder' /\ Board!FirstIsNewest
  BY <1>3 DEF Board!MoreAnswered, Board!FirstsInOrder, Board!FirstIsNewest, Board!Current,
     Board!Latest, Board!Firsts, Board!Shown, Board!NoBoard, Board!shelves
<1>4. ASSUME NEW c \in boardCalls, Board!FirstFailed(c)
      PROVE  Board!FirstsInOrder' /\ Board!FirstIsNewest
  BY <1>4 DEF Board!FirstFailed, Board!FirstsInOrder, Board!FirstIsNewest, Board!Lost, Board!Firsts,
     Board!Shown, Board!NoBoard, Board!shelves
<1>5. ASSUME NEW c \in boardCalls, Board!MoreLost(c)
      PROVE  Board!FirstsInOrder' /\ Board!FirstIsNewest
  BY <1>5 DEF Board!MoreLost, Board!FirstsInOrder, Board!FirstIsNewest, Board!Lost, Board!Firsts,
     Board!Shown, Board!NoBoard, Board!shelves
<1>6. ASSUME NEW d, Board!Edited(d)
      PROVE  Board!FirstsInOrder' /\ Board!FirstIsNewest
  BY <1>6 DEF Board!Edited, Board!FirstsInOrder, Board!FirstIsNewest, Board!Firsts, Board!Shown,
     Board!NoBoard, Board!spinners
<1>7. CASE Board!Focus
  <2>1. UNCHANGED <<account, held>> /\ \E how : Board!LoadFirst(how, account)
    BY <1>7 DEF Board!Focus
  <2> QED BY <2>1, LoadFirstKeeps DEF Board!FirstsInOrder, Board!FirstIsNewest, Board!Shown, Board!NoBoard
<1>8. CASE Board!Pull
  <2>1. UNCHANGED <<account, held>> /\ \E how : Board!LoadFirst(how, account)
    BY <1>8 DEF Board!Pull
  <2> QED BY <2>1, LoadFirstKeeps DEF Board!FirstsInOrder, Board!FirstIsNewest, Board!Shown, Board!NoBoard
<1>9. CASE Board!Retry
  <2>1. UNCHANGED <<account, held>> /\ \E how : Board!LoadFirst(how, account)
    BY <1>9 DEF Board!Retry
  <2> QED BY <2>1, LoadFirstKeeps DEF Board!FirstsInOrder, Board!FirstIsNewest, Board!Shown, Board!NoBoard
<1>10. CASE Board!EndReached
  BY <1>10 DEF Board!EndReached, Board!FirstsInOrder, Board!FirstIsNewest, Board!Looks,
     Board!LoadMore, Board!Call, Board!NoPage, Board!Firsts, Board!Shown, Board!NoBoard,
     Board!shelves
<1>11. CASE Board!AccountChanges
  BY <1>11, LoadFirstKeeps DEF Board!AccountChanges, Board!FirstIsNewest
<1>12. CASE UNCHANGED Board!vars
  BY <1>12 DEF Board!FirstsInOrder, Board!FirstIsNewest, Board!vars, Board!shelves, Board!spinners,
     Board!Firsts, Board!Shown, Board!NoBoard
<1> QED BY <1>1, <1>2, <1>3, <1>4, <1>5, <1>6, <1>7, <1>8, <1>9, <1>10, <1>11, <1>12 DEF Board!Next, Board!Answers

(* ---- The notice of the settings pages -------------------------------------- *)

Settings == INSTANCE PhoneSettings

LEMMA SettingsStarts == Settings!Init => Settings!NoticeTimed
BY DEF Settings!Init, Settings!NoticeTimed

LEMMA NoticeRests ==
    ASSUME Settings!NoticeTimed, UNCHANGED <<notice, noticeTimers, noticeAge>>
    PROVE  Settings!NoticeTimed'
BY DEF Settings!NoticeTimed

LEMMA NoticeIsLong ==
    ASSUME NoticeTime \in Nat, NoticeTime > 0
    PROVE  0 \in 0 .. NoticeTime - 1 /\ NoticeTime - 0 = NoticeTime
OBVIOUS

LEMMA NoticeSet ==
    ASSUME NoticeTime \in Nat, NoticeTime > 0, NEW words, words # "", Settings!Notices(words)
    PROVE  Settings!NoticeTimed'
<1>1. noticeTimers' = {NoticeTime} /\ noticeAge' = 0
  BY DEF Settings!Notices, Settings!Restarted
<1>2. notice' # ""
  BY DEF Settings!Notices
<1>3. noticeAge' \in 0 .. NoticeTime - 1 /\ noticeTimers' = {NoticeTime - noticeAge'}
  <2>1. 0 \in 0 .. NoticeTime - 1 /\ NoticeTime - 0 = NoticeTime
    BY NoticeIsLong
  <2> QED BY <1>1, <2>1
<1> QED BY <1>2, <1>3 DEF Settings!NoticeTimed

\* One tick of a timer that runs: the line's age and what the timer has left.
LEMMA TimerTicks ==
    ASSUME NEW n \in Nat, NEW age \in 0 .. n - 1
    PROVE  /\ age < n /\ age >= 0
           /\ {t - 1 : t \in {n - age}} \ {0} = IF age + 1 = n THEN {} ELSE {n - (age + 1)}
           /\ age + 1 = n => 1 \in {n - age} /\ age + 1 >= n
           /\ age + 1 # n => 1 \notin {n - age} /\ age + 1 \in 0 .. n - 1
OBVIOUS

LEMMA NoticeTicks ==
    ASSUME NoticeTime \in Nat, NoticeTime > 0, Settings!NoticeTimed, Settings!Ticks
    PROVE  Settings!NoticeTimed'
<1>1. noticeAge \in 0 .. NoticeTime - 1 /\ noticeTimers = {NoticeTime - noticeAge}
  BY DEF Settings!NoticeTimed, Settings!Ticks
<1>2. notice # ""
  BY DEF Settings!NoticeTimed, Settings!Ticks
<1>3. /\ noticeAge < NoticeTime
      /\ {t - 1 : t \in noticeTimers} \ {0} = IF noticeAge + 1 = NoticeTime THEN {} ELSE {NoticeTime - (noticeAge + 1)}
      /\ noticeAge + 1 = NoticeTime => noticeAge + 1 >= NoticeTime
      /\ noticeAge + 1 # NoticeTime => 1 \notin noticeTimers /\ noticeAge + 1 \in 0 .. NoticeTime - 1
  BY <1>1, TimerTicks
<1>4. noticeAge' = noticeAge + 1 /\ noticeTimers' = {t - 1 : t \in noticeTimers} \ {0}
  BY <1>3 DEF Settings!Ticks
<1>5. CASE noticeAge + 1 = NoticeTime
  BY <1>3, <1>4, <1>5 DEF Settings!NoticeTimed
<1>6. CASE noticeAge + 1 # NoticeTime
  <2>1. notice' = notice
    BY <1>3, <1>6 DEF Settings!Ticks
  <2>2. noticeAge' \in 0 .. NoticeTime - 1 /\ noticeTimers' = {NoticeTime - noticeAge'}
    BY <1>3, <1>4, <1>6
  <2> QED BY <1>2, <2>1, <2>2 DEF Settings!NoticeTimed
<1> QED BY <1>5, <1>6

LEMMA SettingsKeeps ==
    ASSUME NoticeTime \in Nat, NoticeTime > 0, Settings!NoticeTimed, Settings!Next \/ UNCHANGED Settings!vars
    PROVE  Settings!NoticeTimed'
<1>1. CASE Settings!Ticks
  BY <1>1, NoticeTicks
<1>2. CASE Settings!SaveLands
  <2>1. Settings!Notices("password")
    BY <1>2 DEF Settings!SaveLands
  <2> QED BY <2>1, NoticeSet
<1>3. CASE Settings!EditSaved
  <2>1. Settings!Notices("Saved.")
    BY <1>3 DEF Settings!EditSaved
  <2> QED BY <2>1, NoticeSet
<1>4. CASE UNCHANGED Settings!line
  BY <1>4, NoticeRests DEF Settings!line
<1>5. Settings!Answers => UNCHANGED Settings!line
  BY DEF Settings!Answers, Settings!ArchiveServed, Settings!PutBackServed, Settings!PutBackDone,
      Settings!BlockedLands,
     Settings!UnblockServed, Settings!UnblockDone, Settings!PutBackFails, Settings!ArchiveLands
<1>6. Settings!SaveServed \/ Settings!SaveRefused \/ Settings!Save \/ Settings!SaveFails => UNCHANGED Settings!line
  BY DEF Settings!SaveServed, Settings!SaveRefused, Settings!Save, Settings!SaveFails
<1>7. Settings!Back \/ Settings!ArchiveAgain \/ Settings!BlockedFails \/ Settings!PutBackFails \/ Settings!UnblockFails
         => UNCHANGED Settings!line
  BY DEF Settings!Back, Settings!ArchiveAgain, Settings!BlockedFails, Settings!PutBackFails, Settings!UnblockFails
<1>8. \A p, q : Settings!OpenPage(p) \/ Settings!ArchiveFails(p) \/ Settings!LatePutBack(p) \/ Settings!PutBack(p)
                   \/ Settings!Unblock(p) \/ Settings!TypeBoxes(p, q) => UNCHANGED Settings!line
  BY DEF Settings!OpenPage, Settings!ArchiveFails, Settings!LatePutBack, Settings!PutBack, Settings!Unblock,
     Settings!TypeBoxes
<1>9. UNCHANGED Settings!vars => UNCHANGED Settings!line
  BY DEF Settings!vars
<1> QED BY <1>1, <1>2, <1>3, <1>4, <1>5, <1>6, <1>7, <1>8, <1>9 DEF Settings!Next, Settings!Saving

LEMMA NoticeStays == ASSUME Settings!NoticeTimed PROVE Settings!NoticeStays
BY DEF Settings!NoticeTimed, Settings!NoticeStays

(* ---- The forgotten password ------------------------------------------------ *)

Reset == INSTANCE PhoneReset WITH MaxSends <- MaxResetSends

LEMMA ResetStarts ==
    ASSUME Reset!Init
    PROVE  Reset!RequestMarked
<1>1. DOMAIN reset = {"st", "code", "answer"} /\ reset.st = "idle"
  BY DEF Reset!Init, Reset!NoReset
<1>2. forgot = "idle"
  BY DEF Reset!Init
<1> QED BY <1>1, <1>2 DEF Reset!RequestMarked

LEMMA RequestStaysMarked ==
    ASSUME Reset!RequestMarked, UNCHANGED <<forgot, reset, sendingReset, codeSpent>>
    PROVE  Reset!RequestMarked'
BY DEF Reset!RequestMarked

LEMMA ResetKeeps ==
    ASSUME Reset!RequestMarked, Reset!Next \/ UNCHANGED Reset!vars
    PROVE  Reset!RequestMarked'
<1>1. CASE Reset!ForgotServed
  BY <1>1 DEF Reset!ForgotServed, Reset!RequestMarked, Reset!refs
<1>2. CASE Reset!ForgotAnswered
  BY <1>2 DEF Reset!ForgotAnswered, Reset!RequestMarked
<1>3. CASE Reset!ForgotLost
  BY <1>3 DEF Reset!ForgotLost, Reset!RequestMarked
<1>4. CASE Reset!SendCode
  BY <1>4 DEF Reset!SendCode, Reset!MaySend, Reset!RequestMarked
<1>5. CASE Reset!Reset
  BY <1>5 DEF Reset!Reset, Reset!MayReset, Reset!MaySend, Reset!RequestMarked
<1>6. CASE Reset!ResetServed
  BY <1>6 DEF Reset!ResetServed, Reset!RequestMarked, Reset!refs
<1>7. CASE Reset!ResetLost
  BY <1>7 DEF Reset!ResetLost, Reset!RequestMarked, Reset!NoReset
<1>8. CASE Reset!ResetRefused
  BY <1>8 DEF Reset!ResetRefused, Reset!RequestMarked, Reset!NoReset
<1>9. CASE Reset!ResetTaken
  BY <1>9 DEF Reset!ResetTaken, Reset!RequestMarked
<1>10. CASE Reset!SignedIn
  BY <1>10 DEF Reset!SignedIn, Reset!RequestMarked, Reset!NoReset
<1>11. CASE Reset!SignInFails
  BY <1>11 DEF Reset!SignInFails, Reset!RequestMarked, Reset!NoReset
<1>12. CASE Reset!MinutePasses
  BY <1>12, RequestStaysMarked DEF Reset!MinutePasses, Reset!refs, Reset!calls
<1>13. ASSUME NEW c, Reset!TypeCode(c)
      PROVE  Reset!RequestMarked'
  BY <1>13, RequestStaysMarked DEF Reset!TypeCode, Reset!refs, Reset!calls
<1>14. ASSUME NEW c, Reset!LateReset(c)
      PROVE  Reset!RequestMarked'
  BY <1>14, RequestStaysMarked DEF Reset!LateReset, Reset!refs, Reset!calls
<1>15. CASE UNCHANGED Reset!vars
  BY <1>15, RequestStaysMarked DEF Reset!vars, Reset!refs, Reset!calls
<1> QED BY <1>1, <1>2, <1>3, <1>4, <1>5, <1>6, <1>7, <1>8, <1>9, <1>10, <1>11, <1>12, <1>13, <1>14, <1>15
   DEF Reset!Next, Reset!ResetSteps

LEMMA OneRequest == Reset!RequestMarked => Reset!OneRequestOpen
BY DEF Reset!RequestMarked, Reset!OneRequestOpen

(* ---- The list behind the bell (NotificationsScreen) -------------------- *)

Inbox == INSTANCE PhoneInbox

LEMMA InboxKeeps ==
    ASSUME Inbox!Next \/ UNCHANGED Inbox!vars
    PROVE  Inbox!DotsStay
<1>1. CASE Inbox!ItemArrives
  BY <1>1 DEF Inbox!ItemArrives, Inbox!DotsStay, Inbox!pages
<1>2. CASE Inbox!UnreadServed
  BY <1>2 DEF Inbox!UnreadServed, Inbox!DotsStay, Inbox!pages
<1>3. CASE Inbox!UnreadAnswered
  BY <1>3 DEF Inbox!UnreadAnswered, Inbox!DotsStay, Inbox!pages
<1>4. CASE Inbox!UnreadFails
  BY <1>4 DEF Inbox!UnreadFails, Inbox!DotsStay, Inbox!pages
<1>5. ASSUME NEW r \in inboxReads, Inbox!InboxServed(r)
      PROVE  Inbox!DotsStay
  BY <1>5 DEF Inbox!InboxServed, Inbox!DotsStay, Inbox!InboxStep, Inbox!pages
<1>6. ASSUME NEW r \in inboxReads, Inbox!InboxAnswered(r)
      PROVE  Inbox!DotsStay
  BY <1>6 DEF Inbox!InboxAnswered, Inbox!DotsStay, Inbox!InboxStep, Inbox!pages, Inbox!DotsKept,
     Inbox!OfPage
<1>7. ASSUME NEW r \in inboxReads, Inbox!InboxFails(r)
      PROVE  Inbox!DotsStay
  BY <1>7 DEF Inbox!InboxFails, Inbox!DotsStay, Inbox!InboxStep, Inbox!pages
<1>8. ASSUME NEW r \in inboxReads, Inbox!SeenServed(r)
      PROVE  Inbox!DotsStay
  BY <1>8 DEF Inbox!SeenServed, Inbox!DotsStay, Inbox!InboxStep, Inbox!pages
<1>9. ASSUME NEW r \in inboxReads, Inbox!SeenAnswered(r)
      PROVE  Inbox!DotsStay
  BY <1>9 DEF Inbox!SeenAnswered, Inbox!DotsStay, Inbox!InboxStep, Inbox!pages
<1>10. ASSUME NEW r \in inboxReads, Inbox!SeenFails(r)
      PROVE  Inbox!DotsStay
  BY <1>10 DEF Inbox!SeenFails, Inbox!DotsStay, Inbox!InboxStep, Inbox!pages
<1>11. CASE Inbox!OpenInbox
  BY <1>11 DEF Inbox!OpenInbox, Inbox!DotsStay
<1>12. CASE Inbox!InboxFocus
  BY <1>12 DEF Inbox!InboxFocus, Inbox!DotsStay, Inbox!pages
<1>13. CASE Inbox!LeaveInbox
  BY <1>13 DEF Inbox!LeaveInbox, Inbox!DotsStay
<1>14. CASE Inbox!SpinFocus
  BY <1>14 DEF Inbox!SpinFocus, Inbox!DotsStay, Inbox!pages
<1>15. CASE UNCHANGED Inbox!vars
  BY <1>15 DEF Inbox!DotsStay, Inbox!vars, Inbox!pages
<1> QED BY <1>1, <1>2, <1>3, <1>4, <1>5, <1>6, <1>7, <1>8, <1>9, <1>10, <1>11, <1>12, <1>13, <1>14,
     <1>15 DEF Inbox!Next, Inbox!Answers

(* ---- The figures of the profile (useProfileSummary) -------------------- *)

Figures == INSTANCE PhoneFigures

LEMMA FiguresStarts == Figures!Init => Figures!ReadsInOrder
BY DEF Figures!Init, Figures!ReadsInOrder

LEMMA FiguresKeeps ==
    ASSUME Figures!ReadsInOrder, Figures!Next \/ UNCHANGED Figures!vars
    PROVE  Figures!ReadsInOrder' /\ Figures!FiguresNewest
<1>1. ASSUME NEW a \in figureAsks, Figures!Served(a)
      PROVE  Figures!ReadsInOrder' /\ Figures!FiguresNewest
  BY <1>1 DEF Figures!Served, Figures!ReadsInOrder, Figures!FiguresNewest
<1>2. ASSUME NEW a \in figureAsks, Figures!Lands(a)
      PROVE  Figures!ReadsInOrder' /\ Figures!FiguresNewest
  BY <1>2 DEF Figures!Lands, Figures!ReadsInOrder, Figures!FiguresNewest, Figures!StillNewest
<1>3. ASSUME NEW a \in figureAsks, Figures!FocusFails(a)
      PROVE  Figures!ReadsInOrder' /\ Figures!FiguresNewest
  BY <1>3 DEF Figures!FocusFails, Figures!ReadsInOrder, Figures!FiguresNewest
<1>4. CASE Figures!Focus
  BY <1>4 DEF Figures!Focus, Figures!ReadsInOrder, Figures!FiguresNewest
<1>5. CASE Figures!Leave
  BY <1>5 DEF Figures!Leave, Figures!ReadsInOrder, Figures!FiguresNewest
<1>6. CASE Figures!FiguresMove
  BY <1>6 DEF Figures!FiguresMove, Figures!ReadsInOrder, Figures!FiguresNewest
<1>7. CASE UNCHANGED Figures!vars
  BY <1>7 DEF Figures!ReadsInOrder, Figures!FiguresNewest, Figures!vars
<1> QED BY <1>1, <1>2, <1>3, <1>4, <1>5, <1>6, <1>7 DEF Figures!Next, Figures!Answers

(* ---- The turning wheel ----------------------------------------------------- *)

Disc == INSTANCE PhoneDisc

LEMMA DiscStarts == Disc!Init => Disc!ReportsCount
BY DEF Disc!Init, Disc!ReportsCount

LEMMA DiscKeeps ==
    ASSUME Disc!ReportsCount, Disc!Next \/ UNCHANGED Disc!vars
    PROVE  Disc!ReportsCount'
<1>1. CASE Disc!Mounts \/ Disc!Placed \/ Disc!TurnAsked
  BY <1>1 DEF Disc!Mounts, Disc!Placed, Disc!TurnAsked, Disc!ReportsCount
<1>2. CASE Disc!TurnStarts \/ Disc!TurnEnds
  BY <1>2 DEF Disc!TurnStarts, Disc!TurnEnds, Disc!Report, Disc!ReportsCount
<1>3. CASE Disc!PhaseFollows \/ Disc!FadeEnds \/ Disc!CalmEnds \/ Disc!Failsafe
  BY <1>3 DEF Disc!PhaseFollows, Disc!FadeEnds, Disc!CalmEnds, Disc!Failsafe, Disc!discOf, Disc!ReportsCount
<1>4. CASE Disc!Answered \/ Disc!BonusConfirmed \/ Disc!BonusLost \/ Disc!NewDay
  BY <1>4 DEF Disc!Answered, Disc!BonusConfirmed, Disc!BonusLost, Disc!NewDay, Disc!discOf, Disc!ReportsCount
<1>5. CASE UNCHANGED Disc!vars
  BY <1>5 DEF Disc!vars, Disc!ReportsCount
<1> QED BY <1>1, <1>2, <1>3, <1>4, <1>5 DEF Disc!Next, Disc!Moves, Disc!Person

LEMMA OneReport == Disc!ReportsCount => Disc!ReportedOnce
BY DEF Disc!ReportsCount, Disc!ReportedOnce

(* ---- The Spin page (TodayScreen) ---------------------------------------- *)

Today == INSTANCE PhoneToday

LEMMA TodayStarts == Today!Init => Today!RenderedFollows
BY DEF Today!Init, Today!RenderedFollows

LEMMA StillStays ==
    ASSUME Today!Step \/ Today!Effects
    PROVE  UNCHANGED still
BY DEF Today!Step, Today!System, Today!Person, Today!Effects, Today!Answers, Today!Outside, Today!Turning,
    Today!HasLanded,
   Today!BonusFailed, Today!CallServed, Today!LoadAnswered, Today!SpinAnswered, Today!SpinFailed, Today!WriteServed,
   Today!WriteAnswered, Today!Starts, Today!InstantReached, Today!ZeroFires, Today!RetryFires, Today!Calm,
   Today!Faded,
   Today!WheelLanded, Today!Focus, Today!Foreground, Today!MiddleSpin, Today!HubPressed, Today!OpenBonusSheet,
   Today!StartBonus, Today!KeepWord, Today!TryAgain, Today!LoadAgain, Today!WriteStarts, Today!LoadLost,
   Today!WriteLost,
   Today!Trigger, Today!Phase, Today!server

LEMMA TodayKeeps ==
    ASSUME Today!RenderedFollows, Today!Next \/ UNCHANGED Today!vars
    PROVE  Today!RenderedFollows' /\ Today!HeldWhileTurning
<1>1. CASE Today!Next
  <2>1. stable' = IF Today!Holding' THEN stable ELSE today'
    BY <1>1 DEF Today!Next
  <2>2. still' = still
    BY <1>1, StillStays DEF Today!Next
  <2>3. Today!RenderedFollows'
    BY <2>1 DEF Today!RenderedFollows
  <2>4. ASSUME spinning', ~still, stable # Today!NoDay
        PROVE  Today!View' = Today!View
    <3>1. Today!Holding' /\ stable' = stable
      BY <2>1, <2>2, <2>4 DEF Today!Holding
    <3> QED BY <2>4, <3>1 DEF Today!View, Today!RenderedFollows
  <2> QED BY <2>3, <2>4 DEF Today!HeldWhileTurning
<1>2. CASE UNCHANGED Today!vars
  BY <1>2 DEF Today!RenderedFollows, Today!HeldWhileTurning, Today!View, Today!Holding, Today!vars, Today!server,
      Today!snap,
     Today!screen
<1> QED BY <1>1, <1>2

(* ---- The push token and the kept log outs (pushToken.ts, store.ts) ------ *)

Push == INSTANCE PhonePush WITH row <- pushRow, post <- pushPost, kept <- keptOuts

\* The counts are of this phone, and each call and log out has its fields.
Counters ==
    /\ count \in Nat
    /\ kc \in 0 .. count /\ mem \in {0, kc} /\ pushRow \in 0 .. count /\ writing \in {0, count}
    /\ live \subseteq 1 .. count
Calls ==
    /\ DOMAIN registered = {"u", "sent"}
    /\ registered.sent \in BOOLEAN
    /\ DOMAIN pushPost = {"st", "s", "u", "mine"}
    /\ pushPost.mine \in BOOLEAN /\ pushPost.s \in 0 .. count
    /\ DOMAIN before.registered = {"u", "sent"} /\ before.registered.sent \in BOOLEAN
EndShape(p) ==
    /\ DOMAIN p = {"pc", "s", "u", "same", "has", "unsent", "bearer"}
    /\ p.s \in 0 .. count /\ p.unsent \in BOOLEAN /\ p.bearer \in 0 .. count
Runs ==
    /\ DOMAIN en = Push!Ends
    /\ \A x \in Push!Ends :
         /\ EndShape(en[x])
         /\ x[2] > count => en[x].pc = "none"
KeptOut == [s : 0 .. count, del : BOOLEAN]
Lists ==
    /\ pending \in Seq(KeptOut)
    /\ DOMAIN drain = {"pc", "todo"}
    /\ drain.todo \in Seq(KeptOut)
    /\ drain.pc \in {"delete", "post"} => drain.todo # <<>>

\* The session in the keychain is one the server knows: it is the newest sign
\* in, and a sign in on its way is newer than it.
Placed == kc # 0 /\ kc \in live
Newest ==
    /\ Placed => kc = count
    /\ writing # 0 => kc < count

\* A POST that still counts is of the session in place, and none counts while a
\* sign in is on its way.
Posting ==
    /\ pushPost.st = "queued" => writing # 0
    /\ pushPost.mine /\ pushPost.st = "sent" => writing = 0 /\ (pushPost.s = 0 \/ kc = 0 \/ pushPost.s = kc)
    /\ writing # 0 => ~registered.sent

\* A token counted as sent is the row of the session in place, and nothing that
\* could move it is on its way.
Counted == registered.sent /\ Placed => pushRow = kc /\ pushPost.st = "none"

\* A log out's DELETE, sent or still to come, takes no token that counts.
EndSafe(x) ==
    /\ en[x].pc = "delete" /\ en[x].bearer = kc /\ Placed => ~registered.sent /\ ~pushPost.mine
    /\ writing # 0 => en[x].bearer # count
    /\ en[x].pc = "posts" /\ en[x].same =>
         /\ writing = 0 /\ x = <<"log", count>>
         /\ Placed => loggedOut /\ ~registered.sent /\ ~pushPost.mine
    /\ x = <<"fail", count>> /\ en[x].pc # "none" => writing = 0 /\ ~Placed
Deleting == \A x \in Push!Ends : EndSafe(x)

\* A kept log out's DELETE is of a session that is not in place.
Draining ==
    drain.pc = "delete" => LET s == Head(drain.todo).s IN
        s = 0 \/ (s # kc /\ (writing # 0 => s # count))

PushInv == /\ Counters /\ Calls /\ Runs /\ Lists
        /\ Newest /\ Posting /\ Counted /\ Deleting /\ Draining

-----------------------------------------------------------------------------
(* The list without a session's entries, and the shapes of log outs.       *)

\* A set of numbers has a least one.
LEMMA LeastOf ==
    ASSUME NEW S \in SUBSET Nat, S # {}
    PROVE  \E x \in S : \A y \in S : x =< y
<1> DEFINE R == StrictSubsetOrdering(Nat)
           B == {0 .. m : m \in S}
<1>1. IsWellFoundedOn(R, FiniteSubsetsOf(Nat))
  BY FS_StrictSubsetOrderingWellFounded
<1>2. \A m \in S : 0 .. m \in FiniteSubsetsOf(Nat)
  BY FS_Interval DEF FiniteSubsetsOf
<1>3. B \subseteq FiniteSubsetsOf(Nat) /\ B # {}
  BY <1>2
<1> HIDE DEF R, B
<1>4. PICK b \in B : \A c \in B : ~(<<c, b>> \in R)
  BY <1>1, <1>3, WFMin
<1>5. PICK x \in S : b = 0 .. x
  BY DEF B
<1>6. ASSUME NEW y \in S, ~(x =< y) PROVE FALSE
  <2>1. 0 .. y \in B
    BY DEF B
  <2>2. /\ 0 .. y \in SUBSET Nat /\ 0 .. x \in SUBSET Nat
        /\ 0 .. y \subseteq 0 .. x /\ 0 .. y # 0 .. x
    BY <1>6
  <2>3. <<0 .. y, b>> \in R
    BY <1>5, <2>2 DEF R, StrictSubsetOrdering
  <2> QED BY <1>4, <2>1, <2>3
<1> QED BY <1>6

\* Forget walks the list once: the walk exists, and what it has collected at any
\* entry is a list.
LEMMA ForgetType ==
    ASSUME NEW E, pending \in Seq(E), NEW s
    PROVE  Push!Forget(s) \in Seq(E)
<1> DEFINE N == Len(pending)
           Next1(q, n) == IF pending[n].s # s THEN Append(q, pending[n]) ELSE q
           Walk(g, m) == /\ g \in [0 .. m -> Seq(E)]
                         /\ g[0] = <<>>
                         /\ \A n \in 1 .. m : g[n] = Next1(g[n - 1], n)
           bad == {m \in 0 .. N : ~\E g : Walk(g, m)}
           Body(f) == [n \in 0 .. N |-> IF n = 0 THEN <<>> ELSE Next1(f[n - 1], n)]
           first == CHOOSE f : f = Body(f)
           odd == {n \in 0 .. N : first[n] \notin Seq(E)}
<1>1. N \in Nat /\ \A n \in 1 .. N : pending[n] \in E
  OBVIOUS
<1>2. \A q \in Seq(E), n \in 1 .. N : Next1(q, n) \in Seq(E)
  BY <1>1
<1>8. Push!Forget(s) = first[N]
  BY DEF Push!Forget
<1> HIDE DEF N, Next1
<1>3. ASSUME NEW m \in bad, \A y \in bad : m =< y PROVE FALSE
  <2>2. m \in 0 .. N /\ ~\E g : Walk(g, m)
    OBVIOUS
  <2>3. CASE m = 0
    <3>1. Walk([n \in 0 .. 0 |-> <<>>], 0)
      OBVIOUS
    <3> QED BY <2>2, <2>3, <3>1
  <2>4. CASE m # 0
    <3>1. m - 1 \in 0 .. N /\ m \in 1 .. N /\ m \in Nat /\ m - 1 \in Nat
      <4> HIDE DEF bad, Walk
      <4> QED BY <1>1, <2>2, <2>4
    <3>2. m - 1 \notin bad
      <4> HIDE DEF bad
      <4> QED BY <1>3, <3>1
    <3>3. PICK g : Walk(g, m - 1)
      BY <3>1, <3>2
    <3> HIDE DEF bad
    <3>4. /\ g \in [0 .. m - 1 -> Seq(E)]
          /\ g[0] = <<>>
          /\ \A n \in 1 .. m - 1 : g[n] = Next1(g[n - 1], n)
      BY <3>3
    <3> DEFINE h == [n \in 0 .. m |-> IF n = m THEN Next1(g[m - 1], m) ELSE g[n]]
    <3>5. Next1(g[m - 1], m) \in Seq(E)
      BY <1>2, <3>1, <3>4
    <3>6. h \in [0 .. m -> Seq(E)]
      BY <3>1, <3>4, <3>5
    <3>7. h[0] = <<>>
      BY <3>1, <3>4
    <3>8. \A n \in 1 .. m : h[n] = Next1(h[n - 1], n)
      <4> SUFFICES ASSUME NEW n \in 1 .. m PROVE h[n] = Next1(h[n - 1], n)
        OBVIOUS
      <4>1. h[n - 1] = g[n - 1]
        BY <3>1
      <4>2. CASE n = m
        BY <3>1, <4>1, <4>2
      <4>3. CASE n # m
        BY <3>1, <3>4, <4>1, <4>3
      <4> QED BY <4>2, <4>3
    <3> HIDE DEF h
    <3>9. Walk(h, m)
      BY <3>6, <3>7, <3>8
    <3> QED BY <2>2, <3>9
  <2> QED BY <2>3, <2>4
<1>4. bad = {}
  <2>1. bad \in SUBSET Nat
    BY <1>1
  <2> HIDE DEF bad
  <2> QED BY <2>1, <1>3, LeastOf
<1>5. PICK g : Walk(g, N)
  <2>1. N \in 0 .. N /\ N \notin bad
    <3> HIDE DEF bad
    <3> QED BY <1>1, <1>4
  <2> HIDE DEF Walk
  <2> QED BY <2>1
<1>6. first = Body(first)
  <2>0. /\ g \in [0 .. N -> Seq(E)]
        /\ g[0] = <<>>
        /\ \A n \in 1 .. N : g[n] = Next1(g[n - 1], n)
    BY <1>5
  <2>1. \A n \in 0 .. N : g[n] = IF n = 0 THEN <<>> ELSE Next1(g[n - 1], n)
    <3> HIDE DEF Walk
    <3> QED BY <1>1, <2>0
  <2>2. g = Body(g)
    <3> HIDE DEF Walk
    <3> QED BY <2>0, <2>1
  <2> HIDE DEF Body
  <2> QED BY <2>2
<1> HIDE DEF first
<1>9. \A n \in 0 .. N : first[n] = IF n = 0 THEN <<>> ELSE Next1(first[n - 1], n)
  BY <1>6
<1>7. ASSUME NEW m \in odd, \A y \in odd : m =< y PROVE FALSE
  <2>1. m \in 0 .. N /\ first[m] \notin Seq(E)
    OBVIOUS
  <2>2. CASE m = 0
    <3>1. first[m] = <<>>
      BY <1>9, <2>1, <2>2
    <3> QED BY <2>1, <3>1
  <2>3. CASE m # 0
    <3>1. m - 1 \in 0 .. N /\ m \in 1 .. N /\ ~(m =< m - 1)
      BY <1>1, <2>1, <2>3
    <3>2. m - 1 \notin odd
      <4> HIDE DEF odd
      <4> QED BY <1>7, <3>1
    <3>3. first[m - 1] \in Seq(E)
      BY <3>1, <3>2
    <3>4. first[m] = Next1(first[m - 1], m)
      BY <1>9, <2>1, <2>3
    <3> QED BY <1>2, <2>1, <3>1, <3>3, <3>4
  <2> QED BY <2>2, <2>3
<1>10. odd = {}
  <2>1. odd \in SUBSET Nat
    BY <1>1
  <2> HIDE DEF odd
  <2> QED BY <2>1, <1>7, LeastOf
<1> QED BY <1>1, <1>8, <1>10

LEMMA KeptListType ==
    ASSUME NEW E, pending \in Seq(E), NEW e \in E, Limit \in Nat
    PROVE  Push!KeptList(e) \in Seq(E)
<1> DEFINE all == Append(pending, e)
           m == IF Len(all) > Limit THEN Len(all) - Limit + 1 ELSE 1
<1>1. all \in Seq(E) /\ Len(all) \in Nat
  OBVIOUS
<1>2. Push!KeptList(e) = SubSeq(all, m, Len(all))
  BY DEF Push!KeptList
<1> HIDE DEF all
<1>3. m \in Int /\ m >= 1
  BY <1>1
<1>4. \A i \in 1 .. Len(all) : all[i] \in E
  BY <1>1
<1>5. \A i \in m .. Len(all) : i \in 1 .. Len(all)
  BY <1>1, <1>3
<1> HIDE DEF m
<1> QED BY <1>1, <1>2, <1>3, <1>4, <1>5, SubSeqProperties

\* The records of log outs, by the steps that make them.
LEMMA NewEndShape ==
    ASSUME Counters
    PROVE  /\ EndShape(Push!NoEnd) /\ Push!NoEnd.pc = "none"
           /\ EndShape([Push!NoEnd EXCEPT !.pc = "wait"])
           /\ [Push!NoEnd EXCEPT !.pc = "wait"].pc = "wait"
BY DEF Counters, EndShape, Push!NoEnd
LEMMA ToLogOutShape ==
    ASSUME Counters, NEW s \in 0 .. count, NEW b \in BOOLEAN
    PROVE  EndShape(Push!ToLogOut(s, b)) /\ Push!ToLogOut(s, b).pc = "logout"
BY DEF Counters, EndShape, Push!NoEnd, Push!ToLogOut
LEMMA PostsShape ==
    ASSUME Counters, NEW h, NEW u, NEW r,
           r = [Push!NoEnd EXCEPT !.pc = "posts", !.s = kc, !.same = TRUE, !.has = h, !.u = u]
    PROVE  EndShape(r) /\ r.pc = "posts" /\ r.same /\ r.bearer = 0
BY DEF Counters, EndShape, Push!NoEnd
LEMMA DeleteShape ==
    ASSUME Counters, NEW r, r = [Push!NoEnd EXCEPT !.pc = "delete", !.s = kc, !.bearer = mem]
    PROVE  EndShape(r) /\ r.pc = "delete" /\ r.bearer = mem
BY DEF Counters, EndShape, Push!NoEnd

\* A step of one log out leaves the others as they were.
LEMMA OneEnd ==
    ASSUME Runs, NEW x \in Push!Ends, NEW r, EndShape(r), x[2] > count => r.pc = "none",
           en' = [en EXCEPT ![x] = r], count' = count
    PROVE  Runs'
BY DEF Runs, EndShape

\* The list of one sign in is a list of the next.
LEMMA LongerEntries ==
    ASSUME count \in Nat, NEW q \in Seq(KeptOut), count' \in Nat, count =< count'
    PROVE  q \in Seq(KeptOut')
<1>1. \A e \in KeptOut : e \in KeptOut'
  BY DEF KeptOut
<1>2. q \in [1 .. Len(q) -> KeptOut] /\ Len(q) \in Nat
  OBVIOUS
<1>3. q \in [1 .. Len(q) -> KeptOut']
  BY <1>1, <1>2
<1> QED BY <1>2, <1>3

\* A log out that begins is one of four records, and waits for POSTs only when
\* the person logged out.
LEMMA BeginShapes ==
    ASSUME PushInv, NEW x \in Push!Ends, NEW yes \in BOOLEAN, Push!EndBegins(x, yes)
    PROVE  /\ \E r : EndShape(r) /\ en' = [en EXCEPT ![x] = r] /\ (x[2] > count => r.pc = "none")
           /\ en'[x].pc = "posts" => x[1] = "log"
<1> DEFINE has == registered.u # 0 \/ (x[1] = "log" /\ yes)
           u == IF registered.u # 0 THEN registered.u ELSE user
           r == IF Push!Since(x[2]) THEN Push!NoEnd
                ELSE CASE x[1] = "log" -> [Push!NoEnd EXCEPT !.pc = "posts", !.s = kc, !.same = TRUE,
                                                        !.has = has, !.u = u]
                       [] x[1] = "fail" /\ has -> [Push!NoEnd EXCEPT !.pc = "delete", !.s = kc, !.bearer = mem]
                       [] OTHER -> Push!ToLogOut(kc, FALSE)
<1>1. en' = [en EXCEPT ![x] = r] /\ en[x].pc = "wait"
  BY DEF Push!EndBegins
<1>2. Counters /\ DOMAIN en = Push!Ends /\ ~(x[2] > count) /\ kc \in 0 .. count
  BY <1>1 DEF PushInv, Runs, Counters
<1>3. EndShape(Push!NoEnd) /\ Push!NoEnd.pc = "none"
  BY <1>2, NewEndShape
<1>4. EndShape(Push!ToLogOut(kc, FALSE)) /\ Push!ToLogOut(kc, FALSE).pc = "logout"
  BY <1>2, ToLogOutShape
<1>5. \A h, v : LET q == [Push!NoEnd EXCEPT !.pc = "posts", !.s = kc, !.same = TRUE, !.has = h, !.u = v]
                IN  EndShape(q) /\ q.pc = "posts"
  BY <1>2, PostsShape
<1>6. LET q == [Push!NoEnd EXCEPT !.pc = "delete", !.s = kc, !.bearer = mem]
      IN  EndShape(q) /\ q.pc = "delete"
  BY <1>2, DeleteShape
<1> HIDE DEF has, u
<1>7. EndShape(r) /\ (r.pc = "posts" => x[1] = "log")
  BY <1>3, <1>4, <1>5, <1>6
<1> HIDE DEF r
<1> QED BY <1>1, <1>2, <1>7

LEMMA PostAnsweredKeeps ==
    ASSUME NEW st \in {"ok","no","lost"}, PushInv, Push!PostAnswered(st)
    PROVE  PushInv'
<1>1. Runs' /\ Lists' /\ Newest' /\ Draining'
  BY DEF PushInv, Counters, Runs, Lists, Newest, Draining, Push!PostAnswered,
     Push!AfterCall, EndShape, KeptOut, Push!NoPost, Push!NoRun, Placed, Push!Posted, Push!RowAfterPost,
     Push!list, Push!store
<1>2. Counters'
  BY DEF PushInv, Counters, Calls, Runs, Newest, Push!PostAnswered, Push!AfterCall,
     EndShape, Push!NoPost, Push!NoRun, Placed, Push!Posted, Push!RowAfterPost, Push!list, Push!store
<1>3. Calls'
  <2>1. DOMAIN registered' = {"u", "sent"} /\ registered'.sent \in BOOLEAN
    BY DEF PushInv, Calls, Push!PostAnswered
  <2>2. DOMAIN pushPost' = {"st", "s", "u", "mine"}
    BY DEF Push!PostAnswered, Push!NoPost
  <2>3. pushPost'.mine \in BOOLEAN /\ pushPost'.s \in 0 .. count' /\ before' = before
    BY DEF PushInv, Counters, Push!PostAnswered, Push!NoPost, Push!store
  <2> QED BY <2>1, <2>2, <2>3 DEF PushInv, Calls
<1>4. Posting'
  BY DEF PushInv, Counters, Posting, Push!PostAnswered, Push!AfterCall, Push!NoPost, Push!NoRun,
     Push!Posted, Push!RowAfterPost, Push!list, Push!store
<1>5. Counted'
  BY DEF PushInv, Counters, Calls, Runs, Lists, Newest, Posting, Counted,
     Deleting, Draining, Push!PostAnswered, Push!AfterCall, EndSafe, EndShape, KeptOut,
     Push!NoPost, Push!NoRun, Placed, Push!Posted, Push!RowAfterPost, Push!list, Push!store
<1>6. Deleting'
  BY DEF PushInv, Counters, Deleting, Push!PostAnswered, Push!AfterCall, EndSafe, Push!NoPost,
     Push!NoRun, Placed, Push!Posted, Push!RowAfterPost, Push!list, Push!store
<1> QED BY <1>1, <1>2, <1>3, <1>4, <1>5, <1>6 DEF PushInv

LEMMA DrainDeletedKeeps ==
    ASSUME NEW st \in {"ok","no","lost"}, PushInv, Push!DrainDeleted(st)
    PROVE  PushInv'
<1>1. Calls' /\ Runs' /\ Newest' /\ Posting' /\ Deleting'
  BY DEF PushInv, Counters, Calls, Runs, Newest, Posting, Deleting, Push!DrainDeleted,
     Push!AfterCall, Push!Deleted, EndSafe, EndShape, Placed, Push!RowAfterDelete, Push!list,
     Push!push, Push!store
<1>2. Counters'
  BY DEF PushInv, Counters, Push!DrainDeleted, Push!AfterCall, Push!Deleted, Push!RowAfterDelete,
     Push!list, Push!push, Push!store
<1>3. Lists'
  BY DEF PushInv, Counters, Lists, Push!DrainDeleted, Push!AfterCall, Push!Deleted, KeptOut,
     Push!RowAfterDelete, Push!list, Push!push, Push!store
<1>4. Counted'
  BY DEF PushInv, Counters, Calls, Runs, Lists, Newest, Posting, Counted,
     Deleting, Draining, Push!DrainDeleted, Push!AfterCall, Push!Deleted, EndSafe, EndShape,
     KeptOut, Placed, Push!RowAfterDelete, Push!list, Push!push, Push!store
<1>5. Draining'
  BY DEF PushInv, Counters, Draining, Push!DrainDeleted, Push!AfterCall, Push!Deleted,
     Push!RowAfterDelete, Push!list, Push!push, Push!store
<1> QED BY <1>1, <1>2, <1>3, <1>4, <1>5 DEF PushInv

LEMMA EndDeletedKeeps ==
    ASSUME NEW x \in Push!Ends, NEW st \in {"ok","no","lost"}, PushInv, Push!EndDeleted(x,
       st)
    PROVE  PushInv'
<1>1. Calls' /\ Lists' /\ Newest' /\ Posting' /\ Draining'
  BY DEF PushInv, Counters, Calls, Lists, Newest, Posting, Draining, Push!EndDeleted,
     Push!AfterCall, Push!Deleted, KeptOut, Push!NoEnd, Placed, Push!RowAfterDelete, Push!ToLogOut, Push!list,
     Push!push, Push!store
<1>2. Counters'
  BY DEF PushInv, Counters, Push!EndDeleted, Push!AfterCall, Push!Deleted, Push!NoEnd,
     Push!RowAfterDelete, Push!ToLogOut, Push!list, Push!push, Push!store
<1>3. Runs'
  <2>1. en[x].s \in 0 .. count /\ (x[2] > count => en[x].pc = "none") /\ Counters /\ Runs
    BY DEF PushInv, Runs, EndShape
  <2>2. /\ en' = [en EXCEPT ![x] = Push!ToLogOut(en[x].s, st = "lost")]
        /\ count' = count /\ en[x].pc = "delete"
    BY DEF Push!EndDeleted, Push!store
  <2>3. (st = "lost") \in BOOLEAN
    OBVIOUS
  <2>4. EndShape(Push!ToLogOut(en[x].s, st = "lost"))
    BY <2>1, <2>3, ToLogOutShape
  <2>5. ~(x[2] > count)
    BY <2>1, <2>2
  <2> QED BY <2>1, <2>2, <2>4, <2>5, OneEnd
<1>4. Counted'
  BY DEF PushInv, Counters, Calls, Runs, Lists, Newest, Posting, Counted,
     Deleting, Draining, Push!EndDeleted, Push!AfterCall, Push!Deleted, EndSafe, EndShape,
     KeptOut, Push!NoEnd, Placed, Push!RowAfterDelete, Push!ToLogOut, Push!list, Push!push, Push!store
<1>5. Deleting'
  BY DEF PushInv, Counters, Deleting, Push!EndDeleted, Push!AfterCall, Push!Deleted, EndSafe,
     Push!NoEnd, Placed, Push!RowAfterDelete, Push!ToLogOut, Push!list, Push!push, Push!store
<1> QED BY <1>1, <1>2, <1>3, <1>4, <1>5 DEF PushInv

LEMMA RegisterEndsKeeps ==
    ASSUME PushInv, Push!RegisterEnds
    PROVE  PushInv'
<1>1. Counters' /\ Calls' /\ Runs' /\ Lists' /\ Newest' /\ Posting' /\
   Counted' /\ Deleting' /\ Draining'
  BY DEF PushInv, Counters, Calls, Runs, Lists, Newest, Posting, Counted,
     Deleting, Draining, Push!RegisterEnds, EndSafe, EndShape, KeptOut, Push!NoRun,
     Placed, Push!list, Push!push, Push!server, Push!store
<1> QED BY <1>1 DEF PushInv

LEMMA RegisterPostsKeeps ==
    ASSUME NEW recent \in BOOLEAN, PushInv, Push!RegisterPosts(recent)
    PROVE  PushInv'
<1>1. Counters' /\ Runs' /\ Lists' /\ Newest' /\ Draining'
  BY DEF PushInv, Counters, Runs, Lists, Newest, Draining, Push!RegisterPosts,
     EndShape, KeptOut, Push!NoRun, Placed, Push!Unanswered, Push!list, Push!server, Push!store
<1>2. Calls'
  <2>1. CASE loggedOut \/ recent
    <3>1. registered' = registered /\ pushPost' = pushPost /\ count' = count /\ before' = before
      BY <2>1 DEF Push!RegisterPosts, Push!store
    <3> QED BY <3>1 DEF PushInv, Calls
  <2>2. CASE ~(loggedOut \/ recent)
    <3>1. /\ registered' = [u |-> reg.u, sent |-> FALSE]
          /\ pushPost' = [st |-> IF writing # 0 THEN "queued" ELSE "sent",
                      s |-> mem, u |-> reg.u, mine |-> TRUE]
          /\ count' = count /\ before' = before
      BY <2>2 DEF Push!RegisterPosts, Push!store
    <3>2. DOMAIN registered' = {"u", "sent"} /\ registered'.sent \in BOOLEAN
      BY <3>1
    <3>3. DOMAIN pushPost' = {"st", "s", "u", "mine"}
      BY <3>1
    <3>4. pushPost'.mine \in BOOLEAN /\ pushPost'.s \in 0 .. count'
      BY <3>1 DEF PushInv, Counters
    <3> QED BY <3>1, <3>2, <3>3, <3>4 DEF PushInv, Calls
  <2> QED BY <2>1, <2>2
<1>3. Posting'
  BY DEF PushInv, Counters, Posting, Push!RegisterPosts, Push!NoRun, Push!Unanswered, Push!list,
     Push!server, Push!store
<1>4. Counted'
  BY DEF PushInv, Counters, Counted, Push!RegisterPosts, Push!NoRun, Placed, Push!Unanswered,
     Push!list, Push!server, Push!store
<1>5. Deleting'
  BY DEF PushInv, Counters, Deleting, Push!RegisterPosts, EndSafe, Push!NoRun, Placed,
     Push!Unanswered, Push!list, Push!server, Push!store
<1> QED BY <1>1, <1>2, <1>3, <1>4, <1>5 DEF PushInv

LEMMA DrainReadsKeeps ==
    ASSUME PushInv, Push!DrainReads
    PROVE  PushInv'
<1>1. Counters' /\ Calls' /\ Runs' /\ Newest' /\ Posting' /\ Counted' /\
   Deleting'
  BY DEF PushInv, Counters, Calls, Runs, Newest, Posting, Counted, Deleting,
     Push!DrainReads, EndSafe, EndShape, Placed, Push!list, Push!push, Push!server, Push!store
<1>2. Lists'
  BY DEF PushInv, Counters, Lists, Push!DrainReads, KeptOut, Push!list, Push!push, Push!server, Push!store
<1>3. Draining'
  BY DEF PushInv, Counters, Draining, Push!DrainReads, Push!list, Push!push, Push!server, Push!store
<1> QED BY <1>1, <1>2, <1>3 DEF PushInv

LEMMA DrainNextKeeps ==
    ASSUME PushInv, Push!DrainNext
    PROVE  PushInv'
<1>1. Counters' /\ Calls' /\ Runs' /\ Newest' /\ Posting' /\ Counted' /\
   Deleting'
  BY DEF PushInv, Counters, Calls, Runs, Newest, Posting, Counted, Deleting,
     Push!DrainNext, EndSafe, EndShape, Placed, Push!push, Push!server, Push!store
<1>2. Lists'
  BY DEF PushInv, Counters, Lists, Push!DrainNext, KeptOut, Push!push, Push!server, Push!store
<1>3. Draining'
  BY DEF PushInv, Counters, Calls, Runs, Lists, Newest, Posting, Counted,
     Deleting, Draining, Push!DrainNext, EndSafe, EndShape, KeptOut, Placed, Push!push,
     Push!server, Push!store
<1> QED BY <1>1, <1>2, <1>3 DEF PushInv

LEMMA DrainEndsKeeps ==
    ASSUME PushInv, Push!DrainEnds
    PROVE  PushInv'
<1>1. Counters' /\ Calls' /\ Runs' /\ Newest' /\ Posting' /\ Counted' /\
   Deleting'
  BY DEF PushInv, Counters, Calls, Runs, Newest, Posting, Counted, Deleting,
     Push!DrainEnds, EndSafe, EndShape, Push!NoDrain, Placed, Push!push, Push!server, Push!store
<1>2. Lists'
  BY DEF PushInv, Counters, Lists, Push!DrainEnds, KeptOut, Push!NoDrain, Push!push, Push!server, Push!store
<1>3. Draining'
  BY DEF PushInv, Counters, Draining, Push!DrainEnds, Push!NoDrain, Push!push, Push!server, Push!store
<1> QED BY <1>1, <1>2, <1>3 DEF PushInv

LEMMA DrainPostsKeeps ==
    ASSUME NEW reached \in BOOLEAN, NEW answered \in BOOLEAN, PushInv,
       Push!DrainPosts(reached, answered)
    PROVE  PushInv'
<1>1. Calls' /\ Runs' /\ Posting'
  BY DEF PushInv, Counters, Calls, Runs, Posting, Push!DrainPosts, EndShape, Push!NoDrain,
     Push!push, Push!store
<1>2. Counters'
  BY DEF PushInv, Counters, Push!DrainPosts, Push!NoDrain, Push!push, Push!store
<1>3. Lists'
  <2>1. pending' \in Seq(KeptOut')
    <3>1. pending \in Seq(KeptOut) /\ KeptOut' = KeptOut
      BY DEF PushInv, Lists, KeptOut, Push!DrainPosts, Push!store
    <3>2. Push!Forget(Head(drain.todo).s) \in Seq(KeptOut)
      BY <3>1, ForgetType
    <3> QED BY <3>1, <3>2 DEF Push!DrainPosts
  <2>2. /\ DOMAIN drain' = {"pc", "todo"}
        /\ drain'.pc \in {"delete", "post"} => drain'.todo # <<>>
    BY DEF PushInv, Lists, Push!DrainPosts, Push!NoDrain
  <2>3. drain'.todo \in Seq(KeptOut')
    <3>1. drain.todo \in Seq(KeptOut) /\ drain.todo # <<>> /\ KeptOut' = KeptOut
      BY DEF PushInv, Lists, KeptOut, Push!DrainPosts, Push!store
    <3>2. drain'.todo = Tail(drain.todo) \/ drain'.todo = <<>>
      BY DEF PushInv, Lists, Push!DrainPosts, Push!NoDrain
    <3>3. Tail(drain.todo) \in Seq(KeptOut) /\ <<>> \in Seq(KeptOut)
      BY <3>1
    <3> QED BY <3>1, <3>2, <3>3
  <2> QED BY <2>1, <2>2, <2>3 DEF Lists
<1>4. Newest'
  BY DEF PushInv, Counters, Newest, Push!DrainPosts, Push!NoDrain, Placed, Push!push, Push!store
<1>5. Counted'
  BY DEF PushInv, Counters, Counted, Push!DrainPosts, Push!NoDrain, Placed, Push!push, Push!store
<1>6. Deleting'
  BY DEF PushInv, Counters, Deleting, Push!DrainPosts, EndSafe, Push!NoDrain, Placed, Push!push,
     Push!store
<1>7. Draining'
  BY DEF PushInv, Counters, Draining, Push!DrainPosts, Push!NoDrain, Push!push, Push!store
<1> QED BY <1>1, <1>2, <1>3, <1>4, <1>5, <1>6, <1>7 DEF PushInv

LEMMA FailedRefreshKeeps ==
    ASSUME PushInv, Push!FailedRefresh
    PROVE  PushInv'
<1>1. Counters' /\ Calls' /\ Lists' /\ Newest' /\ Posting' /\ Counted' /\
   Draining'
  BY DEF PushInv, Counters, Calls, Lists, Newest, Posting, Counted, Draining,
     Push!FailedRefresh, KeptOut, Push!NoEnd, Placed, Push!list, Push!push, Push!server, Push!store
<1>2. Runs'
  <2> DEFINE x == <<"fail", count>>
             r == [Push!NoEnd EXCEPT !.pc = "wait"]
  <2>1. en' = [en EXCEPT ![x] = r] /\ count' = count
    BY DEF Push!FailedRefresh, Push!store
  <2>2. Runs /\ EndShape(r)
    BY NewEndShape DEF PushInv
  <2>3. x[2] = count /\ ~(x[2] > count)
    BY DEF PushInv, Counters
  <2>4. CASE x \in Push!Ends
    <3> HIDE DEF r, x
    <3> QED BY <2>1, <2>2, <2>3, <2>4, OneEnd
  <2>5. CASE x \notin Push!Ends
    <3>1. DOMAIN en' = Push!Ends /\ \A y \in Push!Ends : en'[y] = en[y]
      BY <2>1, <2>5 DEF PushInv, Runs
    <3> QED BY <2>1, <3>1 DEF PushInv, Runs, EndShape
  <2> QED BY <2>4, <2>5
<1>3. Deleting'
  BY DEF PushInv, Counters, Deleting, Push!FailedRefresh, EndSafe, Push!NoEnd, Placed,
     Push!list, Push!push, Push!server, Push!store
<1> QED BY <1>1, <1>2, <1>3 DEF PushInv

LEMMA EndBeginsKeeps ==
    ASSUME NEW x \in Push!Ends, NEW yes \in BOOLEAN, PushInv, Push!EndBegins(x, yes)
    PROVE  PushInv'
<1>1. Counters' /\ Lists' /\ Newest' /\ Draining'
  BY DEF PushInv, Counters, Lists, Newest, Draining, Push!EndBegins, KeptOut, Push!NoEnd,
     Push!NoToken, Placed, Push!Since, Push!ToLogOut, Push!list, Push!server, Push!store
<1>2. Calls'
  <2>1. count' = count /\ before' = before
    BY DEF Push!EndBegins, Push!store
  <2>2. CASE Push!Since(x[2])
    <3>1. registered' = registered /\ pushPost' = pushPost
      BY <2>2 DEF Push!EndBegins
    <3> QED BY <2>1, <3>1 DEF PushInv, Calls
  <2>3. CASE ~Push!Since(x[2])
    <3>1. registered' = Push!NoToken /\ pushPost' = [pushPost EXCEPT !.mine = FALSE]
      BY <2>3 DEF Push!EndBegins
    <3>2. DOMAIN registered' = {"u", "sent"} /\ registered'.sent \in BOOLEAN
      BY <3>1 DEF Push!NoToken
    <3>3. DOMAIN pushPost' = {"st", "s", "u", "mine"}
      BY <3>1 DEF PushInv, Calls
    <3>4. pushPost'.mine \in BOOLEAN /\ pushPost'.s \in 0 .. count'
      BY <2>1, <3>1 DEF PushInv, Calls
    <3> QED BY <2>1, <3>2, <3>3, <3>4 DEF PushInv, Calls
  <2> QED BY <2>2, <2>3
<1>3. Runs'
  <2>1. Runs /\ count' = count
    BY DEF PushInv, Push!EndBegins, Push!store
  <2>2. \E r : EndShape(r) /\ en' = [en EXCEPT ![x] = r] /\ (x[2] > count => r.pc = "none")
    BY BeginShapes DEF PushInv
  <2> QED BY <2>1, <2>2, OneEnd
<1>4. Posting'
  BY DEF PushInv, Counters, Calls, Runs, Newest, Posting, Push!EndBegins, EndShape,
     Push!NoEnd, Push!NoToken, Placed, Push!Since, Push!ToLogOut, Push!list, Push!server, Push!store
<1>5. Counted'
  BY DEF PushInv, Counters, Counted, Push!EndBegins, Push!NoEnd, Push!NoToken, Placed, Push!Since,
     Push!ToLogOut, Push!list, Push!server, Push!store
<1>6. Deleting'
  <2>1. /\ count' = count /\ kc' = kc /\ mem' = mem /\ live' = live /\ writing' = writing
        /\ en[x].pc = "wait"
    BY DEF Push!EndBegins, Push!store, Push!server
  <2>2. CASE Push!Since(x[2])
    <3>1. /\ en' = [en EXCEPT ![x] = Push!NoEnd]
          /\ loggedOut' = loggedOut /\ registered' = registered /\ pushPost' = pushPost
      BY <2>2 DEF Push!EndBegins
    <3>2. ASSUME NEW y \in Push!Ends PROVE EndSafe(y)'
      <4>1. EndSafe(y) /\ DOMAIN en = Push!Ends
        BY DEF PushInv, Deleting, Runs
      <4>2. CASE y # x
        BY <2>1, <3>1, <4>1, <4>2 DEF EndSafe, Placed
      <4>3. CASE y = x
        BY <2>1, <3>1, <4>1, <4>3 DEF EndSafe, Placed, Push!NoEnd, PushInv, Counters
      <4> QED BY <4>2, <4>3
    <3> QED BY <3>2 DEF Deleting
  <2>3. CASE ~Push!Since(x[2])
    <3>1. /\ writing = 0 /\ loggedOut' = TRUE
          /\ ~registered'.sent /\ ~pushPost'.mine
      BY <2>3 DEF Push!EndBegins, Push!NoToken, PushInv, Calls
    <3>2. ASSUME NEW y \in Push!Ends PROVE EndSafe(y)'
      <4>1. EndSafe(y) /\ DOMAIN en = Push!Ends
        BY DEF PushInv, Deleting, Runs
      <4>2. CASE y # x
        <5>1. en'[y] = en[y]
          BY <2>3, <4>1, <4>2 DEF Push!EndBegins
        <5> QED BY <2>1, <3>1, <4>1, <5>1 DEF EndSafe, Placed
      <4>3. CASE y = x
        <5>1. x = <<x[1], x[2]>> /\ x[1] \in {"log", "fail"} /\ x[2] = count
          BY <2>3 DEF Push!Ends, Push!Since
        <5>2. en'[x].pc = "posts" => x[1] = "log"
          BY BeginShapes, <2>3
        <5> QED BY <2>1, <3>1, <4>1, <4>3, <5>1, <5>2 DEF EndSafe, Placed
      <4> QED BY <4>2, <4>3
    <3> QED BY <3>2 DEF Deleting
  <2> QED BY <2>2, <2>3
<1> QED BY <1>1, <1>2, <1>3, <1>4, <1>5, <1>6 DEF PushInv

LEMMA EndKeepsKeeps ==
    ASSUME NEW x \in Push!Ends, NEW yes \in BOOLEAN, Limit \in Nat, PushInv,
       Push!EndKeeps(x, yes)
    PROVE  PushInv'
<1>1. Counters' /\ Calls' /\ Newest' /\ Posting' /\ Counted' /\ Draining'
  BY DEF PushInv, Counters, Calls, Newest, Posting, Counted, Draining, Push!EndKeeps,
     Placed, Push!push, Push!server, Push!store
<1>2. Runs'
  BY DEF PushInv, Counters, Runs, Push!EndKeeps, EndShape, Push!push, Push!server, Push!store
<1>3. Lists'
  <2>1. /\ KeptOut' = KeptOut /\ drain' = drain
        /\ pending' = IF yes THEN Push!KeptList([s |-> en[x].s, del |-> en[x].unsent]) ELSE pending
    BY DEF Push!EndKeeps, Push!store, KeptOut
  <2>2. [s |-> en[x].s, del |-> en[x].unsent] \in KeptOut /\ pending \in Seq(KeptOut)
    BY DEF PushInv, Runs, EndShape, KeptOut, Lists
  <2>3. pending' \in Seq(KeptOut)
    BY <2>1, <2>2, KeptListType
  <2> QED BY <2>1, <2>3 DEF PushInv, Lists
<1>4. Deleting'
  BY DEF PushInv, Counters, Calls, Runs, Newest, Deleting, Push!EndKeeps, EndSafe,
     EndShape, Placed, Push!push, Push!server, Push!store
<1> QED BY <1>1, <1>2, <1>3, <1>4 DEF PushInv

LEMMA EndClearsKeeps ==
    ASSUME NEW x \in Push!Ends, NEW yes \in BOOLEAN, PushInv, Push!EndClears(x, yes)
    PROVE  PushInv'
<1>1. Calls'
  BY DEF PushInv, Counters, Calls, Push!EndClears, Push!NoEnd, Push!Since, Push!server
<1>2. Counters'
  BY DEF PushInv, Counters, Push!EndClears, Push!NoEnd, Push!Since, Push!server
<1>3. Runs'
  <2>1. en' = [en EXCEPT ![x] = Push!NoEnd] /\ count' = count
    BY DEF Push!EndClears
  <2>2. Runs /\ EndShape(Push!NoEnd) /\ Push!NoEnd.pc = "none"
    BY NewEndShape DEF PushInv
  <2> QED BY <2>1, <2>2, OneEnd
<1>4. Lists'
  <2>1. /\ KeptOut' = KeptOut /\ drain' = drain
        /\ pending' = pending \/ pending' = Push!Forget(en[x].s)
    BY DEF Push!EndClears, KeptOut
  <2>2. pending \in Seq(KeptOut)
    BY DEF PushInv, Lists
  <2>3. Push!Forget(en[x].s) \in Seq(KeptOut)
    BY <2>2, ForgetType
  <2> QED BY <2>1, <2>2, <2>3 DEF PushInv, Lists
<1>5. Newest'
  BY DEF PushInv, Counters, Newest, Push!EndClears, Push!NoEnd, Placed, Push!Since, Push!server
<1>6. Posting'
  BY DEF PushInv, Counters, Posting, Push!EndClears, Push!NoEnd, Push!Since, Push!server
<1>7. Counted'
  BY DEF PushInv, Counters, Counted, Push!EndClears, Push!NoEnd, Placed, Push!Since, Push!server
<1>8. Deleting'
  <2>1. /\ count' = count /\ writing' = writing /\ live' = live
        /\ registered' = registered /\ pushPost' = pushPost
        /\ en' = [en EXCEPT ![x] = Push!NoEnd] /\ en[x].pc = "clear"
    BY DEF Push!EndClears, Push!server
  <2>2. kc' \in {0, kc} /\ (Placed' => Placed /\ kc' = kc)
    BY <2>1 DEF Push!EndClears, Placed
  <2>3. ASSUME NEW y \in Push!Ends PROVE EndSafe(y)'
    <3>1. EndSafe(y) /\ EndSafe(x) /\ DOMAIN en = Push!Ends
      BY DEF PushInv, Deleting, Runs
    <3>2. CASE y = x
      <4>1. en'[y].pc = "none" /\ en'[y].bearer = 0
        BY <2>1, <3>1, <3>2 DEF Push!NoEnd
      <4> QED BY <2>1, <4>1 DEF EndSafe, PushInv, Counters
    <3>3. CASE y # x
      <4>1. en'[y] = en[y]
        BY <2>1, <3>1, <3>3
      <4>2. (loggedOut => loggedOut') \/ (~yes /\ x[2] = count)
        BY DEF Push!EndClears, Push!Since
      <4>3. x = <<x[1], x[2]>> /\ x[1] \in {"log", "fail"}
        BY DEF Push!Ends
      <4>4. x = <<"fail", count>> => ~Placed
        BY <2>1, <3>1 DEF EndSafe
      <4>5. CASE loggedOut => loggedOut'
        BY <2>1, <2>2, <3>1, <4>1, <4>5 DEF EndSafe
      <4>6. CASE x[2] = count
        BY <2>1, <2>2, <3>1, <3>3, <4>1, <4>3, <4>4, <4>6 DEF EndSafe
      <4> QED BY <4>2, <4>5, <4>6
    <3> QED BY <3>2, <3>3
  <2> QED BY <2>3 DEF Deleting
<1>9. Draining'
  BY DEF PushInv, Counters, Draining, Push!EndClears, Push!NoEnd, Push!Since, Push!server
<1> QED BY <1>1, <1>2, <1>3, <1>4, <1>5, <1>6, <1>7, <1>8, <1>9 DEF PushInv

LEMMA EndDeletesKeeps ==
    ASSUME NEW x \in Push!Ends, PushInv, Push!EndDeletes(x)
    PROVE  PushInv'
<1>1. Counters' /\ Calls' /\ Lists' /\ Newest' /\ Posting' /\ Counted' /\
   Draining'
  BY DEF PushInv, Counters, Calls, Lists, Newest, Posting, Counted, Draining,
     Push!EndDeletes, KeptOut, Push!NoEnd, Placed, Push!SameRun, Push!ToLogOut, Push!list, Push!push, Push!server,
     Push!store
<1>2. Runs'
  <2> DEFINE p == en[x]
             r == IF p.has /\ Push!SameRun(p) THEN [p EXCEPT !.pc = "delete", !.bearer = mem]
                  ELSE Push!ToLogOut(p.s, FALSE)
  <2>1. en' = [en EXCEPT ![x] = r] /\ count' = count /\ p.pc = "posts"
    BY DEF Push!EndDeletes, Push!store
  <2>2. Runs /\ EndShape(p) /\ ~(x[2] > count) /\ mem \in 0 .. count /\ Counters
    BY <2>1 DEF PushInv, Runs, Counters
  <2>3. EndShape([p EXCEPT !.pc = "delete", !.bearer = mem])
    <3> HIDE DEF p
    <3> QED BY <2>2 DEF EndShape
  <2>4. EndShape(Push!ToLogOut(p.s, FALSE))
    BY <2>2, ToLogOutShape DEF EndShape
  <2>5. EndShape(r)
    BY <2>3, <2>4
  <2> HIDE DEF r, p
  <2> QED BY <2>1, <2>2, <2>5, OneEnd
<1>3. Deleting'
  BY DEF PushInv, Counters, Calls, Runs, Newest, Deleting, Push!EndDeletes, EndSafe,
     EndShape, Push!NoEnd, Placed, Push!SameRun, Push!ToLogOut, Push!list, Push!push, Push!server, Push!store
<1> QED BY <1>1, <1>2, <1>3 DEF PushInv

LEMMA EndPostsKeeps ==
    ASSUME NEW x \in Push!Ends, NEW reached \in BOOLEAN, NEW answered \in BOOLEAN,
       PushInv, Push!EndPosts(x, reached, answered)
    PROVE  PushInv'
<1>1. Calls' /\ Lists' /\ Posting' /\ Draining'
  BY DEF PushInv, Counters, Calls, Lists, Posting, Draining, Push!EndPosts, KeptOut,
     Push!push, Push!store
<1>2. Counters'
  BY DEF PushInv, Counters, Push!EndPosts, Push!push, Push!store
<1>3. Runs'
  BY DEF PushInv, Counters, Runs, Push!EndPosts, EndShape, Push!push, Push!store
<1>4. Newest'
  BY DEF PushInv, Counters, Newest, Push!EndPosts, Placed, Push!push, Push!store
<1>5. Counted'
  BY DEF PushInv, Counters, Counted, Push!EndPosts, Placed, Push!push, Push!store
<1>6. Deleting'
  BY DEF PushInv, Counters, Calls, Runs, Newest, Deleting, Push!EndPosts, EndSafe,
     EndShape, Placed, Push!push, Push!store
<1> QED BY <1>1, <1>2, <1>3, <1>4, <1>5, <1>6 DEF PushInv

LEMMA SignInPlacedKeeps ==
    ASSUME PushInv, Push!SignInPlaced
    PROVE  PushInv'
<1>1. Runs'
  BY DEF PushInv, Counters, Runs, Push!SignInPlaced, Push!Drains, EndShape, Push!NoDrain,
     Push!NoSignIn, Push!NoToken, Push!Registers, Push!Released, Push!list, Push!server
<1>2. Counters'
  BY DEF PushInv, Counters, Push!SignInPlaced, Push!Drains, Push!NoDrain, Push!NoSignIn, Push!NoToken,
     Push!Registers, Push!Released, Push!list, Push!server
<1>3. Calls'
  <2>1. /\ registered' = registered /\ before' = Push!NoSignIn /\ count' = count
        /\ pushPost' = Push!Released(count)
    BY DEF Push!SignInPlaced
  <2>2. DOMAIN pushPost' = {"st", "s", "u", "mine"} /\ pushPost'.mine \in BOOLEAN /\ pushPost'.s \in 0 .. count'
    BY <2>1 DEF PushInv, Counters, Calls, Push!Released
  <2>3. DOMAIN before'.registered = {"u", "sent"} /\ before'.registered.sent \in BOOLEAN
    BY <2>1 DEF Push!NoSignIn, Push!NoToken
  <2> QED BY <2>1, <2>2, <2>3 DEF PushInv, Calls
<1>4. Lists'
  BY DEF PushInv, Counters, Lists, Push!SignInPlaced, Push!Drains, KeptOut, Push!NoDrain,
     Push!NoSignIn, Push!NoToken, Push!Registers, Push!Released, Push!list, Push!server
<1>5. Newest'
  BY DEF PushInv, Counters, Newest, Push!SignInPlaced, Push!Drains, Push!NoDrain, Push!NoSignIn,
     Push!NoToken, Placed, Push!Registers, Push!Released, Push!list, Push!server
<1>6. Posting'
  BY DEF PushInv, Counters, Posting, Push!SignInPlaced, Push!Drains, Push!NoDrain, Push!NoSignIn,
     Push!NoToken, Push!Registers, Push!Released, Push!list, Push!server
<1>7. Counted'
  BY DEF PushInv, Counters, Calls, Runs, Lists, Newest, Posting, Counted,
     Deleting, Draining, Push!SignInPlaced, Push!Drains, EndSafe, EndShape, KeptOut,
     Push!NoDrain, Push!NoSignIn, Push!NoToken, Placed, Push!Registers, Push!Released, Push!list, Push!server
<1>8. Deleting'
  <2>1. /\ count' = count /\ kc' = count /\ writing' = 0 /\ en' = en /\ writing = count
        /\ writing # 0 /\ loggedOut' = loggedOut /\ registered' = registered /\ live' = live
    BY DEF Push!SignInPlaced, Push!server, PushInv, Counters
  <2>2. ~registered.sent
    BY <2>1 DEF PushInv, Posting
  <2>3. ASSUME NEW y \in Push!Ends PROVE EndSafe(y)'
    BY <2>1, <2>2 DEF EndSafe, Placed, PushInv, Deleting
  <2> QED BY <2>3 DEF Deleting
<1>9. Draining'
  BY DEF PushInv, Counters, Draining, Push!SignInPlaced, Push!Drains, Push!NoDrain, Push!NoSignIn,
     Push!NoToken, Push!Registers, Push!Released, Push!list, Push!server
<1> QED BY <1>1, <1>2, <1>3, <1>4, <1>5, <1>6, <1>7, <1>8, <1>9 DEF PushInv

LEMMA SignInFailsKeeps ==
    ASSUME PushInv, Push!SignInFails
    PROVE  PushInv'
<1>1. Lists'
  BY DEF PushInv, Counters, Lists, Push!SignInFails, KeptOut, Push!NewRun, Push!NoRun, Push!NoSignIn,
     Push!NoToken, Push!Released, Push!list, Push!server
<1>2. Counters'
  BY DEF PushInv, Counters, Push!SignInFails, Push!NewRun, Push!NoRun, Push!NoSignIn, Push!NoToken,
     Push!Released, Push!list, Push!server
<1>3. Calls'
  <2>1. /\ registered' = before.registered /\ before' = Push!NoSignIn /\ count' = count
        /\ pushPost' = [Push!Released(mem) EXCEPT !.mine = FALSE]
    BY DEF Push!SignInFails
  <2>2. mem \in 0 .. count
    BY DEF PushInv, Counters
  <2>3. DOMAIN Push!Released(mem) = {"st", "s", "u", "mine"} /\ Push!Released(mem).s \in 0 .. count
    BY <2>2 DEF PushInv, Calls, Push!Released
  <2>4. DOMAIN pushPost' = {"st", "s", "u", "mine"} /\ pushPost'.mine \in BOOLEAN /\ pushPost'.s \in 0 .. count'
    <3> HIDE DEF Push!Released
    <3> QED BY <2>1, <2>3
  <2>5. DOMAIN registered' = {"u", "sent"} /\ registered'.sent \in BOOLEAN
    BY <2>1 DEF PushInv, Calls
  <2>6. DOMAIN before'.registered = {"u", "sent"} /\ before'.registered.sent \in BOOLEAN
    BY <2>1 DEF Push!NoSignIn, Push!NoToken
  <2> QED BY <2>4, <2>5, <2>6 DEF Calls
<1>4. Runs'
  BY DEF PushInv, Counters, Runs, Push!SignInFails, EndShape, Push!NewRun, Push!NoRun, Push!NoSignIn,
     Push!NoToken, Push!Released, Push!list, Push!server
<1>5. Newest'
  BY DEF PushInv, Counters, Newest, Push!SignInFails, Push!NewRun, Push!NoRun, Push!NoSignIn,
     Push!NoToken, Placed, Push!Released, Push!list, Push!server
<1>6. Posting'
  BY DEF PushInv, Counters, Posting, Push!SignInFails, Push!NewRun, Push!NoRun, Push!NoSignIn,
     Push!NoToken, Push!Released, Push!list, Push!server
<1>7. Counted'
  BY DEF PushInv, Counters, Calls, Runs, Newest, Counted, Push!SignInFails, EndShape,
     Push!NewRun, Push!NoRun, Push!NoSignIn, Push!NoToken, Placed, Push!Released, Push!list, Push!server
<1>8. Deleting'
  BY DEF PushInv, Counters, Calls, Runs, Newest, Deleting, Push!SignInFails, EndSafe,
     EndShape, Push!NewRun, Push!NoRun, Push!NoSignIn, Push!NoToken, Placed, Push!Released, Push!list,
     Push!server
<1>9. Draining'
  BY DEF PushInv, Counters, Draining, Push!SignInFails, Push!NewRun, Push!NoRun, Push!NoSignIn,
     Push!NoToken, Push!Released, Push!list, Push!server
<1> QED BY <1>1, <1>2, <1>3, <1>4, <1>5, <1>6, <1>7, <1>8, <1>9 DEF PushInv

LEMMA RestoredKeeps ==
    ASSUME PushInv, Push!Restored
    PROVE  PushInv'
<1>1. Calls' /\ Runs' /\ Newest' /\ Posting' /\ Counted' /\ Deleting'
  BY DEF PushInv, Counters, Calls, Runs, Newest, Posting, Counted, Deleting,
     Push!Restored, Push!Drains, EndSafe, EndShape, Push!NoDrain, Placed, Push!Registers, Push!list,
     Push!server
<1>2. Counters'
  BY DEF PushInv, Counters, Push!Restored, Push!Drains, Push!NoDrain, Push!Registers, Push!list, Push!server
<1>3. Lists'
  BY DEF PushInv, Counters, Lists, Push!Restored, Push!Drains, KeptOut, Push!NoDrain, Push!Registers,
     Push!list, Push!server
<1>4. Draining'
  BY DEF PushInv, Counters, Draining, Push!Restored, Push!Drains, Push!NoDrain, Push!Registers, Push!list,
     Push!server
<1> QED BY <1>1, <1>2, <1>3, <1>4 DEF PushInv

LEMMA WorkedKeeps ==
    ASSUME PushInv, Push!Worked
    PROVE  PushInv'
<1>1. Counters' /\ Calls' /\ Runs' /\ Newest' /\ Posting' /\ Counted' /\
   Deleting'
  BY DEF PushInv, Counters, Calls, Runs, Newest, Posting, Counted, Deleting,
     Push!Worked, Push!Drains, EndSafe, EndShape, Push!NoDrain, Placed, Push!list, Push!push, Push!server,
     Push!store
<1>2. Lists'
  BY DEF PushInv, Counters, Lists, Push!Worked, Push!Drains, KeptOut, Push!NoDrain, Push!list, Push!push,
     Push!server, Push!store
<1>3. Draining'
  BY DEF PushInv, Counters, Draining, Push!Worked, Push!Drains, Push!NoDrain, Push!list, Push!push,
     Push!server, Push!store
<1> QED BY <1>1, <1>2, <1>3 DEF PushInv

LEMMA LogOutKeeps ==
    ASSUME PushInv, Push!LogOut
    PROVE  PushInv'
<1>1. Counters' /\ Calls' /\ Lists' /\ Newest' /\ Posting' /\ Counted' /\
   Draining'
  BY DEF PushInv, Counters, Calls, Lists, Newest, Posting, Counted, Draining,
     Push!LogOut, KeptOut, Push!NoEnd, Placed, Push!list, Push!push, Push!server, Push!store
<1>2. Runs'
  <2> DEFINE x == <<"log", count>>
             r == [Push!NoEnd EXCEPT !.pc = "wait"]
  <2>1. en' = [en EXCEPT ![x] = r] /\ count' = count
    BY DEF Push!LogOut, Push!store
  <2>2. Runs /\ EndShape(r)
    BY NewEndShape DEF PushInv
  <2>3. x[2] = count /\ ~(x[2] > count)
    BY DEF PushInv, Counters
  <2>4. CASE x \in Push!Ends
    <3> HIDE DEF r, x
    <3> QED BY <2>1, <2>2, <2>3, <2>4, OneEnd
  <2>5. CASE x \notin Push!Ends
    <3>1. DOMAIN en' = Push!Ends /\ \A y \in Push!Ends : en'[y] = en[y]
      BY <2>1, <2>5 DEF PushInv, Runs
    <3> QED BY <2>1, <3>1 DEF PushInv, Runs, EndShape
  <2> QED BY <2>4, <2>5
<1>3. Deleting'
  BY DEF PushInv, Counters, Deleting, Push!LogOut, EndSafe, Push!NoEnd, Placed, Push!list, Push!push,
     Push!server, Push!store
<1> QED BY <1>1, <1>2, <1>3 DEF PushInv

LEMMA ToFrontKeeps ==
    ASSUME PushInv, Push!ToFront
    PROVE  PushInv'
<1>1. Counters' /\ Calls' /\ Runs' /\ Newest' /\ Posting' /\ Counted' /\
   Deleting'
  BY DEF PushInv, Counters, Calls, Runs, Newest, Posting, Counted, Deleting,
     Push!ToFront, Push!Drains, EndSafe, EndShape, Push!NoDrain, Placed, Push!Registers, Push!list,
     Push!server, Push!store
<1>2. Lists'
  BY DEF PushInv, Counters, Lists, Push!ToFront, Push!Drains, KeptOut, Push!NoDrain, Push!Registers,
     Push!list, Push!server, Push!store
<1>3. Draining'
  BY DEF PushInv, Counters, Draining, Push!ToFront, Push!Drains, Push!NoDrain, Push!Registers, Push!list,
     Push!server, Push!store
<1> QED BY <1>1, <1>2, <1>3 DEF PushInv

LEMMA CloseKeeps ==
    ASSUME PushInv, Push!Close
    PROVE  PushInv'
<1>1. Counters'
  BY DEF PushInv, Counters, Calls, Runs, Newest, Push!Close, Push!Deleted, EndShape,
     Push!NoDrain, Push!NoEnd, Push!NoPost, Push!NoRun, Push!NoSignIn, Push!NoToken, Placed, Push!Posted,
     Push!RowAfterDelete, Push!RowAfterPost, Push!list
<1>2. Calls'
  <2>1. registered' = Push!NoToken /\ before' = Push!NoSignIn /\ pushPost' = Push!NoPost /\ count' = count
    BY DEF Push!Close
  <2>2. DOMAIN registered' = {"u", "sent"} /\ registered'.sent \in BOOLEAN
    BY <2>1 DEF Push!NoToken
  <2>3. DOMAIN pushPost' = {"st", "s", "u", "mine"} /\ pushPost'.mine \in BOOLEAN
    BY <2>1 DEF Push!NoPost
  <2>4. pushPost'.s \in 0 .. count'
    BY <2>1 DEF PushInv, Counters, Push!NoPost
  <2>5. DOMAIN before'.registered = {"u", "sent"} /\ before'.registered.sent \in BOOLEAN
    BY <2>1 DEF Push!NoSignIn, Push!NoToken
  <2> QED BY <2>2, <2>3, <2>4, <2>5 DEF Calls
<1>3. Runs'
  <2>1. en' = [x \in Push!Ends |-> Push!NoEnd] /\ count' = count
    BY DEF Push!Close
  <2>2. EndShape(Push!NoEnd)' /\ Push!NoEnd.pc = "none"
    BY <2>1, NewEndShape DEF PushInv, EndShape
  <2> QED BY <2>1, <2>2 DEF Runs, EndShape
<1>4. Lists'
  BY DEF PushInv, Counters, Lists, Push!Close, Push!Deleted, KeptOut, Push!NoDrain, Push!NoEnd, Push!NoPost,
     Push!NoRun, Push!NoSignIn, Push!NoToken, Push!Posted, Push!RowAfterDelete, Push!RowAfterPost, Push!list
<1>5. Newest'
  BY DEF PushInv, Counters, Newest, Push!Close, Push!Deleted, Push!NoDrain, Push!NoEnd, Push!NoPost,
     Push!NoRun, Push!NoSignIn, Push!NoToken, Placed, Push!Posted, Push!RowAfterDelete, Push!RowAfterPost,
     Push!list
<1>6. Posting'
  BY DEF PushInv, Counters, Posting, Push!Close, Push!Deleted, Push!NoDrain, Push!NoEnd, Push!NoPost,
     Push!NoRun, Push!NoSignIn, Push!NoToken, Push!Posted, Push!RowAfterDelete, Push!RowAfterPost, Push!list
<1>7. Counted'
  BY DEF PushInv, Counters, Counted, Push!Close, Push!Deleted, Push!NoDrain, Push!NoEnd, Push!NoPost,
     Push!NoRun, Push!NoSignIn, Push!NoToken, Placed, Push!Posted, Push!RowAfterDelete, Push!RowAfterPost,
     Push!list
<1>8. Deleting'
  BY DEF PushInv, Counters, Deleting, Push!Close, Push!Deleted, EndSafe, Push!NoDrain, Push!NoEnd,
     Push!NoPost, Push!NoRun, Push!NoSignIn, Push!NoToken, Placed, Push!Posted, Push!RowAfterDelete,
     Push!RowAfterPost, Push!list
<1>9. Draining'
  BY DEF PushInv, Counters, Draining, Push!Close, Push!Deleted, Push!NoDrain, Push!NoEnd, Push!NoPost,
     Push!NoRun, Push!NoSignIn, Push!NoToken, Push!Posted, Push!RowAfterDelete, Push!RowAfterPost, Push!list
<1> QED BY <1>1, <1>2, <1>3, <1>4, <1>5, <1>6, <1>7, <1>8, <1>9 DEF PushInv

LEMMA EndedElsewhereKeeps ==
    ASSUME PushInv, Push!EndedElsewhere
    PROVE  PushInv'
<1>1. Calls' /\ Runs' /\ Lists' /\ Posting' /\ Draining'
  BY DEF PushInv, Counters, Calls, Runs, Lists, Posting, Draining,
     Push!EndedElsewhere, EndShape, KeptOut, Push!list, Push!push, Push!store
<1>2. Counters'
  BY DEF PushInv, Counters, Push!EndedElsewhere, Push!list, Push!push, Push!store
<1>3. Newest'
  BY DEF PushInv, Counters, Newest, Push!EndedElsewhere, Placed, Push!list, Push!push, Push!store
<1>4. Counted'
  BY DEF PushInv, Counters, Counted, Push!EndedElsewhere, Placed, Push!list, Push!push, Push!store
<1>5. Deleting'
  BY DEF PushInv, Counters, Deleting, Push!EndedElsewhere, EndSafe, Placed, Push!list,
     Push!push, Push!store
<1> QED BY <1>1, <1>2, <1>3, <1>4, <1>5 DEF PushInv

LEMMA SignInKeeps ==
    ASSUME NEW u \in People, PushInv, Push!SignIn(u)
    PROVE  PushInv'
<1>1. Counters'
  BY DEF PushInv, Counters, Push!SignIn, Push!NewRun, Push!NoRun, Push!NoToken, Push!list
<1>2. Calls'
  BY DEF PushInv, Counters, Calls, Push!SignIn, Push!NewRun, Push!NoRun, Push!NoToken, Push!list
<1>3. Runs'
  <2>1. en' = Push!NewRun /\ count' = count + 1 /\ count \in Nat
    BY DEF Push!SignIn, PushInv, Counters
  <2>2. ASSUME NEW x \in Push!Ends PROVE EndShape(en[x])' /\ (x[2] > count' => en'[x].pc = "none")
    <3>1. en'[x] = [en[x] EXCEPT !.same = FALSE] /\ EndShape(en[x]) /\ x[2] \in Push!Counts
      BY <2>1 DEF Push!NewRun, PushInv, Runs, Push!Ends
    <3>2. en'[x].pc = en[x].pc
      BY <3>1 DEF EndShape
    <3>3. x[2] > count' => x[2] > count
      BY <2>1, <3>1 DEF Push!Counts
    <3>4. EndShape(en[x])'
      BY <2>1, <3>1 DEF EndShape
    <3> QED BY <3>2, <3>3, <3>4 DEF PushInv, Runs
  <2> QED BY <2>1, <2>2 DEF Runs, Push!NewRun
<1>4. Lists'
  <2>1. /\ count \in Nat /\ count' \in Nat /\ count =< count'
        /\ pending' = pending /\ drain' = drain
    BY DEF Push!SignIn, PushInv, Counters, Push!list
  <2>2. pending \in Seq(KeptOut') /\ drain.todo \in Seq(KeptOut')
    BY <2>1, LongerEntries DEF PushInv, Lists
  <2> QED BY <2>1, <2>2 DEF PushInv, Lists
<1>5. Newest'
  BY DEF PushInv, Counters, Newest, Push!SignIn, Push!NewRun, Push!NoRun, Push!NoToken, Placed, Push!list
<1>6. Posting'
  BY DEF PushInv, Counters, Posting, Push!SignIn, Push!NewRun, Push!NoRun, Push!NoToken, Push!list
<1>7. Counted'
  BY DEF PushInv, Counters, Counted, Push!SignIn, Push!NewRun, Push!NoRun, Push!NoToken, Placed, Push!list
<1>8. Deleting'
  BY DEF PushInv, Counters, Calls, Runs, Newest, Deleting, Push!SignIn, EndSafe,
     EndShape, Push!NewRun, Push!NoRun, Push!NoToken, Placed, Push!list
<1>9. Draining'
  <2>1. /\ count \in Nat /\ count' = count + 1 /\ writing' = count'
        /\ kc' = kc /\ drain' = drain
    BY DEF Push!SignIn, PushInv, Counters
  <2>2. drain.pc = "delete" => Head(drain.todo).s \in 0 .. count
    <3>1. drain.pc = "delete" => Head(drain.todo) \in KeptOut
      BY DEF PushInv, Lists
    <3> QED BY <3>1 DEF KeptOut
  <2> QED BY <2>1, <2>2 DEF PushInv, Draining
<1> QED BY <1>1, <1>2, <1>3, <1>4, <1>5, <1>6, <1>7, <1>8, <1>9 DEF PushInv

-----------------------------------------------------------------------------

\* Every step of the phone and the server keeps the invariant.
LEMMA NextKeepsPushInv == ASSUME Limit \in Nat, PushInv, [Push!Next]_(Push!vars) PROVE PushInv'
<1>1. CASE Push!System
  BY <1>1, PostAnsweredKeeps, DrainDeletedKeeps, EndDeletedKeeps, RegisterEndsKeeps,
     RegisterPostsKeeps, DrainReadsKeeps, DrainNextKeeps, DrainEndsKeeps, DrainPostsKeeps,
     FailedRefreshKeeps, EndBeginsKeeps, EndKeepsKeeps, EndClearsKeeps, EndDeletesKeeps,
     EndPostsKeeps, SignInPlacedKeeps, SignInFailsKeeps, RestoredKeeps
  DEF Push!System
<1>2. CASE Push!Worked \/ Push!LogOut \/ Push!ToFront \/ Push!Close \/ Push!EndedElsewhere
  BY <1>2, WorkedKeeps, LogOutKeeps, ToFrontKeeps, CloseKeeps, EndedElsewhereKeeps
<1>3. CASE \E u \in People : Push!SignIn(u)
  BY <1>3, SignInKeeps
<1>4. CASE UNCHANGED Push!vars
  BY <1>4 DEF PushInv, Counters, Calls, Runs, EndShape, Lists, KeptOut, Newest, Placed, Posting,
     Counted, Deleting, EndSafe, Draining, Push!vars, Push!server, Push!store, Push!push, Push!list
<1> QED BY <1>1, <1>2, <1>3, <1>4 DEF Push!Next

LEMMA PushInitIsGood == ASSUME Push!Init PROVE PushInv
<1>1. Counters /\ Lists /\ Newest /\ Posting /\ Counted /\ Draining
  BY DEF Push!Init, Counters, Lists, Push!NoDrain, Newest, Placed, Posting, Push!NoPost, Push!NoToken, Counted,
     Draining
<1>2. DOMAIN registered = {"u", "sent"} /\ registered.sent = FALSE
  BY DEF Push!Init, Push!NoToken
<1>3. DOMAIN pushPost = {"st", "s", "u", "mine"} /\ pushPost.mine = FALSE /\ pushPost.s = 0
  BY DEF Push!Init, Push!NoPost
<1>4. DOMAIN before.registered = {"u", "sent"} /\ before.registered.sent = FALSE
  BY DEF Push!Init, Push!NoSignIn, Push!NoToken
<1>5. Calls
  <2>1. pushPost.s \in 0 .. count
    BY <1>1, <1>3 DEF Counters
  <2> QED BY <1>2, <1>3, <1>4, <2>1 DEF Calls
<1>6. Runs
  BY <1>1, NewEndShape DEF Push!Init, Runs
<1>7. Deleting
  BY <1>1, <1>2 DEF Push!Init, Deleting, EndSafe, Push!NoEnd
<1> QED BY <1>1, <1>5, <1>6, <1>7 DEF PushInv

LEMMA PushInvIsEnough == PushInv => Push!LiveSessionKeepsPush
BY DEF PushInv, Counters, Counted, Placed, Push!LiveSessionKeepsPush

\* A token counted as sent is the server's for the session signed in now
\* (LiveSessionKeepsPush), for any number of sign ins, of calls lost and of log
\* outs kept for later: the phone skips a POST for 12 hours only when the
\* server's row is that of the session in place.
THEOREM LiveSessionsKeepTheirPush ==
    ASSUME Limit \in Nat
    PROVE  Push!Spec => []Push!LiveSessionKeepsPush
<1> QED BY PushInvIsEnough, PushInitIsGood, NextKeepsPushInv, PTL DEF Push!Spec

===============================================================================
