----------------------------- MODULE PhoneDiary -----------------------------
(***************************************************************************)
(* A person's own posts on one phone: the pages useDiary.ts loads, the     *)
(* Profile tab and the list of posts that show them, and the three dots of *)
(* a post (useEntryMenu.ts), which change the list on the server and have  *)
(* it read again.  A post is its number, the newest highest; a skipped day *)
(* is a row that is not drawn, and is left out.                            *)
(***************************************************************************)
EXTENDS Integers, Sequences, FiniteSets, SequencesExt

CONSTANTS
    Posts,          \* the posts 1 .. Posts
    PageSize,       \* PAGE_SIZE
    MaxPage,        \* MAX_PAGE
    MaxVisits,      \* bound: what the person does
    MaxMissed,      \* bound: answers that are lost
    MaxElsewhere    \* bound: posts another phone takes away or puts back

NoRows == [has |-> FALSE, v |-> 0, rows |-> <<>>, cursor |-> 0]
NoReply == [v |-> 0, rows |-> <<>>, cursor |-> 0]
NoDeed == [st |-> "none", on |-> 0, what |-> "none"]

VARIABLES
    published, printing, touchedPosts,  \* the server: posts not archived, changes so far; posts that changed
    diary, diaryStatus, pageSpin, pageFailed,
    diarySeq, pageBusy, firstBusy,      \* seqRef, moreBusyRef, firstBusyRef
    diaryCalls,                         \* requests that have no answer yet
    menu,                               \* useEntryMenu: target, or the action that runs
    asked,                              \* history: changes made when the newest first page was asked for
    visits, missed, elsewhere

posts == <<published, printing, touchedPosts>>
flags == <<diaryStatus, pageSpin, pageFailed>>
vars == <<posts, diary, flags, diarySeq, pageBusy, firstBusy, diaryCalls, menu, asked, visits, missed, elsewhere>>

ListReady == diaryStatus = "ready"

(* ---- the server ----------------------------------------------------------- *)

\* GET /diary: the newest posts older than the cursor, at most `limit` of them.
Newest(S, n) == LET q == SetToSortSeq(S, LAMBDA a, b : a > b) IN SubSeq(q, 1, IF Len(q) < n THEN Len(q) ELSE n)
PageAfter(c) ==
    LET older == {e \in published : e < c.before}
        page  == Newest(older, c.limit)
    IN  [v |-> printing, rows |-> page, cursor |-> IF Cardinality(older) > c.limit THEN Last(page) ELSE 0]
DiaryServed(c) ==
    /\ c.st = "sent"
    /\ diaryCalls' = (diaryCalls \ {c}) \cup {[c EXCEPT !.st = "served", !.ans = PageAfter(c)]}
    /\ UNCHANGED <<posts, diary, flags, diarySeq, pageBusy, firstBusy, menu, asked, visits, missed, elsewhere>>
Changes(d) ==
    /\ published' = IF d \in published THEN published \ {d} ELSE published \cup {d}
    /\ printing' = printing + 1 /\ touchedPosts' = touchedPosts \cup {d}
ElsewhereChanged(d) ==
    /\ elsewhere > 0 /\ elsewhere' = elsewhere - 1 /\ Changes(d)
    /\ UNCHANGED <<diary, flags, diarySeq, pageBusy, firstBusy, diaryCalls, menu, asked, visits, missed>>

(* ---- useDiary -------------------------------------------------------------- *)

DiaryCall(k, seq, before, limit) ==
    [k |-> k, seq |-> seq, before |-> before, limit |-> limit, st |-> "sent", ans |-> NoReply]
StillNewestAlways(c) == TRUE            \* (mutant: an answer is never too late)
StillNewest(c) == c.seq = diarySeq
FirstOnItsWayNever == FALSE             \* (mutant: a page is asked for under a reload)
FirstOnItsWay == firstBusy

\* No screen of the app pulls this list.
LoadRows(mode) ==
    LET shown == Len(diary.rows)
        keepPlace == mode = "quiet" /\ diary.has
        limit == IF ~keepPlace \/ shown < PageSize THEN PageSize ELSE IF shown > MaxPage THEN MaxPage ELSE shown
    IN  /\ diarySeq' = diarySeq + 1
        /\ firstBusy' = TRUE /\ pageBusy' = FALSE /\ pageSpin' = FALSE
        /\ diaryStatus' = IF mode = "retry" THEN "loading" ELSE diaryStatus
        /\ diaryCalls' = diaryCalls \cup {DiaryCall("first", diarySeq + 1, Posts + 1, limit)}
        /\ asked' = printing'
        /\ UNCHANGED <<pageFailed, diary>>

FirstEnds(c) ==
    /\ diaryCalls' = diaryCalls \ {c}
    /\ firstBusy' = (firstBusy /\ c.seq # diarySeq)
    /\ UNCHANGED <<posts, diarySeq, pageBusy, pageSpin, menu, asked, visits, elsewhere>>
FirstRowsAnswered(c) ==
    /\ c.k = "first" /\ c.st = "served" /\ FirstEnds(c)
    /\ IF StillNewest(c)
       THEN /\ diary' = [has |-> TRUE, v |-> c.ans.v, rows |-> c.ans.rows, cursor |-> c.ans.cursor]
            /\ pageFailed' = FALSE /\ diaryStatus' = "ready"
       ELSE UNCHANGED <<diary, pageFailed, diaryStatus>>
    /\ UNCHANGED missed
FirstRowsLost(c) ==
    /\ c.k = "first" /\ missed > 0 /\ missed' = missed - 1 /\ FirstEnds(c)
    /\ diaryStatus' = IF StillNewest(c) /\ ~diary.has THEN "offline" ELSE diaryStatus
    /\ UNCHANGED <<diary, pageFailed>>

\* fetchMore: not while a first page is on its way; after a failure only "Try again" asks.
FetchMore(auto) ==
    /\ ~pageBusy /\ ~FirstOnItsWay /\ diary.has /\ diary.cursor # 0
    /\ auto => ~pageFailed
    /\ pageBusy' = TRUE /\ pageSpin' = TRUE /\ pageFailed' = FALSE
    /\ diaryCalls' = diaryCalls \cup {DiaryCall("more", diarySeq, diary.cursor, PageSize)}
    /\ UNCHANGED <<posts, diary, diaryStatus, diarySeq, firstBusy, menu, asked, missed, elsewhere>>
PageEnds(c) ==
    /\ diaryCalls' = diaryCalls \ {c}
    /\ IF c.seq = diarySeq THEN pageBusy' = FALSE /\ pageSpin' = FALSE ELSE UNCHANGED <<pageBusy, pageSpin>>
    /\ UNCHANGED <<posts, diaryStatus, diarySeq, firstBusy, menu, asked, visits, elsewhere>>
PageAnswered(c) ==
    /\ c.k = "more" /\ c.st = "served" /\ PageEnds(c)
    /\ diary' = IF ~StillNewest(c) THEN diary
                ELSE [diary EXCEPT !.rows = @ \o SelectSeq(c.ans.rows, LAMBDA e : e \notin ToSet(@)), !.cursor = c.ans.cursor]
    /\ UNCHANGED <<pageFailed, missed>>
PageLost(c) ==
    /\ c.k = "more" /\ missed > 0 /\ missed' = missed - 1 /\ PageEnds(c)
    /\ pageFailed' = (pageFailed \/ StillNewest(c))
    /\ UNCHANGED diary

(* ---- useEntryMenu ----------------------------------------------------------- *)

OpenMenu(d) ==
    /\ menu.st \in {"none", "open"} /\ d \in ToSet(diary.rows) /\ ListReady
    /\ menu' = [st |-> "open", on |-> d, what |-> "none"]
    /\ UNCHANGED <<posts, diary, flags, diarySeq, pageBusy, firstBusy, diaryCalls, asked, missed, elsewhere>>
\* Archive and Delete (after its alert) take the post off the list; the commenting switch does not.
RunMenu(what) ==
    /\ menu.st = "open" /\ menu' = [menu EXCEPT !.st = "run", !.what = what]
    /\ UNCHANGED <<posts, diary, flags, diarySeq, pageBusy, firstBusy, diaryCalls, asked, missed, elsewhere>>
DeedDone ==
    /\ menu.st = "run" /\ menu' = [menu EXCEPT !.st = "done"]
    /\ IF menu.what = "off" /\ menu.on \in published THEN Changes(menu.on) ELSE UNCHANGED posts
    /\ UNCHANGED <<diary, flags, diarySeq, pageBusy, firstBusy, diaryCalls, asked, visits, missed, elsewhere>>
\* Done, or not there any more: onChanged reads the list again.
DeedAnswered ==
    /\ menu.st = "done" /\ menu' = NoDeed
    /\ UNCHANGED posts /\ LoadRows("quiet") /\ UNCHANGED <<visits, missed, elsewhere>>
DeedFails ==
    /\ menu.st \in {"run", "done"} /\ missed > 0 /\ missed' = missed - 1 /\ menu' = NoDeed
    /\ UNCHANGED <<posts, diary, flags, diarySeq, pageBusy, firstBusy, diaryCalls, asked, visits, elsewhere>>

(* ---- what the person does --------------------------------------------------- *)

Visit == visits > 0 /\ visits' = visits - 1
Asks(mode) == UNCHANGED posts /\ LoadRows(mode) /\ UNCHANGED <<menu, missed, elsewhere>>
DiaryFocus == Visit /\ Asks("quiet")
DiaryRetry == Visit /\ diaryStatus = "offline" /\ Asks("retry")
DiaryEnd   == Visit /\ ListReady /\ \E auto \in BOOLEAN : FetchMore(auto)

Init ==
    /\ published = 1 .. Posts /\ printing = 0 /\ touchedPosts = {}
    /\ diary = NoRows /\ diaryStatus = "loading"
    /\ pageSpin = FALSE /\ pageFailed = FALSE
    /\ diarySeq = 1 /\ pageBusy = FALSE /\ firstBusy = TRUE
    /\ diaryCalls = {DiaryCall("first", 1, Posts + 1, PageSize)}
    /\ menu = NoDeed /\ asked = 0
    /\ visits = MaxVisits /\ missed = MaxMissed /\ elsewhere = MaxElsewhere

Answers == DeedDone \/ DeedAnswered \/ \E c \in diaryCalls : DiaryServed(c) \/ FirstRowsAnswered(c) \/ PageAnswered(c)
Next ==
    \/ Answers \/ DeedFails \/ DiaryFocus \/ DiaryRetry \/ DiaryEnd
    \/ \E c \in diaryCalls : FirstRowsLost(c) \/ PageLost(c)
    \/ \E d \in 1 .. Posts : ElsewhereChanged(d) \/ (Visit /\ OpenMenu(d))
    \/ \E what \in {"off", "comments"} : Visit /\ RunMenu(what)
LiveSpec == Init /\ [][Next]_vars /\ WF_vars(Answers)

(* ---- properties ------------------------------------------------------------- *)

\* Whatever was read again under the scrolling, the list has no gap and no row twice: between two rows
\* (and above the first) no post lies that was there all the time.
RowsFollow ==
    LET r == diary.rows
        steady == (1 .. Posts) \ touchedPosts
    IN  /\ \A i \in 1 .. Len(r) - 1 : r[i] > r[i + 1] /\ \A e \in steady : ~(r[i + 1] < e /\ e < r[i])
        /\ diary.has /\ diary.rows # <<>> => \A e \in steady : e <= r[1]

\* When nothing is on its way the first page on screen is not older than the newest one asked for,
\* so what the menu took off the list is not shown any more, unless that read failed.
ListIsNewest ==
    firstBusy \/ ~diary.has \/ missed < MaxMissed \/ diary.v >= asked

\* Loading, paging and a menu's action end.
DiaryBusy == diaryStatus = "loading" \/ pageSpin \/ menu.st \in {"run", "done"}
DiarySettles == DiaryBusy ~> ~DiaryBusy
=============================================================================
