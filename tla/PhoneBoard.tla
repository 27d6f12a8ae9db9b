----------------------------- MODULE PhoneBoard -----------------------------
(***************************************************************************)
(* The Board tab of one phone: the pages of days useBoard.ts loads and     *)
(* what BoardScreen.tsx offers for them.  A day of the Board is its        *)
(* number, the newest highest; an answer is what the server held when it   *)
(* was made, and a page is one day (PAGE_DAYS).                            *)
(***************************************************************************)
EXTENDS Integers, Sequences, FiniteSets, SequencesExt

CONSTANTS
    Days,           \* the days 1 .. Days; people post on the last one later
    MaxEdits,       \* bound: changes of what the server shows
    MaxLooks,       \* bound: what the person does
    MaxDrops        \* bound: answers that are lost

NoBoard(owner) == [owner |-> owner, has |-> FALSE, v |-> 0, days |-> <<>>, next |-> 0]
NoPage == [v |-> 0, days |-> <<>>, next |-> 0]

VARIABLES
    shelf, edition,                 \* the server: days with a post to show, changes so far
    account,                        \* the user of useSession
    held, boardStatus, refreshing, loadingMore, moreFailed,
    boardSeq, moreBusy,             \* seqRef, moreBusyRef
    boardCalls,                     \* requests that have no answer yet
    looks, drops

shelves == <<shelf, edition>>
spinners == <<refreshing, loadingMore, moreFailed, moreBusy>>
vars == <<shelves, account, held, boardStatus, spinners, boardSeq, boardCalls, looks, drops>>

Shown == IF held.owner = account THEN held ELSE NoBoard(account)
Status == IF ~Shown.has /\ boardStatus = "ready" THEN "loading" ELSE boardStatus

\* The body of BoardScreen: the message with its button, or the list.
MessageShown == Status = "offline"
ListShown == Status = "ready"

(* ---- the server --------------------------------------------------------- *)

Older(d) == {e \in shelf : e < d}
\* GET /board: the newest day before the one asked for; crossed is the history of the ask.
PageBefore(c) ==
    IF Older(c.before) = {} THEN [NoPage EXCEPT !.v = edition]
    ELSE LET d == CHOOSE d \in Older(c.before) : \A e \in Older(c.before) : e <= d
         IN  [v |-> edition, days |-> <<[d |-> d, before |-> c.before, crossed |-> c.crossed]>>,
              next |-> IF Older(d) = {} THEN 0 ELSE d]
Served(c) ==
    /\ c.st = "sent"
    /\ boardCalls' = (boardCalls \ {c}) \cup {[c EXCEPT !.st = "served", !.ans = PageBefore(c)]}
    /\ UNCHANGED <<shelves, account, held, boardStatus, spinners, boardSeq, looks, drops>>
Edited(d) ==
    /\ edition < MaxEdits /\ edition' = edition + 1
    /\ shelf' = IF d \in shelf THEN shelf \ {d} ELSE shelf \cup {d}
    /\ UNCHANGED <<account, held, boardStatus, spinners, boardSeq, boardCalls, looks, drops>>

(* ---- useBoard ----------------------------------------------------------- *)

Call(k, mode, owner, seq, before, crossed) ==
    [k |-> k, mode |-> mode, seq |-> seq, owner |-> owner, before |-> before, crossed |-> crossed,
     st |-> "sent", ans |-> NoPage]
Firsts == {c \in boardCalls : c.k = "first"}
Latest(c) == c.seq = boardSeq
LatestAlways(c) == TRUE                 \* (mutant: an answer is never too late)
Current(c) == Latest(c)

LoadFirst(mode, owner) ==
    /\ boardSeq' = boardSeq + 1
    /\ moreBusy' = FALSE /\ loadingMore' = FALSE
    /\ refreshing' = (refreshing \/ mode = "pull")
    /\ boardCalls' = boardCalls \cup {Call("first", mode, owner, boardSeq + 1, Days + 1, FALSE)}
    /\ UNCHANGED <<shelves, moreFailed, drops>>

FirstAnswered(c) ==
    /\ c.k = "first" /\ c.st = "served"
    /\ boardCalls' = boardCalls \ {c}
    /\ refreshing' = (refreshing /\ c.mode # "pull")
    /\ IF Current(c)
       THEN /\ held' = [owner |-> c.owner, has |-> TRUE, v |-> c.ans.v, days |-> c.ans.days, next |-> c.ans.next]
            /\ moreFailed' = FALSE /\ boardStatus' = "ready"
       ELSE UNCHANGED <<held, moreFailed, boardStatus>>
    /\ UNCHANGED <<shelves, account, loadingMore, moreBusy, boardSeq, looks, drops>>

Lost(c) == drops > 0 /\ drops' = drops - 1 /\ boardCalls' = boardCalls \ {c}
FirstFailed(c) ==
    /\ c.k = "first" /\ Lost(c)
    /\ refreshing' = (refreshing /\ c.mode # "pull")
    /\ boardStatus' = IF Current(c) /\ ~(held.has /\ held.owner = c.owner) THEN "offline" ELSE boardStatus
    /\ UNCHANGED <<shelves, account, held, loadingMore, moreFailed, moreBusy, boardSeq, looks>>

\* mergeDays, for days that come once each.
Merged(days, page) == days \o SelectSeq(page, LAMBDA e : \A i \in DOMAIN days : days[i].d # e.d)

LoadMore ==
    /\ held.has /\ held.next # 0 /\ ~moreBusy /\ held.owner = account
    /\ moreBusy' = TRUE /\ loadingMore' = TRUE /\ moreFailed' = FALSE
    /\ boardCalls' = boardCalls \cup {Call("more", "quiet", account, boardSeq, held.next, \E c \in Firsts : Current(c))}
    /\ UNCHANGED <<shelves, account, held, boardStatus, refreshing, boardSeq, drops>>
MoreEnds(c) ==
    IF Latest(c) THEN moreBusy' = FALSE /\ loadingMore' = FALSE ELSE UNCHANGED <<moreBusy, loadingMore>>
MoreAnswered(c) ==
    /\ c.k = "more" /\ c.st = "served"
    /\ boardCalls' = boardCalls \ {c}
    /\ held' = IF Current(c) /\ held.has
               THEN [held EXCEPT !.days = Merged(@, c.ans.days), !.next = c.ans.next] ELSE held
    /\ MoreEnds(c)
    /\ UNCHANGED <<shelves, account, boardStatus, refreshing, moreFailed, boardSeq, looks, drops>>
MoreLost(c) ==
    /\ c.k = "more" /\ Lost(c)
    /\ moreFailed' = (moreFailed \/ Current(c))
    /\ MoreEnds(c)
    /\ UNCHANGED <<shelves, account, held, boardStatus, refreshing, boardSeq, looks>>

\* Another account: what is shown goes, and the focus effect runs again.
AccountChanges ==
    /\ account = 1 /\ account' = 2
    /\ held' = NoBoard(2) /\ boardStatus' = "loading"
    /\ LoadFirst("quiet", 2)
    /\ UNCHANGED looks

(* ---- what the person does ----------------------------------------------- *)

Looks == looks > 0 /\ looks' = looks - 1
Focus == Looks /\ LoadFirst("quiet", account) /\ UNCHANGED <<account, held, boardStatus>>
Pull  == Looks /\ ListShown /\ LoadFirst("pull", account) /\ UNCHANGED <<account, held, boardStatus>>
Retry == Looks /\ MessageShown /\ LoadFirst("retry", account) /\ boardStatus' = "loading" /\ UNCHANGED <<account, held>>
\* The end comes into view, or "Try again" in the footer.
EndReached == Looks /\ ListShown /\ LoadMore

Init ==
    /\ shelf = 1 .. Days - 1 /\ edition = 0 /\ account = 1
    /\ held = NoBoard(1) /\ boardStatus = "loading"
    /\ refreshing = FALSE /\ loadingMore = FALSE /\ moreFailed = FALSE
    /\ boardSeq = 1 /\ moreBusy = FALSE
    /\ boardCalls = {Call("first", "quiet", 1, 1, Days + 1, FALSE)}
    /\ looks = MaxLooks /\ drops = MaxDrops

Answers == \E c \in boardCalls : Served(c) \/ FirstAnswered(c) \/ MoreAnswered(c)
Next ==
    \/ Answers
    \/ \E c \in boardCalls : FirstFailed(c) \/ MoreLost(c)
    \/ \E d \in 1 .. Days : Edited(d)
    \/ Focus \/ Pull \/ Retry \/ EndReached \/ AccountChanges

Spec == Init /\ [][Next]_vars
LiveSpec == Spec /\ WF_vars(Answers)

(* ---- properties --------------------------------------------------------- *)

\* What keeps the next one: there is one first page of each number under way, and what its answer holds
\* is no newer than the server and, for the latest, no older than what is held.
FirstsInOrder ==
    /\ edition \in Nat /\ boardSeq \in Nat
    /\ DOMAIN held = {"owner", "has", "v", "days", "next"} /\ held.v \in 0 .. edition
    /\ \A c \in boardCalls :
          /\ DOMAIN c = {"k", "mode", "seq", "owner", "before", "crossed", "st", "ans"}
          /\ c.seq \in 0 .. boardSeq
          /\ c.k = "first" /\ c.st = "served" => c.ans.v \in 0 .. edition
          /\ c.k = "first" /\ c.st = "served" /\ c.seq = boardSeq => c.ans.v >= held.v
    /\ \A c, d \in Firsts : c.seq = d.seq => c = d

\* The first page on screen is never replaced by an older one (of every step).
FirstIsNewest == Shown.has /\ Shown'.has /\ account' = account => Shown'.v >= Shown.v

\* Each page was asked for from the end of the one above it, and no day is there twice; but a page
\* asked for while a first page was on its way joins that first page, whatever lies between.
PagesFollow ==
    \A i \in 2 .. Len(held.days) :
        /\ held.days[i].crossed \/ held.days[i].before = held.days[i - 1].d
        /\ \A j \in 1 .. i - 1 : held.days[j].d # held.days[i].d

\* Loading and pulling end.
Loading == Status = "loading" \/ refreshing \/ loadingMore
LoadingEnds == Loading ~> ~Loading
=============================================================================
