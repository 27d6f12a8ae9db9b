----------------------------- MODULE PhoneInbox -----------------------------
(***************************************************************************)
(* The bell of one phone: its dot (unreadStore.ts), asked for whenever the *)
(* Spin page comes into focus, and the list behind it                      *)
(* (NotificationsScreen.tsx), which tells the server that everything up to *)
(* now is seen.  An item is its number; later ones are higher.  The page   *)
(* is open or the Spin page is.                                            *)
(***************************************************************************)
EXTENDS Integers, FiniteSets

CONSTANTS
    MaxItems,       \* bound: items on the server
    MaxOpens,       \* bound: pages the person opens
    MaxUnheard      \* bound: requests without an answer

NoItems == [on |-> FALSE, upto |-> 0, dots |-> {}]
Asked == [st |-> "sent", unread |-> FALSE]
NotAsked == [st |-> "none", unread |-> FALSE]

VARIABLES
    arrived, seenTo,                \* the server: items so far, the seen time
    dot, asking,                    \* state.unread and `asking` of unreadStore
    inbox, inboxStatus, inboxReads, \* items, status, and the loads under way
    inboxOpen, inboxFrom,           \* the page is on top; the first load of this page
    newest,                         \* history: number of the last load
    dotCrossed,                     \* history: the bell's answer was on its way when a list was marked seen
    opens, unheard

items == <<arrived, seenTo>>
bell == <<dot, asking>>
pages == <<inboxOpen, inboxFrom>>
vars == <<items, bell, inbox, inboxStatus, inboxReads, pages, newest, dotCrossed, opens, unheard>>

Unread == seenTo < arrived

(* ---- the server -------------------------------------------------------------- *)

ItemArrives ==
    /\ arrived < MaxItems /\ arrived' = arrived + 1
    /\ UNCHANGED <<seenTo, bell, inbox, inboxStatus, inboxReads, pages, newest, dotCrossed, opens, unheard>>

(* ---- the dot ------------------------------------------------------------------ *)

\* Once at a time; another ask waits for the same answer.
RefreshUnread == asking' = IF asking.st = "none" THEN Asked ELSE asking
UnreadServed ==
    /\ asking.st = "sent" /\ asking' = [st |-> "served", unread |-> Unread]
    /\ UNCHANGED <<items, dot, inbox, inboxStatus, inboxReads, pages, newest, dotCrossed, opens, unheard>>
UnreadAnswered ==
    /\ asking.st = "served" /\ dot' = asking.unread /\ asking' = NotAsked
    /\ UNCHANGED <<items, inbox, inboxStatus, inboxReads, pages, newest, dotCrossed, opens, unheard>>
UnreadFails ==
    /\ asking.st # "none" /\ unheard > 0 /\ unheard' = unheard - 1 /\ asking' = NotAsked
    /\ UNCHANGED <<items, dot, inbox, inboxStatus, inboxReads, pages, newest, dotCrossed, opens>>

(* ---- the list ------------------------------------------------------------------ *)

LoadInbox ==
    /\ inboxReads' = inboxReads \cup {[n |-> newest + 1, st |-> "sent", upto |-> 0, dots |-> {}]}
    /\ newest' = newest + 1
InboxStep(r, d) ==
    /\ inboxReads' = (inboxReads \ {r}) \cup d
    /\ UNCHANGED <<arrived, asking, pages, newest, opens>>
InboxServed(r) ==
    /\ r.st = "sent"
    /\ InboxStep(r, {[r EXCEPT !.st = "served", !.upto = arrived, !.dots = seenTo + 1 .. arrived]})
    /\ UNCHANGED <<seenTo, dot, inbox, inboxStatus, dotCrossed, unheard>>
\* The dots the page opened with stay while it is open.
DotsKeptNone(r) == r.dots               \* (mutant: a later load takes the dots off)
DotsKept(r) == r.dots \cup {i \in inbox.dots : i <= r.upto}
OfPage(r) == inboxOpen /\ r.n >= inboxFrom
InboxAnswered(r) ==                     \* for a page that was left as well
    /\ r.st = "served" /\ InboxStep(r, {[r EXCEPT !.st = "seen"]})
    /\ IF OfPage(r)
       THEN inbox' = [on |-> TRUE, upto |-> r.upto, dots |-> DotsKept(r)] /\ inboxStatus' = "ready"
       ELSE UNCHANGED <<inbox, inboxStatus>>
    /\ UNCHANGED <<seenTo, dot, dotCrossed, unheard>>
InboxFails(r) ==
    /\ r.st \in {"sent", "served"} /\ unheard > 0 /\ unheard' = unheard - 1 /\ InboxStep(r, {})
    /\ inboxStatus' = IF inbox.on \/ ~OfPage(r) THEN inboxStatus ELSE "offline"
    /\ UNCHANGED <<seenTo, dot, inbox, dotCrossed>>
\* POST /notifications/seen: everything up to now.
SeenServed(r) ==
    /\ r.st = "seen" /\ seenTo' = arrived /\ InboxStep(r, {[r EXCEPT !.st = "marked"]})
    /\ dotCrossed' = (dotCrossed \/ asking.st = "served")
    /\ UNCHANGED <<dot, inbox, inboxStatus, unheard>>
AfterSeenKept == dot                    \* (mutant: the dot is left for the next ask)
AfterSeen == FALSE
SeenAnswered(r) ==
    /\ r.st = "marked" /\ dot' = AfterSeen /\ InboxStep(r, {})
    /\ UNCHANGED <<seenTo, inbox, inboxStatus, dotCrossed, unheard>>
SeenFails(r) ==
    /\ r.st \in {"seen", "marked"} /\ unheard > 0 /\ unheard' = unheard - 1 /\ InboxStep(r, {})
    /\ UNCHANGED <<seenTo, dot, inbox, inboxStatus, dotCrossed>>

(* ---- what the person does -------------------------------------------------------- *)

Opens == opens > 0 /\ opens' = opens - 1
OpenInbox ==
    /\ Opens /\ ~inboxOpen /\ inboxOpen' = TRUE /\ inboxFrom' = newest + 1 /\ LoadInbox
    /\ inbox' = NoItems /\ inboxStatus' = "loading"
    /\ UNCHANGED <<items, bell, dotCrossed, unheard>>
\* Back from a page opened from the list, or "Try again".
InboxFocus ==
    /\ Opens /\ inboxOpen /\ LoadInbox
    /\ UNCHANGED <<items, bell, inbox, inboxStatus, pages, dotCrossed, unheard>>
LeaveInbox ==
    /\ Opens /\ inboxOpen /\ inboxOpen' = FALSE /\ RefreshUnread
    /\ UNCHANGED <<items, dot, inbox, inboxStatus, inboxReads, inboxFrom, newest, dotCrossed, unheard>>
SpinFocus ==
    /\ Opens /\ ~inboxOpen /\ RefreshUnread
    /\ UNCHANGED <<items, dot, inbox, inboxStatus, inboxReads, pages, newest, dotCrossed, unheard>>

Init ==
    /\ arrived = 1 /\ seenTo = 0 /\ dot = FALSE /\ asking = Asked
    /\ inbox = NoItems /\ inboxStatus = "loading" /\ inboxReads = {} /\ inboxOpen = FALSE /\ inboxFrom = 1
    /\ newest = 0 /\ dotCrossed = FALSE /\ opens = MaxOpens /\ unheard = MaxUnheard

Answers ==
    \/ UnreadServed \/ UnreadAnswered
    \/ \E r \in inboxReads : InboxServed(r) \/ InboxAnswered(r) \/ SeenServed(r) \/ SeenAnswered(r)
Next ==
    \/ Answers \/ UnreadFails \/ ItemArrives
    \/ \E r \in inboxReads : InboxFails(r) \/ SeenFails(r)
    \/ OpenInbox \/ InboxFocus \/ LeaveInbox \/ SpinFocus
LiveSpec == Init /\ [][Next]_vars /\ WF_vars(Answers)

(* ---- properties ------------------------------------------------------------------- *)

\* At rest on the Spin page a dot on the bell means something there is unread, unless an ask was on its
\* way while the list was marked (its older answer lights the dot again), or a request had no answer.
DotMeansUnread ==
    asking.st = "none" /\ inboxReads = {} /\ ~dotCrossed /\ unheard = MaxUnheard /\ dot => Unread

\* A dot beside an item stays until the page is left, although its own load marked the item seen
\* (of every step).
DotsStay == inboxOpen /\ inboxOpen' /\ inbox.on => inbox.dots \cap 1 .. inbox'.upto \subseteq inbox'.dots

\* Asking for the dot, and loading and marking the list, end.
InboxBusy == asking.st # "none" \/ inboxReads # {}
InboxSettles == InboxBusy ~> ~InboxBusy
=============================================================================
