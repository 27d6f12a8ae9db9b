--------------------------- MODULE PhoneEntryPage ---------------------------
(***************************************************************************)
(* The page of one of the person's own posts (EntryView.tsx): the entry    *)
(* useEntry.ts reads on every focus, and the three dots with Edit,         *)
(* Archive or Restore, commenting, and Delete behind an alert, one at a    *)
(* time.  Delete and Archive leave the page, the others read it again.     *)
(***************************************************************************)
EXTENDS Integers, Sequences

CONSTANTS
    MaxPageActs,    \* bound: what the person does
    MaxPageFaults,  \* bound: requests without an answer
    MaxOtherPhones  \* bound: changes made on another phone

VARIABLES
    kept, keptV,                    \* the server: the entry, changes so far
    shownEntry, entryStatus,        \* <<>> or the entry on screen; useEntry's status
    entrySeq, entryCalls,           \* seqRef; requests that have no answer yet
    pageMenu, deedsRun, deedMessage, \* the menu or alert; what runs (deletingRef); deleteMessage
    where, popped, backTapped,      \* what is on top; pages left; history: the person went Back himself
    pageActs, pageFaults, otherPhones

entries == <<kept, keptV>>
reads == <<shownEntry, entryStatus, entrySeq, entryCalls>>
pages == <<where, popped, backTapped>>
vars == <<entries, reads, pageMenu, deedsRun, deedMessage, pages, pageActs, pageFaults, otherPhones>>

Ready == entryStatus = "ready" /\ shownEntry # <<>>
Entry == shownEntry[1]

(* ---- the server ------------------------------------------------------------- *)

KeptAs(e) == kept' = e /\ keptV' = keptV + 1
Done(what) ==
    CASE what = "delete"  -> KeptAs([kept EXCEPT !.there = FALSE])
      [] what = "archive" -> KeptAs([kept EXCEPT !.archived = TRUE])
      [] what = "restore" -> KeptAs([kept EXCEPT !.archived = FALSE])
      [] what = "off"     -> KeptAs([kept EXCEPT !.off = TRUE])
      [] what = "on"      -> KeptAs([kept EXCEPT !.off = FALSE])
OtherPhone ==
    /\ otherPhones > 0 /\ otherPhones' = otherPhones - 1 /\ kept.there
    /\ \E what \in {"delete", "archive", "off"} : Done(what)
    /\ UNCHANGED <<reads, pageMenu, deedsRun, deedMessage, pages, pageActs, pageFaults>>

(* ---- useEntry ----------------------------------------------------------------- *)

EntryRead(seq) == [seq |-> seq, st |-> "sent", ans |-> <<>>]
LastReadAlways(c) == TRUE               \* (mutant: an older read replaces a newer one)
LastRead(c) == c.seq = entrySeq /\ where # "left"

LoadEntry ==
    /\ entrySeq' = entrySeq + 1
    /\ entryCalls' = entryCalls \cup {EntryRead(entrySeq + 1)}
    /\ entryStatus' = IF shownEntry = <<>> THEN "loading" ELSE entryStatus
    /\ UNCHANGED shownEntry
Found == [v |-> keptV, there |-> kept.there, archived |-> kept.archived, off |-> kept.off]
EntryServed(c) ==
    /\ c.st = "sent"
    /\ entryCalls' = (entryCalls \ {c}) \cup {[c EXCEPT !.st = "served", !.ans = <<Found>>]}
    /\ UNCHANGED <<entries, shownEntry, entryStatus, entrySeq, pageMenu, deedsRun, deedMessage, pages, pageActs, pageFaults, otherPhones>>
EntryAnswered(c) ==
    /\ c.st = "served" /\ entryCalls' = entryCalls \ {c}
    /\ IF ~LastRead(c) THEN UNCHANGED <<shownEntry, entryStatus>>
       ELSE IF c.ans[1].there THEN shownEntry' = c.ans /\ entryStatus' = "ready"
       ELSE shownEntry' = <<>> /\ entryStatus' = "gone"
    /\ UNCHANGED <<entries, entrySeq, pageMenu, deedsRun, deedMessage, pages, pageActs, pageFaults, otherPhones>>
EntryFails(c) ==
    /\ pageFaults > 0 /\ pageFaults' = pageFaults - 1 /\ entryCalls' = entryCalls \ {c}
    /\ entryStatus' = IF LastRead(c) /\ shownEntry = <<>> THEN "offline" ELSE entryStatus
    /\ UNCHANGED <<entries, shownEntry, entrySeq, pageMenu, deedsRun, deedMessage, pages, pageActs, otherPhones>>

(* ---- the three dots ------------------------------------------------------------ *)

MayRunAlways == where = "page"          \* (mutant: deletingRef is not looked at)
MayRun == where = "page" /\ deedsRun = {}

Act == pageActs > 0 /\ pageActs' = pageActs - 1
DotsTapped ==
    /\ Act /\ Ready /\ MayRun /\ pageMenu = "closed" /\ pageMenu' = "open"
    /\ UNCHANGED <<entries, reads, deedsRun, deedMessage, pages, pageFaults, otherPhones>>
Edit ==
    /\ Act /\ pageMenu = "open" /\ pageMenu' = "closed" /\ where' = "edit"
    /\ UNCHANGED <<entries, reads, deedsRun, deedMessage, popped, backTapped, pageFaults, otherPhones>>
AskDelete ==
    /\ Act /\ pageMenu = "open" /\ MayRun /\ pageMenu' = "alert"
    /\ UNCHANGED <<entries, reads, deedsRun, deedMessage, pages, pageFaults, otherPhones>>
\* Each label says the opposite of what the entry on screen is.
Chosen ==
    IF pageMenu = "alert" THEN {"delete"}
    ELSE {IF Entry.archived THEN "restore" ELSE "archive", IF Entry.off THEN "on" ELSE "off"}
Run ==
    /\ Act /\ pageMenu \in {"open", "alert"} /\ Ready /\ MayRun /\ pageMenu' = "closed"
    /\ \E what \in Chosen : deedsRun' = deedsRun \cup {[n |-> pageActs, st |-> "run", what |-> what]}
    /\ deedMessage' = FALSE
    /\ UNCHANGED <<entries, reads, pages, pageFaults, otherPhones>>
DeedServed(d) ==
    /\ d.st = "run"
    /\ deedsRun' = (deedsRun \ {d}) \cup {[d EXCEPT !.st = IF kept.there THEN "done" ELSE "missing"]}
    /\ IF kept.there THEN Done(d.what) ELSE UNCHANGED entries
    /\ UNCHANGED <<reads, pageMenu, deedMessage, pages, pageActs, pageFaults, otherPhones>>

\* router.back(): the page itself, or whatever is on top when it has been left already.
GoBack == popped' = popped + 1 /\ where' = "left"
Ended(d) == deedsRun' = deedsRun \ {d}
RunDelete(d) ==                         \* deletingRef stays set
    /\ d.what = "delete" /\ d.st \in {"done", "missing"}
    /\ GoBack /\ deedsRun' = (deedsRun \ {d}) \cup {[d EXCEPT !.st = "left"]}
    /\ UNCHANGED <<entries, reads, deedMessage>>
RunArchive(d) ==
    /\ d.what = "archive" /\ d.st = "done"
    /\ GoBack /\ Ended(d) /\ UNCHANGED <<entries, reads, deedMessage>>
ReadsAgain(d) ==
    /\ d.what \in {"restore", "off", "on"} /\ d.st = "done"
    /\ LoadEntry /\ Ended(d) /\ UNCHANGED <<entries, deedMessage, where, popped>>
SaysSo(d) ==
    /\ d.what # "delete" /\ d.st = "missing"
    /\ Ended(d) /\ deedMessage' = TRUE /\ UNCHANGED <<entries, reads, where, popped>>
DeedAnswered(d) ==
    /\ RunDelete(d) \/ RunArchive(d) \/ ReadsAgain(d) \/ SaysSo(d)
    /\ UNCHANGED <<pageMenu, backTapped, pageActs, pageFaults, otherPhones>>
DeedFails(d) ==
    /\ d.st # "left" /\ pageFaults > 0 /\ pageFaults' = pageFaults - 1
    /\ Ended(d) /\ deedMessage' = TRUE
    /\ UNCHANGED <<entries, reads, pageMenu, pages, pageActs, otherPhones>>

(* ---- the pages ------------------------------------------------------------------ *)

BackFromEdit ==
    /\ Act /\ where = "edit" /\ where' = "page"
    /\ IF kept.there THEN kept' = kept /\ keptV' \in {keptV, keptV + 1} ELSE UNCHANGED entries  \* saved, or not
    /\ LoadEntry /\ UNCHANGED <<pageMenu, deedsRun, deedMessage, popped, backTapped, pageFaults, otherPhones>>
BackTapped ==
    /\ Act /\ where = "page" /\ pageMenu = "closed" /\ GoBack /\ backTapped' = TRUE
    /\ UNCHANGED <<entries, reads, pageMenu, deedsRun, deedMessage, pageFaults, otherPhones>>
Reload ==
    /\ Act /\ where = "page" /\ entryStatus = "offline" /\ LoadEntry
    /\ UNCHANGED <<entries, pageMenu, deedsRun, deedMessage, pages, pageFaults, otherPhones>>

Init ==
    /\ kept = [there |-> TRUE, archived |-> FALSE, off |-> FALSE] /\ keptV = 0
    /\ shownEntry = <<>> /\ entryStatus = "loading" /\ entrySeq = 1 /\ entryCalls = {EntryRead(1)}
    /\ pageMenu = "closed" /\ deedsRun = {} /\ deedMessage = FALSE
    /\ where = "page" /\ popped = 0 /\ backTapped = FALSE
    /\ pageActs = MaxPageActs /\ pageFaults = MaxPageFaults /\ otherPhones = MaxOtherPhones

Answers ==
    \/ \E d \in deedsRun : DeedServed(d) \/ DeedAnswered(d)
    \/ \E c \in entryCalls : EntryServed(c) \/ EntryAnswered(c)
Next ==
    \/ Answers \/ OtherPhone
    \/ \E d \in deedsRun : DeedFails(d)
    \/ \E c \in entryCalls : EntryFails(c)
    \/ DotsTapped \/ Edit \/ AskDelete \/ Run \/ BackFromEdit \/ BackTapped \/ Reload
LiveSpec == Init /\ [][Next]_vars /\ WF_vars(Answers)

(* ---- properties ------------------------------------------------------------------ *)

\* What keeps the next one: one deed runs at a time, none while the menu or the alert is open; and a page
\* that was left has nothing to do any more.
OneDeedRuns ==
    /\ popped \in Nat /\ \A d, e \in deedsRun : d = e
    /\ pageMenu # "closed" => deedsRun = {} /\ where = "page"
    /\ ~backTapped => popped = 0 \/ (popped = 1 /\ where = "left" /\ \A d \in deedsRun : d.st = "left")

\* The page is left once for one Delete or Archive, however the menu is tapped (a person who goes Back
\* while it runs is taken back once more when it is answered: goBack does not look at mountedRef).
LeftOnce == ~backTapped => popped <= 1

\* What keeps the next one: there is one read of each number under way, and what its answer holds is no
\* newer than the server and, for the last read, no older than what is on screen.
EntryReadsInOrder ==
    /\ keptV \in Nat /\ entrySeq \in Nat
    /\ shownEntry # <<>> => shownEntry[1].v \in 0 .. keptV
    /\ \A d \in deedsRun : DOMAIN d = {"n", "st", "what"} /\ d.what \in {"delete", "archive", "restore", "off", "on"}
    /\ \A c \in entryCalls :
          /\ DOMAIN c = {"seq", "st", "ans"}
          /\ c.seq \in 0 .. entrySeq
          /\ c.st = "served" => c.ans[1].v \in 0 .. keptV
          /\ c.st = "served" /\ c.seq = entrySeq /\ shownEntry # <<>> => c.ans[1].v >= shownEntry[1].v
          /\ \A b \in entryCalls : b.seq = c.seq => b = c

\* An entry on screen is never replaced by what an older read found (of every step).
EntryIsNewest == shownEntry # <<>> /\ shownEntry' # <<>> => shownEntry'[1].v >= shownEntry[1].v

\* Loading and a chosen action end.
PageBusy == (entryStatus = "loading" /\ where # "left") \/ \E d \in deedsRun : d.st # "left"
PageSettles == PageBusy ~> ~PageBusy
=============================================================================
