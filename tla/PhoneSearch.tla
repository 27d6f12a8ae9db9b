----------------------------- MODULE PhoneSearch -----------------------------
(***************************************************************************)
(* The search page of one phone (SearchScreen.tsx): what is typed is asked *)
(* for a moment after the last key, the people found and the people        *)
(* suggested carry one button each, and one follow or unfollow runs at a   *)
(* time.  A text is one of Texts; "p" finds everybody, "pq" only person 2. *)
(***************************************************************************)
EXTENDS Integers, FiniteSets, TLC, PhoneBonds

CONSTANTS
    MaxWords,       \* bound: changes of the text
    MaxFollows,     \* bound: taps on a button
    MaxSilences     \* bound: requests without an answer

Texts == {"", "p", "pq"}
Found(text) == IF text = "p" THEN {1, 2} ELSE {2}
Nobody == [on |-> FALSE, for |-> "", rel |-> [p \in {} |-> "none"]]
NoTap == [st |-> "none", on |-> 0, what |-> "none"]

VARIABLES
    searchBonds,                    \* the server
    query, hits, searching, searchFailed, \* the text, hits, searching; the last search had no answer
    searchSeq, searches,            \* seqRef; timers and requests under way
    suggestions, suggestionsRead,   \* suggestions and the one read of them
    tapsRun, searchMenu,              \* what act() runs (busyRef); the menu of a followed person
    mixed,                          \* history: an answer was on its way while a button was tapped
    words, follows, silences

asks == <<query, hits, searching, searchFailed, searchSeq, searches>>
suggests == <<suggestions, suggestionsRead>>
vars == <<searchBonds, asks, suggests, tapsRun, searchMenu, mixed, words, follows, silences>>

Relation(S) == [p \in S |-> searchBonds[p].out]

\* The body of the page: the suggestions under an empty box, else what was found.
SearchShows ==
    IF query = "" THEN suggestions ELSE IF hits.on THEN hits.rel ELSE Nobody.rel

(* ---- searching --------------------------------------------------------------- *)

StillTypedAlways(c) == TRUE             \* (mutant: an older text's people are shown)
StillTyped(c) == c.seq = searchSeq

\* The effect of [query]: the timer of the text before is stopped; an empty box shows nobody found.
TypeText(text) ==
    /\ words > 0 /\ words' = words - 1 /\ text # query /\ query' = text
    /\ searchSeq' = searchSeq + 1
    /\ LET asked == {c \in searches : c.st # "timer"} IN
       searches' = IF text = "" THEN asked
                   ELSE asked \cup {[seq |-> searchSeq + 1, text |-> text, st |-> "timer", ans |-> Nobody.rel]}
    /\ searching' = (text # "")
    /\ hits' = IF text = "" THEN Nobody ELSE hits
    /\ UNCHANGED <<searchBonds, searchFailed, suggests, tapsRun, searchMenu, mixed, follows, silences>>
Moves(c, d) ==
    /\ searches' = (searches \ {c}) \cup d
    /\ UNCHANGED <<searchBonds, query, searchSeq, suggests, tapsRun, searchMenu, words, follows>>
Debounced(c) ==
    /\ c.st = "timer" /\ Moves(c, {[c EXCEPT !.st = "sent"]})
    /\ mixed' = (mixed \/ tapsRun # {})
    /\ UNCHANGED <<hits, searching, searchFailed, silences>>
PeopleFound(c) ==
    /\ c.st = "sent" /\ Moves(c, {[c EXCEPT !.st = "served", !.ans = Relation(Found(c.text))]})
    /\ UNCHANGED <<hits, searching, searchFailed, mixed, silences>>
HitsAnswered(c) ==
    /\ c.st = "served" /\ Moves(c, {})
    /\ IF StillTyped(c)
       THEN hits' = [on |-> TRUE, for |-> c.text, rel |-> c.ans] /\ searchFailed' = FALSE /\ searching' = FALSE
       ELSE UNCHANGED <<hits, searchFailed, searching>>
    /\ UNCHANGED <<mixed, silences>>
HitsFail(c) ==
    /\ c.st \in {"sent", "served"} /\ silences > 0 /\ silences' = silences - 1 /\ Moves(c, {})
    /\ IF StillTyped(c) THEN searchFailed' = TRUE /\ searching' = FALSE ELSE UNCHANGED <<searchFailed, searching>>
    /\ UNCHANGED <<hits, mixed>>

\* Read once when the page opens; nobody who is followed or asked is suggested.
SuggestionsRead ==
    /\ suggestionsRead = "sent" /\ suggestionsRead' = "done"
    /\ suggestions' = [p \in {q \in DOMAIN searchBonds : searchBonds[q].out = "none"} |-> "none"]
    /\ mixed' = (mixed \/ tapsRun # {})
    /\ UNCHANGED <<searchBonds, asks, tapsRun, searchMenu, words, follows, silences>>

(* ---- the buttons --------------------------------------------------------------- *)

ActFree == tapsRun = {}

\* Follow; Requested (a tap takes it back); Following (a tap opens Unfollow and Block).
Offered(p) ==
    CASE SearchShows[p] = "none" -> {"follow"}
      [] SearchShows[p] = "requested" -> {"unfollow"}
      [] SearchShows[p] = "following" -> IF searchMenu = p THEN {"unfollow", "block"} ELSE {}
OpenHitMenu(p) ==
    /\ SearchShows[p] = "following" /\ searchMenu = 0 /\ searchMenu' = p
    /\ UNCHANGED <<searchBonds, asks, suggests, tapsRun, mixed, words, follows, silences>>
Tapped(p) ==
    /\ follows > 0 /\ follows' = follows - 1 /\ ActFree
    /\ \E what \in Offered(p) : tapsRun' = tapsRun \cup {[n |-> follows, on |-> p, what |-> what, st |-> "sent", ok |-> TRUE]}
    /\ searchMenu' = 0 /\ mixed' = (mixed \/ \E c \in searches : c.st # "timer")
    /\ UNCHANGED <<searchBonds, asks, suggests, words, silences>>
TapServed(t) ==
    /\ t.st = "sent"
    /\ tapsRun' = (tapsRun \ {t}) \cup {[t EXCEPT !.st = "served", !.ok = Accepts(searchBonds[t.on], t.what)]}
    /\ searchBonds' = [searchBonds EXCEPT ![t.on] = After(@, t.what)]
    /\ UNCHANGED <<asks, suggests, searchMenu, mixed, words, follows, silences>>
PatchedNowhere(list, p, rel) == list    \* (mutant: the button is left as it was)
\* patch: the button everywhere the person is shown.
Patched(list, p, rel) == IF p \in DOMAIN list THEN [list EXCEPT ![p] = rel] ELSE list
TapAnswered(t) ==
    /\ t.st = "served" /\ tapsRun' = tapsRun \ {t}
    /\ LET rel == IF t.what = "follow" THEN "requested" ELSE "none" IN
       CASE ~t.ok -> UNCHANGED <<hits, suggestions>>
         [] t.ok /\ t.what = "block" ->    \* only the people found
              hits' = [hits EXCEPT !.rel = [p \in DOMAIN @ \ {t.on} |-> @[p]]] /\ UNCHANGED suggestions
         [] OTHER ->
              hits' = [hits EXCEPT !.rel = Patched(@, t.on, rel)] /\ suggestions' = Patched(suggestions, t.on, rel)
    /\ UNCHANGED <<searchBonds, query, searching, searchFailed, searchSeq, searches, suggestionsRead, searchMenu, mixed, words, follows, silences>>
TapFails(t) ==
    /\ silences > 0 /\ silences' = silences - 1 /\ tapsRun' = tapsRun \ {t}
    /\ UNCHANGED <<searchBonds, asks, suggests, searchMenu, mixed, words, follows>>

Init ==
    /\ searchBonds = (1 :> Bond("none", "following") @@ 2 :> Bond("following", "none"))
    /\ query = "" /\ hits = Nobody /\ searching = FALSE /\ searchFailed = FALSE
    /\ searchSeq = 1 /\ searches = {} /\ suggestions = Nobody.rel /\ suggestionsRead = "sent"
    /\ tapsRun = {} /\ searchMenu = 0 /\ mixed = FALSE
    /\ words = MaxWords /\ follows = MaxFollows /\ silences = MaxSilences

Answers ==
    \/ \E c \in searches : Debounced(c) \/ PeopleFound(c) \/ HitsAnswered(c)
    \/ \E t \in tapsRun : TapServed(t) \/ TapAnswered(t)
    \/ SuggestionsRead
Next ==
    \/ Answers
    \/ \E c \in searches : HitsFail(c)
    \/ \E t \in tapsRun : TapFails(t)
    \/ \E text \in Texts : TypeText(text)
    \/ \E p \in DOMAIN SearchShows : Tapped(p) \/ OpenHitMenu(p)
LiveSpec == Init /\ [][Next]_vars /\ WF_vars(Answers)

(* ---- properties ------------------------------------------------------------------ *)

\* Once the search ends, whoever is shown was found for the text in the box, unless that search failed
\* (then the people found before stay, under its message).
FoundForTyped == query # "" /\ ~searching /\ ~searchFailed => hits.on /\ hits.for = query

\* At rest a button says what the server holds, unless a list was on its way while it was tapped
\* (such an answer puts the old button back) or a tap had no answer.
ButtonsTrue ==
    tapsRun = {} /\ ~mixed /\ silences = MaxSilences =>
        \A p \in DOMAIN SearchShows : SearchShows[p] = searchBonds[p].out \/ searchBonds[p].blocked

\* A search and a tap end.
SearchBusy == searching \/ tapsRun # {}
SearchSettles == SearchBusy ~> ~SearchBusy
=============================================================================
