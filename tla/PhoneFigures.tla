---------------------------- MODULE PhoneFigures ----------------------------
(***************************************************************************)
(* The figures on the Profile page of a phone (useProfileSummary): read    *)
(* when the page comes into view, answers out of order dropped, and a      *)
(* failed read leaves what is shown.  What the server holds is a version.  *)
(***************************************************************************)
EXTENDS Integers, FiniteSets

CONSTANTS
    MaxFigures,         \* bound: versions of the figures
    MaxFocus,           \* bound: times the page comes into view
    MaxFigureFails      \* bound: reads that fail

VARIABLES
    figures,                \* the server
    mounted,                \* the page is there
    loading, summary,       \* held: waiting for a first answer; the version shown, 0 for zeros
    newestAsk, figureAsks,        \* newest.current; the reads on their way, v = 0 until they are served
    focuses, figureFails

vars == <<figures, mounted, loading, summary, newestAsk, figureAsks, focuses, figureFails>>

AnyAsk(n) == mounted  \* (mutant: whichever answer comes last is shown)
StillNewest(n) == mounted /\ n = newestAsk

Focus ==
    /\ mounted /\ focuses > 0 /\ focuses' = focuses - 1
    /\ newestAsk' = newestAsk + 1 /\ figureAsks' = figureAsks \cup {[n |-> newestAsk + 1, v |-> 0]}
    /\ UNCHANGED <<figures, mounted, loading, summary, figureFails>>
\* Leaving for good counts on, so that no answer is the newest's any more.
Leave ==
    /\ mounted /\ mounted' = FALSE /\ newestAsk' = newestAsk + 1
    /\ UNCHANGED <<figures, loading, summary, figureAsks, focuses, figureFails>>
Served(a) ==
    /\ a.v = 0 /\ figureAsks' = (figureAsks \ {a}) \cup {[a EXCEPT !.v = figures]}
    /\ UNCHANGED <<figures, mounted, loading, summary, newestAsk, focuses, figureFails>>
Lands(a) ==
    /\ a.v # 0 /\ figureAsks' = figureAsks \ {a}
    /\ IF StillNewest(a.n) THEN summary' = a.v /\ loading' = FALSE
       ELSE UNCHANGED <<summary, loading>>
    /\ UNCHANGED <<figures, mounted, newestAsk, focuses, figureFails>>
FocusFails(a) ==
    /\ figureFails > 0 /\ figureFails' = figureFails - 1 /\ figureAsks' = figureAsks \ {a}
    /\ IF StillNewest(a.n) THEN loading' = FALSE ELSE UNCHANGED loading
    /\ UNCHANGED <<figures, mounted, summary, newestAsk, focuses>>
\* A spin, a follower: what other pages and other people change.
FiguresMove ==
    /\ figures < MaxFigures /\ figures' = figures + 1
    /\ UNCHANGED <<mounted, loading, summary, newestAsk, figureAsks, focuses, figureFails>>

Init ==
    /\ figures = 1 /\ mounted = TRUE /\ loading = TRUE /\ summary = 0
    /\ newestAsk = 1 /\ figureAsks = {[n |-> 1, v |-> 0]}
    /\ focuses = MaxFocus /\ figureFails = MaxFigureFails

Answers == \E a \in figureAsks : Served(a) \/ Lands(a)
Next == Answers \/ Focus \/ Leave \/ FiguresMove \/ (\E a \in figureAsks : FocusFails(a))
LiveSpec == Init /\ [][Next]_vars /\ WF_vars(Answers)

(* ---- properties -------------------------------------------------------------- *)

\* What keeps the next one: there is one read of each number, and what an answer on its way holds is no
\* newer than the server and, for the newest read, no older than the page.
ReadsInOrder ==
    /\ figures \in Nat /\ newestAsk \in Nat /\ summary \in 0 .. figures
    /\ figureAsks \subseteq [n : Nat, v : Nat]
    /\ \A a \in figureAsks :
          /\ a.n <= newestAsk /\ a.v <= figures
          /\ a.n = newestAsk /\ a.v # 0 => a.v >= summary
          /\ \A b \in figureAsks : b.n = a.n => b = a

\* The figures on the page never go back to an older answer of the server (of every step).
FiguresNewest == summary' >= summary
\* Its first wait ends.
FiguresBusy == loading /\ mounted
FiguresSettle == FiguresBusy ~> ~FiguresBusy
=============================================================================
