---------------------------- MODULE PhoneRequests ----------------------------
(***************************************************************************)
(* The page of follow requests on one phone (FollowRequestsScreen.tsx): a  *)
(* row with Accept and Decline for each request, one action at a time; an  *)
(* accepted row stays, with the button that fits what the person is toward *)
(* the other one.                                                          *)
(***************************************************************************)
EXTENDS Integers, FiniteSets, TLC, PhoneBonds

CONSTANTS
    MaxRequestTaps, \* bound: what the person does
    MaxRequestFails,\* bound: requests without an answer
    MaxAskers       \* bound: what the others do

Askers == {1, 2}
NoRow == [p \in {} |-> "none"]
Quiet == [st |-> "none", on |-> 0, what |-> "none", ok |-> TRUE, rel |-> "none", in |-> {}]

VARIABLES
    askBonds,                       \* the server
    requests, requestsOn,           \* requests, and whether a list was read
    answeredRows,                   \* accepted: the rows kept, and their buttons
    requestStatus, requestLine,     \* status; the message
    requestReads,                   \* loads under way
    requestDeed,                    \* what act() runs (busyRef), and how far it is
    late,                           \* history: a list was on its way while an action was answered
    disturbed,                      \* history: the others moved, or a request had no answer
    requestTaps, requestFails, askers

rows == <<requests, requestsOn, answeredRows, requestStatus>>
vars == <<askBonds, rows, requestLine, requestReads, requestDeed, late, disturbed, requestTaps, requestFails, askers>>

AskedBy == {p \in Askers : askBonds[p].in = "requested"}
Pending == requests \ DOMAIN answeredRows

(* ---- the list ------------------------------------------------------------------- *)

RequestRead(n) == [n |-> n, st |-> "sent", in |-> {}]
LoadRequests == requestReads' = requestReads \cup {RequestRead(requestTaps)}
RequestsServed(r) ==
    /\ r.st = "sent" /\ requestReads' = (requestReads \ {r}) \cup {[r EXCEPT !.st = "served", !.in = AskedBy]}
    /\ UNCHANGED <<askBonds, rows, requestLine, requestDeed, late, disturbed, requestTaps, requestFails, askers>>
RequestsAnswered(r) ==
    /\ r.st = "served" /\ requestReads' = requestReads \ {r}
    /\ requests' = r.in /\ requestsOn' = TRUE /\ requestStatus' = "ready"
    /\ UNCHANGED <<askBonds, answeredRows, requestLine, requestDeed, late, disturbed, requestTaps, requestFails, askers>>
RequestsFail(r) ==
    /\ requestFails > 0 /\ requestFails' = requestFails - 1 /\ requestReads' = requestReads \ {r}
    /\ requestStatus' = IF requestsOn THEN requestStatus ELSE "offline"
    /\ disturbed' = TRUE
    /\ UNCHANGED <<askBonds, requests, requestsOn, answeredRows, requestLine, requestDeed, late, requestTaps, askers>>

(* ---- Accept, Decline, Follow back ------------------------------------------------- *)

RowButtons(p) ==
    IF requestStatus # "ready" THEN {}
    ELSE IF p \in Pending THEN {"accept", "decline"}
    ELSE IF p \in DOMAIN answeredRows /\ answeredRows[p] = "none" THEN {"follow"} ELSE {}
RowTapped(p) ==
    /\ requestTaps > 0 /\ requestTaps' = requestTaps - 1 /\ requestDeed.st = "none"
    /\ \E what \in RowButtons(p) : requestDeed' = [Quiet EXCEPT !.st = "sent", !.on = p, !.what = what]
    /\ requestLine' = FALSE
    /\ UNCHANGED <<askBonds, rows, requestReads, late, disturbed, requestFails, askers>>
RowDeedServed ==
    /\ requestDeed.st = "sent"
    /\ LET b == askBonds[requestDeed.on] IN
        /\ askBonds' = [askBonds EXCEPT ![requestDeed.on] = After(b, requestDeed.what)]
        /\ requestDeed' = [requestDeed EXCEPT !.st = "served", !.ok = Accepts(b, requestDeed.what),
                                              !.rel = After(b, requestDeed.what).out]
    /\ UNCHANGED <<rows, requestLine, requestReads, late, disturbed, requestTaps, requestFails, askers>>
\* The row an answer leaves.
LeftUnread(p, rel) == IF p \in DOMAIN answeredRows THEN answeredRows ELSE p :> rel @@ answeredRows \* (mutant)
Left(p, rel) == p :> rel @@ answeredRows
DeedDone ==
    /\ requestDeed.st = "served" /\ requestDeed.ok
    /\ late' = (late \/ requestReads # {})
    /\ \/ /\ requestDeed.what = "accept"            \* then the lists are read for the row's button
          /\ requestDeed' = [requestDeed EXCEPT !.st = "lists"] /\ UNCHANGED rows
       \/ /\ requestDeed.what = "decline" /\ requestDeed' = Quiet
          /\ requests' = requests \ {requestDeed.on} /\ UNCHANGED <<requestsOn, answeredRows, requestStatus>>
       \/ /\ requestDeed.what = "follow" /\ requestDeed' = Quiet
          /\ answeredRows' = Left(requestDeed.on, requestDeed.rel) /\ UNCHANGED <<requests, requestsOn, requestStatus>>
    /\ UNCHANGED <<askBonds, requestLine, requestReads, disturbed, requestTaps, requestFails, askers>>
RowListsServed ==
    /\ requestDeed.st = "lists"
    /\ requestDeed' = [requestDeed EXCEPT !.st = "listed", !.rel = askBonds[requestDeed.on].out, !.in = AskedBy]
    /\ UNCHANGED <<askBonds, rows, requestLine, requestReads, late, disturbed, requestTaps, requestFails, askers>>
RowListsAnswered ==
    /\ requestDeed.st = "listed" /\ requestDeed' = Quiet
    /\ answeredRows' = Left(requestDeed.on, requestDeed.rel) /\ requests' = requestDeed.in
    /\ UNCHANGED <<askBonds, requestsOn, requestStatus, requestLine, requestReads, late, disturbed, requestTaps, requestFails, askers>>
\* Without that read the row says "Follow back", whatever the person is.
RowListsFail ==
    /\ requestDeed.st \in {"lists", "listed"} /\ requestFails > 0 /\ requestFails' = requestFails - 1
    /\ requestDeed' = Quiet /\ answeredRows' = Left(requestDeed.on, "none") /\ disturbed' = TRUE
    /\ UNCHANGED <<askBonds, requests, requestsOn, requestStatus, requestLine, requestReads, late, requestTaps, askers>>
RowDeedFails ==
    /\ \/ requestDeed.st = "served" /\ ~requestDeed.ok /\ UNCHANGED requestFails
       \/ requestDeed.st \in {"sent", "served"} /\ requestFails > 0 /\ requestFails' = requestFails - 1
    /\ requestDeed' = Quiet /\ requestLine' = TRUE /\ disturbed' = TRUE
    /\ UNCHANGED <<askBonds, rows, requestReads, late, requestTaps, askers>>

(* ---- focus, and the others --------------------------------------------------------- *)

RequestsFocus ==
    /\ requestTaps > 0 /\ requestTaps' = requestTaps - 1 /\ LoadRequests /\ late' = (late \/ requestDeed.st # "none")
    /\ UNCHANGED <<askBonds, rows, requestLine, requestDeed, disturbed, requestFails, askers>>
AskersMove ==
    /\ askers > 0 /\ askers' = askers - 1 /\ disturbed' = TRUE
    /\ \E p \in Askers : \/ \E b \in Theirs(askBonds[p]) : askBonds' = [askBonds EXCEPT ![p] = b]
                         \/ askBonds[p].in = "requested" /\ askBonds' = [askBonds EXCEPT ![p].in = "none"]
    /\ UNCHANGED <<rows, requestLine, requestReads, requestDeed, late, requestTaps, requestFails>>

Init ==
    /\ askBonds = (1 :> Bond("none", "requested") @@ 2 :> Bond("following", "requested"))
    /\ requests = {} /\ requestsOn = FALSE /\ answeredRows = NoRow /\ requestStatus = "loading" /\ requestLine = FALSE
    /\ requestReads = {RequestRead(MaxRequestTaps + 1)} /\ requestDeed = Quiet
    /\ late = FALSE /\ disturbed = FALSE
    /\ requestTaps = MaxRequestTaps /\ requestFails = MaxRequestFails /\ askers = MaxAskers

Answers ==
    \/ \E r \in requestReads : RequestsServed(r) \/ RequestsAnswered(r)
    \/ RowDeedServed \/ DeedDone \/ RowListsServed \/ RowListsAnswered
Next ==
    \/ Answers \/ RowListsFail \/ RowDeedFails
    \/ \E r \in requestReads : RequestsFail(r)
    \/ \E p \in Askers : RowTapped(p)
    \/ RequestsFocus \/ AskersMove
LiveSpec == Init /\ [][Next]_vars /\ WF_vars(Answers \/ RowDeedFails)

(* ---- properties ----------------------------------------------------------------------- *)

\* Left alone, the page is right at rest: a row that was answered is gone or kept with the button that
\* fits, and only requests that still wait have Accept and Decline (a list asked for before an answer
\* and shown after it may bring a declined row back).
RowsRight ==
    requestDeed.st = "none" /\ requestReads = {} /\ requestsOn /\ ~disturbed /\ ~late =>
        /\ Pending = AskedBy
        /\ \A p \in DOMAIN answeredRows : answeredRows[p] = askBonds[p].out

\* Loading and an action end.
RequestsBusy == requestStatus = "loading" \/ requestDeed.st # "none"
RequestsSettle == RequestsBusy ~> ~RequestsBusy
=============================================================================
