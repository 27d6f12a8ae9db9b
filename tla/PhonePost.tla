----------------------------- MODULE PhonePost ------------------------------
(***************************************************************************)
(* One post's page on a phone (PostView.tsx): the post and its comments as *)
(* usePost.ts keeps them, the comment bar and the comment list of          *)
(* Comments.tsx, and the upload memory of lib/entry/photo.ts.              *)
(*                                                                         *)
(* A comment is its id, in the order the server stored it, with the        *)
(* top-level comment it sits under (0 for none).  A draft is a number, one *)
(* for each text typed; the '@username ' a Reply puts in front is a flag.  *)
(* Hiding and reports (PhoneComments) and the menus leave all of this      *)
(* alone.                                                                  *)
(***************************************************************************)
EXTENDS Integers, Sequences, FiniteSets, SequencesExt

CONSTANTS
    MaxDeeds,       \* bound: what others do to the post
    MaxTaps,        \* bound: what the person does
    MaxCuts,        \* bound: requests without an answer
    MaxSends        \* bound: sends

NoPost == [has |-> FALSE, v |-> 0, list |-> <<>>, can |-> FALSE]
Blank == [at |-> FALSE, n |-> 0]
NoReply == [id |-> 0, k |-> 0]             \* k: each Reply is an object of its own
NoComment == [id |-> 0, parent |-> 0]
NoRow == [id |-> 0, st |-> "none"]

VARIABLES
    thread, last, deeds, canComment, gone,  \* the server; last: the newest id
    post, postStatus, postSeq, postCalls,   \* usePost
    replyTo, commenting,                    \* replyToRef, commentingRef
    text, photo, sendingRef, drawn,         \* the bar; drawn: sending, as last rendered
    barFrom,                                \* the first send that is of this bar and not of one before it
    memory, filesUp,                        \* photo -> the send whose upload is remembered; uploads
    sends, tries,                           \* sends under way, sends so far
    row,                                    \* the delete under way (busyId)
    taps, cuts

there == <<thread, last, deeds, canComment, gone>>
page  == <<post, postStatus, postSeq, postCalls>>
bar   == <<text, photo, sendingRef, barFrom>>
files == <<memory, filesUp>>
vars  == <<there, page, replyTo, commenting, bar, drawn, files, sends, tries, row, taps, cuts>>

Photos == 1 .. 2

\* ready, and the bar in place of "Commenting is off."
Ready == postStatus = "ready" /\ post.has
BarShown == Ready /\ post.can

(* ---- the server --------------------------------------------------------- *)

Top(c) == IF c.parent = 0 THEN c.id ELSE c.parent
Before(a, b) == Top(a) < Top(b) \/ (Top(a) = Top(b) /\ a.id < b.id)
Thread == SetToSortSeq(thread, Before)
NewId == last + 1
PostRead == [has |-> TRUE, v |-> deeds, list |-> Thread, can |-> canComment]

\* A comment goes with its replies.
Without(cs, id) == {c \in cs : c.id # id /\ c.parent # id}
Deed == deeds < MaxDeeds /\ ~gone /\ deeds' = deeds + 1
Others ==
    /\ Deed
    /\ \/ thread' = thread \cup {[id |-> NewId, parent |-> 0]} /\ last' = NewId /\ UNCHANGED <<canComment, gone>>
       \/ \E c \in thread : thread' = Without(thread, c.id) /\ UNCHANGED <<last, canComment, gone>>
       \/ canComment' = ~canComment /\ UNCHANGED <<thread, last, gone>>
       \/ gone' = TRUE /\ UNCHANGED <<thread, last, canComment>>
    /\ UNCHANGED <<page, replyTo, commenting, bar, drawn, files, sends, tries, row, taps, cuts>>

(* ---- load --------------------------------------------------------------- *)

PostCall(seq) == [seq |-> seq, st |-> "sent", ans |-> NoPost]
Load ==
    /\ postSeq' = postSeq + 1
    /\ postStatus' = IF post.has THEN postStatus ELSE "loading"
    /\ postCalls' = postCalls \cup {PostCall(postSeq + 1)}
NewestCall(c) == c.seq = postSeq
AnyCall(c) == TRUE                      \* (mutant: an answer is never too late)
CurrentCall(c) == NewestCall(c)

\* The bar leaves the page with what is in it; the next one is another bar, which fills for a Reply
\* that stands.
BarGoes ==
    IF BarShown'
    THEN /\ text' = IF BarShown THEN text ELSE [text EXCEPT !.at = replyTo # NoReply]
         /\ UNCHANGED <<photo, sendingRef, barFrom, drawn>>
    ELSE text' = Blank /\ photo' = 0 /\ sendingRef' = FALSE /\ drawn' = FALSE /\ barFrom' = tries + 1

PostServed(c) ==
    /\ c.st = "sent"
    /\ postCalls' = (postCalls \ {c})
         \cup {[c EXCEPT !.st = IF gone THEN "not_found" ELSE "served", !.ans = IF gone THEN NoPost ELSE PostRead]}
    /\ UNCHANGED <<there, post, postStatus, postSeq, replyTo, commenting, bar, drawn, files, sends, tries, row,
                   taps, cuts>>
PostAnswered(c) ==
    /\ c.st \in {"served", "not_found"}
    /\ postCalls' = postCalls \ {c}
    /\ IF CurrentCall(c)
       THEN post' = c.ans /\ postStatus' = IF c.st = "served" THEN "ready" ELSE "gone"
       ELSE UNCHANGED <<post, postStatus>>
    /\ BarGoes
    /\ UNCHANGED <<there, postSeq, replyTo, commenting, files, sends, tries, row, taps, cuts>>
Cut == cuts > 0 /\ cuts' = cuts - 1
PostLost(c) ==
    /\ Cut
    /\ postCalls' = postCalls \ {c}
    /\ postStatus' = IF CurrentCall(c) /\ ~post.has THEN "offline" ELSE postStatus
    /\ UNCHANGED <<there, post, postSeq, replyTo, commenting, bar, drawn, files, sends, tries, row, taps>>

(* ---- the comment bar ---------------------------------------------------- *)

Taps == taps > 0 /\ taps' = taps - 1
\* Coming back to the page, or "Try again".
Focus ==
    /\ Taps /\ Load
    /\ UNCHANGED <<there, post, replyTo, commenting, bar, drawn, files, sends, tries, row, cuts>>

StartReply(c) ==
    /\ Taps /\ BarShown
    /\ replyTo' = [id |-> c.id, k |-> taps] /\ text' = [text EXCEPT !.at = TRUE]
    /\ UNCHANGED <<there, page, commenting, photo, sendingRef, barFrom, drawn, files, sends, tries, row, cuts>>
CancelReply ==
    /\ Taps /\ BarShown /\ replyTo # NoReply
    /\ replyTo' = NoReply
    /\ text' = IF text.n = 0 THEN Blank ELSE text
    /\ UNCHANGED <<there, page, commenting, photo, sendingRef, barFrom, drawn, files, sends, tries, row, cuts>>
Type ==
    /\ Taps /\ BarShown /\ text.n < 2
    /\ text' = [text EXCEPT !.n = @ + 1]
    /\ UNCHANGED <<there, page, replyTo, commenting, photo, sendingRef, barFrom, drawn, files, sends, tries, row, cuts>>
\* pick and take: a file of the camera or the library that is not refused.  Photos are numbered as picked:
\* one that a send carries or an upload had is another file.
Pick ==
    /\ Taps /\ BarShown /\ ~drawn
    /\ LET other == {p \in Photos : /\ p > photo /\ filesUp[p] = 0 /\ memory[p] = 0
                                    /\ \A s \in sends : s.photo # p}
       IN  other # {} /\ photo' = Min(other)
    /\ UNCHANGED <<there, page, replyTo, commenting, text, sendingRef, barFrom, drawn, files, sends, tries, row, cuts>>
DropPhoto ==
    /\ Taps /\ BarShown /\ photo # 0
    /\ photo' = 0 /\ memory' = [memory EXCEPT ![photo] = 0]
    /\ UNCHANGED <<there, page, replyTo, commenting, text, sendingRef, barFrom, drawn, filesUp, sends, tries, row, cuts>>

CanSend == (text # Blank \/ photo # 0) /\ ~drawn
MaySendDrawn == CanSend                 \* (mutant: only what is drawn holds a second tap back)
MaySend == CanSend /\ ~sendingRef

\* send: the upload first (ensure: one for a file, shared), then comment.
EnsureAgain(p, n) == [memory EXCEPT ![p] = n]     \* (mutant: nothing is remembered)
Ensure(p, n) == IF memory[p] = 0 THEN [memory EXCEPT ![p] = n] ELSE memory
Uploading(n) == \E s \in sends : s.st = "uploading" /\ s.up = n
SendTap ==
    /\ Taps /\ BarShown /\ MaySend /\ tries < MaxSends
    /\ tries' = tries + 1 /\ sendingRef' = TRUE
    /\ memory' = IF photo = 0 THEN memory ELSE Ensure(photo, tries + 1)
    /\ LET n == tries + 1
           up == IF photo = 0 THEN 0 ELSE memory'[photo]
       IN  sends' = sends \cup {[n |-> n, text |-> text.n, photo |-> photo, up |-> up, to |-> NoReply,
                               saved |-> NoComment, st |-> IF up = n \/ Uploading(up) THEN "uploading" ELSE "ready"]}
    /\ UNCHANGED <<there, page, replyTo, commenting, text, photo, barFrom, drawn, filesUp, row, cuts>>
Render == drawn # sendingRef /\ drawn' = sendingRef
            /\ UNCHANGED <<there, page, replyTo, commenting, bar, files, sends, tries, row, taps, cuts>>

Sent(s, st) == (sends \ {s}) \cup {[s EXCEPT !.st = st]}
\* One upload serves each send that waits for it.
UploadEnds(s) ==
    /\ s.st = "uploading" /\ s.up = s.n
    /\ sends' = {IF t.st = "uploading" /\ t.up = s.n THEN [t EXCEPT !.st = "ready"] ELSE t : t \in sends}
    /\ filesUp' = [filesUp EXCEPT ![s.photo] = @ + 1]
    /\ UNCHANGED <<there, page, replyTo, commenting, bar, drawn, memory, tries, row, taps, cuts>>
\* Only the bar that is there hears of its send.
OfBar(s) == s.n >= barFrom
BarKeeps(s) == sendingRef' = (sendingRef /\ ~OfBar(s)) /\ UNCHANGED <<text, photo, barFrom>>
UploadFails(s) ==
    /\ Cut /\ s.st = "uploading" /\ s.up = s.n
    /\ sends' = {t \in sends : ~(t.st = "uploading" /\ t.up = s.n)}
    /\ memory' = IF memory[s.photo] = s.n THEN [memory EXCEPT ![s.photo] = 0] ELSE memory
    /\ BarKeeps(s)
    /\ UNCHANGED <<there, page, replyTo, commenting, drawn, filesUp, tries, row, taps>>

\* What send does with the answer of comment.
BarClears(s) ==
    /\ IF OfBar(s) THEN text' = Blank /\ photo' = 0 /\ sendingRef' = FALSE /\ UNCHANGED barFrom ELSE UNCHANGED bar
    /\ memory' = IF s.photo = 0 THEN memory ELSE [memory EXCEPT ![s.photo] = 0]
\* comment: nothing while another runs or there is no post; send takes that for a success.
CommentStarts(s) ==
    /\ s.st = "ready"
    /\ IF commenting \/ ~post.has
       THEN sends' = sends \ {s} /\ BarClears(s) /\ UNCHANGED commenting
       ELSE /\ commenting' = TRUE
            /\ sends' = (sends \ {s}) \cup {[s EXCEPT !.st = "sent", !.to = replyTo]}
            /\ UNCHANGED <<bar, memory>>
    /\ UNCHANGED <<there, page, replyTo, drawn, filesUp, tries, row, taps, cuts>>
\* POST /posts/{id}/comments: a reply to a reply goes under its comment.
CommentServed(s) ==
    LET answered == {c \in thread : c.id = s.to.id}
        saved == [id |-> NewId, parent |-> IF s.to = NoReply THEN 0 ELSE Top(CHOOSE c \in answered : TRUE)]
        refused == IF gone \/ (s.to # NoReply /\ answered = {}) THEN "not_found" ELSE "comments_off"
    IN  /\ s.st = "sent"
        /\ IF canComment /\ refused # "not_found"
           THEN /\ thread' = thread \cup {saved} /\ last' = NewId
                /\ sends' = (sends \ {s}) \cup {[s EXCEPT !.st = "saved", !.saved = saved]}
           ELSE sends' = Sent(s, refused) /\ UNCHANGED <<thread, last>>
        /\ UNCHANGED <<deeds, canComment, gone, page, replyTo, commenting, bar, drawn, files, tries, row, taps, cuts>>

\* placeComment: after the last comment of its thread, or at the end.
Placed(list, c) ==
    LET rest == SelectSeq(list, LAMBDA d : d.id # c.id)
        ofThread == {i \in DOMAIN rest : c.parent # 0 /\ c.parent \in {rest[i].id, rest[i].parent}}
        at == IF ofThread = {} THEN Len(rest) ELSE CHOOSE i \in ofThread : \A j \in ofThread : j <= i
    IN  InsertAt(rest, at + 1, c)
PlacedLast(list, c) == Append(list, c)  \* (mutant: at the end, whatever is there)
PlaceComment(list, c) == Placed(list, c)

ReplyEnds(s) == replyTo' = IF replyTo = s.to THEN NoReply ELSE replyTo
CommentAnswered(s) ==
    /\ s.st = "saved"
    /\ sends' = sends \ {s} /\ commenting' = FALSE
    /\ post' = IF post.has THEN [post EXCEPT !.list = PlaceComment(@, s.saved)] ELSE post
    /\ ReplyEnds(s) /\ BarClears(s)
    /\ UNCHANGED <<there, postStatus, postSeq, postCalls, drawn, filesUp, tries, row, taps, cuts>>
CommentRefused(s) ==
    /\ s.st \in {"not_found", "comments_off"}
    /\ sends' = sends \ {s} /\ commenting' = FALSE
    /\ IF s.st = "not_found" /\ s.to # NoReply THEN ReplyEnds(s) ELSE UNCHANGED replyTo
    /\ IF s.st = "comments_off" \/ s.to # NoReply THEN Load ELSE UNCHANGED <<postStatus, postSeq, postCalls>>
    /\ BarKeeps(s)
    /\ UNCHANGED <<there, post, drawn, files, tries, row, taps, cuts>>
CommentLost(s) ==
    /\ Cut /\ s.st \in {"sent", "saved"}
    /\ sends' = sends \ {s} /\ commenting' = FALSE
    /\ BarKeeps(s)
    /\ UNCHANGED <<there, page, replyTo, drawn, files, tries, row, taps>>

(* ---- the comment list --------------------------------------------------- *)

\* askDelete, agreed to: one row at a time.
Delete(c) ==
    /\ Taps /\ Ready /\ row = NoRow
    /\ row' = [id |-> c.id, st |-> "sent"]
    /\ UNCHANGED <<there, page, replyTo, commenting, bar, drawn, files, sends, tries, cuts>>
DeleteServed ==
    /\ row.st = "sent"
    /\ row' = [row EXCEPT !.st = "served"]
    /\ thread' = Without(thread, row.id)
    /\ UNCHANGED <<last, deeds, canComment, gone, page, replyTo, commenting, bar, drawn, files, sends, tries,
                   taps, cuts>>
DeleteAnswered ==
    LET left == SelectSeq(post.list, LAMBDA c : c \in Without(ToSet(post.list), row.id))
    IN  /\ row.st = "served" /\ row' = NoRow
        /\ post' = [post EXCEPT !.list = left]
        /\ replyTo' = IF post.has /\ replyTo.id \notin {left[i].id : i \in DOMAIN left} THEN NoReply ELSE replyTo
        /\ UNCHANGED <<there, postStatus, postSeq, postCalls, commenting, bar, drawn, files, sends, tries, taps, cuts>>
DeleteLost ==
    /\ Cut /\ row # NoRow /\ row' = NoRow
    /\ UNCHANGED <<there, page, replyTo, commenting, bar, drawn, files, sends, tries, taps>>

(* ------------------------------------------------------------------------ *)

Init ==
    /\ thread = {[id |-> 1, parent |-> 0], [id |-> 2, parent |-> 1], [id |-> 3, parent |-> 0]} /\ last = 3
    /\ deeds = 0 /\ canComment = TRUE /\ gone = FALSE
    /\ post = NoPost /\ postStatus = "loading" /\ postSeq = 1 /\ postCalls = {PostCall(1)}
    /\ replyTo = NoReply /\ commenting = FALSE
    /\ text = Blank /\ photo = 0 /\ sendingRef = FALSE /\ drawn = FALSE
    /\ memory = [p \in Photos |-> 0] /\ filesUp = [p \in Photos |-> 0]
    /\ sends = {} /\ tries = 0 /\ barFrom = 1 /\ row = NoRow /\ taps = MaxTaps /\ cuts = MaxCuts

Comes ==
    \/ \E c \in postCalls : PostServed(c) \/ PostAnswered(c)
    \/ \E s \in sends : UploadEnds(s) \/ CommentStarts(s) \/ CommentServed(s) \/ CommentAnswered(s)
                           \/ CommentRefused(s)
    \/ DeleteServed \/ DeleteAnswered \/ Render
Fails ==
    \/ \E c \in postCalls : PostLost(c)
    \/ \E s \in sends : UploadFails(s) \/ CommentLost(s)
    \/ DeleteLost
Does ==
    \/ Focus \/ CancelReply \/ Type \/ Pick \/ DropPhoto \/ SendTap
    \/ \E c \in ToSet(post.list) : StartReply(c) \/ Delete(c)
Next == Comes \/ Fails \/ Does \/ Others

Spec == Init /\ [][Next]_vars
LiveSpec == Spec /\ WF_vars(Comes)

(* ---- properties --------------------------------------------------------- *)

\* What keeps the next one: there is one read of each number under way, and what its answer holds is no
\* newer than the server and, for the last read, no older than what is on screen.
PostReadsInOrder ==
    /\ deeds \in Nat /\ postSeq \in Nat
    /\ DOMAIN post = {"has", "v", "list", "can"} /\ post.v \in 0 .. deeds
    /\ \A c \in postCalls :
          /\ DOMAIN c = {"seq", "st", "ans"} /\ DOMAIN c.ans = {"has", "v", "list", "can"}
          /\ c.seq \in 0 .. postSeq /\ c.ans.v \in 0 .. deeds
          /\ c.st = "served" /\ c.seq = postSeq /\ post.has => c.ans.v >= post.v
          /\ c.st # "served" => ~c.ans.has
          /\ \A b \in postCalls : b.seq = c.seq => b = c

\* The post on screen is never replaced by an older read of it (of every step).
PostIsNewest == post.has /\ post'.has => post'.v >= post.v

\* What keeps the next one: the bar has at most one send, which it waits for, and a comment that runs
\* is one of the sends.
UnderWay(s) == s.st \in {"sent", "saved", "not_found", "comments_off"}
BarHasOneSend ==
    /\ DOMAIN text = {"at", "n"} /\ text.n \in Nat
    /\ tries \in Nat /\ barFrom \in 1 .. tries + 1
    /\ \A s \in sends :
          /\ DOMAIN s = {"n", "text", "photo", "up", "to", "saved", "st"} /\ s.n \in 1 .. tries
          /\ OfBar(s) => sendingRef /\ \A t \in sends : OfBar(t) => t = s
    /\ commenting => \E s \in sends : UnderWay(s)

\* While the bar is there, what is typed in it goes only with the end of the bar's own send: its comment
\* was answered as saved, and then also what was typed since it was sent goes (setText('') after the
\* await of send); or it was dropped unsent, since a comment of an earlier bar was still under way
\* (commentingRef in usePost), which send takes for a success.  An upload that fails, a refusal and an
\* answer that is lost leave the text (of every step).
DraftKept ==
    text.n # 0 /\ text'.n = 0 /\ BarShown' =>
        \E s \in sends \ sends' :
            /\ OfBar(s)
            /\ \/ s.st = "saved" /\ UNCHANGED cuts
               \/ s.st = "ready" /\ \E t \in sends : UnderWay(t) /\ ~OfBar(t)
\* The bar clears only when the server took what is in it, as the comment above CommentBar says: "clears
\* only when the server took it; a failure keeps the text".
ClearsWhenTaken ==
    [][text.n # 0 /\ text'.n = 0 /\ BarShown' => \E s \in sends \ sends' : s.st = "saved" /\ s.text = text.n]_vars

\* What keeps the next one: a file has one upload under way at most and none once it was uploaded, and
\* the file in the bar is remembered from its upload's start.
UploadOf(p) == {s \in sends : s.st = "uploading" /\ s.up = s.n /\ s.photo = p}
UploadsHeld ==
    /\ DOMAIN memory = Photos /\ DOMAIN filesUp = Photos /\ photo \in Photos \cup {0} /\ tries \in Nat
    /\ \A s \in sends : s.photo \in Photos \cup {0} /\ (photo = s.photo /\ photo # 0 => OfBar(s))
    /\ \A p \in Photos :
          /\ filesUp[p] \in {0, 1} /\ memory[p] \in 0 .. tries
          /\ \A s, t \in UploadOf(p) : s = t
          /\ UploadOf(p) # {} => filesUp[p] = 0
          /\ photo = p /\ (UploadOf(p) # {} \/ filesUp[p] = 1) => memory[p] # 0
\* A picked file is never uploaded again once it was, whatever failed after it.
UploadedOnce == \A p \in Photos : filesUp[p] <= 1

\* The list shows a comment once, and a reply with its thread.
ListHolds ==
    \A i \in DOMAIN post.list :
        LET c == post.list[i]
        IN  /\ \A j \in DOMAIN post.list : post.list[j].id = c.id => i = j
            /\ c.parent \in {post.list[j].id : j \in DOMAIN post.list} =>
                  i > 1 /\ c.parent \in {post.list[i - 1].id, post.list[i - 1].parent}

\* Reading, sending and deleting end.
Waits == postStatus = "loading" \/ sendingRef \/ drawn \/ commenting \/ row # NoRow
WaitsEnd == Waits ~> ~Waits
=============================================================================
