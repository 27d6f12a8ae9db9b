--------------------------- MODULE FollowsProofs ---------------------------
(***************************************************************************)
(* Follows and blocks, for any number of people, requests and rows, and    *)
(* that they implement Friends.                                            *)
(***************************************************************************)
EXTENDS Follows, TLAPS

-----------------------------------------------------------------------------
(* The inductive invariant.                                                *)

\* The ids of the rows are drawn once, and only a pending request is still to
\* be answered.
Counts ==
    \A i \in Ids :
        /\ asked[i] <= 1 /\ answered[i] <= 1
        /\ i \in Rows => asked[i] = 1
        /\ IsPending(i) \/ asked[i] = 0 => answered[i] = 0

\* What a request carries from statement to statement.
Shape(r) ==
    /\ r.at # "idle" => r.pair \in Pairs
    /\ r.at = "pair" => r.kind \notin {"none", "unblock"}
    /\ r.at \in {"again", "resolve"} => r.kind \in {"accept", "decline"}
    /\ r.at # "idle" /\ r.kind \in {"accept", "decline"} =>
           r.id \in Ids /\ asked[r.id] = 1 /\ (r.id \in Rows => follow[r.id].pair = r.pair)

\* What it has read stays true to its commit.
Sees(r) ==
    /\ r.at \in {"status", "insert"} =>
           Between(r.pair) \cap blocks = {} /\ r.pair[2] \notin disabled
    /\ r.at = "insert" => RowsOf(r.pair) = {}
    /\ r.at = "resolve" => IsPending(r.id)
    /\ r.at = "clear" /\ ~r.adds => RowsBetween(r.pair) = {}

OneInAPair ==
    \A p, q \in Procs :
        p # q /\ proc[p].at \in InPair /\ proc[q].at \in InPair =>
            proc[q].pair \notin Between(proc[p].pair)

Good == \A p \in Procs : Shape(proc[p]) /\ Sees(proc[p])

IInv ==
    TypeOK /\ Counts /\ Good /\ OneInAPair /\ OneRowAPair /\ NoFriendshipBesideABlock

-----------------------------------------------------------------------------
(* Pairs, and what the types come to.                                      *)

LEMMA PairTwoWays ==
    ASSUME NEW ab \in Pairs, NEW cd \in Pairs
    PROVE  /\ ab \in Between(ab)
           /\ Between(ab) \subseteq Pairs
           /\ cd \in Between(ab) <=> ab \in Between(cd)
           /\ cd \in Between(ab) => Between(cd) = Between(ab)
<1>1. PICK a \in People, b \in People : ab = <<a, b>> /\ a # b
  BY DEF Pairs
<1>2. PICK c \in People, d \in People : cd = <<c, d>> /\ c # d
  BY DEF Pairs
<1>3. Between(ab) = {<<a, b>>, <<b, a>>} /\ Between(cd) = {<<c, d>>, <<d, c>>}
  BY <1>1, <1>2 DEF Between
<1>4. <<b, a>> \in Pairs
  BY <1>1 DEF Pairs
<1> QED BY <1>1, <1>2, <1>3, <1>4

LEMMA RowTypes ==
    ASSUME TypeOK, NEW i \in Ids
    PROVE  /\ i \in Rows => follow[i] \in FollowRow /\ follow[i].pair \in Pairs
                            /\ follow[i].status \in {"pending", "accepted"}
           /\ i \notin Rows => follow[i] = None
BY DEF TypeOK, Rows, FollowRow

LEMMA IdleRequest ==
    /\ Idle \in Request /\ Idle.at = "idle"
    /\ Shape(Idle) /\ Sees(Idle)
<1>1. Idle \in Request /\ Idle.at = "idle"
  BY DEF Idle, Request
<1> QED BY <1>1 DEF Shape, Sees

LEMMA BeginRequest ==
    ASSUME NEW kind \in {"follow", "unfollow", "accept", "decline", "block", "unblock"},
           NEW ab \in Pairs, NEW i \in Ids \cup {None}, NEW at \in {"pair", "unblock"}
    PROVE  LET r == Begin(kind, at, ab, i)
           IN  r \in Request /\ r.at = at /\ r.kind = kind /\ r.pair = ab /\ r.id = i
BY DEF Begin, Idle, Request

\* A request that goes on to the statement `at`.
LEMMA NextStatement ==
    ASSUME TypeOK, NEW p \in Procs, NEW at \in InPair
    PROVE  LET r == [proc[p] EXCEPT !.at = at]
           IN  r \in Request /\ r.at = at /\ r.kind = proc[p].kind
               /\ r.pair = proc[p].pair /\ r.id = proc[p].id /\ r.adds = proc[p].adds
BY DEF TypeOK, Request

LEMMA GotoIs ==
    ASSUME TypeOK, NEW p \in Procs, NEW r, Goto(p, r)
    PROVE  \A q \in Procs : proc'[q] = IF q = p THEN r ELSE proc[q]
BY DEF Goto, TypeOK

LEMMA GotoType ==
    ASSUME TypeOK, NEW p \in Procs, NEW r \in Request, Goto(p, r)
    PROVE  proc' \in [Procs -> Request]
BY DEF Goto, TypeOK

-----------------------------------------------------------------------------
(* Steps that write nothing.                                               *)

\* A request alone moves, and only into a pair nobody else is in.
LEMMA MoveKeeps ==
    ASSUME IInv, NEW p \in Procs, NEW r \in Request, Goto(p, r),
           Shape(r), Sees(r),
           r.at \in InPair =>
               \A q \in Procs \ {p} :
                   proc[q].at \in InPair => proc[q].pair \notin Between(r.pair),
           UNCHANGED <<follow, blocks, disabled, asked, answered>>
    PROVE  IInv'
<1>1. \A q \in Procs : proc'[q] = IF q = p THEN r ELSE proc[q]
  BY GotoIs DEF IInv
<1>2. TypeOK'
  BY GotoType DEF IInv, TypeOK
<1>3. Rows' = Rows /\ (\A ab : RowsOf(ab)' = RowsOf(ab) /\ RowsBetween(ab)' = RowsBetween(ab))
      /\ (\A i : IsPending(i)' = IsPending(i))
  BY DEF Rows, RowsOf, RowsBetween, IsPending
<1>4. Counts' /\ OneRowAPair' /\ NoFriendshipBesideABlock'
  BY <1>3 DEF IInv, Counts, OneRowAPair, NoFriendshipBesideABlock
<1>5. Good'
  <2> SUFFICES ASSUME NEW q \in Procs PROVE Shape(proc[q])' /\ Sees(proc[q])'
    BY DEF Good
  <2>1. Shape(proc'[q]) /\ Sees(proc'[q])
    BY <1>1 DEF IInv, Good
  <2> QED BY <1>3, <2>1 DEF Shape, Sees
<1>6. OneInAPair'
  <2> SUFFICES ASSUME NEW q \in Procs, NEW s \in Procs, q # s,
                      proc'[q].at \in InPair, proc'[s].at \in InPair
               PROVE  proc'[s].pair \notin Between(proc'[q].pair)
    BY DEF OneInAPair, InPair, Between
  <2>1. CASE q # p /\ s # p
    BY <1>1, <2>1 DEF IInv, OneInAPair
  <2>2. CASE q = p
    BY <1>1, <2>2
  <2>3. CASE s = p
    <3>1. proc[q].at \in InPair /\ proc[q].pair \notin Between(r.pair) /\ r.at \in InPair
      BY <1>1, <2>3
    <3>2. proc[q].pair \in Pairs /\ r.pair \in Pairs
      BY <3>1 DEF IInv, Good, Shape, InPair
    <3> QED BY <1>1, <2>3, <3>1, <3>2, PairTwoWays
  <2> QED BY <2>1, <2>2, <2>3
<1> QED BY <1>2, <1>4, <1>5, <1>6 DEF IInv

LEMMA DoneKeeps ==
    ASSUME IInv, NEW p \in Procs, Done(p),
           UNCHANGED <<follow, blocks, disabled, asked, answered>>
    PROVE  IInv'
<1>1. Idle \in Request /\ Idle.at = "idle" /\ Shape(Idle) /\ Sees(Idle)
  BY IdleRequest
<1>2. Idle.at \notin InPair
  BY <1>1 DEF InPair
<1> QED BY <1>1, <1>2, MoveKeeps DEF Done

LEMMA BeginKeeps ==
    ASSUME IInv, NEW p \in Procs,
           NEW kind \in {"follow", "unfollow", "accept", "decline", "block", "unblock"},
           NEW ab \in Pairs, NEW i \in Ids \cup {None}, NEW at \in {"pair", "unblock"},
           at = "pair" <=> kind # "unblock",
           kind \in {"accept", "decline"} => IsPending(i) /\ follow[i].pair = ab,
           Goto(p, Begin(kind, at, ab, i)),
           UNCHANGED <<follow, blocks, disabled, asked, answered>>
    PROVE  IInv'
<1> DEFINE r == Begin(kind, at, ab, i)
<1>1. r \in Request /\ r.at = at /\ r.kind = kind /\ r.pair = ab /\ r.id = i
  BY BeginRequest
<1> HIDE DEF r
<1>2. kind \in {"accept", "decline"} => i \in Ids /\ asked[i] = 1
  BY DEF IsPending, Rows, IInv, Counts
<1>3. Shape(r)
  BY <1>1, <1>2 DEF Shape
<1>4. Sees(r) /\ r.at \notin InPair
  BY <1>1 DEF Sees, InPair
<1>5. Goto(p, r)
  BY DEF r
<1> QED BY <1>1, <1>3, <1>4, <1>5, MoveKeeps

LEMMA ArrivalKeeps ==
    ASSUME IInv, NEW p \in Procs,
           \/ \E ab \in Pairs : Follow(p, ab) \/ Unfollow(p, ab) \/ Block(p, ab) \/ Unblock(p, ab)
           \/ \E i \in Ids, kind \in {"accept", "decline"} : Answer(p, kind, i)
    PROVE  IInv'
<1>1. ASSUME NEW ab \in Pairs,
             Follow(p, ab) \/ Unfollow(p, ab) \/ Block(p, ab) \/ Unblock(p, ab)
      PROVE  IInv'
  <2>1. PICK kind \in {"follow", "unfollow", "block", "unblock"},
             at \in {"pair", "unblock"} :
                 /\ at = "pair" <=> kind # "unblock"
                 /\ Goto(p, Begin(kind, at, ab, None))
    BY <1>1 DEF Follow, Unfollow, Block, Unblock
  <2>2. UNCHANGED <<follow, blocks, disabled, asked, answered>>
    BY <1>1 DEF Follow, Unfollow, Block, Unblock
  <2> QED BY <2>1, <2>2, BeginKeeps
<1>2. ASSUME NEW i \in Ids, NEW kind \in {"accept", "decline"}, Answer(p, kind, i)
      PROVE  IInv'
  <2>1. i \in Rows /\ follow[i].pair \in Pairs
    BY <1>2, RowTypes DEF Answer, IsPending, IInv
  <2> QED BY <1>2, <2>1, BeginKeeps DEF Answer
<1> QED BY <1>1, <1>2

LEMMA TakePairKeeps == ASSUME IInv, NEW p \in Procs, TakePair(p) PROVE IInv'
<1>1. proc[p].at = "pair" /\ proc[p] \in Request /\ Shape(proc[p])
  BY DEF TakePair, IInv, TypeOK, Good
<1>2. proc[p].kind \in {"follow", "unfollow", "accept", "decline", "block"}
  BY <1>1 DEF Shape, Request
<1>3. PICK at \in {"share", "delete", "block", "again"} :
         /\ at = FirstStatement[proc[p].kind]
         /\ at = "again" <=> proc[p].kind \in {"accept", "decline"}
  BY <1>2 DEF FirstStatement
<1> DEFINE r == [proc[p] EXCEPT !.at = at]
<1>4. at \in InPair
  BY DEF InPair
<1>5. r \in Request /\ r.at = at /\ r.kind = proc[p].kind
      /\ r.pair = proc[p].pair /\ r.id = proc[p].id
  BY <1>4, NextStatement DEF IInv
<1>6. Goto(p, r) /\ UNCHANGED <<follow, blocks, disabled, asked, answered>>
  BY <1>3 DEF TakePair
<1> HIDE DEF r
<1>7. Shape(r) /\ Sees(r)
  BY <1>1, <1>3, <1>5 DEF Shape, Sees
<1>8. ASSUME NEW q \in Procs \ {p}, proc[q].at \in InPair
      PROVE  proc[q].pair \notin Between(r.pair)
  BY <1>5, <1>8 DEF TakePair, PairFree
<1> QED BY <1>5, <1>6, <1>7, <1>8, MoveKeeps

\* A request goes on to the next statement of its transaction.
LEMMA GoesOn ==
    ASSUME IInv, NEW p \in Procs, NEW r \in Request, Goto(p, r),
           proc[p].at \in InPair, r.at \in InPair, r.pair = proc[p].pair,
           Shape(r), Sees(r),
           UNCHANGED <<follow, blocks, disabled, asked, answered>>
    PROVE  IInv'
<1>1. ASSUME NEW q \in Procs \ {p}, proc[q].at \in InPair
      PROVE  proc[q].pair \notin Between(r.pair)
  BY <1>1 DEF IInv, OneInAPair
<1> QED BY <1>1, MoveKeeps

LEMMA StatementKeeps ==
    ASSUME IInv, NEW p \in Procs,
           ShareFollowee(p) \/ CheckBlocked(p) \/ CheckStatus(p) \/ ReadAgain(p)
    PROVE  IInv'
<1> USE DEF RepeatIsSilent
<1>1. UNCHANGED <<follow, blocks, disabled, asked, answered>>
  BY DEF ShareFollowee, CheckBlocked, CheckStatus, ReadAgain
<1>2. CASE Done(p)
  BY <1>1, <1>2, DoneKeeps
<1>3. CASE ~Done(p)
  <2>1. PICK at \in {"blocked", "status", "insert", "resolve"} :
           /\ Goto(p, [proc[p] EXCEPT !.at = at])
           /\ at = "blocked" => proc[p].at = "share"
           /\ at = "status" => proc[p].at = "blocked" /\ ~BlockedEither(proc[p].pair)
           /\ at = "insert" => proc[p].at = "status" /\ RowsOf(proc[p].pair) = {}
           /\ at = "resolve" => proc[p].at = "again" /\ IsPending(proc[p].id)
    BY <1>3 DEF ShareFollowee, CheckBlocked, CheckStatus, ReadAgain, BlockedEither, StillPending
  <2> DEFINE r == [proc[p] EXCEPT !.at = at]
  <2>2. at \in InPair /\ proc[p].at \in InPair
    BY <2>1 DEF InPair
  <2>3. r \in Request /\ r.at = at /\ r.kind = proc[p].kind
        /\ r.pair = proc[p].pair /\ r.id = proc[p].id
    BY <2>2, NextStatement DEF IInv
  <2>4. Goto(p, r)
    BY <2>1
  <2> HIDE DEF r
  <2>5. Shape(proc[p]) /\ Sees(proc[p])
    BY DEF IInv, Good
  <2>6. Shape(r)
    BY <2>1, <2>3, <2>5 DEF Shape
  <2>7. Sees(r)
    BY <2>1, <2>3, <2>5 DEF Sees, BlockedEither
  <2> QED BY <1>1, <2>2, <2>3, <2>4, <2>6, <2>7, GoesOn
<1> QED BY <1>2, <1>3

\* The insert into blocks that meets a row finds nothing between the two.
LEMMA InsertBlockKeeps == ASSUME IInv, NEW p \in Procs, InsertBlock(p) PROVE IInv'
<1> DEFINE r == [proc[p] EXCEPT !.at = "clear", !.adds = proc[p].pair \notin blocks]
<1>1. proc[p] \in Request /\ Shape(proc[p]) /\ proc[p].at = "block"
  BY DEF IInv, TypeOK, Good, InsertBlock
<1>2. r \in Request /\ r.at = "clear" /\ r.kind = proc[p].kind /\ r.pair = proc[p].pair
      /\ r.id = proc[p].id /\ r.adds = (proc[p].pair \notin blocks)
  BY <1>1 DEF Request, InPair
<1>3. Goto(p, r) /\ UNCHANGED <<follow, blocks, disabled, asked, answered>>
  BY DEF InsertBlock
<1> HIDE DEF r
<1>4. Shape(r)
  BY <1>1, <1>2 DEF Shape
<1>5. ASSUME ~r.adds PROVE RowsBetween(r.pair) = {}
  <2> SUFFICES ASSUME NEW i \in Rows, follow[i].pair \in Between(r.pair) PROVE FALSE
    BY DEF RowsBetween
  <2>1. r.pair \in blocks /\ r.pair \in Pairs
    BY <1>1, <1>2, <1>5 DEF Shape
  <2>2. i \in Ids /\ follow[i].pair \in Pairs
    BY RowTypes DEF IInv, Rows
  <2>3. r.pair \in Between(follow[i].pair)
    BY <2>1, <2>2, PairTwoWays
  <2> QED BY <2>1, <2>3 DEF IInv, NoFriendshipBesideABlock
<1>6. Sees(r)
  BY <1>2, <1>5 DEF Sees
<1>7. proc[p].at \in InPair /\ r.at \in InPair
  BY <1>1, <1>2 DEF InPair
<1> QED BY <1>2, <1>3, <1>4, <1>6, <1>7, GoesOn

-----------------------------------------------------------------------------
(* Commits.                                                                *)

\* The commit of a request that holds the pair is no matter of the others: it
\* changes rows and blocks of the pair alone, and makes rows of new ids alone.
LEMMA CommitKeeps ==
    ASSUME IInv, NEW p \in Procs, NEW ab \in Pairs, Done(p), TypeOK',
           proc[p].at \in InPair, ab = proc[p].pair,
           \A i \in Ids :
               \/ follow'[i] = follow[i]
               \/ /\ i \in Rows => follow[i].pair \in Between(ab)
                  /\ i \in Rows' => follow'[i].pair \in Between(ab)
                  /\ i \in Rows /\ i \in Rows' => follow'[i].pair = follow[i].pair,
           \A i \in Ids : i \in Rows' /\ asked[i] = 1 => i \in Rows,
           \A i \in Ids : asked[i] = 1 => asked'[i] = 1,
           \A cd \in Pairs : cd \in Between(ab) \/ (cd \in blocks' <=> cd \in blocks),
           disabled' = disabled
    PROVE  Good' /\ OneInAPair'
<1>1. \A q \in Procs : proc'[q] = IF q = p THEN Idle ELSE proc[q]
  BY GotoIs DEF IInv, Done
<1>2. Idle.at = "idle"
  BY DEF Idle
<1>3. ASSUME NEW q \in Procs, q # p, proc[q].at \in InPair
      PROVE  proc[q].pair \in Pairs /\ proc[q].pair \notin Between(ab)
  <2>1. proc[q].pair \notin Between(ab)
    BY <1>3 DEF IInv, OneInAPair
  <2>2. Shape(proc[q]) /\ proc[q].at # "idle"
    BY <1>3 DEF IInv, Good, InPair
  <2> QED BY <2>1, <2>2 DEF Shape
<1>4. OneInAPair'
  <2> SUFFICES ASSUME NEW q \in Procs, NEW t \in Procs, q # t,
                      proc'[q].at \in InPair, proc'[t].at \in InPair
               PROVE  proc'[t].pair \notin Between(proc'[q].pair)
    BY DEF OneInAPair, InPair, Between
  <2>1. q # p /\ t # p
    BY <1>1, <1>2 DEF InPair
  <2> QED BY <1>1, <2>1 DEF IInv, OneInAPair
<1>5. ASSUME NEW i \in Ids, NEW cd \in Pairs, cd \notin Between(ab)
      PROVE  /\ i \in Rows' /\ follow'[i].pair = cd =>
                    follow'[i] = follow[i] /\ i \in Rows
             /\ i \in Rows /\ follow[i].pair = cd =>
                    follow'[i] = follow[i] /\ i \in Rows'
  BY <1>5 DEF Rows
<1>6. ASSUME NEW q \in Procs, q # p, proc[q].at \in InPair
      PROVE  Between(proc[q].pair) \subseteq Pairs \ Between(ab)
  <2>1. proc[q].pair \in Pairs /\ proc[q].pair \notin Between(ab)
    BY <1>3, <1>6
  <2>2. ASSUME NEW cd \in Between(proc[q].pair) PROVE cd \in Pairs \ Between(ab)
    <3>1. cd \in Pairs
      BY <2>1, PairTwoWays
    <3>2. ASSUME cd \in Between(ab) PROVE FALSE
      <4>1. Between(cd) = Between(ab)
        BY <3>1, <3>2, PairTwoWays
      <4>2. proc[q].pair \in Between(cd)
        BY <2>1, <2>2, <3>1, PairTwoWays
      <4> QED BY <2>1, <4>1, <4>2
    <3> QED BY <3>1, <3>2
  <2> QED BY <2>2
<1>7. ASSUME NEW q \in Procs, q # p PROVE Shape(proc[q])'
  <2>1. proc'[q] = proc[q] /\ Shape(proc[q])
    BY <1>1, <1>7 DEF IInv, Good
  <2>2. CASE proc[q].at # "idle" /\ proc[q].kind \in {"accept", "decline"}
    <3>1. proc[q].id \in Ids /\ asked[proc[q].id] = 1
          /\ (proc[q].id \in Rows => follow[proc[q].id].pair = proc[q].pair)
      BY <2>1, <2>2 DEF Shape
    <3>2. proc[q].id \in Rows' => follow'[proc[q].id].pair = proc[q].pair
      BY <3>1
    <3>3. asked'[proc[q].id] = 1
      BY <3>1
    <3> QED BY <2>1, <3>1, <3>2, <3>3 DEF Shape
  <2>3. CASE ~(proc[q].at # "idle" /\ proc[q].kind \in {"accept", "decline"})
    BY <2>1, <2>3 DEF Shape
  <2> QED BY <2>2, <2>3
<1>8. ASSUME NEW q \in Procs, q # p PROVE Sees(proc[q])'
  <2>1. proc'[q] = proc[q] /\ Shape(proc[q]) /\ Sees(proc[q])
    BY <1>1, <1>8 DEF IInv, Good
  <2> DEFINE cd == proc[q].pair
  <2>2. CASE proc[q].at \in InPair
    <3>1. cd \in Pairs /\ cd \notin Between(ab) /\ Between(cd) \subseteq Pairs \ Between(ab)
      BY <1>3, <1>6, <1>8, <2>2
    <3>2. Between(cd) \cap blocks' = Between(cd) \cap blocks
      BY <3>1
    <3>3. RowsOf(cd) = {} => RowsOf(cd)' = {}
      <4> SUFFICES ASSUME NEW i \in Rows', follow'[i].pair = cd PROVE i \in RowsOf(cd)
        BY <2>1 DEF RowsOf
      <4>1. i \in Ids
        BY DEF Rows
      <4> QED BY <1>5, <3>1, <4>1 DEF RowsOf
    <3>4. RowsBetween(cd) = {} => RowsBetween(cd)' = {}
      <4> SUFFICES ASSUME NEW i \in Rows', follow'[i].pair \in Between(cd)
                   PROVE  i \in RowsBetween(cd)
        BY <2>1 DEF RowsBetween, Between
      <4>1. i \in Ids
        BY DEF Rows
      <4> QED BY <1>5, <3>1, <4>1 DEF RowsBetween
    <3>5. proc[q].at = "resolve" => IsPending(proc[q].id)'
      <4> SUFFICES ASSUME proc[q].at = "resolve" PROVE IsPending(proc[q].id)'
        OBVIOUS
      <4>1. IsPending(proc[q].id) /\ proc[q].id \in Ids
        BY <2>1 DEF Sees, IsPending, Rows
      <4>2. follow[proc[q].id].pair = cd
        BY <2>1, <4>1 DEF Shape, IsPending
      <4> QED BY <1>5, <2>1, <3>1, <4>1, <4>2 DEF IsPending
    <3> QED BY <2>1, <3>2, <3>3, <3>4, <3>5 DEF Sees
  <2>3. CASE proc[q].at \notin InPair
    BY <2>1, <2>3 DEF Sees, InPair
  <2> QED BY <2>2, <2>3
<1>9. Good'
  <2> SUFFICES ASSUME NEW q \in Procs PROVE Shape(proc[q])' /\ Sees(proc[q])'
    BY DEF Good
  <2>1. CASE q = p
    BY <1>1, <1>2, <2>1 DEF Shape, Sees
  <2>2. CASE q # p
    BY <1>7, <1>8, <2>2
  <2> QED BY <2>1, <2>2
<1> QED BY <1>4, <1>9

LEMMA InItsPair ==
    ASSUME IInv, NEW p \in Procs, proc[p].at \in InPair
    PROVE  proc[p].pair \in Pairs /\ Shape(proc[p]) /\ Sees(proc[p])
BY DEF IInv, Good, Shape, InPair

\* What InsertRequest writes.
LEMMA InsertWrites ==
    ASSUME IInv, NEW p \in Procs, NEW new \in Ids, InsertRequest(p, new)
    PROVE  /\ new \notin Rows /\ answered[new] = 0
           /\ \A i \in Ids :
                 /\ i # new => follow'[i] = follow[i] /\ asked'[i] = asked[i]
                 /\ i = new => follow'[i] = [pair |-> proc[p].pair, status |-> "pending"]
                               /\ asked'[i] = 1
           /\ Rows' = Rows \cup {new}
           /\ RowsOf(proc[p].pair) = {} /\ Between(proc[p].pair) \cap blocks = {}
           /\ proc[p].pair \in Pairs /\ proc[p].pair[2] \notin disabled
<1>1. /\ asked[new] = 0 /\ proc[p].at = "insert"
      /\ follow' = [follow EXCEPT ![new] = [pair |-> proc[p].pair, status |-> "pending"]]
      /\ asked' = [asked EXCEPT ![new] = 1]
  BY DEF InsertRequest
<1>2. new \notin Rows /\ answered[new] = 0
  BY <1>1 DEF IInv, Counts
<1>3. proc[p].pair \in Pairs /\ Sees(proc[p])
  BY <1>1, InItsPair DEF InPair
<1>4. /\ RowsOf(proc[p].pair) = {} /\ Between(proc[p].pair) \cap blocks = {}
      /\ proc[p].pair[2] \notin disabled
  BY <1>1, <1>3 DEF Sees
<1>5. \A i \in Ids :
         /\ i # new => follow'[i] = follow[i] /\ asked'[i] = asked[i]
         /\ i = new => follow'[i] = [pair |-> proc[p].pair, status |-> "pending"]
                       /\ asked'[i] = 1
  BY <1>1 DEF IInv, TypeOK
<1>6. [pair |-> proc[p].pair, status |-> "pending"] # None
  BY <1>3, FollowsAssumption DEF FollowRow
<1>7. Rows' = Rows \cup {new}
  BY <1>5, <1>6 DEF Rows
<1> QED BY <1>2, <1>3, <1>4, <1>5, <1>7

LEMMA InsertKeeps ==
    ASSUME IInv, NEW p \in Procs, NEW new \in Ids, InsertRequest(p, new)
    PROVE  IInv'
<1> DEFINE ab  == proc[p].pair
           row == [pair |-> ab, status |-> "pending"]
<1>1. /\ new \notin Rows /\ answered[new] = 0
      /\ \A i \in Ids :
            /\ i # new => follow'[i] = follow[i] /\ asked'[i] = asked[i]
            /\ i = new => follow'[i] = row /\ asked'[i] = 1
      /\ Rows' = Rows \cup {new}
      /\ RowsOf(ab) = {} /\ Between(ab) \cap blocks = {} /\ ab \in Pairs
  BY InsertWrites
<1>2. row \in FollowRow /\ row.pair = ab /\ row.status = "pending"
  BY <1>1 DEF FollowRow
<1>3. /\ proc[p].at = "insert" /\ Done(p)
      /\ UNCHANGED <<blocks, disabled, answered>>
  BY DEF InsertRequest
<1>4. TypeOK'
  <2>1. proc' \in [Procs -> Request]
    BY <1>3, IdleRequest, GotoType DEF Done, IInv
  <2>2. follow' \in [Ids -> FollowRow \cup {None}] /\ asked' \in [Ids -> 0 .. 2]
    BY <1>2 DEF IInv, TypeOK, InsertRequest
  <2> QED BY <1>3, <2>1, <2>2 DEF IInv, TypeOK
<1> HIDE DEF row, ab
<1>5. Good' /\ OneInAPair'
  <2>1. proc[p].at \in InPair /\ ab = proc[p].pair
    BY <1>3 DEF InPair, ab
  <2>2. \A i \in Ids :
           \/ follow'[i] = follow[i]
           \/ /\ i \in Rows => follow[i].pair \in Between(ab)
              /\ i \in Rows' => follow'[i].pair \in Between(ab)
              /\ i \in Rows /\ i \in Rows' => follow'[i].pair = follow[i].pair
    BY <1>1, <1>2, PairTwoWays
  <2>3. \A i \in Ids : i \in Rows' /\ asked[i] = 1 => i \in Rows
    BY <1>1 DEF InsertRequest
  <2>4. \A i \in Ids : asked[i] = 1 => asked'[i] = 1
    BY <1>1
  <2> QED BY <1>1, <1>3, <1>4, <2>1, <2>2, <2>3, <2>4, CommitKeeps
<1>6. Counts'
  <2> SUFFICES ASSUME NEW i \in Ids
               PROVE  /\ asked'[i] <= 1 /\ answered'[i] <= 1
                      /\ i \in Rows' => asked'[i] = 1
                      /\ IsPending(i)' \/ asked'[i] = 0 => answered'[i] = 0
    BY DEF Counts
  <2>1. CASE i = new
    BY <1>1, <1>3, <2>1
  <2>2. CASE i # new
    <3>1. IsPending(i)' <=> IsPending(i)
      BY <1>1, <2>2 DEF IsPending
    <3> QED BY <1>1, <1>3, <2>2, <3>1 DEF IInv, Counts
  <2> QED BY <2>1, <2>2
<1>7. OneRowAPair'
  <2> SUFFICES ASSUME NEW i \in Rows', NEW j \in Rows', follow'[i].pair = follow'[j].pair
               PROVE  i = j
    BY DEF OneRowAPair
  <2>1. \A k \in Rows' : k # new => k \in Rows /\ k \in Ids /\ follow'[k] = follow[k]
    BY <1>1 DEF Rows
  <2>2. \A k \in Rows : follow[k].pair # ab
    BY <1>1 DEF RowsOf
  <2> QED BY <1>1, <1>2, <2>1, <2>2 DEF IInv, OneRowAPair
<1>8. NoFriendshipBesideABlock'
  <2> SUFFICES ASSUME NEW i \in Rows'
               PROVE  Between(follow'[i].pair) \cap blocks' = {}
    BY DEF NoFriendshipBesideABlock, Between
  <2>1. CASE i = new
    BY <1>1, <1>2, <1>3, <2>1
  <2>2. CASE i # new
    <3>1. i \in Rows /\ i \in Ids /\ follow'[i] = follow[i]
      BY <1>1, <2>2 DEF Rows
    <3> QED BY <1>3, <3>1 DEF IInv, NoFriendshipBesideABlock
  <2> QED BY <2>1, <2>2
<1> QED BY <1>4, <1>5, <1>6, <1>7, <1>8 DEF IInv

\* Rows of the pair go, with the block that is made or not.
LEMMA RowsGo ==
    ASSUME IInv, NEW p \in Procs, Done(p), proc[p].at \in InPair,
           NEW gone \in SUBSET Rows,
           \A i \in gone : follow[i].pair \in Between(proc[p].pair),
           follow' = [i \in Ids |-> IF i \in gone THEN None ELSE follow[i]],
           \/ blocks' = blocks
           \/ /\ blocks' = blocks \cup {proc[p].pair}
              /\ gone = RowsBetween(proc[p].pair),
           UNCHANGED <<disabled, asked, answered>>
    PROVE  IInv'
<1> DEFINE ab == proc[p].pair
<1>1. ab \in Pairs
  BY InItsPair
<1>2. TypeOK'
  <2>1. proc' \in [Procs -> Request]
    BY IdleRequest, GotoType DEF Done, IInv
  <2>2. follow' \in [Ids -> FollowRow \cup {None}] /\ blocks' \subseteq Pairs
    BY <1>1 DEF IInv, TypeOK
  <2> QED BY <2>1, <2>2 DEF IInv, TypeOK
<1>3. Rows' = Rows \ gone /\ \A i \in Rows' : i \in Ids /\ follow'[i] = follow[i]
  BY DEF Rows
<1>4. Good' /\ OneInAPair'
  <2>1. \A i \in Ids :
           \/ follow'[i] = follow[i]
           \/ /\ i \in Rows => follow[i].pair \in Between(ab)
              /\ i \in Rows' => follow'[i].pair \in Between(ab)
              /\ i \in Rows /\ i \in Rows' => follow'[i].pair = follow[i].pair
    BY <1>3
  <2>2. \A i \in Ids : i \in Rows' /\ asked[i] = 1 => i \in Rows
    BY <1>3
  <2>3. \A i \in Ids : asked[i] = 1 => asked'[i] = 1
    OBVIOUS
  <2>4. \A cd \in Pairs : cd \in Between(ab) \/ (cd \in blocks' <=> cd \in blocks)
    BY <1>1, PairTwoWays
  <2> QED BY <1>1, <1>2, <2>1, <2>2, <2>3, <2>4, CommitKeeps
<1>5. Counts'
  <2>1. \A i \in Ids : IsPending(i)' => IsPending(i)
    BY <1>3 DEF IsPending
  <2> QED BY <1>3, <2>1 DEF IInv, Counts
<1>6. OneRowAPair'
  BY <1>3 DEF IInv, OneRowAPair
<1>7. NoFriendshipBesideABlock'
  <2> SUFFICES ASSUME NEW i \in Rows'
               PROVE  Between(follow[i].pair) \cap blocks' = {}
    BY <1>3 DEF NoFriendshipBesideABlock, Between
  <2>1. i \in Rows /\ follow[i].pair \in Pairs
    BY <1>3, RowTypes DEF IInv
  <2>2. CASE blocks' = blocks
    BY <2>1, <2>2 DEF IInv, NoFriendshipBesideABlock
  <2>3. CASE blocks' = blocks \cup {ab} /\ gone = RowsBetween(ab)
    <3>1. follow[i].pair \notin Between(ab)
      BY <1>3, <2>1, <2>3 DEF RowsBetween
    <3>2. ab \notin Between(follow[i].pair)
      BY <1>1, <2>1, <3>1, PairTwoWays
    <3> QED BY <2>1, <2>3, <3>2 DEF IInv, NoFriendshipBesideABlock
  <2> QED BY <2>2, <2>3
<1> QED BY <1>2, <1>4, <1>5, <1>6, <1>7 DEF IInv

LEMMA DeleteKeeps ==
    ASSUME IInv, NEW p \in Procs, DeleteFollow(p) \/ CommitBlock(p)
    PROVE  IInv'
<1> DEFINE ab == proc[p].pair
<1>1. Done(p) /\ proc[p].at \in InPair /\ UNCHANGED <<disabled, asked, answered>>
  BY DEF DeleteFollow, CommitBlock, InPair
<1>2. ab \in Between(ab)
  BY <1>1, InItsPair, PairTwoWays
<1>3. CASE DeleteFollow(p)
  <2>1. RowsOf(ab) \in SUBSET Rows /\ \A i \in RowsOf(ab) : follow[i].pair \in Between(ab)
    BY <1>2 DEF RowsOf
  <2>2. follow' = [i \in Ids |-> IF i \in RowsOf(ab) THEN None ELSE follow[i]]
        /\ blocks' = blocks
    BY <1>3 DEF DeleteFollow
  <2> QED BY <1>1, <2>1, <2>2, RowsGo
<1>4. CASE CommitBlock(p)
  <2>1. RowsBetween(ab) \in SUBSET Rows
        /\ \A i \in RowsBetween(ab) : follow[i].pair \in Between(ab)
    BY DEF RowsBetween
  <2>2. /\ follow' = [i \in Ids |-> IF i \in RowsBetween(ab) THEN None ELSE follow[i]]
        /\ blocks' = blocks \/ blocks' = blocks \cup {ab}
    BY <1>4 DEF CommitBlock
  <2> QED BY <1>1, <2>1, <2>2, RowsGo
<1> QED BY <1>3, <1>4

\* What an answer writes: the row of the pending request, and nothing else.
LEMMA ResolveWrites ==
    ASSUME IInv, NEW p \in Procs, AcceptRequest(p) \/ DeclineRequest(p)
    PROVE  LET id  == proc[p].id
               ab  == proc[p].pair
               row == IF AcceptRequest(p) THEN [pair |-> ab, status |-> "accepted"] ELSE None
           IN  /\ id \in Ids /\ id \in Rows /\ ab \in Pairs /\ follow[id].pair = ab
               /\ follow[id].status = "pending"
               /\ answered[id] = 0 /\ row \in FollowRow \cup {None}
               /\ AcceptRequest(p) => row # None
               /\ follow' = [follow EXCEPT ![id] = row]
               /\ answered' = [answered EXCEPT ![id] = 1]
               /\ Rows' = IF AcceptRequest(p) THEN Rows ELSE Rows \ {id}
               /\ Done(p) /\ UNCHANGED <<blocks, disabled, asked>>
<1> DEFINE id  == proc[p].id
           ab  == proc[p].pair
           row == IF AcceptRequest(p) THEN [pair |-> ab, status |-> "accepted"] ELSE None
<1>1. proc[p].at = "resolve" /\ Resolved(p, row)
  BY DEF AcceptRequest, DeclineRequest
<1>2. ab \in Pairs /\ Shape(proc[p]) /\ Sees(proc[p])
  BY <1>1, InItsPair DEF InPair
<1>3. IsPending(id) /\ id \in Ids /\ id \in Rows /\ follow[id].status = "pending"
  BY <1>1, <1>2 DEF Sees, IsPending, Rows
<1>4. follow[id].pair = ab
  BY <1>1, <1>2, <1>3 DEF Shape, IInv, TypeOK, Request
<1>5. answered[id] = 0
  BY <1>3 DEF IInv, Counts
<1>6. row \in FollowRow \cup {None} /\ (AcceptRequest(p) => row # None)
  BY <1>2, FollowsAssumption DEF FollowRow
<1>7. /\ follow' = [follow EXCEPT ![id] = row]
      /\ answered' = [answered EXCEPT ![id] = 1]
      /\ Done(p) /\ UNCHANGED <<blocks, disabled, asked>>
  <2> HIDE DEF row
  <2> QED BY <1>1, <1>3, <1>5 DEF Resolved
<1>8. Rows' = IF AcceptRequest(p) THEN Rows ELSE Rows \ {id}
  <2>1. \A i \in Ids : follow'[i] = IF i = id THEN row ELSE follow[i]
    <3> HIDE DEF row, id
    <3> QED BY <1>7 DEF IInv, TypeOK
  <2>2. ~AcceptRequest(p) => row = None
    OBVIOUS
  <2> HIDE DEF row, id
  <2> QED BY <1>3, <1>6, <2>1, <2>2 DEF Rows
<1> QED BY <1>2, <1>3, <1>4, <1>5, <1>6, <1>7, <1>8

LEMMA ResolveKeeps ==
    ASSUME IInv, NEW p \in Procs, AcceptRequest(p) \/ DeclineRequest(p)
    PROVE  IInv'
<1> DEFINE id  == proc[p].id
           ab  == proc[p].pair
           row == IF AcceptRequest(p) THEN [pair |-> ab, status |-> "accepted"] ELSE None
<1>1. /\ id \in Ids /\ id \in Rows /\ ab \in Pairs /\ follow[id].pair = ab
      /\ answered[id] = 0 /\ row \in FollowRow \cup {None}
      /\ follow' = [follow EXCEPT ![id] = row]
      /\ answered' = [answered EXCEPT ![id] = 1]
      /\ Done(p) /\ UNCHANGED <<blocks, disabled, asked>>
  BY ResolveWrites
<1>2. row # None => row.pair = ab /\ row.status = "accepted"
  OBVIOUS
<1>3. proc[p].at \in InPair
  BY DEF AcceptRequest, DeclineRequest, InPair
<1> HIDE DEF row, id
<1>4. \A i \in Ids : /\ follow'[i] = IF i = id THEN row ELSE follow[i]
                     /\ answered'[i] = IF i = id THEN 1 ELSE answered[i]
  BY <1>1 DEF IInv, TypeOK
<1>5. TypeOK'
  <2>1. proc' \in [Procs -> Request]
    BY <1>1, IdleRequest, GotoType DEF Done, IInv
  <2>2. follow' \in [Ids -> FollowRow \cup {None}] /\ answered' \in [Ids -> 0 .. 2]
    BY <1>1 DEF IInv, TypeOK
  <2> QED BY <1>1, <2>1, <2>2 DEF IInv, TypeOK
<1>6. \A i \in Rows' : i \in Rows /\ i \in Ids /\ follow'[i].pair = follow[i].pair
  BY <1>1, <1>2, <1>4 DEF Rows
<1>7. Good' /\ OneInAPair'
  <2>1. \A i \in Ids :
           \/ follow'[i] = follow[i]
           \/ /\ i \in Rows => follow[i].pair \in Between(ab)
              /\ i \in Rows' => follow'[i].pair \in Between(ab)
              /\ i \in Rows /\ i \in Rows' => follow'[i].pair = follow[i].pair
    BY <1>1, <1>4, <1>6, PairTwoWays
  <2>2. \A i \in Ids : i \in Rows' /\ asked[i] = 1 => i \in Rows
    BY <1>6
  <2>3. \A i \in Ids : asked[i] = 1 => asked'[i] = 1
    BY <1>1
  <2>4. \A cd \in Pairs : cd \in Between(ab) \/ (cd \in blocks' <=> cd \in blocks)
    BY <1>1
  <2> QED BY <1>1, <1>3, <1>5, <2>1, <2>2, <2>3, <2>4, CommitKeeps
<1>8. Counts'
  <2>1. \A i \in Ids : i # id /\ IsPending(i)' => IsPending(i)
    BY <1>4, <1>6 DEF IsPending
  <2>2. \A i \in Ids : i = id => ~IsPending(i)'
    BY <1>1, <1>2, <1>4 DEF IsPending, Rows
  <2>3. \A i \in Ids : i \in Rows' => i \in Rows
    BY <1>6
  <2>4. asked[id] = 1
    BY <1>1 DEF IInv, Counts
  <2> QED BY <1>1, <1>4, <2>1, <2>2, <2>3, <2>4 DEF IInv, Counts
<1>9. OneRowAPair'
  BY <1>6 DEF IInv, OneRowAPair
<1>10. NoFriendshipBesideABlock'
  BY <1>1, <1>6 DEF IInv, NoFriendshipBesideABlock, Between
<1> QED BY <1>5, <1>7, <1>8, <1>9, <1>10 DEF IInv

\* A block goes: it takes nothing from what the others have seen.
LEMMA DeleteBlockKeeps == ASSUME IInv, NEW p \in Procs, DeleteBlock(p) PROVE IInv'
<1>1. /\ UNCHANGED <<follow, asked, answered, disabled>> /\ blocks' \subseteq blocks
      /\ Goto(p, Idle)
  BY DEF DeleteBlock, Done
<1>2. \A q \in Procs : proc'[q] = IF q = p THEN Idle ELSE proc[q]
  BY <1>1, GotoIs DEF IInv
<1>3. Rows' = Rows /\ (\A ab : RowsOf(ab)' = RowsOf(ab) /\ RowsBetween(ab)' = RowsBetween(ab))
      /\ (\A i : IsPending(i)' = IsPending(i))
  BY <1>1 DEF Rows, RowsOf, RowsBetween, IsPending
<1>4. TypeOK'
  BY <1>1, IdleRequest, GotoType DEF IInv, TypeOK
<1>5. OneInAPair'
  BY <1>2, IdleRequest DEF IInv, OneInAPair, InPair
<1>6. Counts' /\ OneRowAPair' /\ NoFriendshipBesideABlock'
  BY <1>1, <1>3 DEF IInv, Counts, OneRowAPair, NoFriendshipBesideABlock
<1>7. Good'
  <2> SUFFICES ASSUME NEW q \in Procs PROVE Shape(proc[q])' /\ Sees(proc[q])'
    BY DEF Good
  <2>1. CASE q = p
    BY <1>2, <2>1, IdleRequest DEF Shape, Sees
  <2>2. CASE q # p
    <3>1. Shape(proc[q]) /\ Sees(proc[q]) /\ proc'[q] = proc[q]
      BY <1>2, <2>2 DEF IInv, Good
    <3> QED BY <1>1, <1>3, <3>1 DEF Shape, Sees
  <2> QED BY <2>1, <2>2
<1> QED BY <1>4, <1>5, <1>6, <1>7 DEF IInv

\* An account is disabled or enabled: a follow that has looked keeps its
\* followee from it.
LEMMA SwitchKeeps ==
    ASSUME IInv, NEW a \in People, SetDisabled(a) \/ SetEnabled(a)
    PROVE  IInv'
<1>1. /\ UNCHANGED <<follow, blocks, asked, answered, proc>>
      /\ disabled' \subseteq People
      /\ \A b \in disabled' : b \in disabled \/ NotShared(b)
  BY DEF SetDisabled, SetEnabled, IInv, TypeOK
<1>2. Rows' = Rows /\ (\A ab : RowsOf(ab)' = RowsOf(ab) /\ RowsBetween(ab)' = RowsBetween(ab))
      /\ (\A i : IsPending(i)' = IsPending(i))
  BY <1>1 DEF Rows, RowsOf, RowsBetween, IsPending
<1>3. TypeOK' /\ OneInAPair'
  BY <1>1 DEF IInv, TypeOK, OneInAPair
<1>4. Counts' /\ OneRowAPair' /\ NoFriendshipBesideABlock'
  BY <1>1, <1>2 DEF IInv, Counts, OneRowAPair, NoFriendshipBesideABlock
<1>5. Good'
  <2> SUFFICES ASSUME NEW q \in Procs PROVE Shape(proc[q])' /\ Sees(proc[q])'
    BY DEF Good
  <2>1. Shape(proc[q]) /\ Sees(proc[q])
    BY DEF IInv, Good
  <2>2. proc[q].at \in {"status", "insert"} => proc[q].pair[2] \notin disabled'
    BY <1>1, <2>1 DEF Sees, NotShared
  <2> QED BY <1>1, <1>2, <2>1, <2>2 DEF Shape, Sees
<1> QED BY <1>3, <1>4, <1>5 DEF IInv

LEMMA StepKeeps == IInv /\ [Next]_vars => IInv'
<1> SUFFICES ASSUME IInv, [Next]_vars PROVE IInv'
  OBVIOUS
<1>1. CASE UNCHANGED vars
  <2>1. Rows' = Rows /\ (\A ab : RowsOf(ab)' = RowsOf(ab) /\ RowsBetween(ab)' = RowsBetween(ab))
        /\ (\A i : IsPending(i)' = IsPending(i))
    BY <1>1 DEF vars, Rows, RowsOf, RowsBetween, IsPending
  <2>2. Good'
    BY <1>1, <2>1 DEF vars, IInv, Good, Shape, Sees
  <2> QED BY <1>1, <2>1, <2>2 DEF vars, IInv, TypeOK, Counts, OneInAPair, OneRowAPair,
                                  NoFriendshipBesideABlock
<1>2. ASSUME NEW p \in Procs, Step(p) PROVE IInv'
  <2>1. CASE \/ \E ab \in Pairs :
                    Follow(p, ab) \/ Unfollow(p, ab) \/ Block(p, ab) \/ Unblock(p, ab)
             \/ \E i \in Ids : Answer(p, "accept", i) \/ Answer(p, "decline", i)
    BY <2>1, ArrivalKeeps
  <2>2. CASE TakePair(p)
    BY <2>2, TakePairKeeps
  <2>3. CASE ShareFollowee(p) \/ CheckBlocked(p) \/ CheckStatus(p) \/ ReadAgain(p)
    BY <2>3, StatementKeeps
  <2>4. CASE InsertBlock(p)
    BY <2>4, InsertBlockKeeps
  <2>5. CASE \E new \in Ids : InsertRequest(p, new)
    BY <2>5, InsertKeeps
  <2>6. CASE DeleteFollow(p) \/ CommitBlock(p)
    BY <2>6, DeleteKeeps
  <2>7. CASE AcceptRequest(p) \/ DeclineRequest(p)
    BY <2>7, ResolveKeeps
  <2>8. CASE DeleteBlock(p)
    BY <2>8, DeleteBlockKeeps
  <2> QED BY <1>2, <2>1, <2>2, <2>3, <2>4, <2>5, <2>6, <2>7, <2>8 DEF Step
<1>3. CASE \E a \in People : SetDisabled(a) \/ SetEnabled(a)
  BY <1>3, SwitchKeeps
<1> QED BY <1>1, <1>2, <1>3 DEF Next

LEMMA InitHolds == Init => IInv
<1> SUFFICES ASSUME Init PROVE IInv
  OBVIOUS
<1>1. Rows = {} /\ \A p \in Procs : proc[p] = Idle
  BY DEF Init, Rows
<1>2. TypeOK
  BY IdleRequest DEF Init, TypeOK
<1>3. Counts
  BY <1>1 DEF Init, Counts, IsPending
<1>4. Good /\ OneInAPair
  BY <1>1, IdleRequest DEF Good, OneInAPair, InPair
<1> QED BY <1>1, <1>2, <1>3, <1>4 DEF IInv, OneRowAPair, NoFriendshipBesideABlock

-----------------------------------------------------------------------------
(* The theorems.                                                           *)

\* The invariant that the others rest on holds in every state.
THEOREM Invariance == Spec => []IInv
BY InitHolds, StepKeeps, PTL DEF Spec

\* Every variable keeps its type.
THEOREM TypeCorrect == Spec => []TypeOK
<1>1. IInv => TypeOK
  BY DEF IInv
<1> QED BY <1>1, Invariance, PTL

\* The insert of Follow never meets a row of the two people.
THEOREM RowsAreUnique == Spec => []OneRowAPair
<1>1. IInv => OneRowAPair
  BY DEF IInv
<1> QED BY <1>1, Invariance, PTL

\* No follow and no request ever stands beside a block, however the requests of
\* however many people run together.
THEOREM BlocksHold == Spec => []NoFriendshipBesideABlock
<1>1. IInv => NoFriendshipBesideABlock
  BY DEF IInv
<1> QED BY <1>1, Invariance, PTL

\* The followee is told of a request once, however often the follow is sent.
THEOREM AskedOnce == Spec => []RequestNotifiesOnce
<1>1. IInv => RequestNotifiesOnce
  BY DEF IInv, Counts, RequestNotifiesOnce
<1> QED BY <1>1, Invariance, PTL

\* Of the answers to a request that race each other, one is told it was done.
THEOREM OnceEach == Spec => []AnsweredOnce
<1>1. IInv => AnsweredOnce
  BY DEF IInv, Counts, AnsweredOnce
<1> QED BY <1>1, Invariance, PTL

-----------------------------------------------------------------------------
(* Follows implements Friends.                                             *)

LEMMA SamePairs ==
    /\ F!Pairs = Pairs
    /\ \A ab : F!Between(ab) = Between(ab)
BY DEF F!Pairs, F!Between, F!Back, Pairs, Between

\* What the rows of a pair come to.
LEMMA RelationIs ==
    ASSUME IInv, NEW ab \in Pairs
    PROVE  /\ RowsOf(ab) = {} => Relation[ab] = "none"
           /\ \A i \in RowsOf(ab) :
                 Relation[ab] = IF follow[i].status = "accepted" THEN "following"
                                                                 ELSE "requested"
<1>1. \A i, j \in RowsOf(ab) : i = j
  BY DEF RowsOf, IInv, OneRowAPair
<1> QED BY <1>1 DEF Relation

\* And after a step that keeps the invariant.
LEMMA RelationWillBe ==
    ASSUME IInv', NEW ab \in Pairs
    PROVE  /\ RowsOf(ab)' = {} => Relation'[ab] = "none"
           /\ \A i \in RowsOf(ab)' :
                 Relation'[ab] = IF follow'[i].status = "accepted" THEN "following"
                                                                   ELSE "requested"
<1>1. \A i, j \in RowsOf(ab)' : i = j
  BY DEF RowsOf, IInv, OneRowAPair
<1> QED BY <1>1 DEF Relation, RowsOf, Rows

\* A pair whose rows a step leaves alone keeps its relation.
LEMMA RelationStays ==
    ASSUME NEW ab \in Pairs,
           \A i \in Ids : (i \in Rows /\ follow[i].pair = ab) \/ (i \in Rows' /\ follow'[i].pair = ab)
                             => follow'[i] = follow[i]
    PROVE  Relation'[ab] = Relation[ab]
<1>1. RowsOf(ab)' = RowsOf(ab) /\ \A i \in RowsOf(ab) : follow'[i] = follow[i]
  BY DEF RowsOf, Rows
<1> QED BY <1>1 DEF Relation

LEMMA AskMaps ==
    ASSUME IInv, IInv', NEW p \in Procs, NEW new \in Ids, InsertRequest(p, new)
    PROVE  F!Ask(proc[p].pair)
<1> DEFINE ab == proc[p].pair
<1>1. /\ new \notin Rows
      /\ \A i \in Ids :
            /\ i # new => follow'[i] = follow[i]
            /\ i = new => follow'[i] = [pair |-> ab, status |-> "pending"]
      /\ Rows' = Rows \cup {new}
      /\ RowsOf(ab) = {} /\ Between(ab) \cap blocks = {} /\ ab \in Pairs
      /\ ab[2] \notin disabled
  BY InsertWrites
<1>2. UNCHANGED <<blocks, disabled>>
  BY DEF InsertRequest
<1>3. ASSUME NEW cd \in Pairs
      PROVE  Relation'[cd] = IF cd = ab THEN "requested" ELSE Relation[cd]
  <2>1. CASE cd = ab
    <3>1. \A i \in Ids : i = new => i \in {j \in Rows' : follow'[j].pair = cd}
      BY <1>1, <2>1
    <3>2. \A i \in Ids : i = new => i \in RowsOf(cd)' /\ follow'[i].status = "pending"
      BY <1>1, <3>1 DEF RowsOf
    <3> QED BY <2>1, <3>2, RelationWillBe
  <2>2. CASE cd # ab
    BY <1>1, <2>2, RelationStays
  <2> QED BY <2>1, <2>2
<1>4. Relation[ab] = "none"
  BY <1>1, RelationIs
<1>5. Relation' = [Relation EXCEPT ![ab] = "requested"]
  BY <1>1, <1>3 DEF Relation
<1> QED BY <1>1, <1>2, <1>4, <1>5, SamePairs DEF F!Ask

\* Where the rows of some pairs go, and no other row changes.
LEMMA RowsGone ==
    ASSUME IInv, IInv', NEW gone \in SUBSET Rows, NEW ends \in SUBSET Pairs,
           \A i \in Ids : follow'[i] = IF i \in gone THEN None ELSE follow[i],
           \A i \in Rows : i \in gone <=> follow[i].pair \in ends
    PROVE  Relation' = [cd \in Pairs |-> IF cd \in ends THEN "none" ELSE Relation[cd]]
<1>1. Rows' = Rows \ gone
  BY DEF Rows
<1>2. ASSUME NEW cd \in Pairs
      PROVE  Relation'[cd] = IF cd \in ends THEN "none" ELSE Relation[cd]
  <2>1. CASE cd \in ends
    <3>1. \A i \in Rows' : follow'[i].pair # cd
      BY <1>1, <2>1 DEF Rows
    <3>2. RowsOf(cd)' = {}
      BY <3>1 DEF RowsOf
    <3> QED BY <2>1, <3>2, RelationWillBe
  <2>2. CASE cd \notin ends
    BY <1>1, <2>2, RelationStays
  <2> QED BY <2>1, <2>2
<1> QED BY <1>2 DEF Relation

LEMMA EndMaps ==
    ASSUME IInv, IInv', NEW p \in Procs, DeleteFollow(p) \/ DeclineRequest(p)
    PROVE  proc[p].pair \in Pairs /\ F!End(proc[p].pair)
<1> DEFINE ab == proc[p].pair
<1>1. ab \in Pairs /\ UNCHANGED <<blocks, disabled>>
  <2>1. proc[p].at \in InPair
    BY DEF DeleteFollow, DeclineRequest, InPair
  <2> QED BY <2>1, InItsPair DEF DeleteFollow, DeclineRequest, Resolved
<1>2. \A i \in Ids : follow'[i] = IF i \in RowsOf(ab) THEN None ELSE follow[i]
  <2>1. CASE DeleteFollow(p)
    BY <2>1 DEF DeleteFollow
  <2>2. CASE DeclineRequest(p)
    <3>1. ~AcceptRequest(p)
      BY <2>2 DEF AcceptRequest, DeclineRequest
    <3>2. /\ proc[p].id \in Rows /\ follow[proc[p].id].pair = ab
          /\ follow' = [follow EXCEPT ![proc[p].id] = None]
      BY <2>2, <3>1, ResolveWrites
    <3>3. RowsOf(ab) = {proc[p].id}
      BY <3>2 DEF RowsOf, IInv, OneRowAPair
    <3> QED BY <3>2, <3>3 DEF IInv, TypeOK
  <2> QED BY <2>1, <2>2
<1>3. RowsOf(ab) \in SUBSET Rows /\ \A i \in Rows : i \in RowsOf(ab) <=> follow[i].pair \in {ab}
  BY DEF RowsOf
<1>4. Relation' = [cd \in Pairs |-> IF cd \in {ab} THEN "none" ELSE Relation[cd]]
  <2>1. {ab} \in SUBSET Pairs
    BY <1>1
  <2> HIDE DEF ab
  <2> QED BY <1>2, <1>3, <2>1, RowsGone
<1>5. Relation' = [Relation EXCEPT ![ab] = "none"]
  BY <1>4 DEF Relation
<1> QED BY <1>1, <1>5 DEF F!End

LEMMA AcceptMaps ==
    ASSUME IInv, IInv', NEW p \in Procs, AcceptRequest(p)
    PROVE  F!Accept(proc[p].pair)
<1> DEFINE ab == proc[p].pair
           id == proc[p].id
           row == [pair |-> ab, status |-> "accepted"]
<1>1. /\ id \in Ids /\ id \in Rows /\ ab \in Pairs /\ follow[id].pair = ab
      /\ follow[id].status = "pending"
      /\ follow' = [follow EXCEPT ![id] = row]
      /\ Rows' = Rows /\ UNCHANGED <<blocks, disabled>>
  BY ResolveWrites
<1> HIDE DEF id
<1>2. \A i \in Ids : follow'[i] = IF i = id THEN row ELSE follow[i]
  BY <1>1 DEF IInv, TypeOK
<1>3. ASSUME NEW cd \in Pairs
      PROVE  Relation'[cd] = IF cd = ab THEN "following" ELSE Relation[cd]
  <2>1. CASE cd = ab
    <3>1. \A i \in Ids : i = id => i \in RowsOf(cd)' /\ follow'[i].status = "accepted"
      BY <1>1, <1>2, <2>1 DEF RowsOf
    <3> QED BY <1>1, <2>1, <3>1, RelationWillBe
  <2>2. CASE cd # ab
    BY <1>1, <1>2, <2>2, RelationStays
  <2> QED BY <2>1, <2>2
<1>4. Relation[ab] = "requested"
  BY <1>1, RelationIs DEF RowsOf
<1>5. Relation' = [Relation EXCEPT ![ab] = "following"]
  BY <1>1, <1>3 DEF Relation
<1> QED BY <1>1, <1>4, <1>5, SamePairs DEF F!Accept

\* A block that meets a row of the same block has nothing left to end.
LEMMA BlockMaps ==
    ASSUME IInv, IInv', NEW p \in Procs, CommitBlock(p)
    PROVE  /\ proc[p].pair \in Pairs
           /\ F!Block(proc[p].pair) \/ UNCHANGED <<Relation, blocks, disabled>>
<1> DEFINE ab == proc[p].pair
<1>1. ab \in Pairs /\ Sees(proc[p]) /\ proc[p].at = "clear" /\ disabled' = disabled
  <2>1. proc[p].at \in InPair
    BY DEF CommitBlock, InPair
  <2> QED BY <2>1, InItsPair DEF CommitBlock
<1>2. follow' = [i \in Ids |-> IF i \in RowsBetween(ab) THEN None ELSE follow[i]]
  BY DEF CommitBlock
<1>3. CASE proc[p].adds
  <2>1. blocks' = blocks \cup {ab}
    BY <1>3 DEF CommitBlock
  <2>2. /\ RowsBetween(ab) \in SUBSET Rows /\ Between(ab) \in SUBSET Pairs
        /\ \A i \in Rows : i \in RowsBetween(ab) <=> follow[i].pair \in Between(ab)
    BY <1>1, PairTwoWays DEF RowsBetween
  <2>3. Relation' = [cd \in Pairs |-> IF cd \in Between(ab) THEN "none" ELSE Relation[cd]]
    BY <1>2, <2>2, RowsGone
  <2> QED BY <1>1, <2>1, <2>3, SamePairs DEF F!Block
<1>4. CASE ~proc[p].adds
  <2>1. RowsBetween(ab) = {} /\ blocks' = blocks
    BY <1>1, <1>4 DEF Sees, CommitBlock
  <2>2. follow' = follow
    BY <1>2, <2>1 DEF IInv, TypeOK
  <2> QED BY <1>1, <2>1, <2>2 DEF Relation, RowsOf, Rows
<1> QED BY <1>1, <1>3, <1>4

LEMMA StepMaps == IInv /\ IInv' /\ [Next]_vars => [F!Next]_(F!vars)
<1> SUFFICES ASSUME IInv, IInv', [Next]_vars
             PROVE  F!Next \/ UNCHANGED <<Relation, blocks, disabled>>
  BY DEF F!vars
<1>1. ASSUME UNCHANGED follow PROVE UNCHANGED Relation
  BY <1>1 DEF Relation, RowsOf, Rows
<1>2. CASE UNCHANGED vars
  BY <1>1, <1>2 DEF vars
<1>3. ASSUME NEW p \in Procs, Step(p)
      PROVE  F!Next \/ UNCHANGED <<Relation, blocks, disabled>>
  <2>1. CASE \/ \E ab \in Pairs :
                    Follow(p, ab) \/ Unfollow(p, ab) \/ Block(p, ab) \/ Unblock(p, ab)
             \/ \E i \in Ids : Answer(p, "accept", i) \/ Answer(p, "decline", i)
             \/ TakePair(p) \/ ShareFollowee(p) \/ CheckBlocked(p) \/ CheckStatus(p)
             \/ ReadAgain(p) \/ InsertBlock(p)
    <3>1. UNCHANGED <<follow, blocks, disabled>>
      BY <2>1 DEF Follow, Unfollow, Block, Unblock, Answer, TakePair, ShareFollowee, CheckBlocked,
                  CheckStatus, ReadAgain, InsertBlock
    <3> QED BY <1>1, <3>1
  <2>2. CASE DeleteBlock(p)
    <3>1. proc[p].pair \in Pairs
      BY <2>2 DEF DeleteBlock, IInv, Good, Shape
    <3>2. F!Unblock(proc[p].pair)
      BY <1>1, <2>2 DEF DeleteBlock, F!Unblock
    <3> QED BY <3>1, <3>2, SamePairs DEF F!Next
  <2>3. CASE \E new \in Ids : InsertRequest(p, new)
    <3>1. proc[p].pair \in Pairs /\ F!Ask(proc[p].pair)
      BY <2>3, AskMaps, InsertWrites
    <3> QED BY <3>1, SamePairs DEF F!Next
  <2>4. CASE DeleteFollow(p) \/ DeclineRequest(p)
    <3>1. proc[p].pair \in Pairs /\ F!End(proc[p].pair)
      BY <2>4, EndMaps
    <3> QED BY <3>1, SamePairs DEF F!Next
  <2>5. CASE AcceptRequest(p)
    <3>1. proc[p].pair \in Pairs /\ F!Accept(proc[p].pair)
      BY <2>5, AcceptMaps, ResolveWrites
    <3> QED BY <3>1, SamePairs DEF F!Next
  <2>6. CASE CommitBlock(p)
    <3>1. /\ proc[p].pair \in Pairs
          /\ F!Block(proc[p].pair) \/ UNCHANGED <<Relation, blocks, disabled>>
      BY <2>6, BlockMaps
    <3> QED BY <3>1, SamePairs DEF F!Next
  <2> QED BY <1>3, <2>1, <2>2, <2>3, <2>4, <2>5, <2>6 DEF Step
<1>4. ASSUME NEW a \in People, SetDisabled(a) \/ SetEnabled(a) PROVE F!Next
  <2>1. F!SetDisabled(a)
    BY <1>1, <1>4 DEF SetDisabled, SetEnabled, F!SetDisabled
  <2> QED BY <2>1 DEF F!Next
<1> QED BY <1>2, <1>3, <1>4 DEF Next

\* What every request does, statement by statement, is what Friends allows.
THEOREM FollowsIsFriends == Spec => ImplementsFriends
<1>1. Init => F!Init
  <2> SUFFICES ASSUME Init PROVE F!Init
    OBVIOUS
  <2>1. \A ab \in Pairs : RowsOf(ab) = {}
    BY DEF Init, RowsOf, Rows
  <2>2. Relation = [ab \in Pairs |-> "none"]
    BY <2>1 DEF Relation
  <2> QED BY <2>2, SamePairs DEF Init, F!Init
<1> QED BY <1>1, StepMaps, Invariance, PTL DEF Spec, ImplementsFriends, F!Spec
=============================================================================
