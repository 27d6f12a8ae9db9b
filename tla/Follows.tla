------------------------------ MODULE Follows ------------------------------
(***************************************************************************)
(* Follow requests, follows and blocks (social.Service, SocialRepo), with  *)
(* an admin's disable of one of the two.                                   *)
(*                                                                         *)
(* A request is a process that runs its SQL one statement at a time under  *)
(* READ COMMITTED, as in Sessions.  Writes about two people are made in    *)
(* transactions that first take an advisory lock on the pair.  Writes are  *)
(* seen at the commit, which lets the locks go.  A last statement that can *)
(* wait for nothing more is one step with its commit.                      *)
(*                                                                         *)
(* Left out: lists and searches, mutes, reports, the settings, accounts    *)
(* with no name or username yet, deleted accounts, what becomes of a push  *)
(* once it is asked for, and BecamePublic, which no route calls.           *)
(***************************************************************************)
EXTENDS Integers

CONSTANTS
    People,
    Ids,        \* bound: the requests ever made, by the id of their row
    Procs,      \* the requests of the phones that may run at once
    Kinds,      \* the kinds they may be
    None        \* no row, nobody

Pairs == {ab \in People \X People : ab[1] # ab[2]}

Between(ab) == {ab, <<ab[2], ab[1]>>}

FollowRow == [pair : Pairs, status : {"pending", "accepted"}]

ASSUME FollowsAssumption ==
    /\ None \notin Pairs \cup Ids \cup FollowRow
    /\ Kinds \subseteq {"follow", "unfollow", "accept", "decline", "block",
                        "unblock", "disable", "enable"}

VARIABLES
    follow,     \* table follows: id to row, None where there is none
    blocks,     \* table blocks: the pairs <<blocker, blocked>>
    disabled,   \* the accounts with users.disabled_at set
    asked,      \* how often FollowRequested was called for the request
    answered,   \* how often Accept or Decline answered it as done
    proc        \* the requests of the phones

vars == <<follow, blocks, disabled, asked, answered, proc>>

\* `pair` is the follower and the followee, or the blocker and the blocked;
\* `adds`, that the insert into blocks met no row.
Idle == [kind |-> "none", at |-> "idle", pair |-> None, id |-> None,
         adds |-> FALSE]

Rows         == {i \in Ids : follow[i] # None}
RowsOf(ab)   == {i \in Rows : follow[i].pair = ab}
IsPending(i) == i \in Rows /\ follow[i].status = "pending"

\* blockedEither.
BlockedEither(ab) == Between(ab) \cap blocks # {} \/ {ab[1], ab[2]} \cap disabled # {}

Goto(p, r) == proc' = [proc EXCEPT ![p] = r]
Done(p)    == Goto(p, Idle)

Begin(kind, at, ab, i) ==
    [Idle EXCEPT !.kind = kind, !.at = at, !.pair = ab, !.id = i]

-----------------------------------------------------------------------------
(* Locks.                                                                  *)

InPair == {"share", "blocked", "status", "insert", "delete", "block", "clear",
           "again", "resolve"}

\* Mutant: nobody takes the lock on the pair.
NoPairLock(p) == TRUE

\* pairLock: one transaction at a time about two people, whichever way.
PairFree(p) ==
    \A q \in Procs \ {p} :
        proc[q].at \in InPair => proc[q].pair \notin Between(proc[p].pair)

\* Mutant: Follow reads the followee without FOR SHARE.
NobodyShares(a) == TRUE

\* A follow past its FOR SHARE keeps the followee's row of users from changing.
NotShared(a) ==
    \A q \in Procs : proc[q].at \in {"blocked", "status", "insert"} => proc[q].pair[2] # a

-----------------------------------------------------------------------------
(* Requests that begin.  RequireUser has refused a disabled caller.        *)

Arrives(p, kind, a) == proc[p] = Idle /\ kind \in Kinds /\ a \notin disabled

Follow(p, ab) ==
    /\ Arrives(p, "follow", ab[1])
    /\ Goto(p, Begin("follow", "pair", ab, None))
    /\ UNCHANGED <<follow, blocks, disabled, asked, answered>>

\* The follower's Unfollow, and the followee's RemoveFollower.
Unfollow(p, ab) ==
    /\ \E a \in {ab[1], ab[2]} : Arrives(p, "unfollow", a)
    /\ Goto(p, Begin("unfollow", "pair", ab, None))
    /\ UNCHANGED <<follow, blocks, disabled, asked, answered>>

Block(p, ab) ==
    /\ Arrives(p, "block", ab[1])
    /\ Goto(p, Begin("block", "pair", ab, None))
    /\ UNCHANGED <<follow, blocks, disabled, asked, answered>>

\* resolveRequest finds the follower by a read outside the transaction.
Answer(p, kind, i) ==
    /\ IsPending(i)
    /\ Arrives(p, kind, follow[i].pair[2])
    /\ Goto(p, Begin(kind, "pair", follow[i].pair, i))
    /\ UNCHANGED <<follow, blocks, disabled, asked, answered>>

Unblock(p, ab) ==
    /\ Arrives(p, "unblock", ab[1])
    /\ Goto(p, Begin("unblock", "unblock", ab, None))
    /\ UNCHANGED <<follow, blocks, disabled, asked, answered>>

\* From the admin pages.
SetDisabled(a) ==
    /\ "disable" \in Kinds
    /\ NotShared(a)
    /\ disabled' = disabled \cup {a}
    /\ UNCHANGED <<follow, blocks, asked, answered, proc>>

SetEnabled(a) ==
    /\ "enable" \in Kinds
    /\ NotShared(a)
    /\ disabled' = disabled \ {a}
    /\ UNCHANGED <<follow, blocks, asked, answered, proc>>

-----------------------------------------------------------------------------
(* Statements.                                                             *)

FirstStatement ==
    [follow |-> "share", unfollow |-> "delete", block |-> "block",
     accept |-> "again", decline |-> "again"]

TakePair(p) ==
    /\ proc[p].at = "pair"
    /\ PairFree(p)
    /\ Goto(p, [proc[p] EXCEPT !.at = FirstStatement[proc[p].kind]])
    /\ UNCHANGED <<follow, blocks, disabled, asked, answered>>

\* Follow, statement by statement: FOR SHARE, the block, the row there is.
ShareFollowee(p) ==
    /\ proc[p].at = "share"
    /\ Goto(p, [proc[p] EXCEPT !.at = "blocked"])
    /\ UNCHANGED <<follow, blocks, disabled, asked, answered>>

CheckBlocked(p) ==
    /\ proc[p].at = "blocked"
    /\ IF BlockedEither(proc[p].pair)
       THEN Done(p)
       ELSE Goto(p, [proc[p] EXCEPT !.at = "status"])
    /\ UNCHANGED <<follow, blocks, disabled, asked, answered>>

\* Mutant: a repeat notifies as well.
RepeatNotifies(ab) ==
    asked' = [i \in Ids |-> IF i \in RowsOf(ab) THEN asked[i] + 1 ELSE asked[i]]

\* The row there is answers the call, and nobody is notified.
RepeatIsSilent(ab) == asked' = asked

CheckStatus(p) ==
    /\ proc[p].at = "status"
    /\ IF RowsOf(proc[p].pair) # {}
       THEN Done(p) /\ RepeatIsSilent(proc[p].pair)
       ELSE Goto(p, [proc[p] EXCEPT !.at = "insert"]) /\ UNCHANGED asked
    /\ UNCHANGED <<follow, blocks, disabled, answered>>

\* Insert and commit; then FollowRequested.
InsertRequest(p, new) ==
    /\ proc[p].at = "insert"
    /\ asked[new] = 0
    /\ follow' = [follow EXCEPT ![new] =
                     [pair |-> proc[p].pair, status |-> "pending"]]
    /\ asked' = [asked EXCEPT ![new] = 1]
    /\ Done(p)
    /\ UNCHANGED <<blocks, disabled, answered>>

DeleteFollow(p) ==
    /\ proc[p].at = "delete"
    /\ follow' = [i \in Ids |-> IF i \in RowsOf(proc[p].pair) THEN None ELSE follow[i]]
    /\ Done(p)
    /\ UNCHANGED <<blocks, disabled, asked, answered>>

\* Mutant: the read before the lock is trusted.
StillThere(i) == TRUE

\* Accept and Decline read the request again under the lock.
StillPending(i) == IsPending(i)

ReadAgain(p) ==
    /\ proc[p].at = "again"
    /\ IF StillPending(proc[p].id)
       THEN Goto(p, [proc[p] EXCEPT !.at = "resolve"])
       ELSE Done(p)
    /\ UNCHANGED <<follow, blocks, disabled, asked, answered>>

Resolved(p, row) ==
    /\ follow' = IF IsPending(proc[p].id)
                 THEN [follow EXCEPT ![proc[p].id] = row]
                 ELSE follow
    /\ answered' = [answered EXCEPT ![proc[p].id] = IF @ = 0 THEN 1 ELSE 2]
    /\ Done(p)
    /\ UNCHANGED <<blocks, disabled, asked>>

\* update ... where status = 'pending', commit; then FollowAccepted.
AcceptRequest(p) ==
    /\ proc[p].at = "resolve" /\ proc[p].kind = "accept"
    /\ Resolved(p, [pair |-> proc[p].pair, status |-> "accepted"])

\* delete ... where status = 'pending', commit.
DeclineRequest(p) ==
    /\ proc[p].at = "resolve" /\ proc[p].kind = "decline"
    /\ Resolved(p, None)

\* insert into blocks ... on conflict do nothing: seen only at the commit.
InsertBlock(p) ==
    /\ proc[p].at = "block"
    /\ Goto(p, [proc[p] EXCEPT !.at = "clear", !.adds = proc[p].pair \notin blocks])
    /\ UNCHANGED <<follow, blocks, disabled, asked, answered>>

\* Mutant: a block ends only the blocker's own follow.
OwnRow(ab) == RowsOf(ab)

RowsBetween(ab) == {i \in Rows : follow[i].pair \in Between(ab)}

CommitBlock(p) ==
    /\ proc[p].at = "clear"
    /\ blocks' = IF proc[p].adds THEN blocks \cup {proc[p].pair} ELSE blocks
    /\ follow' = [i \in Ids |-> IF i \in RowsBetween(proc[p].pair) THEN None ELSE follow[i]]
    /\ Done(p)
    /\ UNCHANGED <<disabled, asked, answered>>

\* Outside the lock on the pair.
DeleteBlock(p) ==
    /\ proc[p].at = "unblock"
    /\ blocks' = blocks \ {proc[p].pair}
    /\ Done(p)
    /\ UNCHANGED <<follow, disabled, asked, answered>>

-----------------------------------------------------------------------------

Init ==
    /\ follow = [i \in Ids |-> None]
    /\ blocks = {}
    /\ disabled = {}
    /\ asked = [i \in Ids |-> 0]
    /\ answered = [i \in Ids |-> 0]
    /\ proc = [p \in Procs |-> Idle]

Step(p) ==
    \/ \E ab \in Pairs : Follow(p, ab) \/ Unfollow(p, ab) \/ Block(p, ab) \/ Unblock(p, ab)
    \/ \E i \in Ids : Answer(p, "accept", i) \/ Answer(p, "decline", i)
    \/ TakePair(p) \/ ShareFollowee(p) \/ CheckBlocked(p) \/ CheckStatus(p)
    \/ \E new \in Ids : InsertRequest(p, new)
    \/ DeleteFollow(p) \/ ReadAgain(p) \/ AcceptRequest(p) \/ DeclineRequest(p)
    \/ InsertBlock(p) \/ CommitBlock(p) \/ DeleteBlock(p)

Next ==
    \/ \E p \in Procs : Step(p)
    \/ \E a \in People : SetDisabled(a) \/ SetEnabled(a)

Spec == Init /\ [][Next]_vars

-----------------------------------------------------------------------------
(* Type correctness.                                                       *)

Request ==
    [kind : {"none", "follow", "unfollow", "accept", "decline", "block",
             "unblock"},
     at   : InPair \cup {"idle", "pair", "unblock"},
     pair : Pairs \cup {None},
     id   : Ids \cup {None},
     adds : BOOLEAN]

TypeOK ==
    /\ follow \in [Ids -> FollowRow \cup {None}]
    /\ blocks \subseteq Pairs
    /\ disabled \subseteq People
    /\ asked \in [Ids -> 0 .. 2]
    /\ answered \in [Ids -> 0 .. 2]
    /\ proc \in [Procs -> Request]

-----------------------------------------------------------------------------
(* Safety.                                                                 *)

\* Two people have at most one row each way: the insert of Follow never meets
\* follows_pair_unique, whatever runs beside it.
OneRowAPair ==
    \A i, j \in Rows : follow[i].pair = follow[j].pair => i = j

\* No follow and no request stands beside a block between the two: neither a
\* follow that looked before the block, nor an accept that read the request
\* before its transaction, writes one after it.
NoFriendshipBesideABlock ==
    \A i \in Rows : Between(follow[i].pair) \cap blocks = {}

\* A request notifies once: a repeat, or the same request sent twice at once,
\* does not (Service.Follow).
RequestNotifiesOnce == \A i \in Ids : asked[i] <= 1

\* A request is answered once: of two taps on Accept or Decline, from two
\* phones or two lists drawn before, one is done and the other not found, so
\* the follower hears of one Accept at most (resolveRequest).
AnsweredOnce == \A i \in Ids : answered[i] <= 1

-----------------------------------------------------------------------------
(* Follows implements Friends: every commit is one of its steps.           *)

Relation ==
    [ab \in Pairs |->
        IF RowsOf(ab) = {} THEN "none"
        ELSE IF \E i \in RowsOf(ab) : follow[i].status = "accepted"
             THEN "following" ELSE "requested"]

F == INSTANCE Friends WITH friend <- Relation

\* In particular nobody comes to ask somebody an admin has disabled, although
\* the two checks of Follow are made before its insert.
ImplementsFriends == F!Spec
=============================================================================
