# TLA+ for RNDMRoll

RNDMRoll is a phone app (Expo, TypeScript) with a Go API over PostgreSQL. Once a
day, at 8:00 PM in the person's own time zone, a wheel opens; the person spins
it, logs the meal it names, and so unlocks what friends posted that day. Enough
posted days in a week earn one bonus spin.

This directory holds TLA+ modules of the parts of that system where order, time
and concurrency decide whether it is right; TLC checks them on small instances
and TLAPS proves the main invariants for every value of their constants.

    tlc -config MCDailySpinTravel.cfg MCDailySpin.tla      # a run of the daily spin
    tlc -config MCSessions.cfg MCSessions.tla              # the sessions and push tokens
    tlc -config MCResets.cfg MCPasswordReset.tla           # the reset codes
    tlapm DailySpinProofs.tla                              # proofs
    tlc -config MCFollows.cfg MCFollows.tla                # follows and blocks
    tlc -config PhoneSession.cfg PhoneSession.tla          # the session on a phone
    tlc -config MCPhone.cfg MCPhone.tla                    # every other part of a phone
    tlapm PasswordResetProofs.tla
    tlapm FollowsProofs.tla
    tlapm SessionsProofs.tla
    tlapm PhoneTokenProofs.tla                             # the tokens of a phone: 15 minutes
    tlapm PhoneSessionProofs.tla                           # and its session: 9 minutes
    tlapm PhonePagesProofs.tla                             # the other parts, each by itself: 17 minutes
    tlapm MCPhoneProofs.tla                                # and together, as the run asks it

PROJECT.json lists the components, runs, mutants (a plausible bug for each
property that the run then catches), the source lines of each definition, the
hazards and the theorems.

## 1. Inventory

### Server (Go)

| Component | State | Operations | What makes it correct |
|---|---|---|---|
| Spin window (`internal/spin/window.go`, `week.go`, `date.go`, `zone.go`) | none (pure) | `LocalDate`, `WindowFor`, `NextOpen`, `PrevDate`, `WeekStart` | a window is found on the wall clock of the zone, over clock changes |
| Daily spin (`internal/spin/service.go`, `entry_service.go`, `spin_repo.go`, `entry_repo.go`) | `user_time_zones`, `user_spin_state`, `spins`, `posted_days`, `goal_weeks`, `entries` | `Spin`, `Bonus`, `PostEntry`, `EditEntry`, `SkipDay`, `DeleteEntry`, archive, `SetTimeZone`, test tools | two daily spins 12 hours apart; a settled day stays settled; the purse balances; a retry gets its answer |
| Today screen (`internal/spin/model.go`) | none (read in one transaction) | `BuildToday` | what the screen offers the operations accept; the countdown ends at an opening |
| Board facts (`internal/spin/board_facts.go`) | none | `BoardFacts`, `DayInPlay` | Board and Today speak of one day |
| Wheel (`wheel.go`, `pick.go`, `SaveWheel`) | `categories`, `wheel_version` | `SaveWheel`, `Pick`, `PickOther` | a stale version is refused; a category named by a spin keeps its row; at most 500 rows |
| Sessions (`internal/auth/refresh.go`, `refresh_token_repo.go`, `user_repo.go`, `admin_repo.go`) | `refresh_tokens`, `users.disabled_at` | log in, refresh, log out, change password, disable | one live token a session; an ended session stays ended |
| Password resets (`password_reset_repo.go`) | `password_resets` | issue, try, spend | tries are bounded; a replaced code is not spent |
| Push tokens (`push_repo.go`) | `push_tokens` | save, delete, list | a phone's token follows its session and goes with it |
| Push sending (`internal/push`) | none | comment, follow request, accept | nobody is told what they may not see |
| Follows (`internal/social`, `social_repo.go`) | `follows`, `blocks`, `mutes`, settings | follow, accept, decline, remove, block | no friendship beside a block; a request is resolved once |
| Board (`internal/board`, `board_repo.go`) | `post_reactions`, `post_comments` | list, read, react, comment, reply, hide, delete | the list and the single post follow one visibility rule |
| Notifications, Diary (`internal/notifications`, `internal/diary`) | `seen_at` | list, mark seen, page, streak | pages neither repeat nor skip an entry |
| Photo storage (`internal/storage`) | an object store | presign, delete | a key belongs to one entry or comment |
| Request limits (`internal/middleware/ratelimit.go`) | a table of buckets in memory | `Allow` | dropping a bucket frees nobody who is limited |
| Admin, HTTP, mail, config, `cmd/api` | none of their own | decode, validate, map errors, wire | left out: input and output |
| Clock (`internal/clock`) | a shift per person (test tools) | `NowFor` | read once in a transaction |

### Phone (TypeScript)

| Component | State | Operations | What makes it correct |
|---|---|---|---|
| Session store, API client (`lib/session/store.ts`, `lib/api/client.ts`) | tokens in memory and in the keychain, a count of sign ins, kept log outs | sign in, refresh, sign out, restore, drain, request and retry | one refresh at a time; an old answer never becomes the new session; a rotated token is never sent again |
| Push token (`lib/notifications/pushToken.ts`) | the last registration, calls on their way | register, unregister, late delete | a live session keeps its pushes |
| Today (`lib/wheel/useToday.ts`, `todayStore.ts`, `TodayScreen.tsx`) | the last answer and its anchor, a queue, timers | load, spin, skip, land, refetch | an older answer never replaces a newer one; nothing is told before the wheel lands |
| The disc (`Wheel.tsx`, `geometry.ts`) and the editor (`WheelEditor.tsx`) | an angle and a phase; rows, version, a sheet | turn, land; add, rename, remove, save, leave | it lands on the winner; no edit is lost unasked |
| Board, posts, comments (`components/board`) | days, a post, a draft, hidden rows | load, page, comment, reply, hide, delete, report | what is shown is what was read last; a draft is sent once, and kept until it was |
| Entries and the diary (`components/entry`, `components/diary`) | a draft with photos, pages | pick, save, edit, archive, delete, page | a file is uploaded once; a list has no holes |
| Profile, sign up (`ProfileForm.tsx`, `lib/profile`) | boxes, the check of the username | type, check, suggest, save | a verdict is about the name that stands there |
| People, requests, bell (`components/people`, `components/notifications`, `NotificationsScreen.tsx`) | lists, buttons, a dot | search, follow, accept, block, mark seen | a button says what a tap will do |
| Reminder and settings (`reminder.ts`, `components/settings`) | scheduled evenings, switches, notices | rebuild, toggle, put back, change password | an evening rings once, and only when the switch is on |
| Start-up, log in, forgotten password (`app`) | the door, the tap, the step | restore, log in, open, send, reset | a tap opens one page; every spinner ends |

### How they interact

The phone calls the HTTP handlers; each handler calls one service; the service
of the daily spin runs each call in one transaction that holds the person's
`user_spin_state` row. The Board asks `BoardFacts` for the viewer's day and
`social` for what the viewer may see. Comments and follows tell `push` after
they commit, outside the transaction. Sessions stand beside all of it: each
request carries an access token, and the refresh token behind it is rotated,
revoked and followed by the push token of the phone.

### What is hard here

* **Time.** A person changes zone at any moment: local dates repeat or are
  skipped, an evening comes again an hour later, and midnight and 8:00 PM of one
  date are computed in whatever zone is stored now. Clock changes move openings.
* **Stale requests.** A screen hours old, a second phone and a retry after a
  lost answer all send dates and spin numbers that are no longer the latest.
* **Interleaving in the database.** Outside the daily spin, requests run as
  single statements or short READ COMMITTED transactions with row locks
  (sessions, push tokens, resets, follows, comments).
* **Answers that cross, on the phone.** Everything between two awaits is one step,
  but between them anything runs: another tap, a log out, a newer read, a page
  that is left. An answer may be lost, come late, or come after a newer one.
* **Best effort.** Push, mail and the object store may lose or repeat a call.

The hazards are listed one by one, with their lines, in PROJECT.json.

## 2. The modules

### ZoneWindow

Pure operators for `window.go` and `week.go`. The unit is the hour, so the
product's own numbers (20, 12, 24, 7) are kept. A zone is an offset before and an
offset after one clock change. `FirstAtOrAfter` is the walk of `firstAtOrAfter`
over the periods of a zone: a local time that a forward change jumps over is
reached at the change, one that a backward change repeats is its first pass.

### DailySpin

| Variable | Code |
|---|---|
| `now` | what `clock.NowFor` returns to the next transaction |
| `zone` | `user_time_zones.tz_name` |
| `spins` | table `spins` by date and `seq`; 0 is the daily spin |
| `posted` | table `posted_days` |
| `goalWeeks` | table `goal_weeks` (`bonus_granted`) |
| `bonusHeld` | `user_spin_state.bonus_held` |
| `entries` | table `entries`, the spin each belongs to |
| `othersGone` | dates whose daily spin has no other category left in `wheel_categories` |

`Service.run` opens one transaction, locks the person's state row, reads zone and
clock once and commits everything or nothing, so each operation is one action.
For each operation an `...Answer` operator gives the server's answer with the
checks in the order of the code; the action is the answer `made`, the others
write nothing. `MarkPosted` is `markPostedIn`, with the goal week and the grant
it makes. Dates and numbers in requests are arbitrary: that is what a stale
screen, a second phone or a retry sends.

A bonus spin draws a category other than the daily spin's from the wheel of that
day, of the categories that still have a row. `SaveWheel` is what a save of the
wheel does to that: at the cap of 500 rows it deletes the archived categories that
no spin names (`spin_repo.go:282`), and so may leave a day none. `PickOther` then
finds nothing, the spend is rolled back and the bonus refused (`no_other`,
`service.go:494`).

Left out: which category is drawn, photo lists, editing and archiving.

### TodayScreen

State functions of DailySpin for `todayIn`, `BuildToday` and `BoardFacts`: the
state of the screen, what it offers, the countdown, the Board's day, and the
Board's action. `TodayOffersHold` says that what is offered is taken, with one
exception in the code: the bonus is offered without a look at the wheel, and
refused with `no_other` on a day whose other categories are deleted. They read
all their state in the same transaction as the operations do, so they need no
variables of their own.

### Sessions

The refresh tokens of accounts and the push tokens tied to them, as the SQL of
`refresh_token_repo.go`, `user_repo.go` (`changePassword`), `admin_repo.go`
(`SetDisabled`) and `push_repo.go` writes them.

| Variable | Code |
|---|---|
| `token` | `refresh_tokens`: account, `revoked_at is null`, `rotated_to`, `created_at` |
| `push` | `push_tokens`: account, `refresh_token_id` |
| `disabled` | `users.disabled_at` is set |
| `proc` | the requests in flight: the statement each is at, the rows it holds |

Here the order of statements is the whole question, so a request is a process
and a statement is a step. A transaction is READ COMMITTED: `Select` is what a
statement sees when it starts, `TakeRow` locks those rows one by one in the
order of their ids, waiting for a row somebody else holds (`Blockers`) and
looking at it again once it has it (`StillSelected`), and the commit makes the
writes visible and lets the rows go. `exc` are rows held for update or for no
key update, `shr` rows held for share; key shares conflict with neither and are
left out. A read before the transaction (`GetActiveByHash`, the middleware's
look at the account, the password) is the step in which the request arrives.

`created_at` is the start of the transaction that inserts the row, which is not
the order in which rows become visible; a row therefore carries `older`, the
tokens whose transaction had begun before its own. `session`, `from` and `seen`
serve the properties only: no guard reads them.

Left out: expiry, digests, access tokens that name no session, a statement that
fails, and the Forgot password code. The loop of three turns in `SaveToken`
guards against a row deleted between its insert and its select; both are the
one step `HoldPhone` here.

### PasswordReset

The Forgot password code of one account, with processes and statements as in
Sessions, for `password_reset.go`, `password_reset_repo.go` and the part of
`SetDisabled` that deletes the code.

| Variable | Code |
|---|---|
| `code` | the account's row of `password_resets`, with the code it replaced |
| `disabled` | `users.disabled_at` is set |
| `now` | the clock of the handler, read before a statement waits |
| `proc` | the requests in flight |

`StartIssue` is what the statement of `Issue` reads as it starts (the account,
without a lock), `Issue` its insert or update once nobody holds the row. A try
and a delete also read when they start and look again when they have the row;
`CommitDelete` tells the statements that wait that their row is gone (`sees`).
`GiveUp` is a request that fails or is given up at any statement: its
transaction is rolled back. The password itself is not kept: nobody reads it
here, and the sessions that a change ends are in Sessions.

Left out: the answers and their timing, the email, rate limits, and two codes
drawn alike.

### Friends and Follows

`Friends` is what the feature promises: asking, accepting, ending, blocking and
unblocking are one step each; nobody asks across a block or asks somebody
disabled, and a block ends what there is between two people, both ways.

`Follows` is the code of `social.Service` and `social_repo.go`, statement by
statement as in Sessions.

| Variable | Code |
|---|---|
| `follow` | table `follows` by id: the pair and the status |
| `blocks` | table `blocks` |
| `disabled` | the accounts with `users.disabled_at` set |
| `asked`, `answered` | how often `FollowRequested` was called for a request, and how often an answer to it was done |
| `proc` | the requests in flight: the statement each is at, and what it carries |

`TakePair` is `pairLock`: one transaction at a time about two people, whichever
of them is first. `ShareFollowee`, `CheckBlocked`, `CheckStatus` and
`InsertRequest` are the four statements of `Follow`; the followee's row, held
for share, keeps `SetDisabled` waiting (`NotShared`), the follower's is not held.
`Answer` is the read of `resolveRequest` outside its transaction, `ReadAgain` the
one under the lock. `InsertBlock` decides whether there is a row to insert
(`adds`), and the row is seen at `CommitBlock`. `DeleteBlock` is one statement
with no lock: a block that met the row it deletes adds none.

A step of Follows that commits is a step of Friends, under the mapping
`Relation`: what the rows of a pair come to, as `Follow` reads them. All others
are stutters, and so is the commit of a block that met its own row: by then
nothing is left between the two.

Left out: mutes, settings, lists and searches, reports, deleted accounts, people
with no name or username yet, what becomes of a push, requests that are given up
(their transaction is rolled back before it has written), and `BecamePublic`:
`service.go:217` says the profile route calls it, but no route does, since every
account acts as private.

### PhoneSession

The session one phone keeps: `store.ts` but for the kept log outs, and the part
of `client.ts` that sends, refreshes and retries. Each function is a process
stopped at its awaits; a step is what runs between two of them.

| Variable | Code |
|---|---|
| `mem`, `kc`, `unsaved` | the tokens in memory, the keychain's refresh token, the tokens a refresh could not write |
| `epoch`, `inPlace`, `writing`, `ending`, `inFlight`, `status` | `signInEpoch`, `sessionEpoch`, `signInWriting`, `ending`, the refresh that runs, what the screens see |
| `sign`, `rf`, `en`, `req`, `rs`, `sv` | the sign ins, refreshes, log outs, requests, the restore and `saveUnsaved`, each with the await it is at |
| `alive`, `gen` | the sessions the server knows, and the newest pair of tokens of each |
| `reused`, `excused`, `dropped`, `asked` | for the properties: the sessions whose old token came again, those where the phone could not help it (an answer was lost, or the app closed before the keychain had the new token), those whose new tokens a refresh dropped because a sign in began in its last steps, those the person logged out of |

The server is one step a call: a refresh rotates, a token that comes a second
time ends its session (`RotateRefreshToken`; Sessions has its statements). An
answer may be lost after it took effect. The keychain serves calls in order and
may refuse any write.

Requests that wait in `getAccessToken` for a sign in go out in the step that ends it
(`EndSign`): the promise they await is settled there, with the tokens the sign in
leaves. A request that goes out later than the sign in is a request of its own.

`SignedOutForCause` says that a step which takes the tokens from the phone ends a
session the person logged out of or the server no longer knows: of the memory while
somebody is signed in, of the stored refresh token at any time. `NoReuse` is what the
code keeps, `RotatedIsKept` what its comment promises: they differ by `dropped` (see
`rotated_kept` below). `OneSession` is about a signed in phone: while nobody is signed
in, what a sign in that failed left in the keychain stays there until the next launch
finds it refused.

### The parts of a phone

Each of these modules is a screen or a background part with the server it talks
to: the server's side is one step a request, as small as the properties allow,
and other phones and people act on it at any time. Requests are sent, served,
and answered or lost in three steps, so answers cross in every way. `MCPhone`
explores them one beside the other: a behaviour is a behaviour of one part. The
parts share no state, so they take the same variables `v1`, `v2`, ... by turns, in
the order each module declares its own; a state then holds one part and no more.

| Module | Code | What it is checked for |
|---|---|---|
| PhonePush | `pushToken.ts`, kept log outs of `store.ts` | a live session keeps the phone's pushes; each kept log out is sent and forgotten |
| PhoneToday | `useToday.ts`, `todayStore.ts`, `TodayScreen.tsx` | the newest day is shown; held back while the wheel turns; loads, turns and zeros end |
| PhoneDisc | `Wheel.tsx`, `geometry.ts` | lands upright on the winner after whole turns, reported once |
| PhoneWheel | `WheelEditor.tsx`, `SaveWheel` | edits are left on purpose only; a save is over rows that were seen; rows of spins stay |
| PhoneBoard | `useBoard.ts`, `BoardScreen.tsx` | the first page is the newest asked for; pages follow |
| PhonePost | `usePost.ts`, `PostView.tsx`, comment bar of `Comments.tsx`, `photo.ts` | the newest read stays; a comment is in its place; a draft goes only with the end of its bar's own send (which may take more than it sent, see the run `comment_bar`); one upload a photo |
| PhoneComments | rows of `Comments.tsx` | Hide stands over a read that was asked for before it |
| PhoneEntry | `log.tsx`, `EditEntryScreen.tsx`, `useEntryDraft.ts`, `useCreateEntry.ts`, `useUpdateEntry.ts` | what is saved is what is on screen; nothing is left behind unasked; one upload a file, one way back |
| PhoneDiary | `useDiary.ts`, `PostsFeed.tsx`, `useEntryMenu.ts` | the list has no hole and is the newest |
| PhoneEntryPage | `useEntry.ts`, `EntryView.tsx` | the newest read stays; a deed leaves the page once |
| PhoneProfile | `ProfileForm.tsx` | a verdict is about the name in the box; a typed name is never replaced; one upload |
| PhoneBirthday | `birthday.ts`, `internal/user/birthdate.go` | the phone and the server agree on who may sign up, for every date, zone and hour in between |
| PhoneReset | `forgot-password.tsx` | one request at a time; no code is called wrong or used while a reset given up on since the last code was sent has set the password |
| PhoneReminder | `reminder.ts`, its switch | at rest the plan is what the switch says; no evening twice |
| PhoneSwitches | `NotificationSettingsScreen.tsx`, `UpdateSettings` | a saved switch shows what is stored |
| PhoneSearch | `SearchScreen.tsx` | what is found is for what is typed; buttons are true |
| PhonePeople, PhonePerson, PhoneRequests, PhoneBell | `PeopleScreen.tsx`, `PersonScreen.tsx`, `FollowRequestsScreen.tsx`, rows of `NotificationsScreen.tsx` | lists and buttons catch up with the server after a deed; a grid is in order |
| PhoneInbox | `unreadStore.ts`, `NotificationsScreen.tsx` | the dot means unread; the dots of a list stay while it is read |
| PhoneLaunch | `_layout.tsx`, `login.tsx`, `push.ts` | the splash ends; a tap opens one page; the extras are not skipped |
| PhoneSettings | `ArchiveScreen.tsx`, `BlockedAccountsScreen.tsx`, `PasswordScreen.tsx`, `notice.ts` | a row put back stays gone; a notice stays its time |
| PhoneFigures | `useProfileSummary.ts` | the newest figures stay |

`PhoneBonds` holds what two people are to each other, and what the server makes
of a follow, an accept or a block, for the five pages that show it.

Left out of them: layout, motion, wording, the checks of a text beyond right or
wrong, lists longer than the pages need, and the parts of a screen that only
draw.

## 3. The runs

| Run | Asks | Bounds |
|---|---|---|
| `travel` | `SpinsTwelveHoursApart`, `TodayOffersHold`, `CountdownIsAnOpening`, `BoardAgrees`, `RetryIsAnswered`, `SettledForGood` | offsets 0, -10, +9; 10:00 and 20:00 of three dates; any change of zone at any time; saves of a full wheel take the other categories of one day at most; goal 2 |
| `week` | `TypeOK`, `BonusBalance`, `GoalWeeksExact`, `TablesAgree`, `ClosedUntilCountdown` | one zone whose clock goes forward in the night of a late window; noon and 20:00 of four dates over the end of a week; two of them markable by the test tools; goal 2 |
| `sessions` | `TypeOK`, `SessionHasOneLiveToken`, `NoWaitCycle`, `PushOnCurrentToken`, `EndedStaysEnded`, `RevokeEndsTheSession`, `RefreshInFlightDies`, `LiveSessionKeepsPhone` | two instances beside each other: one account with two sessions, two new tokens, three requests at once (refresh, log out, password change); and two accounts with a session each, one new token, two requests at once of every kind; one phone |
| `resets` | `TypeOK`, `NoWaitCycle`, `OnlyTheNewestCode`, `GuessesAreNeverGivenBack`, `CodeStandsForAMinute` | three requests of every kind, three codes, two tries, four instants; a code lives for two |
| `follows` | `TypeOK`, `OneRowAPair`, `NoFriendshipBesideABlock`, `RequestNotifiesOnce`, `AnsweredOnce`, `ImplementsFriends` | two people, three requests to follow ever made, three requests of every kind at once |
| `phone_session` | `NoReuse`, `OneSession`, `Settles`, `SignedOutForCause` | the session of a launch and one more sign in; three events more (requests, 401 answers, failing keychain calls, returns to the front, closes) |
| `phone_parts` | `LiveSessionKeepsPush`, `ShownAtRest`, `DoneOnce`, `NewestKept`, `GoesByRule`, `WaitsEnd` | each part in the bounds that MCPhone.cfg gives it |
| `disabled_code` | `DisabledHasNoCode`: violated | as `resets` |
| `board_log` | `LogIsForTheBoardDay`: violated | as `travel` |
| `countdown` | `ClosedUntilCountdown`: violated | as `travel` |
| `rotated_kept` | `RotatedIsKept`: violated | PhoneSession with one sign in and six events, in the behaviours where that sign in fails and nothing else disturbs the session (`OneSignInFails`, `Undisturbed`) |
| `comment_bar` | `ClearsWhenTaken`: violated | PhonePost with the bounds it has in `phone_parts` |

Why the bounds are enough: an operation looks at today, the date before, the
last daily spin and the week of the date it names. Three evenings hold a spin,
its late window and the next spin; -10 and +9 are far enough apart for a date to
come twice and for two evenings to fall within 12 hours. Four dates over a
Sunday hold two weeks of two days each, so with a goal of two the second week can
be reached while the bonus of the first is held, and spent in between.

Sessions: the hard cases need a refresh in flight, the request that ends the
session, and a third that comes between. `MaxReuseSteps` is 1 instead of 50, so
that a chain of two refreshes passes the limit. Ids are uuids, so the ids of
`Owner` are put below, between and above the new ones: rows are locked in id
order, which has nothing to do with the order they were made in. Requests are
interchangeable, so they are a symmetry set.

PasswordReset: a code in the row, the one it replaced and one in flight are
three codes; two tries let one be spent and one be left; a request may read its
clock three instants before its statement gets the row.

Follows: the lock and every statement name one pair of people, so two people,
with both directions between them, hold every conflict; three rows let one be
ended and asked for again while one the other way stands; three requests are the
follow, what comes between its statements, and what undoes it. People, rows and
requests are interchangeable and so symmetry sets. The theorems say the same of
any number of each.

The phone: a part needs two requests of a kind for answers to cross, one lost
answer, one change from elsewhere, and the taps between them; the bounds in MCPhone.cfg
count these. Most parts allow one fault, one change by others and two to five
taps. PhoneBirthday takes every birthday of three years around two days before
28 February, common and leap, and the zones furthest apart. A full turn is 12
units, so wheels of 2 and 3 have whole angles. For each part several other plausible
bugs are written beside the code (the operators marked "mutant"), and each breaks a
property within these bounds; one needs more room, `ForgetLast` of PhonePush, which
two events in place of one let TLC find.

The six properties of `phone_parts` gather one kind of promise each over the
parts; what each part contributes is named for it, with the code it is about, in
the part's own module. Two of them promise less than one would wish, because the
code does:

* `ShownAtRest`: on the follow lists, a person's page, the requests, the bell and its
  rows, the buttons of a search, the archive and the Board's further pages an answer
  asked for before a change can come after it and stay until the next read. The
  formulas of these parts say what holds when none came so late; the history
  variables `overtaken`, `personLate`, `late`, `bellLate`, `dotCrossed`, `mixed`,
  `putBackCrossed` and `crossed` mark the behaviours where one did. Section 5 lists
  them.
* `GoesByRule`: what is typed goes only in the ways the parts name. It does not say
  that nothing typed is ever lost: more typed after a comment was sent is
  (`comment_bar`), and so is what is typed in the boxes of the profile, the wheel and
  the password while their save runs.

PhonePush has one event (`MaxEvents`) in the run, so a log out whose call is lost and
a close of the app do not come in one behaviour there; `PushStays` covers them, with
no bound on the events. In PhoneSession `asked` only grows, so a session the person
once logged out of excuses every later loss of its tokens in `SignedOutForCause`.

Deadlock is not checked: in the daily spin time stops at the last instant of an
instance, and in Sessions the requests of an instance come to an end when its
ids do. PasswordReset and Follows never stop. That no requests wait on each
other for ever is `NoWaitCycle` of Sessions and PasswordReset; in Follows a
request waits for the lock on one pair only, and a disable takes none.

`RefreshInFlightDies` is about the refreshes a password change or a disable
finds in flight, and about one refresh of each session. It does not say that no
session at all is live afterwards: a log in whose password was right a moment
earlier may insert its token later, and the refresh of a session that a
refresh made between the two revokes is not waited for by anyone. The code
promises neither.

### What the violations show

* `disabled_code`: a code asked for while a disable runs is inserted after the
  disable has deleted what there was. The account is disabled and has a code. It
  is of no use while the account is disabled (`OnlyTheNewestCode`), but it is for
  the rest of its 30 minutes if the account is enabled again.

* `board_log`: after a first spin made in the morning the Board is still on the
  evening before, yet its action is to log the spin of today, and the phone adds
  that posting now would count as late.
* `countdown`: after a flight west the 12 hours can end after 8:00 PM of a date
  that has no spin; the wheel opens then, while the countdown runs on to the next
  8:00 PM. In a single zone (`week`) the two agree, across the clock change too.

* `rotated_kept`: a refresh whose answer came reads the keychain once more; someone
  signs in just then; the refresh answers null and its new tokens are dropped
  (`store.ts:703`). The sign in then fails at its first keychain write, so the
  session from before is still in place, with a refresh token that the server has
  replaced: the next refresh sends it, and the server ends the session. The
  comment at the wait above (`store.ts:682`) promises those tokens to the session
  in place, but waits only for a sign in that began before.

* `comment_bar`: a text is typed and sent, more is typed while the comment is on its
  way, the answer says saved, and the box is emptied (`Comments.tsx:465`): what was
  typed meanwhile is gone, and the server never had it. The comment above the bar
  (`Comments.tsx:336`) says it "clears only when the server took it". What does hold
  is `DraftKept`: the text goes with the end of the bar's own send and in no other
  way, and a send that fails leaves it.

In PhoneSession and the parts of a phone a bounded instance ends when the person
has nothing left to do.

### Fairness

The server side is checked for safety alone: the daily spin is driven by a person,
who may stop, and a request may be given up at any statement.

On the phone weak fairness is assumed of what the phone's own machinery carries
on: a request is served and answered, or fails when the client's 10-second timer
(`client.ts`) ends it; an upload, a keychain write and a call of the notification
library come to an end; a timer that was set fires; a page that is due is drawn.
It is assumed of these together (`LiveSpec` of each module), except where one of
them can repeat for ever beside another (the drain of kept log outs, the time
that passes on Today, the notice's timer), which then has fairness of its own. Of
the person, of other people and of other phones nothing is assumed, nor that
any request succeeds: a failure is an answer.

## 4. The proofs

### DailySpinProofs

`DailySpinProofs` proves, for all zones, instants, finite sets of dates and
numbers, and any goal from 1 to 7:

* `TypeCorrect`, `TablesAlwaysAgree`, `AlwaysTwelveHoursApart`,
  `SettledIsForGood`, `PurseBalances`, `GoalWeeksAreExact`, `RetriesAreAnswered`.

The inductive invariant is `IInv == TypeOK /\ SpinShape /\ TablesAgree`.
`TablesAgree` is not inductive without `SpinShape`: a date has at most its daily
spin and one bonus spin, and the bonus spin never stands alone. Each action has
a step of its own; posting, skipping and the bonus rest on lemmas about `Put`,
about the maximum of the numbers of a date and about rebuilding `DayAgrees` from
the rows that changed. `AlwaysTwelveHoursApart` adds the 12 hours to it: a new
daily spin is tried against those there are (`GapAllowsSpin`). `PurseBalances`
needs a second invariant, `PurseInv`, and the cardinality theorems of finite
sets: a granted week adds one paid week, a bonus spin one spun one.
`GoalWeeksAreExact` adds to `IInv` that a week is recorded exactly when it has its
goal of posted days; a posted day changes the count of its own week alone.
`RetriesAreAnswered` rests on what the answer "already" means (`AlreadyMeans`: the
date's spin, or one after the number that was named, is in the table) and on that
no operation takes a spin out of the table (`SpinsStand`).

Of TodayScreen it proves, for all zones, instants and dates and over any change of
the clock that `ClockChangesAssumption` allows: `OffersAlwaysHold`,
`BoardAlwaysAgrees`, `CountdownAlwaysEndsAtAnOpening`, and `FirstIsFirst`, the lemma of ZoneWindow they
rest on: the instant that `firstAtOrAfter` finds is the first one at which the
clock reads the target or later. `OffersAlwaysHold` says of the bonus that it is
offered when the server takes it or answers `no_other`, and at no other time: the
wheel's rows are all that Today does not look at (`othersGone`).

What a screen shows is a function of a state of DailySpin, so the invariant is
`IInv`, and one fact more about where the last daily spin stands (`LastSpinStands`). The arguments are about clocks. The evening of a date
and the hours until it ends are in one piece (`EveningStands`, `LateUntilOpens`);
within them no other opening comes (`NoOpeningWhileLate`), and the next one is the
next date's (`NextOpenFacts`). That is false of a clock that jumps over an
evening, so ZoneWindow's clocks are those of the tz database: put back by less
than the 20 hours from midnight to the opening, put forward by less than the four
hours of the evening, or at midnight (Samoa skipped a date in 2011).

`ClosedUntilCountdown` is not proved: it is false once a person travels (the run
`countdown`), and holds in the single zone of the run `week` only.

Assumptions: only the named ASSUMEs of ZoneWindow and DailySpin (the dates are finite and hold
every date the clock can show; the numbers hold 0 and 1; the goal is a day of
the week). TLC evaluates them in every run.

### PasswordResetProofs

For any number of requests, codes, tries and instants: `TypeCorrect`,
`ChangedOnlyWithTheNewestCode`, `GuessesAreSpent`, `AMinuteApart`,
`NobodyWaitsInACircle`.

That a reset commits with the newest code is not inductive: what holds it in
place is that it has held the row since its delete. `IInv` says so. A reset
past its delete holds the row with the code it tried (`Spending`), past the
account one that is not disabled (`StillOpen`), and nobody else holds the same
row (`OneHolder`). Most steps hold nothing afterwards that was not held before
(`LettingGo`), a new code or a try finds nobody holding the row (`NobodyHolds`,
`RowChangesUnheld`), and the three steps that take or let go of rows have lemmas
of their own. The two facts about codes need the types and `RowShape` (a code
expires `Life` after it was made). The circle needs no invariant: who waits for
the code's row waits for a request that has it, which waits at most for the
account's, whose holder waits for nobody. Assumption: `ResetAssumption`
(a code lives at least as long as it stands, a minute).

### FollowsProofs

For any number of people, rows and requests: `FollowsIsFriends` (the refinement,
`Spec => F!Spec`), `BlocksHold`, `RowsAreUnique`, `AskedOnce`, `OnceEach`,
`TypeCorrect`.

The safety properties are not inductive: an insert is right because of what
three statements read before it. `IInv` says that what a request has read stays
true to its commit (`Sees`): no block and no disabled followee after the check,
no row before the insert, the request still pending before its answer, nothing
between two people whose block was there already. It holds because no two
requests are past the lock of one pair (`OneInAPair`) and because a request that
knows a row by its id knows the pair of it (`Shape`: ids are drawn once,
`Counts`). `MoveKeeps` is the lemma of all steps that write nothing, and
`CommitKeeps` that of all commits: a commit changes rows and blocks of its own
pair alone, so it is no matter of anyone else past a lock. The refinement has a
lemma for each step of Friends, over `RelationIs` (a pair with one row is what
its status says) and `RelationStays`. Assumption: `FollowsAssumption` (`None` is
no pair, no id and no row).

### SessionsProofs

For any number of accounts, tokens, phones and requests, and any limit on the
steps: `TypeCorrect`, `OneLiveToken`, `EndedIsEnded`, `SessionIsOver`,
`RefreshDies`, `PushFollowsTheSession`, `PhoneStays`, `NoOneWaitsInACircle`.

None of them is inductive. `IInv` says of each request that what it has read
stays true to its commit (`Sees`), and of any two that they hold no row in
common (`Apart`):

* a refresh past `Rotate` holds its token, which is live until the commit, and
  has caught every phone on it (`SeesPhones`): a phone can come to be there only
  by a save that holds the token for share;
* a change or a disable holds or finds dead every session it saw, and after the
  second revoke also what a refresh made of it (`SeesSessions`);
* a save or a delete past `ShareToken` has the newest token of its session and
  holds it, so it cannot be rotated under it.

`MoveKeeps` is the lemma of the steps that write nothing and `WriteKeeps` of those
that do: the others are `Undisturbed`, since nobody writes a row that they hold.
Each statement has a lemma that says what it writes (`CommitRotateWrites`,
`CommitAccountWrites`, ...), and the theorems rest on those.

`SessionIsOver` needs a second invariant, `LineInv`: a session is one line of
tokens with one end, and a request that follows it is on that line. That a path
along `rotated_to` stays in its session, and that a path as long as the limit is
the chain the read would find, is an induction on its length. It is done from
the least step at which it would fail (`LeastOf`, from the well-foundedness of
finite sets under inclusion).

`NoOneWaitsInACircle` is about the order of the locks: the account, then the tokens
of a session from its first to its last, then phones by their id. Tokens are not
taken in that order on their face: a log out follows `rotated_to`, and a password
change takes them by id. So `OrderInv` gives each token a rank that grows along
its session and is greatest at the session's end (`Ranks`), and says that what a
request holds is behind what it wants (`TokensInOrder`): the rows a change selects
by id were live, so each was the last of its session. A refresh that inserts a
token gives it the next rank (`RanksGrow`). Of the requests in a circle one is
furthest along (`Furthest`), and whoever it waits for is further still.

Assumptions: `RowsAssumption` and `NoRowAssumption` (`None` is no id and no row,
ids of tokens and of phones differ), `FirstRowAssumption` (rows that are taken
have a first one) and `ProcsAssumption` (the pool's connections are finitely
many).

### PhoneTokenProofs and PhoneSessionProofs

`NoReuseHolds`, `OneSessionHolds` and `SignedOutForCauseHolds`: for any number of sign
ins and of events, the phone sends no token a second time but in the cases `NoReuse`
names, all that a signed in phone has in use is of one session, and what a step takes
from the phone is of a session that the person logged out of or the server has ended.
The only assumption is `PhoneSessionBounds`: the two bounds are natural numbers.

None of the three is inductive, nor is their conjunction: whether a token may be sent
depends on who else holds one of that session, stopped at which await. `IInv`
(`InvariantHolds`) says that of every one of them:

* which sign in writes, and that what runs is of it or of an earlier one (`Counts`,
  `RunsCount`, `EndsCount`, `OneFlight`). This is `signInEpoch` and `since()`;
* that every token the phone has is one the server gave out, of no session younger
  than the one that holds it (`TokensKnown`, `RunTok`, `Fresh`, `GotNext`), and that
  one writer at a time has the keychain (`Writers`), which is what the serial queue
  and `waitForSignIn` are for;
* who holds the newest token of each session the phone still uses: it is stored,
  saved for the log out that ends it, or with the one refresh that has the answer
  and has not written it (`CurNewest`, `GotNewest`, `AskedNewest`). That needs the
  refreshes of sign ins gone by to be of older sessions than anything in use
  (`Above`, `Apart`), the refresh in flight to have sent what is stored (`RunIsCur`,
  `NoTokRun`, `MovedOff`), and the keychain call that lands late to be of the same
  session (`KcWritten`, `UnsavedOwn`, `SaveLands`, `GotUnshared`);
* what a log out leaves: nothing, also not of a refresh on its way (`AfterEnd`,
  `EndAfter`, `Cleared`, `StoredLater`, `RunLater`); and that a log out the phone begins
  by itself, after a refused refresh, finds nothing left to use (`Refused`,
  `FailDead`, `Dead`);
* who waits: a refresh in flight has somebody waiting who began it (`Begun`,
  `PageBegun`), a page's request that outlives a log out has nothing to take
  (`LatePage`), and a refresh that outlives a failed sign in is alone with its session
  (`OldAlone`);
* that all this is of one session while one is used (`OneInUse`), but for the moment
  between a sign in's last write and its end.

`SignedOutForCause` needs five facts more (`CauseInv`). While the keychain is empty, or a
log out of the sign in of now has begun, all that the phone has or could still get is
ended for cause, and so is the memory, unless nothing is left to get (`ShutForCause`);
a signed in phone, or a restore that asks who this is, with an empty memory has only
such tokens stored (`NoMemForCause`), and with an empty keychain only such a token in
memory (`MemForCause`); what a refresh wrote is in the keychain (`KcHasIt`); a log out
during a sign in is of the new session too (`AskedNew`).

Each step, or thing that several steps do (`Finish`, `Write`, `EndStep`, ...), has a
lemma that it keeps `IInv` (`FinishKeepsInv`) and one that it keeps the rest
(`FinishKeeps`); each action then says which of them it is. PhoneTokenProofs has the
invariant, the refreshes and the sign ins; PhoneSessionProofs goes on from there. TLC checked `IInv` and
`CauseInv` before they were proved, on the bounds of `phone_session` and on two sign
ins with two events (1.25 million states, 170 seconds, which is not a run here).

Two things were wrong before. `SignedOutForCause` as it stood was false with one sign in
more than its run has; it now speaks of the token that is taken, and of its
session. And requests that wait for a sign in went out in an action of their own,
which could come after the next log out had begun; in the code they go out where
`signInWriting` is settled (`EndSign`).

### PhonePagesProofs and MCPhoneProofs

`NewestStays`, `TypedGoesByRule`, `OnceOnly` and `PushStays`: the properties `NewestKept`,
`GoesByRule`, `DoneOnce` and `LiveSessionKeepsPush` of the run `phone_parts`, for every
value of the bounds. A behaviour of MCPhone is one of one part, so the proof has two
halves. PhonePagesProofs has fifteen parts, each an instance over variables of its own
beside its proofs, and says of each what it always keeps and that every step keeps it
and is a step the property allows. MCPhone instantiates them over the variables the
parts share by turns, and MCPhoneProofs says that the part that runs takes a step of
its own or none (`PartsMove`), so it keeps what it keeps by itself (`PhoneKeeps`). The
run and the theorems are about the same formulas.

What each page keeps, stated in the page's own module as "What keeps the next one":

| Page | Keeps | Which makes |
|---|---|---|
| PhoneBoard, PhonePost, PhoneEntryPage, PhoneFigures | one read has each number; its answer is no newer than the server; the last read's is no older than what is shown (`FirstsInOrder`, `PostReadsInOrder`, `EntryReadsInOrder`, `ReadsInOrder`) | no older answer shown over a newer one |
| PhoneWheel | a version stands for one list, so an editor, an answer or a save at the server's version has the server's list behind it (`VersionsAgree`) | a save is over rows that were seen |
| PhoneToday | the drawn day is the store's unless the screen holds it (`RenderedFollows`) | nothing drawn changes while the wheel turns |
| PhonePost | the bar has one send at most and waits for it; a running comment is one of the sends (`BarHasOneSend`) | a draft goes with the end of its bar's own send: saved, or dropped for a comment of an earlier bar |
| PhoneEntry | the entry is the one the form was opened on, or what the save made of that, until an answer is lost or the save is done (`EntryInStep`) | what is saved is what was on screen, and another phone's changes to the rest stay |
| PhoneProfile | each thing the person does counts (`TypingsCount`) | only typing changes a typed name |
| PhoneLaunch | the marks of the two hooks (`HooksMarked`) | the extras are left by a button, a tap on a notification or the session's end |
| PhoneInbox | nothing | the dots of a list stay while it is read |
| PhonePost | a photo has one upload under way at most and none once it was uploaded; the photo in the bar is remembered from the start of its upload (`UploadsHeld`) | one upload for all the sends of a photo |
| PhoneEntry | an uploaded file is remembered with its key, or out of the list for good: what is picked next is another file; a save walks through what is in the list (`UploadsRemembered`, `OneUploadEach`) | one upload a file, whatever saves fail, whatever is removed or moved meanwhile |
| PhoneEntry | the form goes back from where it stands (`GoneOnce`) | one way back |
| PhoneProfile | the picture uploaded last is the newest uploaded, and no save carries an older one (`LastUploaded`) | one upload a picture |
| PhoneReset | a request of the page keeps it busy; a code is spent with its answer (`RequestMarked`) | one request at a time, and no code sent twice |
| PhoneReminder | an evening is planned once, and a rebuild has only evenings left that are not (`PlannedOnce`) | never two reminders in an evening |
| PhoneDisc | a turn under way is not reported yet (`ReportsCount`) | one report a landing |
| PhoneEntryPage | one deed runs, none while a menu is open, and a page that was left has nothing to do (`OneDeedRuns`) | a deed leaves the page once |
| PhoneLaunch | a tap that was followed is behind the mark of its hook, or in no read of a launch tap (`TapsMarked`) | a tap opens one page |
| PhoneSettings | a line has one timer, with what the line has left to stand (`NoticeTimed`) | a newer notice is not cleared by an older one's timer |

The assumptions are those of MCPhone: `LimitAssumption`, `TypingsAssumption` and
`TapsAssumption` (bounds are natural numbers), `AheadAssumption` (so is
`REMINDER_DAYS_AHEAD`, 30 in the code) and `NoticeAssumption` (`NOTICE_MS` is not
zero). `TypedGoesByRule` says of a wheel that turns, of a draft and
of a form what its steps do; that the wheel lands and that the page comes to the
newest state is `ShownAtRest` and `WaitsEnd`, which TLC checks.

The push token has a subsection of its own below. The first try at `BarHasOneSend` failed, and rightly: the send of a bar that is no
longer on the page is still under way when the author turns commenting on again and
a new bar comes. The module had left that case out, since nobody turned commenting on
in it. It now has it (`Others`, `BarGoes`, `OfBar`), and section 5 says what the code
makes of it. `UploadsHeld` failed at first for a fault of the module alone: a photo
that was removed while a send still carried it could be picked again under the same
number, and a pick makes another file in the code, with a path of its own
(`PhonePost!Pick`).

### The push token (PhonePagesProofs)

`LiveSessionsKeepTheirPush`: for any number of people, sign ins, events and kept log
outs, a token that the phone counts as sent is the server's row of the session in
place. The phone skips a POST on its word for 12 hours.

`LiveSessionKeepsPush` is about a state in which nothing runs; what makes it true is
what may still land. `PushInv` says

* which session is in place: a live one in the keychain is the newest sign in, and
  a sign in on its way is newer than it (`Newest`);
* that a POST which will be counted is of the session in place, and none is while
  a sign in writes (`Posting`), and what was counted stands with no POST on its way
  (`Counted`);
* that no DELETE takes a counted token. One of a log out, sent or still to come,
  either is of another session or finds nothing counted (`EndSafe`); it is the
  mark `same` that a sign in takes away which makes that so between the log out's
  awaits. One of a kept log out was sent while nobody was signed in, so it is of no
  session that is in place now (`Draining`).

Each action has a lemma (`SignInKeeps`, `EndBeginsKeeps`, ...). The only assumption
is a hypothesis of the theorem, `Limit \in Nat`. `Forget` is a recursive function
and not `SelectSeq`, of which the provers know nothing: that it answers a list
(`ForgetType`) is an induction along the list, from the least place where the
walk would fail. MCPhoneProofs carries `PushInv` to the run's own property
(`PushStays`).

### Model-checked only

`ClosedUntilCountdown` (see DailySpinProofs) and `ShownAtRest` of the parts of a phone.
`Settles` and `WaitsEnd` are liveness under fairness, which these proofs cannot reach.

## 5. Seen while modelling

The modules follow the code in these. No run checks a property against them, but for
the comment bar (`comment_bar`): nothing in the repository promises otherwise.

* Lists without a number of their own (`PeopleScreen`, `FollowRequestsScreen`,
  `ArchiveScreen`, `PersonScreen`, `PersonListScreen`): an older read that
  answers late overwrites a newer one until the next focus.
* `useBoard.ts:106`: a next page asked for from the old list while the first page
  is read again is merged under the new one, and the days between are missing.
  `useDiary.ts:153` prevents this.
* `Comments.tsx`: `hiddenNow` is never cleared, so what another phone hides or
  shows again is not seen while the page lives; text typed while a comment is on its
  way is cleared when the server took the earlier text (`comment_bar`); a photo removed while its
  comment is sent is posted all the same.
* `Comments.tsx`, `usePost.ts`: a comment bar that goes while its comment is on its way
  (the author turned commenting off) and comes back before the answer (and on again)
  is another bar, with a `sendingRef` of its own; what is sent from it meets
  `commentingRef` still set, is not sent (`usePost.ts:115`), and is cleared as if it
  had been (`Comments.tsx:463`), though the bar "clears only when the server took it"
  (`Comments.tsx:336`). `DraftKept` names this case, and the one before.
* `useCreateEntry.ts`, `useUpdateEntry.ts`: when the answer to a save is lost and
  the text changed before the next, a new entry keeps the first text, and an edit
  with a new photo is refused, since its key is in use.
* `ProfileForm.tsx`, `WheelEditor.tsx`, `PasswordScreen.tsx`: the boxes stay open
  while a save runs, and what is typed meanwhile is lost when it succeeds. A
  password whose change was made but not answered is then "not your current
  password".
* `EntryView.tsx`, `PasswordScreen.tsx`: a deed that ends after Back was pressed
  goes back one page more.
* `useToday.ts:196`: an answer at the closing time that fails twice leaves the
  mark of the last zero, and nothing is asked for until the page is focused.
* `TodayScreen.tsx:314`: a bonus answer that arrives while the wheel fades in
  places the disc on the new winner before it turns.
* `NotificationsScreen.tsx`: an item that arrives between the list and the mark is
  marked seen without ever having had a dot; a summary asked for before the mark
  lights the dot again.
* `NotificationSettingsScreen.tsx`: two switches toggled at once can lose one on
  the server, whose patch writes the whole row.
* `store.ts:478`: two log ins at once, the first of which fails in the keychain,
  leave the second one's refresh token behind.
* A push that is tapped while nobody is signed in opens under whoever logs in next.

## 6. Not modelled

* The rule of who sees which post (`internal/board/rules.go`), photo keys on the
  server and the insert of a comment after its checks
  (`internal/board/service.go:392`, listed as a hazard without a property); the
  first call of a person, which makes the state row and six categories
  (`spin_repo.go:99`); the limits on requests (`ratelimit.go`), which are pure code
  with tests of their own; the draw of a category, which is arithmetic on a random
  number.
* Push sending, mail, the object store: best effort, outside the repository.
* HTTP decoding, configuration, migrations, the admin's pages, the design lab, the
  check scripts, and components that only draw: no state that changes over time.

## 7. Plan

1. `ShownAtRest` of the phone's parts by the scheme of PhonePagesProofs, one part after
   the other, and an abstract page that the reading pages implement.
2. PhotoKeys: photo keys of entries and comments on the server, and the first
   call of a person.
3. Board: one visibility rule for the list, the post, the comments and the
   links, over Friends; comments that are checked and then inserted. Mutes.
4. An abstract ledger of days that DailySpin implements.
