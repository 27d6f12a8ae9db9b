------------------------------- MODULE MCPhone -------------------------------
(***************************************************************************)
(* The screens and the background parts of one phone, each by itself       *)
(* against the server it talks to: a behaviour is a behaviour of one of    *)
(* them.  The parts share no state, so this explores each of them in full. *)
(* They take the same variables by turns: v1, v2, ... stand for the        *)
(* variables of the part that runs, in the order its module declares them, *)
(* and those it has no use for rest at 0.  The session store, which the    *)
(* others stand on, has a run of its own (PhoneSession).                   *)
(***************************************************************************)
EXTENDS Integers, Sequences

CONSTANTS
    Screens,        \* the parts to explore
    \* the constants of the parts, which their modules explain
    Accounts, MaxSessions, MaxEvents, Limit,                                \* PhonePush
    MaxChanges, MaxAsks, MaxMisses, ZeroRetries,                            \* PhoneToday
    BoardDays, MaxEdits, MaxLooks, MaxDrops,                                \* PhoneBoard
    MaxDeeds, MaxTaps, MaxCuts, MaxSends,                                   \* PhonePost
    MaxRowTaps, MaxRowFails, MaxWriters,                                    \* PhoneComments
    PhotosMax, MaxActs, MaxFaults, MaxOthers,                               \* PhoneEntry
    MaxTypings, MaxTaken, MaxSnags,                                         \* PhoneProfile
    MaxResetSends, MaxHolds,                                                \* PhoneReset
    DaysAhead, MaxNights, MaxTurns, MaxSlips,                               \* PhoneReminder
    MaxToggles, MaxRefused,                                                 \* PhoneSwitches
    WheelNames, WheelMin, WheelMax, RowCap, MaxKeys, MaxRivals, MaxBreaks,  \* PhoneWheel
    Turn, DiscCounts, MinTurns, MaxDiscSpins,                               \* PhoneDisc
    Posts, PageSize, MaxPage, MaxDiaryVisits, MaxMissed, MaxElsewhere,      \* PhoneDiary
    MaxPageActs, MaxPageFaults, MaxOtherPhones,                             \* PhoneEntryPage
    MaxWords, MaxFollows, MaxSilences,                                      \* PhoneSearch
    MaxPeopleTaps, MaxPeopleFails, MaxTheirs,                               \* PhonePeople
    GridPages, MaxPersonTaps, MaxPersonFails, MaxPersonMoves,               \* PhonePerson
    MaxItems, MaxOpens, MaxUnheard,                                         \* PhoneInbox
    MaxBellTaps, MaxBellFails, MaxBellMoves,                                \* PhoneBell
    MaxRequestTaps, MaxRequestFails, MaxAskers,                             \* PhoneRequests
    MaxLaunchTaps, MaxEntries, MaxLaunchFails,                              \* PhoneLaunch
    ArchiveRows, NoticeTime, MaxPageVisits, MaxSettingsFails,               \* PhoneSettings
    MaxFigures, MaxFocus, MaxFigureFails                                    \* PhoneFigures

\* The list of log outs kept for later has a length.
ASSUME LimitAssumption == Limit \in Nat
\* So many things a person does in the profile form.
ASSUME TypingsAssumption == MaxTypings \in Nat
\* So many notifications are tapped.
ASSUME TapsAssumption == MaxLaunchTaps \in Nat
\* The reminder is planned so many days ahead (REMINDER_DAYS_AHEAD).
ASSUME AheadAssumption == DaysAhead \in Nat
\* A notice is seen for a while (NOTICE_MS).
ASSUME NoticeAssumption == NoticeTime \in Nat \ {0}

VARIABLES
    which,          \* the part of this behaviour
    v1, v2, v3, v4, v5, v6, v7, v8, v9, v10, v11, v12, v13, v14, v15, v16, v17, v18, v19, v20, v21, v22,
    v23, v24, v25, v26

\* Two days before 28 February of a common and of a leap year, thirteen years after 2012 and 2011.
BirthdayDays == {[y |-> 2025, m |-> 2, d |-> 26], [y |-> 2024, m |-> 2, d |-> 26]}

(* ---- the parts ---------------------------------------------------------- *)

\* The Board, a post's page, the wheel editor, an entry's own page, the bell and its list, the figures
\* of the profile, the Spin page, the writing of an entry, the profile form, start-up with its doors and
\* taps, the forgotten password, the daily reminder, the turning disc, and the settings pages (archive,
\* blocked accounts, password), the push token and the kept log outs, with what is proved about them.
Pages == INSTANCE PhonePagesProofs WITH
    People <- Accounts, Days <- BoardDays, Names <- WheelNames, Counts <- DiscCounts, Rows <- ArchiveRows,
    MaxVisits <- MaxPageVisits,
    live <- v1, who <- v2, pushRow <- v3, kc <- v4, mem <- v5, count <- v6, writing <- v7, loggedOut <- v8,
    user <- v9, registered <- v10, before <- v11, reg <- v12, pushPost <- v13, en <- v14, pending <- v15,
    mayHave <- v16, keptOuts <- v17, drain <- v18, over <- v19, dropped <- v20, left <- v21,
    shelf <- v1, edition <- v2, account <- v3, held <- v4, boardStatus <- v5, refreshing <- v6,
    loadingMore <- v7, moreFailed <- v8, boardSeq <- v9, moreBusy <- v10, boardCalls <- v11,
    looks <- v12, drops <- v13,
    thread <- v1, last <- v2, deeds <- v3, canComment <- v4, gone <- v5, post <- v6, postStatus <- v7,
    postSeq <- v8, postCalls <- v9, replyTo <- v10, commenting <- v11, text <- v12, photo <- v13,
    sendingRef <- v14, drawn <- v15, memory <- v16, filesUp <- v17, sends <- v18, tries <- v19,
    row <- v20, taps <- v21, cuts <- v22, barFrom <- v23,
    wheelRows <- v1, archivedRows <- v2, spunRows <- v3, wheelVersion <- v4, lastRowId <- v5,
    editorStatus <- v6, editorVersion <- v7, editorRows <- v8, editorBase <- v9, editorCall <- v10,
    leaveSheet <- v11, keys <- v12, rivals <- v13, breaks <- v14,
    kept <- v1, keptV <- v2, shownEntry <- v3, entryStatus <- v4, entrySeq <- v5, entryCalls <- v6,
    pageMenu <- v7, deedsRun <- v8, deedMessage <- v9, where <- v10, popped <- v11, backTapped <- v12,
    pageActs <- v13, pageFaults <- v14, otherPhones <- v15,
    arrived <- v1, seenTo <- v2, dot <- v3, asking <- v4, inbox <- v5, inboxStatus <- v6,
    inboxReads <- v7, inboxOpen <- v8, inboxFrom <- v9, newest <- v10, dotCrossed <- v11, opens <- v12,
    unheard <- v13,
    figures <- v1, mounted <- v2, loading <- v3, summary <- v4, newestAsk <- v5, figureAsks <- v6,
    focuses <- v7, figureFails <- v8,
    day <- v1, due <- v2, still <- v3, today <- v4, anchor <- v5, requesting <- v6, failure <- v7,
    spinning <- v8, pendingSpin <- v9, again <- v10, loadFailure <- v11, queue <- v12, call <- v13,
    retryAt <- v14, retryUsed <- v15, zeroAt <- v16, zeroTries <- v17, phase <- v18, bonusActive <- v19,
    sheet <- v20, afterSeq <- v21, stable <- v22, write <- v23, told <- v24, asks <- v25, misses <- v26,
    mode <- v1, entry <- v2, settled <- v3, draft <- v4, picked <- v5, picking <- v6, remembered <- v7,
    uploads <- v8, save <- v9, busy <- v10, done <- v11, ended <- v12, photoMessage <- v13,
    message <- v14, leaveOpen <- v15, allowLeave <- v16, saved <- v17, open <- v18, covered <- v19,
    pops <- v20, base <- v21, lost <- v22, acts <- v23, faults <- v24, others <- v25,
    formMode <- v1, profile <- v2, me <- v3, takenNames <- v4, boxes <- v5, usernameEdited <- v6,
    suggestionFetched <- v7, usernameStatus <- v8, usernameError <- v9, verdictOf <- v10,
    debounce <- v11, checks <- v12, suggestion <- v13, avatar <- v14, uploadedAvatar <- v15,
    avatarUploads <- v16, submit <- v17, formError <- v18, formOpen <- v19, typings <- v20, snags <- v21,
    status <- v1, extrasPending <- v2, fonts <- v3, introResolved <- v4, splashUp <- v5,
    restoring <- v6, rootPage <- v7, appTab <- v8, top <- v9, loginTyped <- v10, loginError <- v11,
    loginFormError <- v12, loginCall <- v13, launchTaps <- v14, lastTap <- v15, handled <- v16,
    launchReads <- v17, followed <- v18, tapOvertaken <- v19, entriesLeft <- v20, launchFails <- v21,
    codeRow <- v1, codeFresh <- v2, lastMail <- v3, passwordSet <- v4, step <- v5, codeTyped <- v6,
    codeError <- v7, resetFormError <- v8, sendingReset <- v9, maybeChanged <- v10, codeSpent <- v11,
    forgot <- v12, reset <- v13, adrift <- v14, lostSince <- v15, prevRow <- v16, sendsLeft <- v17,
    holds <- v18,
    evening <- v1, nextOpen <- v2, reminderOn <- v3, reminderAsked <- v4, permission <- v5,
    planned <- v6, chain <- v7, job <- v8, askStage <- v9, rowOn <- v10, rowToggle <- v11,
    rowRead <- v12, failedPlan <- v13, until <- v14, turns <- v15, slips <- v16,
    shownDay <- v1, keptDay <- v2, turn <- v3, turning <- v4, discPhase <- v5, bonus <- v6,
    baseId <- v7, disc <- v8, motion <- v9, reports <- v10,
    archived <- v1, blocked <- v2, password <- v3, page <- v4, archiveList <- v5, archiveReads <- v6,
    putBack <- v7, blockedLoaded <- v8, blockedList <- v9, unblocking <- v10, currentBox <- v11,
    nextBox <- v12, currentError <- v13, saving <- v14, notice <- v15, noticeTimers <- v16,
    noticeAge <- v17, putBackHere <- v18, unblockedHere <- v19, putBackCrossed <- v20, lateRows <- v21,
    settingsVisits <- v22, settingsFails <- v23
\* Hide, Delete and Report on the rows of comments.
Comments == INSTANCE PhoneComments WITH
    written <- v1, hiddenThere <- v2, reported <- v3, shown <- v4, shownHidden <- v5,
    commentReads <- v6, readSeq <- v7, hiddenNow <- v8, rowCall <- v9, rowMenu <- v10, askedRow <- v11,
    rowReports <- v12, note <- v13, strayed <- v14, rowTaps <- v15, rowFails <- v16, writers <- v17
\* The birthday of a sign up.
Birthday == INSTANCE PhoneBirthday WITH
    Days <- BirthdayDays, Zones <- {-12, 14}, Months <- {2, 3}, MonthDays <- {1, 28, 29}, Years <- {201,
    2011, 2012}, MaxBirthdayTaps <- 4, MaxHours <- 3,
    baseDay <- v1, zone <- v2, hour <- v3, dateBoxes <- v4, birthdayError <- v5, signUp <- v6,
    birthdayTaps <- v7
\* The notification switches.
Switches == INSTANCE PhoneSwitches WITH
    switchesKept <- v1, shownAs <- v2, touched <- v3, patches <- v4, firstRead <- v5, crossed <- v6,
    lastSaved <- v7, toggles <- v8, refusals <- v9
\* The diary's list.
Diary == INSTANCE PhoneDiary WITH
    MaxVisits <- MaxDiaryVisits,
    published <- v1, printing <- v2, touchedPosts <- v3, diary <- v4, diaryStatus <- v5, pageSpin <- v6,
    pageFailed <- v7, diarySeq <- v8, pageBusy <- v9, firstBusy <- v10, diaryCalls <- v11, menu <- v12,
    asked <- v13, visits <- v14, missed <- v15, elsewhere <- v16
\* The search page.
Search == INSTANCE PhoneSearch WITH
    searchBonds <- v1, query <- v2, hits <- v3, searching <- v4, searchFailed <- v5, searchSeq <- v6,
    searches <- v7, suggestions <- v8, suggestionsRead <- v9, tapsRun <- v10, searchMenu <- v11,
    mixed <- v12, words <- v13, follows <- v14, silences <- v15
\* The follow lists.
People == INSTANCE PhonePeople WITH
    peopleBonds <- v1, peopleV <- v2, lists <- v3, peopleStatus <- v4, peopleReads <- v5, readNo <- v6,
    peopleDeeds <- v7, peopleMenu <- v8, tab <- v9, peopleFailed <- v10, actedV <- v11,
    missedRead <- v12, overtaken <- v13, shownNo <- v14, peopleTaps <- v15, peopleFails <- v16,
    theirs <- v17
\* A person's page.
Person == INSTANCE PhonePerson WITH
    bond <- v1, bondV <- v2, blocksMe <- v3, personPage <- v4, personStatus <- v5, personReads <- v6,
    personReadNo <- v7, gridReads <- v8, personDeed <- v9, personMenu <- v10, personLine <- v11,
    gridCrossed <- v12, personActedV <- v13, personShown <- v14, personLate <- v15, personMissed <- v16,
    personTaps <- v17, personFails <- v18, personMoves <- v19
\* The rows of that list.
Bell == INSTANCE PhoneBell WITH
    rowBonds <- v1, relations <- v2, relationsOn <- v3, relationReads <- v4, followBack <- v5,
    openingReply <- v6, above <- v7, bellLate <- v8, bellMoved <- v9, bellTaps <- v10, bellFails <- v11,
    bellMoves <- v12
\* The follow requests.
Requests == INSTANCE PhoneRequests WITH
    askBonds <- v1, requests <- v2, requestsOn <- v3, answeredRows <- v4, requestStatus <- v5,
    requestLine <- v6, requestReads <- v7, requestDeed <- v8, late <- v9, disturbed <- v10,
    requestTaps <- v11, requestFails <- v12, askers <- v13

vars == <<which,
          v1, v2, v3, v4, v5, v6, v7, v8, v9, v10, v11, v12, v13, v14, v15, v16, v17, v18, v19, v20,
          v21, v22, v23, v24, v25, v26>>

\* How many variables each part has.
Size ==
    [push |-> 21, today |-> 26, board |-> 13, post |-> 23, comments |-> 17, entry |-> 25,
     profile |-> 21, birthday |-> 7, reset |-> 18, reminder |-> 16, switches |-> 9, wheel |-> 14,
     disc |-> 10, diary |-> 16, entrypage |-> 15, search |-> 15, people |-> 17, person |-> 19,
     inbox |-> 13, bell |-> 12, requests |-> 13, launch |-> 21, settings |-> 23, figures |-> 8]

\* The variables beyond those of the part rest.
SpareRests ==
    /\ (Size[which] < 8 => v8 = 0)
    /\ (Size[which] < 9 => v9 = 0)
    /\ (Size[which] < 10 => v10 = 0)
    /\ (Size[which] < 11 => v11 = 0)
    /\ (Size[which] < 12 => v12 = 0)
    /\ (Size[which] < 13 => v13 = 0)
    /\ (Size[which] < 14 => v14 = 0)
    /\ (Size[which] < 15 => v15 = 0)
    /\ (Size[which] < 16 => v16 = 0)
    /\ (Size[which] < 17 => v17 = 0)
    /\ (Size[which] < 18 => v18 = 0)
    /\ (Size[which] < 19 => v19 = 0)
    /\ (Size[which] < 20 => v20 = 0)
    /\ (Size[which] < 21 => v21 = 0)
    /\ (Size[which] < 22 => v22 = 0)
    /\ (Size[which] < 23 => v23 = 0)
    /\ (Size[which] < 24 => v24 = 0)
    /\ (Size[which] < 25 => v25 = 0)
    /\ (Size[which] < 26 => v26 = 0)
SpareStays ==
    /\ UNCHANGED which
    /\ (Size[which] < 8 => UNCHANGED v8)
    /\ (Size[which] < 9 => UNCHANGED v9)
    /\ (Size[which] < 10 => UNCHANGED v10)
    /\ (Size[which] < 11 => UNCHANGED v11)
    /\ (Size[which] < 12 => UNCHANGED v12)
    /\ (Size[which] < 13 => UNCHANGED v13)
    /\ (Size[which] < 14 => UNCHANGED v14)
    /\ (Size[which] < 15 => UNCHANGED v15)
    /\ (Size[which] < 16 => UNCHANGED v16)
    /\ (Size[which] < 17 => UNCHANGED v17)
    /\ (Size[which] < 18 => UNCHANGED v18)
    /\ (Size[which] < 19 => UNCHANGED v19)
    /\ (Size[which] < 20 => UNCHANGED v20)
    /\ (Size[which] < 21 => UNCHANGED v21)
    /\ (Size[which] < 22 => UNCHANGED v22)
    /\ (Size[which] < 23 => UNCHANGED v23)
    /\ (Size[which] < 24 => UNCHANGED v24)
    /\ (Size[which] < 25 => UNCHANGED v25)
    /\ (Size[which] < 26 => UNCHANGED v26)

Init ==
    /\ which \in Screens
    /\ SpareRests
    /\ \/ which = "push" /\ Pages!Push!Init
       \/ which = "today" /\ Pages!Today!Init
       \/ which = "board" /\ Pages!Board!Init
       \/ which = "post" /\ Pages!Post!Init
       \/ which = "comments" /\ Comments!Init
       \/ which = "entry" /\ Pages!Entry!Init
       \/ which = "profile" /\ Pages!Profile!Init
       \/ which = "birthday" /\ Birthday!Init
       \/ which = "reset" /\ Pages!Reset!Init
       \/ which = "reminder" /\ Pages!Reminder!Init
       \/ which = "switches" /\ Switches!Init
       \/ which = "wheel" /\ Pages!Wheel!Init
       \/ which = "disc" /\ Pages!Disc!Init
       \/ which = "diary" /\ Diary!Init
       \/ which = "entrypage" /\ Pages!EntryPage!Init
       \/ which = "search" /\ Search!Init
       \/ which = "people" /\ People!Init
       \/ which = "person" /\ Person!Init
       \/ which = "inbox" /\ Pages!Inbox!Init
       \/ which = "bell" /\ Bell!Init
       \/ which = "requests" /\ Requests!Init
       \/ which = "launch" /\ Pages!Launch!Init
       \/ which = "settings" /\ Pages!Settings!Init
       \/ which = "figures" /\ Pages!Figures!Init

Next ==
    /\ SpareStays
    /\ \/ which = "push" /\ Pages!Push!Next
       \/ which = "today" /\ Pages!Today!Next
       \/ which = "board" /\ Pages!Board!Next
       \/ which = "post" /\ Pages!Post!Next
       \/ which = "comments" /\ Comments!Next
       \/ which = "entry" /\ Pages!Entry!Next
       \/ which = "profile" /\ Pages!Profile!Next
       \/ which = "birthday" /\ Birthday!Next
       \/ which = "reset" /\ Pages!Reset!Next
       \/ which = "reminder" /\ Pages!Reminder!Next
       \/ which = "switches" /\ Switches!Next
       \/ which = "wheel" /\ Pages!Wheel!Next
       \/ which = "disc" /\ Pages!Disc!Next
       \/ which = "diary" /\ Diary!Next
       \/ which = "entrypage" /\ Pages!EntryPage!Next
       \/ which = "search" /\ Search!Next
       \/ which = "people" /\ People!Next
       \/ which = "person" /\ Person!Next
       \/ which = "inbox" /\ Pages!Inbox!Next
       \/ which = "bell" /\ Bell!Next
       \/ which = "requests" /\ Requests!Next
       \/ which = "launch" /\ Pages!Launch!Next
       \/ which = "settings" /\ Pages!Settings!Next
       \/ which = "figures" /\ Pages!Figures!Next

\* What the server, the disk, the timers and the drawing of a page do.  A behaviour has one part, so
\* fairness to the disjunction is fairness to each.
Served ==
    /\ SpareStays
    /\ \/ which = "push" /\ Pages!Push!System
       \/ which = "today" /\ Pages!Today!System /\ Pages!Today!Next
       \/ which = "board" /\ Pages!Board!Answers
       \/ which = "post" /\ Pages!Post!Comes
       \/ which = "comments" /\ Comments!Answers
       \/ which = "entry" /\ Pages!Entry!Runs
       \/ which = "profile" /\ Pages!Profile!Answers
       \/ which = "birthday" /\ Birthday!SignUpServed
       \/ which = "reset" /\ Pages!Reset!ResetSteps
       \/ which = "reminder" /\ Pages!Reminder!Natives
       \/ which = "switches" /\ Switches!Servers
       \/ which = "wheel" /\ Pages!Wheel!Answers
       \/ which = "disc" /\ Pages!Disc!Moves /\ Pages!Disc!Next
       \/ which = "diary" /\ Diary!Answers
       \/ which = "entrypage" /\ Pages!EntryPage!Answers
       \/ which = "search" /\ Search!Answers
       \/ which = "people" /\ People!Answers
       \/ which = "person" /\ Person!Answers
       \/ which = "inbox" /\ Pages!Inbox!Answers
       \/ which = "bell" /\ Bell!Answers
       \/ which = "requests" /\ (Requests!Answers \/ Requests!RowDeedFails)
       \/ which = "launch" /\ Pages!Launch!LaunchSteps
       \/ which = "settings" /\ Pages!Settings!Saving
       \/ which = "figures" /\ Pages!Figures!Answers
\* The second of two that must not wait for one another.
ServedBeside ==
    /\ SpareStays
    /\ \/ which = "push" /\ Pages!Push!Worked
       \/ which = "today" /\ Pages!Today!Passes /\ Pages!Today!Next
       \/ which = "settings" /\ Pages!Settings!Ticks

Spec == Init /\ [][Next]_vars
\* Requests are answered (or fail), uploads and disk writes end, timers fire and what is due on the
\* screen is drawn.  Nothing is assumed of the person, of other people or of other phones.
LiveSpec ==
    /\ Spec
    /\ WF_vars(Served) /\ WF_vars(ServedBeside)

(* ---- properties ---------------------------------------------------------- *)

\* While a session lives, the phone's push token stays with it: a registration or a delete that another
\* run of sign in, log out or drain started never takes it away (pushToken.ts, store.ts).
LiveSessionKeepsPush == which = "push" => Pages!Push!LiveSessionKeepsPush

\* What each page shows, in the words of its own module.  Today, the diary's first page, the rows hidden
\* here, the people found for a text, the switches and the reminder come at rest to what the server said
\* last: their reads carry a number, or a write stands over what is read (unless an answer was lost, or
\* what the module's comment names).  The follow lists, a person's page, the requests, the bell and its
\* rows, the buttons of a search, the archive and the Board's further pages have no such number: there an
\* answer asked for before a change and answered after it stays until the next read, and it is only said
\* what they show when no answer came so late (overtaken, late, crossed, mixed).  Of the others: the
\* thread of a post in order, a verdict about the name in its box, the birthday judged alike, no code
\* called wrong after a reset that may have worked, rows of spins kept, and the disc on its winner.
ShownAtRest ==
    /\ (which = "today" => Pages!Today!TodayIsNewest)
    /\ (which = "board" => Pages!Board!PagesFollow)
    /\ (which = "post" => Pages!Post!ListHolds)
    /\ (which = "comments" => Comments!HiddenAgrees)
    /\ (which = "profile" => Pages!Profile!AvailableIsTyped)
    /\ (which = "birthday" => Birthday!BirthdaysAgree)
    /\ (which = "reset" => Pages!Reset!NeverMisled)
    /\ (which = "reminder" => Pages!Reminder!PlanIsRight)
    /\ (which = "switches" => Switches!SwitchesAgree)
    /\ (which = "wheel" => Pages!Wheel!SpunRowsStay)
    /\ (which = "disc" => (Pages!Disc!LandsOnWinner /\ Pages!Disc!WordsUpright /\ Pages!Disc!TurnsFar))
    /\ (which = "diary" => (Diary!RowsFollow /\ Diary!ListIsNewest))
    /\ (which = "search" => (Search!FoundForTyped /\ Search!ButtonsTrue))
    /\ (which = "people" => People!ListsCatchUp)
    /\ (which = "person" => (Person!GridInOrder /\ Person!PageCatchesUp))
    /\ (which = "inbox" => Pages!Inbox!DotMeansUnread)
    /\ (which = "bell" => Bell!ButtonsRight)
    /\ (which = "requests" => Requests!RowsRight)
    /\ (which = "settings" => Pages!Settings!RowsGone)

\* What must happen once happens once: a file is uploaded once for all the sends that carry it, a tap
\* opens one page, a request is not sent again while one is open, a disc reports one landing.
DoneOnce ==
    /\ (which = "post" => Pages!Post!UploadedOnce)
    /\ (which = "entry" => (Pages!Entry!FileUploadedOnce /\ Pages!Entry!GoesBackOnce))
    /\ (which = "profile" => Pages!Profile!AvatarUploadedOnce)
    /\ (which = "reset" => Pages!Reset!OneRequestOpen)
    /\ (which = "reminder" => Pages!Reminder!NeverTwice)
    /\ (which = "disc" => Pages!Disc!ReportedOnce)
    /\ (which = "entrypage" => Pages!EntryPage!LeftOnce)
    /\ (which = "launch" => Pages!Launch!TapOpensOnce)
    /\ (which = "settings" => Pages!Settings!NoticeStays)

\* No step puts an older answer over a newer one.
NewestKept ==
    [][/\ (which = "board" => Pages!Board!FirstIsNewest)
       /\ (which = "post" => Pages!Post!PostIsNewest)
       /\ (which = "wheel" => Pages!Wheel!SavesOverSeen)
       /\ (which = "entrypage" => Pages!EntryPage!EntryIsNewest)
       /\ (which = "inbox" => Pages!Inbox!DotsStay)
       /\ (which = "figures" => Pages!Figures!FiguresNewest)]_vars

\* What the person typed, edited or is looking at goes only in the ways its page names: the draft of a
\* comment with the end of its bar's own send (and with it what was typed since), an entry's form
\* through Leave, a save or the end of its day, a typed username by typing, a wheel's edits through the
\* sheet or a save, the extras by a tap; and the day that is drawn stays while the wheel turns.  (Of the
\* other boxes it says nothing: what is typed into a profile, a wheel or a password while its save runs
\* goes with the save.)
GoesByRule ==
    [][/\ (which = "today" => Pages!Today!HeldWhileTurning)
       /\ (which = "post" => Pages!Post!DraftKept)
       /\ (which = "entry" => (Pages!Entry!NothingLeftBehind /\ Pages!Entry!SavedAsShown))
       /\ (which = "profile" => Pages!Profile!TypedNameStays)
       /\ (which = "wheel" => Pages!Wheel!EditsLeftOnPurpose)
       /\ (which = "launch" => Pages!Launch!ExtrasLeft)]_vars

\* No spinner turns for ever: whatever a part waits for ends.
Waiting ==
    \/ which = "push" /\ Pages!Push!LeftBehind
    \/ which = "today" /\ Pages!Today!Unsettled
    \/ which = "board" /\ Pages!Board!Loading
    \/ which = "post" /\ Pages!Post!Waits
    \/ which = "comments" /\ Comments!RowsBusy
    \/ which = "entry" /\ Pages!Entry!Saving
    \/ which = "profile" /\ Pages!Profile!FormWaits
    \/ which = "birthday" /\ Birthday!SigningUp
    \/ which = "reset" /\ Pages!Reset!ResetBusy
    \/ which = "reminder" /\ ~Pages!Reminder!Still
    \/ which = "switches" /\ Switches!SavingSwitch
    \/ which = "wheel" /\ Pages!Wheel!EditorBusy
    \/ which = "disc" /\ Pages!Disc!Turning
    \/ which = "diary" /\ Diary!DiaryBusy
    \/ which = "entrypage" /\ Pages!EntryPage!PageBusy
    \/ which = "search" /\ Search!SearchBusy
    \/ which = "people" /\ People!PeopleBusy
    \/ which = "person" /\ Person!PersonBusy
    \/ which = "inbox" /\ Pages!Inbox!InboxBusy
    \/ which = "bell" /\ Bell!BellBusy
    \/ which = "requests" /\ Requests!RequestsBusy
    \/ which = "launch" /\ Pages!Launch!Launching
    \/ which = "settings" /\ Pages!Settings!SettingsBusy
    \/ which = "figures" /\ Pages!Figures!FiguresBusy
WaitsEnd == []<>~Waiting
=============================================================================
