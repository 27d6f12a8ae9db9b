---------------------------- MODULE MCPhoneProofs ----------------------------
(***************************************************************************)
(* What the parts of a phone keep, together, for every bound: NewestKept,  *)
(* GoesByRule, DoneOnce and the push token of a live session.  A behaviour *)
(* is one of one part, so what each part keeps by itself                   *)
(* (PhonePagesProofs) is kept by the part that runs: its steps are the     *)
(* steps of Next, and a step that changes nothing of MCPhone changes       *)
(* nothing of it.                                                          *)
(***************************************************************************)
EXTENDS MCPhone, TLAPS

\* What each part keeps always, and needs for what it promises.
PartsGood ==
    /\ which = "figures" => Pages!Figures!ReadsInOrder
    /\ which = "board" => Pages!Board!FirstsInOrder
    /\ which = "entrypage" => Pages!EntryPage!EntryReadsInOrder /\ Pages!EntryPage!OneDeedRuns
    /\ which = "wheel" => Pages!Wheel!VersionsAgree
    /\ which = "post" => Pages!Post!PostReadsInOrder /\ Pages!Post!BarHasOneSend /\ Pages!Post!UploadsHeld
    /\ which = "today" => Pages!Today!RenderedFollows
    /\ which = "entry" => Pages!Entry!EntryInStep /\ Pages!Entry!GoneOnce /\ Pages!Entry!UploadsRemembered
    /\ which = "profile" => Pages!Profile!TypingsCount /\ Pages!Profile!LastUploaded
    /\ which = "launch" => Pages!Launch!HooksMarked /\ Pages!Launch!TapsMarked
    /\ which = "reset" => Pages!Reset!RequestMarked
    /\ which = "reminder" => Pages!Reminder!PlannedOnce
    /\ which = "disc" => Pages!Disc!ReportsCount
    /\ which = "settings" => Pages!Settings!NoticeTimed
    /\ which = "push" => Pages!PushInv

LEMMA PhoneStarts == Init => PartsGood
BY Pages!FiguresStarts, Pages!BoardStarts, Pages!EntryPageStarts, Pages!WheelStarts, Pages!PostStarts, Pages!BarStarts,
   Pages!TodayStarts, Pages!EntryStarts, Pages!ProfileStarts, Pages!LaunchStarts, Pages!PushInitIsGood, TypingsAssumption,
   Pages!DeedStarts, Pages!UploadsStart, Pages!FormStarts, Pages!FilesStart, Pages!UploadStarts, Pages!TapsStart,
   Pages!ResetStarts, Pages!PlanStarts, Pages!DiscStarts, Pages!SettingsStarts, TapsAssumption
   DEF Init, PartsGood

LEMMA PartsStep ==
    ASSUME Next
    PROVE  /\ UNCHANGED which
           /\ which = "figures" => Pages!Figures!Next
           /\ which = "board" => Pages!Board!Next
           /\ which = "entrypage" => Pages!EntryPage!Next
           /\ which = "wheel" => Pages!Wheel!Next
           /\ which = "post" => Pages!Post!Next
           /\ which = "today" => Pages!Today!Next
           /\ which = "entry" => Pages!Entry!Next
           /\ which = "profile" => Pages!Profile!Next
           /\ which = "launch" => Pages!Launch!Next
           /\ which = "inbox" => Pages!Inbox!Next
           /\ which = "reset" => Pages!Reset!Next
           /\ which = "reminder" => Pages!Reminder!Next
           /\ which = "disc" => Pages!Disc!Next
           /\ which = "settings" => Pages!Settings!Next
           /\ which = "push" => Pages!Push!Next
BY DEF Next, SpareStays

LEMMA PartsRest ==
    ASSUME UNCHANGED vars
    PROVE  /\ UNCHANGED which
           /\ UNCHANGED Pages!Figures!vars
           /\ UNCHANGED Pages!Board!vars
           /\ UNCHANGED Pages!EntryPage!vars
           /\ UNCHANGED Pages!Wheel!vars
           /\ UNCHANGED Pages!Post!vars
           /\ UNCHANGED Pages!Today!vars
           /\ UNCHANGED Pages!Entry!vars
           /\ UNCHANGED Pages!Profile!vars
           /\ UNCHANGED Pages!Launch!vars
           /\ UNCHANGED Pages!Inbox!vars
           /\ UNCHANGED Pages!Reset!vars
           /\ UNCHANGED Pages!Reminder!vars
           /\ UNCHANGED Pages!Disc!vars
           /\ UNCHANGED Pages!Settings!vars
           /\ UNCHANGED Pages!Push!vars
BY DEF vars, Pages!Figures!vars, Pages!Board!vars, Pages!Board!shelves, Pages!Board!spinners, Pages!EntryPage!vars,
   Pages!EntryPage!entries, Pages!EntryPage!reads, Pages!EntryPage!pages, Pages!Wheel!vars, Pages!Wheel!server,
   Pages!Wheel!draft, Pages!Wheel!bounds, Pages!Post!vars, Pages!Post!there, Pages!Post!page, Pages!Post!bar,
   Pages!Post!files, Pages!Inbox!vars, Pages!Inbox!items, Pages!Inbox!bell, Pages!Inbox!pages, Pages!Today!vars,
   Pages!Today!server, Pages!Today!snap, Pages!Today!jobs, Pages!Today!timers, Pages!Today!screen, Pages!Entry!vars,
   Pages!Entry!stored, Pages!Entry!form, Pages!Entry!files, Pages!Entry!run, Pages!Entry!lines, Pages!Entry!guard,
   Pages!Entry!screen, Pages!Entry!past, Pages!Entry!bounds, Pages!Profile!vars, Pages!Profile!boxed, Pages!Profile!told,
   Pages!Profile!asked, Pages!Profile!picture, Pages!Profile!server, Pages!Profile!pvars, Pages!Launch!vars,
   Pages!Launch!session, Pages!Launch!gate, Pages!Launch!pages, Pages!Launch!form, Pages!Launch!tapState,
   Pages!Launch!bounds,
   Pages!Reset!rows, Pages!Reset!said, Pages!Reset!refs, Pages!Reset!calls, Pages!Reset!hist, Pages!Reset!vars,
   Pages!Reminder!clock, Pages!Reminder!flags, Pages!Reminder!plan, Pages!Reminder!row, Pages!Reminder!vars,
   Pages!Disc!vars, Pages!Settings!server, Pages!Settings!archive, Pages!Settings!blocks, Pages!Settings!boxes,
   Pages!Settings!line, Pages!Settings!bounds, Pages!Settings!vars,
   Pages!Push!vars, Pages!Push!server, Pages!Push!store, Pages!Push!push, Pages!Push!list

\* The part that runs takes a step of its own, or none.
LEMMA PartsMove ==
    ASSUME [Next]_vars
    PROVE  /\ UNCHANGED which
           /\ which = "figures" => Pages!Figures!Next \/ UNCHANGED Pages!Figures!vars
           /\ which = "board" => Pages!Board!Next \/ UNCHANGED Pages!Board!vars
           /\ which = "entrypage" => Pages!EntryPage!Next \/ UNCHANGED Pages!EntryPage!vars
           /\ which = "wheel" => Pages!Wheel!Next \/ UNCHANGED Pages!Wheel!vars
           /\ which = "post" => Pages!Post!Next \/ UNCHANGED Pages!Post!vars
           /\ which = "today" => Pages!Today!Next \/ UNCHANGED Pages!Today!vars
           /\ which = "entry" => Pages!Entry!Next \/ UNCHANGED Pages!Entry!vars
           /\ which = "profile" => Pages!Profile!Next \/ UNCHANGED Pages!Profile!vars
           /\ which = "launch" => Pages!Launch!Next \/ UNCHANGED Pages!Launch!vars
           /\ which = "inbox" => Pages!Inbox!Next \/ UNCHANGED Pages!Inbox!vars
           /\ which = "reset" => Pages!Reset!Next \/ UNCHANGED Pages!Reset!vars
           /\ which = "reminder" => Pages!Reminder!Next \/ UNCHANGED Pages!Reminder!vars
           /\ which = "disc" => Pages!Disc!Next \/ UNCHANGED Pages!Disc!vars
           /\ which = "settings" => Pages!Settings!Next \/ UNCHANGED Pages!Settings!vars
           /\ which = "push" => [Pages!Push!Next]_(Pages!Push!vars)
<1>1. \/ Next
      \/ UNCHANGED vars
  OBVIOUS
<1> QED BY <1>1, PartsStep, PartsRest

LEMMA PhoneKeeps ==
    ASSUME PartsGood, [Next]_vars
    PROVE  PartsGood'
<1>1. CASE which = "figures"
  BY PartsMove, <1>1, Pages!FiguresKeeps DEF PartsGood
<1>2. CASE which = "board"
  BY PartsMove, <1>2, Pages!BoardKeeps DEF PartsGood
<1>3. CASE which = "entrypage"
  BY PartsMove, <1>3, Pages!EntryPageKeeps, Pages!DeedKeeps DEF PartsGood
<1>4. CASE which = "wheel"
  BY PartsMove, <1>4, Pages!WheelKeeps DEF PartsGood
<1>5. CASE which = "post"
  BY PartsMove, <1>5, Pages!PostKeeps, Pages!BarKeepsDraft, Pages!UploadsKeep DEF PartsGood
<1>6. CASE which = "today"
  BY PartsMove, <1>6, Pages!TodayKeeps DEF PartsGood
<1>7. CASE which = "entry"
  BY PartsMove, <1>7, Pages!EntryKeeps, Pages!FormKeeps, Pages!FilesKeep DEF PartsGood
<1>8. CASE which = "profile"
  BY PartsMove, <1>8, Pages!ProfileKeeps, Pages!UploadKeeps DEF PartsGood
<1>9. CASE which = "launch"
  BY PartsMove, <1>9, TapsAssumption, Pages!LaunchKeeps, Pages!TapsKeep DEF PartsGood
<1>10. CASE which = "push"
  BY PartsMove, <1>10, LimitAssumption, Pages!NextKeepsPushInv DEF PartsGood
<1>11. CASE which = "reset"
  BY PartsMove, <1>11, Pages!ResetKeeps DEF PartsGood
<1>12. CASE which = "reminder"
  BY PartsMove, <1>12, AheadAssumption, Pages!PlanKeeps DEF PartsGood
<1>13. CASE which = "disc"
  BY PartsMove, <1>13, Pages!DiscKeeps DEF PartsGood
<1>14. CASE which = "settings"
  <2>1. NoticeTime \in Nat /\ NoticeTime > 0
    BY NoticeAssumption
  <2> QED BY PartsMove, <1>14, <2>1, Pages!SettingsKeeps DEF PartsGood
<1>15. CASE which \notin {"figures", "board", "entrypage", "wheel", "post", "today", "entry", "profile", "launch", "push",
                         "reset", "reminder", "disc", "settings"}
  BY PartsMove, <1>15 DEF PartsGood
<1> QED BY <1>1, <1>2, <1>3, <1>4, <1>5, <1>6, <1>7, <1>8, <1>9, <1>10, <1>11, <1>12, <1>13, <1>14, <1>15

\* On no page of the phone does an older answer replace a newer one, whatever crosses and is lost: the
\* Board and a post by the number of the read, the wheel's editor by the version it saves over, an
\* entry's page, the dots of the bell's list and the figures of the profile.
THEOREM NewestStays == Spec => NewestKept
<1>1. ASSUME PartsGood, [Next]_vars
      PROVE  /\ which = "board" => Pages!Board!FirstIsNewest
             /\ which = "post" => Pages!Post!PostIsNewest
             /\ which = "wheel" => Pages!Wheel!SavesOverSeen
             /\ which = "entrypage" => Pages!EntryPage!EntryIsNewest
             /\ which = "inbox" => Pages!Inbox!DotsStay
             /\ which = "figures" => Pages!Figures!FiguresNewest
  BY <1>1, PartsMove, Pages!BoardKeeps, Pages!PostKeeps, Pages!WheelKeeps, Pages!EntryPageKeeps, Pages!InboxKeeps,
     Pages!FiguresKeeps DEF PartsGood
<1> QED BY <1>1, PhoneStarts, PhoneKeeps, PTL DEF Spec, NewestKept

\* What the person typed, edited or looks at goes only in the ways its page names: the day drawn while the
\* wheel turns; the text of the comment bar, which ends with the bar's own send when that is saved, or
\* when it is dropped for a comment of an earlier bar; an entry that is written or edited; a typed
\* username; the rows of the wheel; and the photo-and-bio page of a sign up.
THEOREM TypedGoesByRule == Spec => GoesByRule
<1>1. ASSUME PartsGood, [Next]_vars
      PROVE  /\ which = "today" => Pages!Today!HeldWhileTurning
             /\ which = "post" => Pages!Post!DraftKept
             /\ which = "entry" => Pages!Entry!NothingLeftBehind /\ Pages!Entry!SavedAsShown
             /\ which = "profile" => Pages!Profile!TypedNameStays
             /\ which = "wheel" => Pages!Wheel!EditsLeftOnPurpose
             /\ which = "launch" => Pages!Launch!ExtrasLeft
  BY <1>1, PartsMove, Pages!TodayKeeps, Pages!BarKeepsDraft, Pages!EntryKeeps, Pages!ProfileKeeps, Pages!EditsStay,
     Pages!LaunchKeeps DEF PartsGood
<1> QED BY <1>1, PhoneStarts, PhoneKeeps, PTL DEF Spec, GoesByRule

\* What must happen once happens once, on each of these pages: a photo is uploaded once for all the sends
\* that carry it, the form of an entry goes back once, a reset request waits alone, an evening has one
\* reminder, a landing is reported once, a deleted entry's page is left once, a tap opens one page and a
\* notice stays its time.
THEOREM OnceOnly == Spec => []DoneOnce
<1>1. PartsGood => DoneOnce
  BY Pages!PostFileUpOnce, Pages!FileUpOnce, Pages!FormGoesOnce, Pages!PictureUpOnce, Pages!OneRequest,
     Pages!OneReminder, Pages!OneReport, Pages!PageLeftOnce, Pages!TapsOpenOnce, Pages!NoticeStays
     DEF PartsGood, DoneOnce
<1> QED BY <1>1, PhoneStarts, PhoneKeeps, PTL DEF Spec

\* While a session lives the phone's push token stays with it (LiveSessionKeepsPush of PhonePush), of the
\* part of MCPhone that is the push token.
THEOREM PushStays == Spec => []LiveSessionKeepsPush
<1>1. PartsGood => LiveSessionKeepsPush
  BY Pages!PushInvIsEnough DEF PartsGood, LiveSessionKeepsPush
<1> QED BY <1>1, PhoneStarts, PhoneKeeps, PTL DEF Spec

=============================================================================
