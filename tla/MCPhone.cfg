SPECIFICATION LiveSpec
CONSTANTS
    Screens = {"push", "today", "board", "post", "comments", "entry", "profile", "birthday", "reset", "reminder", "switches", "wheel", "disc", "diary", "entrypage", "search", "people", "person", "inbox", "bell", "requests", "launch", "settings", "figures"}
    Accounts = {1, 2}  MaxSessions = 2  MaxEvents = 1  Limit = 1  \* PhonePush
    MaxChanges = 1  MaxAsks = 2  MaxMisses = 1  ZeroRetries = 1  \* PhoneToday
    BoardDays = 3  MaxEdits = 1  MaxLooks = 2  MaxDrops = 1  \* PhoneBoard
    MaxDeeds = 1  MaxTaps = 3  MaxCuts = 1  MaxSends = 2  \* PhonePost
    MaxRowTaps = 3  MaxRowFails = 1  MaxWriters = 1  \* PhoneComments
    PhotosMax = 2  MaxActs = 5  MaxFaults = 1  MaxOthers = 1  \* PhoneEntry
    MaxTypings = 3  MaxTaken = 1  MaxSnags = 1  \* PhoneProfile
    MaxResetSends = 4  MaxHolds = 2  \* PhoneReset
    DaysAhead = 2  MaxNights = 2  MaxTurns = 2  MaxSlips = 1  \* PhoneReminder
    MaxToggles = 3  MaxRefused = 1  \* PhoneSwitches
    WheelNames = {"a", "b"}  WheelMin = 1  WheelMax = 2  RowCap = 3  MaxKeys = 2  MaxRivals = 2  MaxBreaks = 1  \* PhoneWheel
    Turn = 12  DiscCounts = {2, 3}  MinTurns = 5  MaxDiscSpins = 3  \* PhoneDisc
    Posts = 4  PageSize = 1  MaxPage = 2  MaxDiaryVisits = 3  MaxMissed = 1  MaxElsewhere = 1  \* PhoneDiary
    MaxPageActs = 5  MaxPageFaults = 1  MaxOtherPhones = 1  \* PhoneEntryPage
    MaxWords = 3  MaxFollows = 1  MaxSilences = 1  \* PhoneSearch
    MaxPeopleTaps = 2  MaxPeopleFails = 1  MaxTheirs = 1  \* PhonePeople
    GridPages = 3  MaxPersonTaps = 2  MaxPersonFails = 1  MaxPersonMoves = 1  \* PhonePerson
    MaxItems = 2  MaxOpens = 2  MaxUnheard = 1  \* PhoneInbox
    MaxBellTaps = 3  MaxBellFails = 1  MaxBellMoves = 1  \* PhoneBell
    MaxRequestTaps = 2  MaxRequestFails = 1  MaxAskers = 1  \* PhoneRequests
    MaxLaunchTaps = 2  MaxEntries = 1  MaxLaunchFails = 1  \* PhoneLaunch
    ArchiveRows = {1}  NoticeTime = 2  MaxPageVisits = 3  MaxSettingsFails = 1  \* PhoneSettings
    MaxFigures = 3  MaxFocus = 2  MaxFigureFails = 1  \* PhoneFigures
INVARIANTS LiveSessionKeepsPush ShownAtRest DoneOnce
PROPERTIES NewestKept GoesByRule WaitsEnd
CHECK_DEADLOCK FALSE
