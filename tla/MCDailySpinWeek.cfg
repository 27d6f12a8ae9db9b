SPECIFICATION Spec
CONSTANTS
    Zones <- WeekZones
    NoZone = NoZone
    Instants <- WeekInstants
    Dates <- WeekDates
    TestDates <- WeekTestDates
    Seqs = {0, 1}
    Goal = 2
INVARIANTS
    TypeOK
    BonusBalance
    GoalWeeksExact
    TablesAgree
    ClosedUntilCountdown
