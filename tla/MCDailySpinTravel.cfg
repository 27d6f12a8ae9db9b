SPECIFICATION Spec
CONSTANTS
    Zones <- TravelZones
    NoZone = NoZone
    Instants <- TravelInstants
    Dates <- TravelDates
    TestDates = {}
    Seqs = {0, 1}
    Goal = 2
ACTION_CONSTRAINT OneDayGone
INVARIANTS
    SpinsTwelveHoursApart
    TodayOffersHold
    CountdownIsAnOpening
    BoardAgrees
PROPERTIES
    RetryIsAnswered
    SettledForGood
