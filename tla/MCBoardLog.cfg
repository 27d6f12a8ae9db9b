SPECIFICATION Spec
CONSTANTS
    Zones <- TravelZones
    NoZone = NoZone
    Instants <- TravelInstants
    Dates <- TravelDates
    TestDates = {}
    Seqs = {0, 1}
    Goal = 2
INVARIANT LogIsForTheBoardDay
