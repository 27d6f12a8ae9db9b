SPECIFICATION Spec
CONSTANTS
    Procs = {p1, p2, p3}
    Codes = {c1, c2, c3}
    None = None
    MaxTries = 2
    Life = 2
    Resend = 1
    MaxTime = 3
SYMMETRY Alike
CHECK_DEADLOCK FALSE
INVARIANTS
    TypeOK
    NoWaitCycle
PROPERTIES
    OnlyTheNewestCode
    GuessesAreNeverGivenBack
    CodeStandsForAMinute
