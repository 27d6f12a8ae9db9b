SPECIFICATION MCSpec
CONSTANTS
    ann = ann
    bob = bob
    p1 = p1
    p2 = p2
    None = None
    MaxReuseSteps = 1
    Ids = {1, 2, 3, 4}
    Phones = {11}
    Users = {ann, bob}
    Owner <- OneEach
    Procs = {p1, p2, p3}
    Kinds = {"login", "refresh", "logout", "disable", "enable", "save", "remove", "change"}
SYMMETRY AnyProc
ACTION_CONSTRAINT NewTokens
CHECK_DEADLOCK FALSE
INVARIANTS
    TypeOK
    SessionHasOneLiveToken
    NoWaitCycle
    PushOnCurrentToken
PROPERTIES
    EndedStaysEnded
    RevokeEndsTheSession
    RefreshInFlightDies
    LiveSessionKeepsPhone
