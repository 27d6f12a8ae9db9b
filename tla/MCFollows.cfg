SPECIFICATION Spec
CONSTANTS
    People = {a, b}
    Ids = {i1, i2, i3}
    Procs = {p1, p2, p3}
    None = None
    Kinds = {"follow", "unfollow", "accept", "decline", "block", "unblock", "disable", "enable"}
SYMMETRY Alike
CHECK_DEADLOCK FALSE
INVARIANTS
    TypeOK
    OneRowAPair
    NoFriendshipBesideABlock
    RequestNotifiesOnce
    AnsweredOnce
PROPERTY
    ImplementsFriends
