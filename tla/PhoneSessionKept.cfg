SPECIFICATION Spec
CONSTANTS MaxSignIns = 1 MaxEvents = 6
CONSTRAINT OneSignInFails
ACTION_CONSTRAINT Undisturbed
INVARIANTS RotatedIsKept
CHECK_DEADLOCK FALSE
