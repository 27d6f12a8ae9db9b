SPECIFICATION LiveSpec
CONSTANTS MaxSignIns = 1 MaxEvents = 3
INVARIANTS NoReuse OneSession
PROPERTIES Settles SignedOutForCause
CHECK_DEADLOCK FALSE
