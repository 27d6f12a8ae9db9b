SPECIFICATION Spec
CONSTANTS
    MaxDeeds = 1
    MaxTaps = 3
    MaxCuts = 1
    MaxSends = 2
PROPERTY ClearsWhenTaken
CHECK_DEADLOCK FALSE
