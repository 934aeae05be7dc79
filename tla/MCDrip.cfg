\* Time and the commands are bounded: the model stops at the end of time.
SPECIFICATION DripSpec
CONSTANTS
    Periods <- TwoPeriods
    Slowest = 4
    Grain = 2
    MaxTime = 6
    MaxImages = 1
    MaxTells = 3
    Beginnings <- ProgramStarts
INVARIANTS DripTypeOK
PROPERTIES FollowsPlayhead LeavesInTime
CHECK_DEADLOCK FALSE
