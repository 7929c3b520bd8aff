SPECIFICATION FairSpec
CONSTANTS
    daily = daily
    Series = {daily}
    Recurring = {daily}
    MAX_TRIES = 1
    MaxOccurrences = 2
    MaxRequests = 3
    MaxFaults = 1
INVARIANT OneHeir SeriesGoesOn 
PROPERTY CalmPauseHolds KeepsTurns NextIsInserted
