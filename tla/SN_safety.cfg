SPECIFICATION Spec
CONSTANTS
    MaxIn = 2
    MaxOut = 3
    MaxQueries = 2
    MaxTurns = 2
    MaxFaults = 2
    None = None
INVARIANT  UsageIsOfItsTurn TurnIsPriced CutIsReported
CHECK_DEADLOCK FALSE
