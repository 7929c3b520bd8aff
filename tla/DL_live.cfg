SPECIFICATION FairSpec
CONSTANTS
    a = a
    b = b
    a1 = a1
    a2 = a2
    b1 = b1
    NoRow = NoRow
    NoSession = NoSession
    Sessions = {a, b}
    Rows = {a1, a2, b1}
    Owner <- MCOwner
    Question = {a1}
    Unroutable = {a2}
    Running = {b}
    Hang = {a}
    MAX_DELIVERY_ATTEMPTS = 2
    MaxCrashes = 0
PROPERTIES RowsSettle
CHECK_DEADLOCK FALSE
