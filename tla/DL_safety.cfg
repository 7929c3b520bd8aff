SPECIFICATION Spec
CONSTANTS
    a = a
    b = b
    a1 = a1
    a2 = a2
    b1 = b1
    NoRow = NoRow
    NoSession = NoSession
    Sessions = {a}
    Rows = {a1, a2}
    Owner <- MCOwner
    Question = {a1}
    Unroutable = {}
    Running = {}
    Hang = {}
    MAX_DELIVERY_ATTEMPTS = 3
    MaxCrashes = 1
INVARIANTS GuardIsExact ShownOncePerFault FirstTriesInOrder CardIsAnswerable AnsweredOncePerSend
PROPERTIES KeepsPromise
CHECK_DEADLOCK FALSE
