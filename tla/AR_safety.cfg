SPECIFICATION Spec
CONSTANTS
    a = a b = b
    None = None
    Groups = {a, b}
    Groups0 = {a}
    MaxSessions = 3
    MaxChat = 2
    MaxOut = 3
    MaxFaults = 1
 
PROPERTY AnswersReturn StaysInConversation
CHECK_DEADLOCK FALSE
