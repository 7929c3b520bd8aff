SPECIFICATION FairSpec
CONSTANTS
    s1 = s1
    None = None
    Sessions = {s1}
    Procs = {1, 2, 3}
    MaxCommands = 2
    MaxFaults = 2
INVARIANT OneHolder EntriesEnd 
PROPERTY Served
