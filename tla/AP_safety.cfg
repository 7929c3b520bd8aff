SPECIFICATION Spec
CONSTANTS
    packages = packages
    command = command
    Installs = {packages}
    Servers = {}
    Commands = {command}
    MaxCards = 2
    MaxClicks = 3
    MaxFaults = 2
    None = None
INVARIANT AppliedOnce AnswerIsTold 
PROPERTY RejectedStays
