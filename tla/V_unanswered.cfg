SPECIFICATION Spec
CONSTANTS
    chat = chat
    chat2 = chat2
    task = task
    slash = slash
    clear = clear
    ctx = ctx
    answer = answer
    restarted = restarted
    Msg = {chat, chat2}
    Wake = {chat, chat2}
    OnWake = {}
    Task = {}
    Scripted = {}
    Command = {}
    Clear = {}
    System = {}
    MAX_TRIES = 1
    MaxBatch = 10
    MaxCrashes = 1
PROPERTY UnansweredIsRetried
