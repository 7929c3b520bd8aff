SPECIFICATION FairSpec
CONSTANTS
    chat = chat
    chat2 = chat2
    task = task
    slash = slash
    clear = clear
    ctx = ctx
    answer = answer
    restarted = restarted
    Msg = {chat, task}
    Wake = {chat, task}
    OnWake = {}
    Task = {task}
    Scripted = {task}
    Command = {}
    Clear = {}
    System = {}
    MAX_TRIES = 1
    MaxBatch = 1
    MaxCrashes = 0
PROPERTIES  AckIsSynced
