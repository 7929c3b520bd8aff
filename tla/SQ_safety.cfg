SPECIFICATION Spec
CONSTANTS
    chat = chat
    chat2 = chat2
    task = task
    slash = slash
    clear = clear
    ctx = ctx
    answer = answer
    restarted = restarted
    Msg = {chat, task}
    Wake = {chat, task}
    OnWake = {}
    Task = {task}
    Scripted = {task}
    Command = {}
    Clear = {}
    System = {}
    MAX_TRIES = 1
    MaxBatch = 10
    MaxCrashes = 1
 
PROPERTIES ReshownIsPaid ChargedOncePerDelay KeepsLeases
