SPECIFICATION Spec
CONSTANTS
    chat = chat
    chat2 = chat2
    task = task
    slash = slash
    clear = clear
    ctx = ctx
    answer = answer
    restarted = restarted
    Msg = {clear, slash, answer, restarted}
    Wake = {clear, answer, slash, restarted}
    OnWake = {restarted}
    Task = {}
    Scripted = {}
    Command = {clear, slash}
    Clear = {clear}
    System = {answer}
    MAX_TRIES = 0
    MaxBatch = 10
    MaxCrashes = 1
INVARIANTS CompletedWasHandled
