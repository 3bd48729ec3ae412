CONSTANTS
    Settings <- WithSecret
    Types = {"chat", "follow"}
    Faults = {"early interrupt", "checks", "prompt", "port", "tunnel", "silence", "token", "register", "delete"}
    MaxRuns = 2
    l1 = l1
    l2 = l2
    NoLoop = NoLoop
    Loops = {l1, l2}
SPECIFICATION ServicesFairSpec
INVARIANTS SubscribedWhileListening NothingLeftBehind OneLoop QuietWhenStopped TicksReachOverlay
PROPERTIES RequestEndsRun RunComesUp StopEndsLoops Ticks
CHECK_DEADLOCK FALSE
