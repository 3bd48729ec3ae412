CONSTANTS
    webhook = webhook
    timer = timer
    ann = ann
    bob = bob
    so = so
    sound = sound
    w = w
    plus = plus
    reset = reset
    deaths = deaths
    seats = seats
    NoCounter = NoCounter
    Counters = {seats}
    ReactionNodes <- ReactionIds
    Reaction <- ReactionTable
    Keepers = {"keeper"}
    everyInterval = everyInterval
    welcome = welcome
    shout = shout
    horn = horn
    NoNode = NoNode
    NoArgs = NoArgs
    NoUser = NoUser
    Never = Never
    AnyEvent = AnyEvent
    Commands = {so, sound}
    Words = {w, plus, reset}
    Nodes <- NodeIds
    Node <- NodeTable
    Threads = {webhook, timer}
    Timers = {timer}
    Inputs <- TimerInputs
    Triggers <- TimerTriggers
    Users = {ann}
    MaxAge = 2
    Silent = TRUE
    MaxPerType = 1
    Faults = {"reaction", "collect"}
    MaxStarts = 2
    MaxLines = 4
SPECIFICATION FairSpec
INVARIANTS TypeOK CapPerStart OvershootBounded
PROPERTIES OncePerInterval Recurs
