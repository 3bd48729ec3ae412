CONSTANTS
    webhook = webhook
    timer = timer
    ann = ann
    bob = bob
    so = so
    sound = sound
    w = w
    plus = plus
    reset = reset
    deaths = deaths
    seats = seats
    NoCounter = NoCounter
    Counters = {seats}
    ReactionNodes <- ReactionIds
    Reaction <- ReactionTable
    Keepers = {"keeper"}
    everyInterval = everyInterval
    welcome = welcome
    shout = shout
    horn = horn
    NoNode = NoNode
    NoArgs = NoArgs
    NoUser = NoUser
    Never = Never
    AnyEvent = AnyEvent
    Commands = {so, sound}
    Words = {w, plus, reset}
    Nodes <- NodeIds
    Node <- NodeTable
    Threads = {webhook}
    Timers = {}
    Inputs <- ChatInputs
    Triggers <- ChatTriggers
    Users = {ann, bob}
    MaxAge = 2
    Silent = FALSE
    MaxPerType = 0
    Faults = {}
    MaxStarts = 1
    MaxLines = 0
SPECIFICATION Spec
INVARIANT ArgsOfOwnCommand
PROPERTIES NewcomerIsGreeted GreetedOncePerWindow ResetByKeeper
