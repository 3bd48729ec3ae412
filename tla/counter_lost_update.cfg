CONSTANTS
    k1 = k1
    k2 = k2
    s1 = s1
    s2 = s2
    webhook = webhook
    timer = timer
    NoCounter = NoCounter
    NoSub = NoSub
    Missing = Missing
    Torn = Torn
    Keys = {k1}
    Subs = {s1}
    Ints = {1}
    Threads = {webhook, timer}
    Uses <- Shared
    Faults = {}
    Bound = 2
SPECIFICATION Spec
INVARIANT ReadIsCurrent
