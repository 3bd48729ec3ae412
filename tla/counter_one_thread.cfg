CONSTANTS
    k1 = k1
    k2 = k2
    s1 = s1
    s2 = s2
    webhook = webhook
    timer = timer
    NoCounter = NoCounter
    NoSub = NoSub
    Missing = Missing
    Torn = Torn
    Keys = {k1, k2}
    Subs = {s1, s2}
    Ints = {1}
    Threads = {webhook}
    Uses <- AnyReaction
    Faults = {"crash_in_save"}
    Bound = 1
SPECIFICATION Spec
INVARIANTS SelectionExists DurableWhenIdle
PROPERTY ImplementsDurableCounters
