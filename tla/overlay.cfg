CONSTANTS
    webhook = webhook
    timer = timer
    Senders = {webhook, timer}
    StopOutcomes = {"returns", "raises"}
    Kills = {"hard", "SIGTERM"}
    MaxQueue = 5
    MaxRuns = 3
    MaxSent = 2
    Faults = {"child fails", "frame raises", "interrupt"}
SPECIFICATION FairSpec
INVARIANTS OwnStopIsNotTaken
PROPERTIES StoppedChildIsGone StopTerminates ClearedLoopEnds BacklogDrains
