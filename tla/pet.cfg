CONSTANTS
    d1 = d1
    d2 = d2
    NoData = NoData
    Order <- TwoAnimations
    Unknown = {"gone"}
    Gif <- OwnGif
    IdleGif = "idle"
    Frames <- Lengths
    Data = {d1, d2}
    MaxAdded = 4
SPECIFICATION FairSpec
INVARIANTS NothingLost FrameInAnimation
PROPERTIES ImplementsPlaylist EveryAskIsShown
