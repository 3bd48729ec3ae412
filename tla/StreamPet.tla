----------------------------- MODULE StreamPet -----------------------------
(***************************************************************************)
(* StreamPet.py: the state machine that decides which animation the overlay *)
(* shows.  add_animation puts an item into an internal queue; update, called *)
(* for every rendered frame, counts frames, switches to the prepared         *)
(* animation after the last frame, and prepares the next one from the queue. *)
(* Both are called by the update loop of the overlay's child process.       *)
(*                                                                         *)
(* Abstractions: calls of update before 1/fps seconds have passed do nothing *)
(* and are left out; next_frames and frames are always those of the          *)
(* animation prepared and shown, so they are not variables; a failed scan of *)
(* a GIF (one frame) is one of the values of Frames.                        *)
(***************************************************************************)
EXTENDS Naturals, Sequences

CONSTANTS
    Order,      \* the configured animations, in the order of the dictionary
    Unknown,    \* names that reactions use and the configuration lacks
    Gif,        \* Gif[n]: the file of animation n
    IdleGif,    \* the file of "idle"
    Frames,     \* Frames[n]: frames of animation n, and of "idle"
    Data,       \* what add_animation passes on: user, speech bubble, ...
    NoData,     \* the empty data of "idle"
    MaxAdded    \* items added (model bound)

Animations == {Order[i] : i \in DOMAIN Order}
Names == Animations \cup {"idle"}
Items == [name : Animations \cup Unknown, data : Data]

ASSUME PetAssumption ==
    /\ Order \in Seq(STRING)
    /\ \A i, j \in DOMAIN Order : Order[i] = Order[j] => i = j
    /\ "idle" \notin Animations
    /\ Animations \cap Unknown = {}
    /\ Frames \in [Names -> Nat \ {0}]
    /\ MaxAdded \in Nat

VARIABLES
    queue,      \* self.queue
    current,    \* current_animation_name and animation_data
    frame,      \* current_frame
    next,       \* next_animation_name and next_animation_data
    loading,    \* loading_next
    asked,      \* items added so far; this and the next two for the properties
    due,        \* items with a known animation taken from the queue
    shown       \* items with a known animation that became current

vars == <<queue, current, frame, next, loading, asked, due, shown>>

Idle == [name |-> "idle", data |-> NoData]
Play(n, d) == [name |-> n, data |-> d]

Init ==
    /\ queue = <<>>
    /\ current = Idle
    /\ frame = 0
    /\ next = Idle
    /\ loading = FALSE
    /\ asked = 0
    /\ due = <<>>
    /\ shown = <<>>

Known(item) == item.name \in Animations

\* load_gif looks the animation up by its file: "idle" first, then the first
\* animation with that file.
NameOf(gif) ==
    IF gif = IdleGif THEN "idle"
    ELSE Order[CHOOSE i \in DOMAIN Order :
                /\ Gif[Order[i]] = gif
                /\ \A j \in DOMAIN Order : Gif[Order[j]] = gif => i <= j]

\* Mutant (ImplementsPlaylist): the data of the animation before.
LoadGifOldData(gif, data) ==
    /\ next' = Play(NameOf(gif), next.data)
    /\ loading' = (NameOf(gif) # "idle")

LoadGif(gif, data) ==
    /\ next' = Play(NameOf(gif), data)
    /\ loading' = (NameOf(gif) # "idle")

LoadIdle == next' = Idle /\ loading' = FALSE

\* _consume_next_from_queue
ConsumeNext ==
    LET item == Head(queue)
    IN  /\ queue' = Tail(queue)
        /\ \/ /\ Known(item)
              /\ LoadGif(Gif[item.name], item.data)
              /\ due' = Append(due, item)
           \/ /\ ~Known(item)
              /\ LoadIdle
              /\ UNCHANGED due

AddAnimation ==
    /\ asked < MaxAdded
    /\ asked' = asked + 1
    /\ \E item \in Items : queue' = Append(queue, item)
    /\ UNCHANGED <<current, frame, next, loading, due, shown>>

\* Mutant (FrameInAnimation): one frame too many.
LastFrameLate == frame + 1 > Frames[current.name]

LastFrame == frame + 1 >= Frames[current.name]

\* Mutant (EveryAskIsShown): while the queue is empty the animation repeats.
SwitchFromQueueOnly ==
    /\ LastFrame
    /\ frame' = 2
    /\ \/ /\ queue = <<>>
          /\ UNCHANGED <<queue, current, next, loading, due, shown>>
       \/ /\ queue # <<>>
          /\ current' = next
          /\ shown' = IF next.name = "idle" THEN shown ELSE Append(shown, next)
          /\ ConsumeNext
    /\ UNCHANGED asked

\* update after the last frame: the prepared animation becomes current, and
\* the one after it is prepared.
Switch ==
    /\ LastFrame
    /\ current' = next
    /\ frame' = 2
    /\ shown' = IF next.name = "idle" THEN shown ELSE Append(shown, next)
    /\ \/ /\ queue = <<>>
          /\ LoadIdle
          /\ UNCHANGED <<queue, due>>
       \/ /\ queue # <<>>
          /\ ConsumeNext
    /\ UNCHANGED asked

\* Mutant (NothingLost): what is prepared may be replaced.
PrepareAgain ==
    /\ ~LastFrame
    /\ queue # <<>>
    /\ ConsumeNext
    /\ frame' = frame + 1
    /\ UNCHANGED <<current, asked, shown>>

\* update before it: the next animation is prepared unless one is already.
Prepare ==
    /\ ~LastFrame
    /\ queue # <<>>
    /\ ~loading
    /\ ConsumeNext
    /\ frame' = frame + 1
    /\ UNCHANGED <<current, asked, shown>>

NextFrame ==
    /\ ~LastFrame
    /\ queue = <<>> \/ loading
    /\ frame' = frame + 1
    /\ UNCHANGED <<queue, current, next, loading, asked, due, shown>>

Update == Switch \/ Prepare \/ NextFrame
Next == AddAnimation \/ Update

Spec == Init /\ [][Next]_vars

\* The update loop renders a frame, and calls update, again and again
\* (overlay/facade.py:275-308).
FairSpec == Spec /\ WF_vars(Update)
-----------------------------------------------------------------------------
\* The shape of every variable.
TypeOK ==
    /\ queue \in Seq(Items)
    /\ current \in [name : Names, data : Data \cup {NoData}]
    /\ frame \in Nat
    /\ next \in [name : Names, data : Data \cup {NoData}]
    /\ loading \in BOOLEAN
    /\ asked \in Nat
    /\ due \in Seq(Items)
    /\ shown \in Seq(Items)

\* The prepared animation, if it is a regular one.
Prepared == IF loading THEN <<next>> ELSE <<>>

\* No animation taken from the queue is lost, doubled or overtaken: what has
\* been shown and what is prepared are all that was taken (StreamPet.py:25-26).
\* Holds if every animation has a file of its own, and not that of "idle".
NothingLost == shown \o Prepared = due

\* The frame counter stays within the animation; after a switch it is 2,
\* whatever the animation's length (StreamPet.py:232 and 254).
FrameInAnimation == frame <= 2 \/ frame < Frames[current.name]

\* The known items among the first n of s, in their order.  A recursive
\* function, as SelectSeq is, but one the provers can expand.
KnownUpTo(s) ==
    LET kept[n \in 0..Len(s)] ==
            IF n = 0 THEN <<>>
            ELSE IF Known(s[n]) THEN Append(kept[n - 1], s[n])
            ELSE kept[n - 1]
    IN  kept

\* What viewers see of the queue.
KnownOf(s) == KnownUpTo(s)[Len(s)]
PL == INSTANCE Playlist WITH
        Plays <- {i \in Items : Known(i)}, waiting <- Prepared \o KnownOf(queue)
ImplementsPlaylist == PL!Spec

\* Everything asked for is shown in the end, however long the animations are
\* and whatever unknown names are in between.
EveryAskIsShown ==
    \A k \in 1..MaxAdded : Len(due \o KnownOf(queue)) >= k ~> Len(shown) >= k
=============================================================================
