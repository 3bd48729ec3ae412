--------------------------- MODULE OverlayProcess ---------------------------
(***************************************************************************)
(* OverlayFacade (overlay/facade.py): the bot process starts and stops the  *)
(* overlay child process and sends it messages through a queue; the child   *)
(* runs a blocking web server in its main thread and an update loop in a    *)
(* second thread.  The multiprocessing event and queue outlive the child:   *)
(* one facade hands the same two objects to every child it starts.          *)
(*                                                                         *)
(* A step is one access to what the other process can see or change.        *)
(* What a frame shows, configuration and logging are left out, and so is the *)
(* browser thread of the child, which ends by itself.                       *)
(***************************************************************************)
EXTENDS Naturals, Sequences

CONSTANTS
    Senders,        \* bot threads that call send_message
    StopOutcomes,   \* subset of {"returns", "raises"}: websocket_handler.stop()
                    \* makes start() return, or raises (flask_socketio outside
                    \* of a request), as the installed server has it
    Kills,          \* subset of {"hard", "SIGTERM"}: terminate() kills at once
                    \* (Windows), or raises a signal in the child
    Faults,         \* subset of {"child fails", "frame raises", "interrupt"}:
                    \* what may go wrong
    MaxRuns,        \* child processes started (model bound)
    MaxSent,        \* messages sent (model bound)
    MaxQueue        \* stop() is called with fewer items in the queue (model bound)

ASSUME OverlayAssumption ==
    /\ StopOutcomes \subseteq {"returns", "raises"}
    /\ Kills \subseteq {"hard", "SIGTERM"}
    /\ MaxRuns \in Nat
    /\ MaxSent \in Nat
    /\ MaxQueue \in Nat

VARIABLES
    event,      \* running_event is set
    queue,      \* facade.queue
    main,       \* the child's main thread; "off": there is no live child
    loop,       \* the child's update_loop thread
    caller,     \* where the bot's main thread is in start() or stop()
    sender,     \* senders that have seen a live child and will put a message
    runs,       \* children started so far
    sent,       \* messages put so far
    handled,    \* what update_loop took from the queue last, and the run it was sent in
    slow        \* a join timed out while this child was still busy (for the properties)

vars == <<event, queue, main, loop, caller, sender, runs, sent, handled, slow>>
child == <<main, loop>>

\* What is put in the queue: the token "STOP", or an overlay action.  The run
\* it was put in is kept for the properties only.
Item(k) == [kind |-> k, run |-> runs]
Entries == [kind : {"STOP", "message"}, run : 0..MaxRuns]
Nothing == [kind |-> "nothing", run |-> 0]

Alive == main # "off"

Init ==
    /\ event = FALSE
    /\ queue = <<>>
    /\ main = "off"
    /\ loop = "off"
    /\ caller = "idle"
    /\ sender = {}
    /\ runs = 0
    /\ sent = 0
    /\ handled = Nothing
    /\ slow = FALSE
-----------------------------------------------------------------------------
(* The bot process.                                                        *)

\* start(): the event is set first, then the child is looked at.
StartSetsEvent ==
    /\ caller = "idle"
    /\ runs < MaxRuns
    /\ event' = TRUE
    /\ caller' = "spawn"
    /\ UNCHANGED <<queue, child, sender, runs, sent, handled, slow>>

Spawn ==
    /\ caller = "spawn"
    /\ ~Alive
    /\ main' = "boot"
    /\ loop' = "off"
    /\ runs' = runs + 1
    /\ handled' = Nothing
    /\ slow' = FALSE
    /\ caller' = "idle"
    /\ UNCHANGED <<event, queue, sender, sent>>

AlreadyAlive ==
    /\ caller = "spawn"
    /\ Alive
    /\ caller' = "idle"
    /\ UNCHANGED <<event, queue, child, sender, runs, sent, handled, slow>>

\* stop() without a live child, and the last line of every stop().
StopNothing ==
    /\ caller = "idle"
    /\ ~Alive
    /\ caller' = "clear"
    /\ UNCHANGED <<event, queue, child, sender, runs, sent, handled, slow>>

\* Mutant (OwnStopIsNotTaken): only the token, the event stays set.
StopKeepsEvent ==
    /\ caller = "idle"
    /\ Alive
    /\ Len(queue) < MaxQueue
    /\ caller' = "put"
    /\ UNCHANGED <<event, queue, child, sender, runs, sent, handled, slow>>

StopClearsEvent ==
    /\ caller = "idle"
    /\ Alive
    /\ Len(queue) < MaxQueue
    /\ event' = FALSE
    /\ caller' = "put"
    /\ UNCHANGED <<queue, child, sender, runs, sent, handled, slow>>

StopToken == Item("STOP")

PutStop ==
    /\ caller = "put"
    /\ queue' = Append(queue, StopToken)
    /\ caller' = "join"
    /\ UNCHANGED <<event, child, sender, runs, sent, handled, slow>>

Joined ==
    /\ caller \in {"join", "join again"}
    /\ ~Alive
    /\ caller' = "clear"
    /\ UNCHANGED <<event, queue, child, sender, runs, sent, handled, slow>>

\* The child waits for nothing but its blocking start().
Stuck == main = "serving" /\ loop \in {"off", "ended"}

\* Mutant (StopTerminates): join() without a timeout.
NeverTimedOut == FALSE

TimedOut == Alive

NoteSlow == slow' = (slow \/ ~Stuck)

\* The SIGTERM and SIGINT handler of the child (handle_signals).  It runs in
\* the main thread, so a stop() that raises leaves start() as an exception.
SignalHandler ==
    /\ event' = FALSE
    /\ \/ "returns" \in StopOutcomes /\ main' = IF main = "serving" THEN "ended" ELSE main
       \/ "raises" \in StopOutcomes /\ main' = "ended"
    /\ UNCHANGED loop

\* Mutant (StoppedChildIsGone): a second join, but no terminate().
JoinAgainOnly ==
    /\ caller = "join"
    /\ TimedOut
    /\ caller' = "join again"
    /\ UNCHANGED <<event, queue, child, sender, runs, sent, handled, slow>>

\* The first join has timed out: terminate().  Before the child has installed
\* its handler (facade.py:258) the signal kills it.
Terminate ==
    /\ caller = "join"
    /\ TimedOut
    /\ NoteSlow
    /\ caller' = "join again"
    /\ \/ /\ "hard" \in Kills \/ main = "boot"
          /\ main' = "off"
          /\ loop' = "off"
          /\ UNCHANGED event
       \/ /\ "SIGTERM" \in Kills /\ main # "boot"
          /\ SignalHandler
    /\ UNCHANGED <<queue, sender, runs, sent, handled>>

GiveUp ==
    /\ caller = "join again"
    /\ TimedOut
    /\ NoteSlow
    /\ caller' = "clear"
    /\ UNCHANGED <<event, queue, child, sender, runs, sent, handled>>

StopEnds ==
    /\ caller = "clear"
    /\ event' = FALSE
    /\ caller' = "idle"
    /\ UNCHANGED <<queue, child, sender, runs, sent, handled, slow>>

\* send_message(): is_alive(), then put().
CheckAlive(s) ==
    /\ s \notin sender
    /\ Alive
    /\ sent < MaxSent
    /\ sender' = sender \cup {s}
    /\ sent' = sent + 1
    /\ UNCHANGED <<event, queue, child, caller, runs, handled, slow>>

PutMessage(s) ==
    /\ s \in sender
    /\ queue' = Append(queue, Item("message"))
    /\ sender' = sender \ {s}
    /\ UNCHANGED <<event, child, caller, runs, sent, handled, slow>>
-----------------------------------------------------------------------------
(* The child process.                                                      *)

\* The services are built and the signal handlers installed; the update loop
\* is started, and then the server.
InstallHandlers ==
    /\ main = "boot"
    /\ main' = "ready"
    /\ UNCHANGED <<event, queue, loop, caller, sender, runs, sent, handled, slow>>

StartLoop ==
    /\ main = "ready"
    /\ main' = "launch"
    /\ loop' = "top"
    /\ UNCHANGED <<event, queue, caller, sender, runs, sent, handled, slow>>

StartServer ==
    /\ main = "launch"
    /\ main' = "serving"
    /\ UNCHANGED <<event, queue, loop, caller, sender, runs, sent, handled, slow>>

\* An exception on the way, or from start() itself (the port is taken): logged,
\* and the main thread leaves _run_overlay.
ChildFails ==
    /\ "child fails" \in Faults
    /\ main \in {"boot", "ready", "launch"}
    /\ main' = "ended"
    /\ UNCHANGED <<event, queue, loop, caller, sender, runs, sent, handled, slow>>

\* The process ends when its two threads have ended.
Exit ==
    /\ main = "ended"
    /\ loop \in {"off", "ended"}
    /\ main' = "off"
    /\ loop' = "off"
    /\ UNCHANGED <<event, queue, caller, sender, runs, sent, handled, slow>>

\* websocket_handler.stop() called by the update loop, which logs an exception.
StopServer ==
    \/ "returns" \in StopOutcomes /\ main' = IF main = "serving" THEN "ended" ELSE main
    \/ "raises" \in StopOutcomes /\ main' = main

LoopContinues ==
    /\ loop = "top"
    /\ event
    /\ loop' = "drain"
    /\ UNCHANGED <<event, queue, main, caller, sender, runs, sent, handled, slow>>

LoopEnds ==
    /\ loop = "top"
    /\ ~event
    /\ loop' = "ended"
    /\ UNCHANGED <<event, queue, main, caller, sender, runs, sent, handled, slow>>

\* queue.empty(): render a frame, sleep, look at the event again.
Drained ==
    /\ loop = "drain"
    /\ queue = <<>>
    /\ loop' = "frame"
    /\ UNCHANGED <<event, queue, main, caller, sender, runs, sent, handled, slow>>

\* Mutant (ClearedLoopEnds): no break out of the inner loop.
LeaveWithoutBreak ==
    /\ loop = "drain"
    /\ queue # <<>>
    /\ ~event
    /\ StopServer
    /\ UNCHANGED <<event, queue, loop, caller, sender, runs, sent, handled, slow>>

\* There is a message, but the event is cleared: the message is not taken.
LeaveBacklog ==
    /\ loop = "drain"
    /\ queue # <<>>
    /\ ~event
    /\ StopServer
    /\ loop' = "frame"
    /\ UNCHANGED <<event, queue, caller, sender, runs, sent, handled, slow>>

TakeStop ==
    /\ loop = "drain"
    /\ queue # <<>>
    /\ event
    /\ Head(queue).kind = "STOP"
    /\ queue' = Tail(queue)
    /\ handled' = Head(queue)
    /\ event' = FALSE
    /\ StopServer
    /\ loop' = "frame"
    /\ UNCHANGED <<caller, sender, runs, sent, slow>>

\* Mutant (BacklogDrains): the message is looked at and stays in the queue.
PeekMessage ==
    /\ loop = "drain"
    /\ queue # <<>>
    /\ event
    /\ Head(queue).kind = "message"
    /\ handled' = Head(queue)
    /\ UNCHANGED <<event, queue, child, caller, sender, runs, sent, slow>>

TakeMessage ==
    /\ loop = "drain"
    /\ queue # <<>>
    /\ event
    /\ Head(queue).kind = "message"
    /\ queue' = Tail(queue)
    /\ handled' = Head(queue)
    /\ UNCHANGED <<event, child, caller, sender, runs, sent, slow>>

RenderFrame ==
    /\ loop = "frame"
    /\ loop' = "top"
    /\ UNCHANGED <<event, queue, main, caller, sender, runs, sent, handled, slow>>

\* render_frame() is called outside of the loop's try (facade.py:306): an
\* exception ends the thread, whatever the event says, and the server goes on.
FrameRaises ==
    /\ "frame raises" \in Faults
    /\ loop = "frame"
    /\ loop' = "ended"
    /\ UNCHANGED <<event, queue, main, caller, sender, runs, sent, handled, slow>>

\* Ctrl-C reaches the child, too: until it has installed its handler the
\* signal has its default action (facade.py:247) and kills it.
Interrupt ==
    /\ "interrupt" \in Faults
    /\ \/ /\ main = "boot"
          /\ main' = "off"
          /\ UNCHANGED <<event, loop>>
       \/ /\ main \notin {"off", "boot"}
          /\ SignalHandler
    /\ UNCHANGED <<queue, caller, sender, runs, sent, handled, slow>>
-----------------------------------------------------------------------------
Bot ==
    \/ StartSetsEvent \/ Spawn \/ AlreadyAlive
    \/ StopNothing \/ StopClearsEvent \/ PutStop \/ Joined \/ Terminate \/ GiveUp
    \/ StopEnds

Started == Spawn \/ AlreadyAlive \/ PutStop \/ Joined \/ Terminate \/ GiveUp \/ StopEnds

ChildMain == InstallHandlers \/ StartLoop \/ StartServer \/ Exit
ChildLoop ==
    \/ LoopContinues \/ LoopEnds \/ Drained \/ LeaveBacklog
    \/ TakeStop \/ TakeMessage \/ RenderFrame

Next ==
    \/ Bot
    \/ \E s \in Senders : CheckAlive(s) \/ PutMessage(s)
    \/ ChildMain
    \/ ChildFails
    \/ ChildLoop
    \/ FrameRaises
    \/ Interrupt

Spec == Init /\ [][Next]_vars

\* A call of start() or stop() goes on once it has begun, and the threads of
\* the child run.  Nobody has to call start(), stop() or send_message(), and
\* nothing has to fail.
Fairness == WF_vars(Started) /\ WF_vars(ChildMain) /\ WF_vars(ChildLoop)

FairSpec == Spec /\ Fairness
-----------------------------------------------------------------------------
\* The shape of every variable.
TypeOK ==
    /\ event \in BOOLEAN
    /\ queue \in Seq(Entries)
    /\ main \in {"off", "boot", "ready", "launch", "serving", "ended"}
    /\ loop \in {"off", "top", "drain", "frame", "ended"}
    /\ caller \in {"idle", "spawn", "put", "join", "join again", "clear"}
    /\ sender \subseteq Senders
    /\ runs \in 0..MaxRuns
    /\ sent \in 0..MaxSent
    /\ handled \in Entries \cup {Nothing}
    /\ slow \in BOOLEAN

\* stop() returns, although the child may be blocked in start() for ever
\* (facade.py:178-184: both joins are bounded).
StopTerminates == caller = "put" ~> caller = "idle"

\* The child is gone when stop() returns: what the event and the queue do not
\* achieve, terminate() does.  Only a child that was still busy with its start
\* or a frame when five seconds were over may survive (facade.py:179-184).
StoppedChildIsGone == [][caller = "clear" /\ caller' = "idle" => ~Alive \/ slow]_vars

\* Once the event is cleared, and unless start() sets it again, the update loop
\* comes to its end, whatever is in the queue (facade.py:275-280).
ClearedLoopEnds == ~event ~> (event \/ loop \in {"off", "ended"})

\* While the update loop runs and the event stays set, whatever is in the queue
\* is taken (facade.py:275-307).  A frame that raises ends the loop although
\* the event is set and the server serves on: what is sent after that stays.
BacklogDrains ==
    queue # <<>> /\ event /\ loop \in {"top", "drain", "frame"}
        ~> queue = <<>> \/ ~event \/ loop \in {"off", "ended"}

\* No child takes the STOP that was meant for it: stop() clears the event
\* before it puts the token, and the loop looks at the event before it takes
\* anything.  Only the token left by an earlier child is ever taken, unless
\* stop() gave up on a busy child, whose event the next start() sets again.
OwnStopIsNotTaken == handled.kind = "STOP" => handled.run < runs \/ slow
=============================================================================
