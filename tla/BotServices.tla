---------------------------- MODULE BotServices ----------------------------
(***************************************************************************)
(* The lifecycle of the bot with its timer scheduler: run() starts the        *)
(* scheduler after the overlay backend and before the webhook, stop() ends it *)
(* after the tunnel and before the backend (bot.py:415-424 and 387-398), and  *)
(* the daemon threads go on between the steps of the main thread.             *)
(*                                                                         *)
(* StartScheduler and StopScheduler of BotLifecycle are here the last step of *)
(* TimerScheduler's start() and stop(); the steps before leave the main       *)
(* thread where it is in run().                                             *)
(***************************************************************************)
EXTENDS BotLifecycle, TimerScheduler

servicesVars == <<vars, loopVars>>

\* Daemon threads end with the interpreter.
Gone == pc \in {"exited", "killed"}

ServicesInit == Init /\ SchedulerInit

\* _start_scheduler: TimerScheduler.start().
ClearStopEvent == pc = "scheduler" /\ Start /\ UNCHANGED vars
SpawnLoop      == StartScheduler /\ Spawn

\* _stop_scheduler: TimerScheduler.stop().
Join == Stop \/ LookAtThread \/ Joined \/ JoinTimesOut
JoinLoop   == pc = "stop scheduler" /\ Join /\ UNCHANGED vars
ForgetLoop == StopScheduler /\ Forget

\* A tick goes on whatever the main thread does, until the process ends.
LoopStep(l) == ~Gone /\ RunLoop(l) /\ UNCHANGED vars

\* What the main thread does otherwise.
Alone(A) == A /\ pc \notin {"scheduler", "stop scheduler"} /\ UNCHANGED loopVars

ComesUp   == ClearStopEvent \/ SpawnLoop \/ Alone(Starting)
GoesDown  == JoinLoop \/ ForgetLoop \/ Alone(Stopping)
Disturbed == (RequestStop \/ Interrupt \/ InterruptRaises) /\ UNCHANGED loopVars

ServicesNext ==
    \/ ComesUp \/ GoesDown \/ Disturbed
    \/ Alone(Run) \/ Alone(Exiting) \/ Alone(Answered)
    \/ \E l \in Loops : LoopStep(l)

ServicesSpec == ServicesInit /\ [][ServicesNext]_servicesVars

\* The main thread goes on, except where it waits for the user's input()
\* (ports.py:153) or for a line of cloudflared (tunnel.py:92): neither has a
\* timeout, so Answered is not fair.  Its other calls return, as requests, joins
\* and waits have timeouts, and the server's shutdown() waits for the request
\* that is being handled, which ends like a tick.  Threads run, and a tick (one
\* handle_event) ends.
ServicesFairness ==
    /\ WF_servicesVars(ComesUp)
    /\ WF_servicesVars(GoesDown)
    /\ WF_servicesVars(Alone(Exiting))
    /\ \A l \in Loops : WF_servicesVars(LoopStep(l))

ServicesFairSpec == ServicesSpec /\ ServicesFairness
-----------------------------------------------------------------------------
\* A tick reaches the overlay: while a timer thread dispatches timer.tick, whose
\* reactions send commands to the overlay, the backend is started, since run()
\* starts it before the thread and stop() ends it after (bot.py:415-421, 387-398).
\* Not so for a thread that stop() gave up on, once a Ctrl-C has come, which may
\* end the child at once, or while the interpreter exits, where atexit stops the
\* backend first.
TicksReachOverlay ==
    Production /\ ~interrupted /\ pc \notin Leaving /\ ~Gone
        => \A l \in Loops \ outlived : loop[l] = "tick" => backend

\* A thread whose stop event stays set ends, or the process does.
StopEndsLoops ==
    \A l \in Loops : stopEvent /\ Alive(l) ~> ~stopEvent \/ ~Alive(l) \/ Gone

\* A scheduler that was started raises a tick, or is stopped, however often it
\* was stopped before (scheduler.py:90: the event is cleared again).
Ticks ==
    caller = "spawn" ~> \/ caller = "look" \/ Gone
                        \/ thread # NoLoop /\ loop[thread] = "tick"
=============================================================================
