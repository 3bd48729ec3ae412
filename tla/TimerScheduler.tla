--------------------------- MODULE TimerScheduler ---------------------------
(***************************************************************************)
(* TimerScheduler (scheduler.py): start() and stop(), called by the bot's    *)
(* main thread, and the daemon thread that waits and raises timer.tick.      *)
(* Every start makes a new thread, all of them share one stop event, and     *)
(* stop() waits for a thread two seconds at most.                            *)
(***************************************************************************)
EXTENDS Naturals, FiniteSets

CONSTANTS
    Loops,      \* threads that may be started (model bound)
    NoLoop      \* self._thread is None

ASSUME SchedulerAssumption == NoLoop \notin Loops

VARIABLES
    stopEvent,  \* self._stop_event is set
    thread,     \* self._thread
    loop,       \* where each thread is; "new" before it is started
    caller,     \* where the main thread is in start() or stop()
    joined,     \* the thread that stop() joins
    outlived    \* threads whose join timed out (for the properties only)

loopVars == <<stopEvent, thread, loop, caller, joined, outlived>>

Alive(l) == l # NoLoop /\ loop[l] \notin {"new", "ended"}

SchedulerInit ==
    /\ stopEvent = FALSE
    /\ thread = NoLoop
    /\ loop = [l \in Loops |-> "new"]
    /\ caller = "idle"
    /\ joined = NoLoop
    /\ outlived = {}
-----------------------------------------------------------------------------
(* The main thread.                                                        *)

\* Mutant (Ticks): the event of the last stop() stays set.
StartWithoutClear ==
    /\ caller = "idle"
    /\ ~Alive(thread)
    /\ \E l \in Loops : loop[l] = "new"
    /\ caller' = "spawn"
    /\ UNCHANGED <<stopEvent, thread, loop, joined, outlived>>

\* start() while the thread is alive does nothing.
Start ==
    /\ caller = "idle"
    /\ ~Alive(thread)
    /\ \E l \in Loops : loop[l] = "new"
    /\ stopEvent' = FALSE
    /\ caller' = "spawn"
    /\ UNCHANGED <<thread, loop, joined, outlived>>

Spawn ==
    /\ caller = "spawn"
    /\ \E l \in Loops :
           /\ loop[l] = "new"
           /\ thread' = l
           /\ loop' = [loop EXCEPT ![l] = "test"]
    /\ caller' = "idle"
    /\ UNCHANGED <<stopEvent, joined, outlived>>

Stop ==
    /\ caller = "idle"
    /\ stopEvent' = TRUE
    /\ caller' = "look"
    /\ UNCHANGED <<thread, loop, joined, outlived>>

\* Mutant (OneLoop, QuietWhenStopped): no join.
LookWithoutJoin ==
    /\ caller = "look"
    /\ joined' = thread
    /\ caller' = "forget"
    /\ UNCHANGED <<stopEvent, thread, loop, outlived>>

\* thread is not None and thread.is_alive(): join it.
LookAtThread ==
    /\ caller = "look"
    /\ joined' = thread
    /\ caller' = IF Alive(thread) THEN "join" ELSE "forget"
    /\ UNCHANGED <<stopEvent, thread, loop, outlived>>

Joined ==
    /\ caller = "join"
    /\ loop[joined] = "ended"
    /\ caller' = "forget"
    /\ UNCHANGED <<stopEvent, thread, loop, joined, outlived>>

\* join(timeout=2.0) returns although the thread runs: its tick (one
\* handle_event) takes longer than that.
JoinTimesOut ==
    /\ caller = "join"
    /\ loop[joined] = "tick"
    /\ outlived' = outlived \cup {joined}
    /\ caller' = "forget"
    /\ UNCHANGED <<stopEvent, thread, loop, joined>>

Forget ==
    /\ caller = "forget"
    /\ thread' = NoLoop
    /\ joined' = NoLoop
    /\ caller' = "idle"
    /\ UNCHANGED <<stopEvent, loop, outlived>>
-----------------------------------------------------------------------------
(* The daemon thread, _loop.                                               *)

Move(l, from, to) == loop[l] = from /\ loop' = [loop EXCEPT ![l] = to]
Still == UNCHANGED <<stopEvent, thread, caller, joined, outlived>>

Continue(l) == ~stopEvent /\ Move(l, "test", "wait") /\ Still
Leave(l)    == stopEvent /\ Move(l, "test", "ended") /\ Still

\* wait(interval) returns because the event is set, or when the time is over.
Woken(l)    == stopEvent /\ Move(l, "wait", "ended") /\ Still
TimeIsUp(l) == ~stopEvent /\ Move(l, "wait", "tick") /\ Still

\* Mutant (StopEndsLoops): handle_event never returns.
TickHangs(l) == FALSE

\* handle_event("timer.tick", {}) returns or raises, which is logged.
TickDone(l) == Move(l, "tick", "test") /\ Still

RunLoop(l) == Continue(l) \/ Leave(l) \/ Woken(l) \/ TimeIsUp(l) \/ TickDone(l)
Main == Start \/ Spawn \/ Stop \/ LookAtThread \/ Joined \/ JoinTimesOut \/ Forget

SchedulerNext == Main \/ \E l \in Loops : RunLoop(l)

SchedulerSpec == SchedulerInit /\ [][SchedulerNext]_loopVars
-----------------------------------------------------------------------------
\* The shape of every variable.
SchedulerTypeOK ==
    /\ stopEvent \in BOOLEAN
    /\ thread \in Loops \cup {NoLoop}
    /\ loop \in [Loops -> {"new", "test", "wait", "tick", "ended"}]
    /\ caller \in {"idle", "spawn", "look", "join", "forget"}
    /\ joined \in Loops \cup {NoLoop}
    /\ outlived \subseteq Loops

\* Of the threads that stop() has not given up on, never more than one is alive,
\* so that one tick ends before the next begins (scheduler.py:82-91: start() is a
\* no-op if running), however start() and stop() alternate with the ticks.
OneLoop ==
    \A k, l \in Loops \ outlived : Alive(k) /\ Alive(l) => k = l

\* When stop() has returned no thread is left that could still raise a tick
\* (scheduler.py:96-106), except those whose join timed out.
QuietWhenStopped ==
    stopEvent /\ caller = "idle" => \A l \in Loops \ outlived : ~Alive(l)
=============================================================================
