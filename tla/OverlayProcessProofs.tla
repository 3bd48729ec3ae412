------------------------ MODULE OverlayProcessProofs ------------------------
(***************************************************************************)
(* Theorems about OverlayProcess: whatever the number of starts, messages    *)
(* and faults, a child never takes the STOP that was put for it, unless it    *)
(* was still busy when stop() gave up on it.                                 *)
(***************************************************************************)
EXTENDS OverlayProcess, SequenceTheorems, TLAPS

\* The STOP of the present child is in the queue.
OwnStop == \E i \in 1..Len(queue) : queue[i].kind = "STOP" /\ queue[i].run = runs

\* The update loop of the present child has ended, or never begins.
LoopOver == loop = "ended" \/ (loop = "off" /\ main \notin {"boot", "ready"})

\* The two threads of the child go together.
ThreadsAgree ==
    /\ main = "off" => loop = "off"
    /\ main \in {"boot", "ready"} => loop = "off"
    /\ main \in {"launch", "serving"} => loop # "off"

\* stop() clears the event before anything else it does with a live child, and
\* only lets go of a child that is gone, or whose loop has ended, or that is slow.
StopInOrder ==
    /\ caller \in {"put", "join", "join again"} => ~event
    /\ caller = "spawn" => runs < MaxRuns
    /\ \A i \in 1..Len(queue) : queue[i].run <= runs
    /\ OwnStop => \/ ~event /\ caller \in {"join", "join again"}
                  \/ main = "off"
                  \/ LoopOver
                  \/ slow

Inv == TypeOK /\ ThreadsAgree /\ StopInOrder /\ OwnStopIsNotTaken

\* The number of runs is a number.
LEMMA RunsNat == TypeOK => runs \in Nat
<1>1. TypeOK => runs \in 0..MaxRuns
  BY DEF TypeOK
<1> QED BY <1>1

\* Init establishes the invariant.
LEMMA InitInv == Init => Inv
<1> SUFFICES ASSUME Init PROVE Inv
  OBVIOUS
<1>1. <<>> \in Seq(Entries) /\ Len(<<>>) = 0
  BY EmptySeq
<1>2. TypeOK
  <2>1. 0 \in 0..MaxRuns /\ 0 \in 0..MaxSent
    BY OverlayAssumption
  <2> QED BY <1>1, <2>1 DEF Init, TypeOK
<1>3. StopInOrder
  BY <1>1 DEF Init, StopInOrder, OwnStop
<1> QED BY <1>2, <1>3 DEF Init, Inv, ThreadsAgree, OwnStopIsNotTaken, Nothing

\* What the queue holds after an item of the present run was put.
LEMMA AfterPut ==
    ASSUME TypeOK, \A i \in 1..Len(queue) : queue[i].run <= runs,
           NEW k \in {"STOP", "message"}, queue' = Append(queue, Item(k)), runs' = runs
    PROVE  /\ queue' \in Seq(Entries)
           /\ \A i \in 1..Len(queue') : queue'[i].run <= runs
           /\ k = "message" /\ OwnStop' => OwnStop
<1>1. Item(k) \in Entries
  <2>1. runs \in 0..MaxRuns
    BY DEF TypeOK
  <2> QED BY <2>1 DEF Item, Entries
<1>2. queue \in Seq(Entries) /\ runs \in Nat
  BY RunsNat DEF TypeOK
<1>3. /\ queue' \in Seq(Entries)
      /\ Len(queue') = Len(queue) + 1
      /\ \A i \in 1..Len(queue) : queue'[i] = queue[i]
      /\ queue'[Len(queue) + 1] = Item(k)
  BY <1>1, <1>2, AppendProperties
<1>4. \A i \in 1..Len(queue') : i \in 1..Len(queue) \/ i = Len(queue) + 1
  BY <1>2, <1>3, LenProperties
<1>5. \A i \in 1..Len(queue') : queue'[i].run <= runs
  BY <1>2, <1>3, <1>4 DEF Item
<1>6. ASSUME k = "message", OwnStop' PROVE OwnStop
  BY <1>3, <1>4, <1>6 DEF OwnStop, Item
<1> QED BY <1>3, <1>5, <1>6

\* What it holds after its first item was taken.
LEMMA AfterTake ==
    ASSUME TypeOK, \A i \in 1..Len(queue) : queue[i].run <= runs,
           queue # <<>>, queue' = Tail(queue), runs' = runs
    PROVE  /\ queue' \in Seq(Entries)
           /\ Head(queue) \in Entries
           /\ Head(queue).run <= runs
           /\ Head(queue).kind = "STOP" /\ Head(queue).run = runs => OwnStop
           /\ \A i \in 1..Len(queue') : queue'[i].run <= runs
           /\ OwnStop' => OwnStop
<1>1. queue \in Seq(Entries)
  BY DEF TypeOK
<1>2. /\ Head(queue) \in Entries
      /\ queue' \in Seq(Entries)
      /\ Len(queue') = Len(queue) - 1
      /\ \A i \in 1..Len(queue') : queue'[i] = queue[i + 1]
  BY <1>1, HeadTailProperties
<1>3. Len(queue) \in Nat /\ Len(queue) # 0 /\ Head(queue) = queue[1]
  BY <1>1, LenProperties, EmptySeq
<1>4. \A i \in 1..Len(queue') : i + 1 \in 1..Len(queue)
  BY <1>2, <1>3
<1>5. \A i \in 1..Len(queue') : queue'[i].run <= runs
  BY <1>2, <1>4
<1>6. ASSUME OwnStop' PROVE OwnStop
  <2> PICK i \in 1..Len(queue') : queue'[i].kind = "STOP" /\ queue'[i].run = runs
    BY <1>6 DEF OwnStop
  <2> QED BY <1>2, <1>4 DEF OwnStop
<1>7. Head(queue).run <= runs
  BY <1>3
<1>8. Head(queue).kind = "STOP" /\ Head(queue).run = runs => OwnStop
  BY <1>3 DEF OwnStop
<1> QED BY <1>2, <1>5, <1>6, <1>7, <1>8

\* A child once found slow stays slow, and one that gives no reason to wait for
\* it has ended its loop.
LEMMA SlowKept ==
    ASSUME slow \in BOOLEAN, NoteSlow
    PROVE  /\ slow' \in BOOLEAN
           /\ slow => slow'
           /\ slow' \/ Stuck
<1> QED BY DEF NoteSlow, Stuck

\* A signal clears the event, and may end the main thread, never the loop.
LEMMA SignalInv ==
    ASSUME Inv, main \notin {"off", "boot"}, SignalHandler,
           UNCHANGED <<queue, runs, handled, sender, sent>>,
           slow' \in BOOLEAN, slow => slow',
           caller' = caller \/ (caller = "join" /\ caller' = "join again")
    PROVE  Inv'
<1>1. main' \in {main, "ended"} /\ loop' = loop /\ event' = FALSE
  BY DEF SignalHandler
<1>2. TypeOK' /\ ThreadsAgree'
  BY <1>1 DEF Inv, TypeOK, ThreadsAgree
<1>3. OwnStop' => OwnStop
  BY DEF OwnStop
<1>4. StopInOrder'
  BY <1>1, <1>3 DEF Inv, StopInOrder, LoopOver, OwnStop
<1> QED BY <1>2, <1>4 DEF Inv, OwnStopIsNotTaken

\* start() and stop() keep the invariant.
LEMMA BotInv ==
    ASSUME Inv, Bot
    PROVE  Inv'
<1> USE OverlayAssumption DEF child
<1>1. CASE StartSetsEvent
  BY <1>1 DEF StartSetsEvent, Inv, TypeOK, ThreadsAgree, StopInOrder, OwnStop, LoopOver,
      OwnStopIsNotTaken
<1>2. CASE Spawn
  <2>1. \A i \in 1..Len(queue) : queue[i].run \in Nat /\ runs \in Nat
    <3>1. queue \in Seq(Entries) /\ runs \in Nat
      BY RunsNat DEF Inv, TypeOK
    <3>2. \A i \in 1..Len(queue) : queue[i] \in Entries
      BY <3>1, ElementOfSeq
    <3> QED BY <3>1, <3>2 DEF Entries
  <2>2. ~OwnStop' /\ \A i \in 1..Len(queue) : queue[i].run <= runs'
    BY <1>2, <2>1 DEF Spawn, Inv, StopInOrder, OwnStop
  <2>3. runs' \in 0..MaxRuns
    BY <1>2 DEF Spawn, Inv, TypeOK, StopInOrder
  <2> QED BY <1>2, <2>2, <2>3 DEF Spawn, Inv, TypeOK, ThreadsAgree, StopInOrder,
      OwnStopIsNotTaken, Nothing
<1>3. CASE AlreadyAlive
  BY <1>3 DEF AlreadyAlive, Inv, TypeOK, ThreadsAgree, StopInOrder, OwnStop, LoopOver,
      OwnStopIsNotTaken
<1>4. CASE StopNothing
  BY <1>4 DEF StopNothing, Alive, Inv, TypeOK, ThreadsAgree, StopInOrder, OwnStop, LoopOver,
      OwnStopIsNotTaken
<1>5. CASE StopClearsEvent
  BY <1>5 DEF StopClearsEvent, Inv, TypeOK, ThreadsAgree, StopInOrder, OwnStop, LoopOver,
      OwnStopIsNotTaken
<1>6. CASE PutStop
  <2>1. queue' \in Seq(Entries) /\ \A i \in 1..Len(queue') : queue'[i].run <= runs
    BY <1>6, AfterPut DEF PutStop, StopToken, Inv, StopInOrder
  <2> QED BY <1>6, <2>1 DEF PutStop, Inv, TypeOK, ThreadsAgree, StopInOrder,
      OwnStopIsNotTaken
<1>7. CASE Joined
  BY <1>7 DEF Joined, Alive, Inv, TypeOK, ThreadsAgree, StopInOrder, OwnStop, LoopOver,
      OwnStopIsNotTaken
<1>8. CASE Terminate
  <2>0. slow' \in BOOLEAN /\ (slow => slow')
    BY <1>8, SlowKept DEF Terminate, Inv, TypeOK
  <2>1. CASE main' = "off"
    <3>1. loop' = "off" /\ event' = event
      BY <1>8, <2>1 DEF Terminate, SignalHandler, TimedOut, Alive
    <3>2. UNCHANGED <<queue, runs, handled, sender, sent>> /\ caller' = "join again" /\ ~event
      BY <1>8 DEF Terminate, Inv, StopInOrder
    <3>3. TypeOK' /\ ThreadsAgree' /\ StopInOrder'
      BY <2>0, <2>1, <3>1, <3>2 DEF Inv, TypeOK, ThreadsAgree, StopInOrder, OwnStop
    <3> QED BY <2>0, <3>2, <3>3 DEF Inv, OwnStopIsNotTaken
  <2>2. CASE main # "boot" /\ SignalHandler
    <3>1. main # "off" /\ caller = "join" /\ caller' = "join again"
      BY <1>8 DEF Terminate, TimedOut, Alive
    <3>2. UNCHANGED <<queue, runs, handled, sender, sent>>
      BY <1>8 DEF Terminate
    <3> QED BY <2>0, <2>2, <3>1, <3>2, SignalInv
  <2> QED BY <1>8, <2>1, <2>2 DEF Terminate
<1>9. CASE GiveUp
  <2>1. slow' \in BOOLEAN /\ (slow => slow') /\ (slow' \/ LoopOver)
    BY <1>9, SlowKept DEF GiveUp, Stuck, LoopOver, Inv, TypeOK
  <2>2. UNCHANGED <<event, queue, main, loop, sender, runs, sent, handled>> /\ caller' = "clear"
    BY <1>9 DEF GiveUp
  <2>3. TypeOK' /\ ThreadsAgree'
    BY <2>1, <2>2 DEF Inv, TypeOK, ThreadsAgree
  <2>4. StopInOrder'
    BY <2>1, <2>2 DEF Inv, StopInOrder, OwnStop, LoopOver
  <2> QED BY <2>1, <2>2, <2>3, <2>4 DEF Inv, OwnStopIsNotTaken
<1>10. CASE StopEnds
  BY <1>10 DEF StopEnds, Inv, TypeOK, ThreadsAgree, StopInOrder, OwnStop, LoopOver,
      OwnStopIsNotTaken
<1> QED BY <1>1, <1>2, <1>3, <1>4, <1>5, <1>6, <1>7, <1>8, <1>9, <1>10 DEF Bot

\* send_message keeps it.
LEMMA SendInv ==
    ASSUME Inv, NEW s \in Senders, CheckAlive(s) \/ PutMessage(s)
    PROVE  Inv'
<1> USE OverlayAssumption DEF child
<1>1. CASE CheckAlive(s)
  <2>1. sender' \subseteq Senders /\ sent' \in 0..MaxSent
    <3>1. sender \subseteq Senders /\ sent \in 0..MaxSent
      BY DEF Inv, TypeOK
    <3>2. sender' = sender \cup {s} /\ sent < MaxSent /\ sent' = sent + 1
      BY <1>1 DEF CheckAlive
    <3>3. sent' \in 0..MaxSent
      BY <3>1, <3>2, OverlayAssumption
    <3> QED BY <3>1, <3>2, <3>3
  <2>2. UNCHANGED <<event, queue, main, loop, caller, runs, handled, slow>>
    BY <1>1 DEF CheckAlive
  <2>3. TypeOK'
    BY <2>1, <2>2 DEF Inv, TypeOK
  <2>4. StopInOrder'
    BY <2>2 DEF Inv, StopInOrder, OwnStop, LoopOver
  <2>5. ThreadsAgree' /\ OwnStopIsNotTaken'
    BY <2>2 DEF Inv, ThreadsAgree, OwnStopIsNotTaken
  <2> QED BY <2>3, <2>4, <2>5 DEF Inv
<1>2. CASE PutMessage(s)
  <2>1. /\ queue' \in Seq(Entries)
        /\ \A i \in 1..Len(queue') : queue'[i].run <= runs
        /\ OwnStop' => OwnStop
    BY <1>2, AfterPut DEF PutMessage, Inv, StopInOrder
  <2>2. TypeOK'
    BY <1>2, <2>1 DEF PutMessage, Inv, TypeOK
  <2>3. StopInOrder'
    BY <1>2, <2>1 DEF PutMessage, Inv, StopInOrder, LoopOver
  <2> QED BY <1>2, <2>2, <2>3 DEF PutMessage, Inv, ThreadsAgree, OwnStopIsNotTaken
<1> QED BY <1>1, <1>2

\* The child keeps it; its loop takes a STOP only of an earlier run.
LEMMA ChildInv ==
    ASSUME Inv, ChildMain \/ ChildFails \/ ChildLoop \/ FrameRaises \/ Interrupt
    PROVE  Inv'
<1> USE DEF child
<1>1. CASE ChildMain
  <2>1. CASE StartLoop
    BY <2>1 DEF StartLoop, Inv, TypeOK, ThreadsAgree, StopInOrder, OwnStop, LoopOver,
        OwnStopIsNotTaken
  <2>2. CASE StartServer
    BY <2>2 DEF StartServer, Inv, TypeOK, ThreadsAgree, StopInOrder, OwnStop, LoopOver,
        OwnStopIsNotTaken
  <2>3. CASE Exit
    BY <2>3 DEF Exit, Inv, TypeOK, ThreadsAgree, StopInOrder, OwnStop, LoopOver,
        OwnStopIsNotTaken
  <2>4. CASE InstallHandlers
    BY <2>4 DEF InstallHandlers, Inv, TypeOK, ThreadsAgree, StopInOrder, OwnStop, LoopOver,
        OwnStopIsNotTaken
  <2> QED BY <1>1, <2>1, <2>2, <2>3, <2>4 DEF ChildMain
<1>2. CASE ChildFails
  BY <1>2 DEF ChildFails, Inv, TypeOK, ThreadsAgree, StopInOrder, OwnStop, LoopOver,
      OwnStopIsNotTaken
<1>5. CASE Interrupt
  <2>1. slow' \in BOOLEAN /\ (slow => slow')
    BY <1>5 DEF Interrupt, Inv, TypeOK
  <2>2. CASE main = "boot"
    <3>1. /\ main' = "off" /\ loop' = "off" /\ loop = "off"
          /\ UNCHANGED <<event, queue, caller, sender, runs, sent, handled, slow>>
      BY <1>5, <2>2 DEF Interrupt, Inv, ThreadsAgree
    <3>2. TypeOK' /\ ThreadsAgree'
      BY <3>1 DEF Inv, TypeOK, ThreadsAgree
    <3>3. StopInOrder'
      BY <3>1 DEF Inv, StopInOrder, OwnStop
    <3> QED BY <3>1, <3>2, <3>3 DEF Inv, OwnStopIsNotTaken
  <2>3. CASE main # "boot"
    BY <1>5, <2>1, <2>3, SignalInv DEF Interrupt
  <2> QED BY <2>2, <2>3
<1>8. CASE FrameRaises
  BY <1>8 DEF FrameRaises, Inv, TypeOK, ThreadsAgree, StopInOrder, OwnStop, LoopOver,
      OwnStopIsNotTaken
<1>6. CASE LoopContinues \/ LoopEnds \/ Drained \/ RenderFrame
  <2>1. CASE LoopContinues
    BY <2>1 DEF LoopContinues, Inv, TypeOK, ThreadsAgree, StopInOrder, OwnStop, LoopOver,
        OwnStopIsNotTaken
  <2>2. CASE LoopEnds
    BY <2>2 DEF LoopEnds, Inv, TypeOK, ThreadsAgree, StopInOrder, OwnStop, LoopOver,
        OwnStopIsNotTaken
  <2>3. CASE Drained
    BY <2>3 DEF Drained, Inv, TypeOK, ThreadsAgree, StopInOrder, OwnStop, LoopOver,
        OwnStopIsNotTaken
  <2>4. CASE RenderFrame
    BY <2>4 DEF RenderFrame, Inv, TypeOK, ThreadsAgree, StopInOrder, OwnStop, LoopOver,
        OwnStopIsNotTaken
  <2> QED BY <1>6, <2>1, <2>2, <2>3, <2>4
<1>7. CASE LeaveBacklog
  <2>1. /\ UNCHANGED <<event, queue, caller, runs, handled, sender, sent>>
        /\ main' \in {main, "ended"} /\ main \notin {"off", "boot", "ready"}
        /\ loop' = "frame"
    BY <1>7 DEF LeaveBacklog, StopServer, Inv, ThreadsAgree
  <2>2. OwnStop => slow \/ (~event /\ caller \in {"join", "join again"})
    BY <1>7, <2>1 DEF LeaveBacklog, LoopOver, Inv, StopInOrder
  <2>3. slow' = slow
    BY <1>7 DEF LeaveBacklog
  <2>4. TypeOK' /\ ThreadsAgree'
    BY <2>1, <2>3 DEF Inv, TypeOK, ThreadsAgree
  <2>5. StopInOrder'
    BY <2>1, <2>2, <2>3 DEF Inv, StopInOrder, OwnStop
  <2> QED BY <2>1, <2>3, <2>4, <2>5 DEF Inv, OwnStopIsNotTaken
<1>3. CASE TakeStop
  <2>1. OwnStop => slow
    BY <1>3 DEF TakeStop, Inv, ThreadsAgree, StopInOrder, LoopOver
  <2>2. /\ queue' \in Seq(Entries)
        /\ Head(queue) \in Entries
        /\ Head(queue).run <= runs
        /\ Head(queue).run = runs => slow
        /\ \A i \in 1..Len(queue') : queue'[i].run <= runs
        /\ OwnStop' => slow
    BY <1>3, <2>1, AfterTake DEF TakeStop, Inv, StopInOrder
  <2>3. slow' = slow /\ handled' = Head(queue) /\ runs' = runs
    BY <1>3 DEF TakeStop
  <2>4. TypeOK'
    BY <1>3, <2>2 DEF TakeStop, StopServer, Inv, TypeOK
  <2>5. StopInOrder'
    <3>1. event' = FALSE /\ caller' = caller
      BY <1>3 DEF TakeStop
    <3>2. OwnStop' => slow'
      BY <2>2, <2>3
    <3>3. caller' = "spawn" => runs' < MaxRuns
      BY <2>3, <3>1 DEF Inv, StopInOrder
    <3>4. \A i \in 1..Len(queue') : queue'[i].run <= runs'
      BY <2>2, <2>3
    <3> QED BY <3>1, <3>2, <3>3, <3>4 DEF StopInOrder
  <2>6. ThreadsAgree'
    BY <1>3 DEF TakeStop, StopServer, Inv, ThreadsAgree
  <2>7. OwnStopIsNotTaken'
    <3>1. CASE slow
      BY <2>3, <3>1 DEF OwnStopIsNotTaken
    <3>2. CASE ~slow
      <4>1. Head(queue).run \in Nat /\ Head(queue).run # runs
        BY <2>2, <3>2 DEF Entries
      <4>2. handled'.run < runs
        BY <2>2, <2>3, <4>1, RunsNat DEF Inv
      <4> QED BY <2>3, <4>2 DEF OwnStopIsNotTaken
    <3> QED BY <3>1, <3>2
  <2> QED BY <2>4, <2>5, <2>6, <2>7 DEF Inv
<1>4. CASE TakeMessage
  <2>1. /\ queue' \in Seq(Entries)
        /\ Head(queue) \in Entries
        /\ \A i \in 1..Len(queue') : queue'[i].run <= runs
        /\ OwnStop' => OwnStop
    BY <1>4, AfterTake DEF TakeMessage, Inv, StopInOrder
  <2>2. TypeOK'
    BY <1>4, <2>1 DEF TakeMessage, Inv, TypeOK
  <2>3. StopInOrder'
    BY <1>4, <2>1 DEF TakeMessage, Inv, StopInOrder, LoopOver
  <2> QED BY <1>4, <2>2, <2>3 DEF TakeMessage, Inv, ThreadsAgree, OwnStopIsNotTaken
<1> QED BY <1>1, <1>2, <1>3, <1>4, <1>5, <1>6, <1>7, <1>8 DEF ChildLoop

\* Every step keeps the invariant.
LEMMA NextInv ==
    ASSUME Inv, [Next]_vars
    PROVE  Inv'
<1>1. CASE UNCHANGED vars
  <2>1. TypeOK'
    BY <1>1 DEF vars, child, Inv, TypeOK
  <2>2. StopInOrder'
    BY <1>1 DEF vars, child, Inv, StopInOrder, OwnStop, LoopOver
  <2>3. ThreadsAgree' /\ OwnStopIsNotTaken'
    BY <1>1 DEF vars, child, Inv, ThreadsAgree, OwnStopIsNotTaken
  <2> QED BY <2>1, <2>2, <2>3 DEF Inv
<1> QED BY <1>1, BotInv, SendInv, ChildInv DEF Next

\* The invariant holds throughout.
LEMMA Invariance ==
    Spec => []Inv
<1>1. Inv /\ [Next]_vars => Inv'
  BY NextInv
<1> QED BY InitInv, <1>1, PTL DEF Spec

\* Every variable keeps its shape.
THEOREM TypeCorrect ==
    Spec => []TypeOK
<1>1. Inv => TypeOK
  BY DEF Inv
<1>2. Spec => []Inv
  BY Invariance
<1> QED BY <1>1, <1>2, PTL

\* The update loop never takes the STOP of its own run (facade.py:166-168 and
\* 275-281): it is the cleared event that ends it, and the token stays in the queue.
THEOREM OwnStopIsNotTakenHolds ==
    Spec => []OwnStopIsNotTaken
<1>1. Inv => OwnStopIsNotTaken
  BY DEF Inv
<1>2. Spec => []Inv
  BY Invariance
<1> QED BY <1>1, <1>2, PTL
-----------------------------------------------------------------------------
(* stop() and the end of the child.                                        *)

\* After terminate() the main thread of a child that was not slow has ended,
\* and stop() returns when the child is gone or slow.
Ending ==
    /\ caller = "join again" => slow \/ main \in {"off", "ended"}
    /\ caller = "clear" => slow \/ main = "off"

LEMMA EndingInv ==
    ASSUME TypeOK, Ending, [Next]_vars
    PROVE  Ending'
<1> USE DEF Ending, child
<1>1. CASE StartSetsEvent \/ Spawn \/ AlreadyAlive \/ StopNothing \/ StopClearsEvent
  BY <1>1 DEF StartSetsEvent, Spawn, AlreadyAlive, StopNothing, StopClearsEvent, Alive
<1>2. CASE PutStop \/ Joined \/ StopEnds
  BY <1>2 DEF PutStop, Joined, StopEnds, Alive
<1>3. CASE Terminate
  <2>1. slow' \/ main = "serving"
    BY <1>3, SlowKept DEF Terminate, Stuck, TypeOK
  <2>2. main = "serving" => main' \in {"off", "ended"}
    BY <1>3 DEF Terminate, SignalHandler
  <2> QED BY <1>3, <2>1, <2>2 DEF Terminate
<1>4. CASE GiveUp
  <2>1. slow' \/ (main = "serving" /\ ~slow)
    BY <1>4, SlowKept DEF GiveUp, Stuck, TypeOK
  <2>2. slow \/ main \in {"off", "ended"}
    BY <1>4 DEF GiveUp
  <2> QED BY <1>4, <2>1, <2>2 DEF GiveUp
<1>5. ASSUME NEW s \in Senders, CheckAlive(s) \/ PutMessage(s) PROVE Ending'
  BY <1>5 DEF CheckAlive, PutMessage
<1>6. CASE ChildMain \/ ChildFails
  BY <1>6 DEF ChildMain, ChildFails, InstallHandlers, StartLoop, StartServer, Exit
<1>7. CASE Interrupt
  BY <1>7 DEF Interrupt, SignalHandler
<1>8. CASE LeaveBacklog \/ TakeStop
  BY <1>8 DEF LeaveBacklog, TakeStop, StopServer
<1>9. CASE LoopContinues \/ LoopEnds \/ Drained \/ TakeMessage \/ RenderFrame \/ FrameRaises
  BY <1>9 DEF LoopContinues, LoopEnds, Drained, TakeMessage, RenderFrame, FrameRaises
<1>10. CASE UNCHANGED vars
  BY <1>10 DEF vars
<1> QED BY <1>1, <1>2, <1>3, <1>4, <1>5, <1>6, <1>7, <1>8, <1>9, <1>10
    DEF Next, Bot, ChildLoop

\* When stop() returns, the child is gone, unless it was still busy when a join
\* was over (facade.py:168-188).
THEOREM StoppedChildIsGoneHolds ==
    Spec => StoppedChildIsGone
<1>1. Init => Ending
  BY DEF Init, Ending
<1>2. TypeOK /\ Ending /\ [Next]_vars => Ending'
  BY EndingInv
<1>3. Ending /\ [Next]_vars => [caller = "clear" /\ caller' = "idle" => ~Alive \/ slow]_vars
  BY DEF Ending, Alive
<1>4. Spec => []TypeOK
  BY TypeCorrect
<1> QED BY <1>1, <1>2, <1>3, <1>4, PTL DEF Spec, StoppedChildIsGone
=============================================================================
