------------------------- MODULE BotServicesProofs -------------------------
(***************************************************************************)
(* Theorems about BotLifecycle, TimerScheduler and their composition.       *)
(*                                                                         *)
(* The lifecycle: for every set of subscription types, number of runs and   *)
(* combination of faults, the webhook listens while the bot knows a         *)
(* subscription, and run() leaves nothing behind.  The scheduler: however   *)
(* start, stop and the ticks alternate, a second thread, or a thread after  *)
(* stop(), is one that stop() gave up on after two seconds.  BotServices     *)
(* implements both, so that what holds of either holds of it, and a tick    *)
(* reaches the overlay.                                                     *)
(***************************************************************************)
EXTENDS BotServices, TLAPS

-----------------------------------------------------------------------------
(* The lifecycle.                                                          *)

\* Where the main thread is between the start of a service and its stop.
Registering  == {"tunnel", "tunnel url", "tunnel silent", "register", "mark", "loop", "delete"}
Listening    == Registering \cup {"eventsub", "stop webhook"}
Scheduling   == Listening \cup {"webhook", "prompt", "answered", "stop tunnel", "stop scheduler"}
Managing     == {"register", "mark", "loop", "delete", "stop webhook", "stop tunnel"}
WithBackend  == Scheduling \cup {"checks", "scheduler", "stop backend"}

\* What runs where.
InPhase ==
    /\ settings \in Settings
    /\ ids # {} => client
    /\ pc \in {"tunnel", "tunnel url", "tunnel silent", "register"} => client
    /\ client => pc \in Registering \cup Leaving
    /\ server => pc \in Listening \cup Leaving
    /\ pc \in Listening => server = settings.secret
    /\ tunnel => manager \/ pc \in {"tunnel url", "tunnel silent", "exited", "killed"} \cup Leaving
    /\ manager => pc \in Managing \cup Leaving
    /\ scheduler => pc \in Scheduling \cup Leaving
    /\ backend => pc \in WithBackend \cup Leaving

\* Every subscription at Twitch is one the client knows, or one it cannot know,
\* as long as the process has its memory.
Accounted == pc \notin {"exited", "killed"} => remote \subseteq ids \cup lost

AllHaveSecret == \A s \in Settings : s.secret

Inv == InPhase /\ Accounted /\ (AllHaveSecret => SubscribedWhileListening)

\* What raises on the way up, other than a Ctrl-C, has left nothing.
RaisedEarly ==
    pc \in {"raised", "exited"} => ~client /\ ~tunnel /\ ids = {} /\ remote \subseteq lost

\* Init establishes the invariants.
LEMMA InitInv == Init => Inv /\ RaisedEarly
BY DEF Init, Inv, InPhase, Accounted, SubscribedWhileListening, RaisedEarly, Registering,
    Listening, Scheduling, Managing, WithBackend

\* The start, step by step.
LEMMA StartingInv ==
    ASSUME Inv, Starting
    PROVE  Inv'
<1> USE DEF Inv, InPhase, Accounted, AllHaveSecret, SubscribedWhileListening, Registering,
    Listening, Scheduling, Managing, WithBackend, Leaving, Goto, services, eventsub
<1>1. CASE StartBackend
  BY <1>1 DEF StartBackend
<1>2. CASE StartScheduler
  BY <1>2 DEF StartScheduler
<1>3. CASE StartWebhook
  BY <1>3 DEF StartWebhook
<1>4. CASE WebhookFails
  BY <1>4 DEF WebhookFails
<1>5. CASE SkipEventSub
  BY <1>5 DEF SkipEventSub
<1>6. CASE MakeClient
  BY <1>6 DEF MakeClient
<1>7. CASE SpawnTunnel
  BY <1>7 DEF SpawnTunnel
<1>8. CASE TunnelUp
  BY <1>8 DEF TunnelUp
<1>9. CASE TunnelFails
  BY <1>9 DEF TunnelFails
<1>10. CASE Register
  BY <1>10 DEF Register
<1>11. CASE RegisterFails
  BY <1>11 DEF RegisterFails
<1>12. CASE Registered
  BY <1>12 DEF Registered
<1>13. CASE NoToken
  BY <1>13 DEF NoToken
<1>14. CASE MarkRunning
  BY <1>14 DEF MarkRunning
<1>15. CASE LoopEnds
  BY <1>15 DEF LoopEnds
<1>16. CASE TunnelSilent
  BY <1>16 DEF TunnelSilent
<1>17. CASE Check
  BY <1>17 DEF Check
<1>18. CASE CheckRaises
  BY <1>18 DEF CheckRaises
<1>19. CASE AskPort
  BY <1>19 DEF AskPort
<1> QED BY <1>1, <1>2, <1>3, <1>4, <1>5, <1>6, <1>7, <1>8, <1>9, <1>10, <1>11, <1>12,
    <1>13, <1>14, <1>15, <1>16, <1>17, <1>18, <1>19 DEF Starting

\* The stop, step by step.
LEMMA StoppingInv ==
    ASSUME Inv, Stopping
    PROVE  Inv'
<1> USE DEF Inv, InPhase, Accounted, AllHaveSecret, SubscribedWhileListening, Registering,
    Listening, Scheduling, Managing, WithBackend, Leaving, Goto, services, eventsub
<1>1. CASE Delete
  BY <1>1 DEF Delete
<1>2. CASE DeleteFails
  BY <1>2 DEF DeleteFails
<1>3. CASE ForgetClient
  BY <1>3 DEF ForgetClient
<1>4. CASE StopWebhook
  BY <1>4 DEF StopWebhook
<1>5. CASE StopTunnel
  BY <1>5 DEF StopTunnel
<1>6. CASE StopScheduler
  BY <1>6 DEF StopScheduler
<1>7. CASE StopBackend
  BY <1>7 DEF StopBackend
<1> QED BY <1>1, <1>2, <1>3, <1>4, <1>5, <1>6, <1>7 DEF Stopping

\* Every step keeps the invariant, a Ctrl-C at any moment included.
LEMMA NextInv ==
    ASSUME Inv, [Next]_vars
    PROVE  Inv'
<1> USE DEF Inv, InPhase, Accounted, AllHaveSecret, SubscribedWhileListening, Registering,
    Listening, Scheduling, Managing, WithBackend, Leaving, Goto, services, eventsub
<1>1. CASE Run
  BY <1>1 DEF Run
<1>2. CASE Exiting
  <2>1. CASE StopBackendAtExit
    BY <2>1 DEF StopBackendAtExit
  <2>2. CASE Exit /\ pc' = "exited"
    BY <2>2 DEF Exit
  <2>3. CASE Exit /\ pc' = "killed"
    BY <2>3 DEF Exit
  <2> QED BY <1>2, <2>1, <2>2, <2>3 DEF Exiting, Exit
<1>3. CASE RequestStop
  BY <1>3 DEF RequestStop
<1>4. CASE Interrupt
  <2>1. /\ pc = "loop" /\ pc' = "delete"
        /\ tunnel' = FALSE \/ tunnel' = tunnel
        /\ backend' = FALSE \/ backend' = backend
        /\ UNCHANGED <<settings, scheduler, server, manager, client, ids, remote, lost>>
    BY <1>4 DEF Interrupt, CtrlC
  <2>2. (tunnel' => tunnel) /\ (backend' => backend)
    BY <2>1
  <2> QED BY <2>1, <2>2
<1>5. CASE InterruptRaises
  BY <1>5 DEF InterruptRaises, CtrlC, Outside
<1>6. CASE Answered
  <2>1. CASE AnswerPort /\ pc' = "answered"
    BY <2>1 DEF AnswerPort
  <2>2. CASE AnswerPort /\ pc' = "raised"
    BY <2>2 DEF AnswerPort
  <2>3. CASE SilenceEnds
    BY <2>3 DEF SilenceEnds
  <2> QED BY <1>6, <2>1, <2>2, <2>3 DEF Answered, AnswerPort
<1>7. CASE UNCHANGED vars
  BY <1>7 DEF vars
<1> QED BY <1>1, <1>2, <1>3, <1>4, <1>5, <1>6, <1>7, StartingInv, StoppingInv DEF Next

\* What raises is a check, the prompt, or the start of the webhook: before the
\* tunnel and the client.
LEMMA NextRaisedEarly ==
    ASSUME Inv, RaisedEarly, [Next]_vars
    PROVE  RaisedEarly'
<1> USE DEF RaisedEarly, Goto
<1> DEFINE Raises == WebhookFails \/ CheckRaises \/ AnswerPort
<1>1. CASE Raises
  <2>1. /\ pc \in {"checks", "webhook", "answered", "prompt"}
        /\ pc' # "exited"
        /\ UNCHANGED <<services, eventsub>>
    BY <1>1 DEF WebhookFails, CheckRaises, AnswerPort
  <2>2. ~client /\ ~tunnel /\ ids = {} /\ remote \subseteq lost
    BY <2>1 DEF Inv, InPhase, Accounted, Registering, Managing, Leaving
  <2> QED BY <2>1, <2>2 DEF services, eventsub
<1>2. CASE Exiting
  BY <1>2 DEF Exiting, StopBackendAtExit, Exit, eventsub
<1>3. CASE RequestStop
  BY <1>3 DEF RequestStop, services, eventsub
<1>4. CASE InterruptRaises
  BY <1>4 DEF InterruptRaises
<1>5. CASE UNCHANGED vars
  BY <1>5 DEF vars, services, eventsub
<1>6. CASE Run \/ (Starting /\ ~Raises) \/ Stopping \/ Interrupt \/ SilenceEnds
  <2>1. pc' \notin {"raised", "exited"}
    BY <1>6 DEF Run, Starting, Stopping, Interrupt, StartBackend, Check, StartScheduler, AskPort,
        StartWebhook, SkipEventSub, MakeClient, SpawnTunnel, TunnelUp, TunnelFails, TunnelSilent,
        SilenceEnds, Register, RegisterFails,
        Registered, NoToken, MarkRunning, LoopEnds, Delete, DeleteFails, ForgetClient,
        StopWebhook, StopTunnel, StopScheduler, StopBackend
  <2> QED BY <2>1
<1> QED BY <1>1, <1>2, <1>3, <1>4, <1>5, <1>6 DEF Next, Answered

\* The webhook listens while the client knows a subscription, whatever fails
\* (bot.py:406-408): nothing is subscribed before it runs, and it stops last.
THEOREM SubscribedWhileListeningHolds ==
    ASSUME AllHaveSecret
    PROVE  Spec => []SubscribedWhileListening
<1>1. Inv => SubscribedWhileListening
  BY DEF Inv
<1>2. Inv /\ [Next]_vars => Inv'
  BY NextInv
<1>3. Init => Inv
  BY InitInv
<1> QED BY <1>1, <1>2, <1>3, PTL DEF Spec

\* run() returns, and the process exits, with no service left and no
\* subscription but those nobody can know of (bot.py:378-384 and 427-432).
THEOREM NothingLeftBehindHolds ==
    Spec => []NothingLeftBehind
<1> DEFINE I == Inv /\ RaisedEarly
<1>1. I => NothingLeftBehind
  BY DEF Inv, InPhase, Accounted, RaisedEarly, NothingLeftBehind, Registering, Listening,
      Scheduling, Managing, WithBackend, Leaving
<1>2. I /\ [Next]_vars => I'
  BY NextInv, NextRaisedEarly
<1>3. Init => I
  BY InitInv
<1> HIDE DEF I
<1> QED BY <1>1, <1>2, <1>3, PTL DEF Spec
-----------------------------------------------------------------------------
(* The scheduler.                                                          *)

\* Whatever thread is alive is self._thread, if stop() has not given up on it;
\* none is where start() is about to make one, or stop() to forget it.
OnlyThread ==
    /\ \A l \in Loops \ outlived : Alive(l) => l = thread
    /\ caller = "join" => joined = thread /\ thread # NoLoop
    /\ caller \in {"spawn", "forget"} => \A l \in Loops \ outlived : ~Alive(l)
    /\ caller = "spawn" => ~stopEvent

LoopsInv == SchedulerTypeOK /\ OnlyThread /\ QuietWhenStopped

\* SchedulerInit establishes the invariant.
LEMMA LoopsInitInv == SchedulerInit => LoopsInv
BY SchedulerAssumption DEF SchedulerInit, LoopsInv, SchedulerTypeOK, OnlyThread, QuietWhenStopped, Alive

\* What a thread does: it stays, or it ends, and no other thread moves.
LEMMA MoveInv ==
    ASSUME LoopsInv, NEW l \in Loops, NEW from \in {"test", "wait", "tick"},
           NEW to \in {"test", "wait", "tick", "ended"}, Move(l, from, to), Still
    PROVE  LoopsInv'
<1>1. SchedulerTypeOK'
  BY DEF LoopsInv, SchedulerTypeOK, Move, Still
<1>2. \A k \in Loops : Alive(k)' => Alive(k)
  BY SchedulerAssumption DEF LoopsInv, SchedulerTypeOK, Move, Alive
<1>3. OnlyThread'
  BY <1>2 DEF LoopsInv, OnlyThread, Still
<1>4. QuietWhenStopped'
  BY <1>2 DEF LoopsInv, QuietWhenStopped, Still
<1> QED BY <1>1, <1>3, <1>4 DEF LoopsInv

\* Every step keeps the invariant.
LEMMA LoopsNextInv == LoopsInv /\ [SchedulerNext]_loopVars => LoopsInv'
<1> SUFFICES ASSUME LoopsInv, [SchedulerNext]_loopVars PROVE LoopsInv'
  OBVIOUS
<1> USE SchedulerAssumption
<1>1. CASE Start
  <2>1. \A l \in Loops \ outlived : ~Alive(l) /\ ~Alive(l)'
    BY <1>1 DEF Start, LoopsInv, OnlyThread, Alive
  <2> QED BY <1>1, <2>1 DEF Start, LoopsInv, SchedulerTypeOK, OnlyThread, QuietWhenStopped
<1>2. CASE Spawn
  <2> PICK l \in Loops : /\ loop[l] = "new"
                         /\ thread' = l
                         /\ loop' = [loop EXCEPT ![l] = "test"]
    BY <1>2 DEF Spawn
  <2>1. SchedulerTypeOK'
    BY <1>2 DEF Spawn, LoopsInv, SchedulerTypeOK
  <2>2. \A k \in Loops \ outlived : Alive(k)' => k = l
    BY <1>2 DEF Spawn, LoopsInv, SchedulerTypeOK, OnlyThread, Alive
  <2> QED BY <1>2, <2>1, <2>2 DEF Spawn, LoopsInv, OnlyThread, QuietWhenStopped
<1>3. CASE Stop
  BY <1>3 DEF Stop, LoopsInv, SchedulerTypeOK, OnlyThread, QuietWhenStopped, Alive
<1>4. CASE LookAtThread
  <2>1. \A l \in Loops : Alive(l)' <=> Alive(l)
    BY <1>4 DEF LookAtThread, Alive
  <2> QED BY <1>4, <2>1 DEF LookAtThread, Alive, LoopsInv, SchedulerTypeOK, OnlyThread, QuietWhenStopped
<1>5. CASE Joined
  <2>1. \A l \in Loops \ outlived : ~Alive(l) /\ ~Alive(l)'
    BY <1>5 DEF Joined, LoopsInv, OnlyThread, Alive
  <2> QED BY <1>5, <2>1 DEF Joined, LoopsInv, SchedulerTypeOK, OnlyThread, QuietWhenStopped
<1>6. CASE JoinTimesOut
  <2>1. \A l \in Loops : Alive(l)' <=> Alive(l)
    BY <1>6 DEF JoinTimesOut, Alive
  <2> QED BY <1>6, <2>1 DEF JoinTimesOut, LoopsInv, SchedulerTypeOK, OnlyThread, QuietWhenStopped, Alive
<1>7. CASE Forget
  <2>1. \A l \in Loops \ outlived : ~Alive(l) /\ ~Alive(l)'
    BY <1>7 DEF Forget, LoopsInv, OnlyThread, Alive
  <2> QED BY <1>7, <2>1 DEF Forget, LoopsInv, SchedulerTypeOK, OnlyThread, QuietWhenStopped
<1>8. ASSUME NEW l \in Loops, RunLoop(l) PROVE LoopsInv'
  BY <1>8, MoveInv DEF RunLoop, Continue, Leave, Woken, TimeIsUp, TickDone
<1>9. CASE UNCHANGED loopVars
  BY <1>9 DEF loopVars, LoopsInv, SchedulerTypeOK, OnlyThread, QuietWhenStopped, Alive
<1> QED BY <1>1, <1>2, <1>3, <1>4, <1>5, <1>6, <1>7, <1>8, <1>9 DEF SchedulerNext, Main

\* The invariant holds throughout.
LEMMA LoopsInvariance ==
    SchedulerSpec => []LoopsInv
<1>1. LoopsInv /\ [SchedulerNext]_loopVars => LoopsInv'
  BY LoopsNextInv
<1> QED BY LoopsInitInv, <1>1, PTL DEF SchedulerSpec

\* Of the threads that stop() has not given up on, one at most is alive
\* (scheduler.py:82-91).
THEOREM OneLoopHolds ==
    SchedulerSpec => []OneLoop
<1>1. LoopsInv => OneLoop
  BY DEF LoopsInv, OnlyThread, OneLoop
<1>2. SchedulerSpec => []LoopsInv
  BY LoopsInvariance
<1> QED BY <1>1, <1>2, PTL

\* After stop() no thread is left but those (scheduler.py:96-106).
THEOREM QuietWhenStoppedHolds ==
    SchedulerSpec => []QuietWhenStopped
<1>1. LoopsInv => QuietWhenStopped
  BY DEF LoopsInv
<1>2. SchedulerSpec => []LoopsInv
  BY LoopsInvariance
<1> QED BY <1>1, <1>2, PTL
-----------------------------------------------------------------------------
(* The composition.                                                        *)

\* A step of the composition is one of the lifecycle and one of the scheduler,
\* or leaves one of them alone.
LEMMA StepsImplement ==
    ASSUME [ServicesNext]_servicesVars
    PROVE  [Next]_vars /\ [SchedulerNext]_loopVars
<1>1. CASE ComesUp
  <2>1. CASE ClearStopEvent
    BY <2>1 DEF ClearStopEvent, SchedulerNext, Main
  <2>2. CASE SpawnLoop
    BY <2>2 DEF SpawnLoop, SchedulerNext, Main, Next, Starting
  <2>3. CASE Alone(Starting)
    BY <2>3 DEF Alone, Next
  <2> QED BY <1>1, <2>1, <2>2, <2>3 DEF ComesUp
<1>2. CASE GoesDown
  <2>1. CASE JoinLoop
    BY <2>1 DEF JoinLoop, Join, SchedulerNext, Main
  <2>2. CASE ForgetLoop
    BY <2>2 DEF ForgetLoop, SchedulerNext, Main, Next, Stopping
  <2>3. CASE Alone(Stopping)
    BY <2>3 DEF Alone, Next
  <2> QED BY <1>2, <2>1, <2>2, <2>3 DEF GoesDown
<1>3. CASE Disturbed
  BY <1>3 DEF Disturbed, Next
<1>4. CASE Alone(Run) \/ Alone(Exiting) \/ Alone(Answered)
  BY <1>4 DEF Alone, Next
<1>5. ASSUME NEW l \in Loops, LoopStep(l)
      PROVE  [Next]_vars /\ [SchedulerNext]_loopVars
  BY <1>5 DEF LoopStep, SchedulerNext
<1>6. CASE UNCHANGED servicesVars
  BY <1>6 DEF servicesVars
<1> QED BY <1>1, <1>2, <1>3, <1>4, <1>5, <1>6 DEF ServicesNext

\* The bot with its scheduler implements the lifecycle and the scheduler.
THEOREM ServicesImplement ==
    ServicesSpec => Spec /\ SchedulerSpec
<1>1. [ServicesNext]_servicesVars => [Next]_vars /\ [SchedulerNext]_loopVars
  BY StepsImplement
<1>2. ServicesInit => Init /\ SchedulerInit
  BY DEF ServicesInit
<1> QED BY <1>1, <1>2, PTL DEF ServicesSpec, Spec, SchedulerSpec

\* From the start of the backend to its stop it runs, in production and unless a
\* Ctrl-C has come.
BackendUp == pc \in WithBackend /\ Production /\ ~interrupted => backend

\* Steps of the lifecycle keep the backend up.
LEMMA BackendUpNext ==
    ASSUME BackendUp, [Next]_vars
    PROVE  BackendUp'
<1> USE DEF BackendUp, Production, Goto, services, eventsub, signals, WithBackend, Scheduling,
    Listening, Registering, Leaving
<1>1. CASE Starting
  BY <1>1 DEF Starting, StartBackend, Check, CheckRaises, StartScheduler, AskPort, StartWebhook, WebhookFails, SkipEventSub,
      MakeClient, SpawnTunnel, TunnelUp, TunnelFails, TunnelSilent, Register, RegisterFails,
      Registered, NoToken, MarkRunning, LoopEnds
<1>2. CASE Stopping
  BY <1>2 DEF Stopping, Delete, DeleteFails, ForgetClient, StopWebhook, StopTunnel,
      StopScheduler, StopBackend
<1>3. CASE Run \/ Exiting \/ RequestStop \/ Interrupt \/ InterruptRaises \/ Answered
  BY <1>3 DEF Run, Exiting, StopBackendAtExit, Exit, RequestStop, Interrupt, InterruptRaises,
      CtrlC, Answered, AnswerPort, SilenceEnds
<1>4. CASE UNCHANGED vars
  BY <1>4 DEF vars
<1> QED BY <1>1, <1>2, <1>3, <1>4 DEF Next

\* A thread that stop() has not given up on.
Ticking == \E l \in Loops \ outlived : Alive(l)

\* Threads run only between StartBackend and StopBackend, or while the process
\* comes to its end.
LoopsHaveBackend ==
    /\ pc \in {"off", "backend", "stop backend"} => ~Ticking
    /\ Production /\ ~interrupted /\ pc \notin Leaving /\ ~Gone /\ Ticking => backend

\* A step that starts no thread and gives up on none that runs: if one is alive
\* after it, one was before.
LEMMA NoNewThread ==
    ASSUME LoopsInv, [SchedulerNext]_loopVars, ~Spawn
    PROVE  Ticking' => Ticking
<1> USE SchedulerAssumption DEF Ticking, LoopsInv, SchedulerTypeOK
<1>1. CASE UNCHANGED loop /\ outlived \subseteq outlived'
  BY <1>1 DEF Alive
<1>2. ASSUME NEW l \in Loops, RunLoop(l) PROVE Ticking' => Ticking
  BY <1>2 DEF RunLoop, Continue, Leave, Woken, TimeIsUp, TickDone, Move, Still, Alive
<1>3. CASE Start \/ Stop \/ LookAtThread \/ Joined \/ JoinTimesOut \/ Forget
  BY <1>1, <1>3 DEF Start, Stop, LookAtThread, Joined, JoinTimesOut, Forget
<1>4. CASE UNCHANGED loopVars
  BY <1>1, <1>4 DEF loopVars
<1> QED BY <1>2, <1>3, <1>4 DEF SchedulerNext, Main

\* The main thread alone, while no thread starts or ends.
LEMMA AloneHasBackend ==
    ASSUME LoopsHaveBackend, [Next]_vars, UNCHANGED loopVars,
           ~StartScheduler, ~StopScheduler
    PROVE  LoopsHaveBackend'
<1> USE DEF LoopsHaveBackend, Gone, Leaving, Production, Goto, services, eventsub, signals
<1>1. Ticking' <=> Ticking
  BY DEF Ticking, Alive, loopVars
<1>2. CASE Starting
  BY <1>1, <1>2 DEF Starting, StartBackend, Check, CheckRaises, AskPort, StartWebhook, WebhookFails, SkipEventSub,
      MakeClient, SpawnTunnel, TunnelUp, TunnelFails, TunnelSilent, Register, RegisterFails,
      Registered, NoToken, MarkRunning, LoopEnds
<1>3. CASE Stopping
  BY <1>1, <1>3 DEF Stopping, Delete, DeleteFails, ForgetClient, StopWebhook, StopTunnel,
      StopBackend
<1>4. CASE Run \/ Exiting \/ RequestStop \/ Interrupt \/ InterruptRaises \/ Answered
  BY <1>1, <1>4 DEF Run, Exiting, StopBackendAtExit, Exit, RequestStop, Interrupt, InterruptRaises,
      CtrlC, Answered, AnswerPort, SilenceEnds, Outside
<1>5. CASE UNCHANGED vars
  BY <1>1, <1>5 DEF vars
<1> QED BY <1>2, <1>3, <1>4, <1>5 DEF Next

\* Every step of the composition keeps a backend for the threads: SpawnLoop comes
\* after StartBackend, and ForgetLoop, before StopBackend, leaves no thread.
LEMMA LoopsHaveBackendNext ==
    ASSUME LoopsInv, BackendUp, LoopsHaveBackend, [ServicesNext]_servicesVars
    PROVE  LoopsHaveBackend'
<1>1. CASE SpawnLoop
  BY <1>1 DEF SpawnLoop, StartScheduler, BackendUp, LoopsHaveBackend, Production, Goto,
      WithBackend, signals
<1>2. CASE ForgetLoop
  <2>1. ~Ticking
    BY <1>2 DEF ForgetLoop, Forget, LoopsInv, OnlyThread, Ticking
  <2>2. ~Ticking'
    BY <1>2, <2>1 DEF ForgetLoop, Forget, Ticking, Alive
  <2> QED BY <2>2 DEF LoopsHaveBackend
<1>3. CASE ClearStopEvent \/ JoinLoop \/ (\E l \in Loops : LoopStep(l))
  <2>1. UNCHANGED vars
    BY <1>3 DEF ClearStopEvent, JoinLoop, LoopStep
  <2>2. ~Spawn
    BY <1>3 DEF ClearStopEvent, JoinLoop, Join, LoopStep, Start, Stop, LookAtThread, Joined,
        JoinTimesOut, RunLoop, Continue, Leave, Woken, TimeIsUp, TickDone, Still, Spawn
  <2>3. Ticking' => Ticking
    BY <2>2, NoNewThread, StepsImplement
  <2> QED BY <2>1, <2>3 DEF LoopsHaveBackend, vars, services, signals, Gone, Leaving, Production
<1>4. CASE \/ Alone(Starting) \/ Alone(Stopping) \/ Disturbed
           \/ Alone(Run) \/ Alone(Exiting) \/ Alone(Answered) \/ UNCHANGED servicesVars
  <2>1. UNCHANGED loopVars
    BY <1>4 DEF Alone, Disturbed, servicesVars
  <2>2. ~StartScheduler /\ ~StopScheduler
    BY <1>4 DEF Alone, Disturbed, servicesVars, vars, RequestStop, Interrupt, InterruptRaises,
        CtrlC, Goto, StartScheduler, StopScheduler
  <2> QED BY <2>1, <2>2, AloneHasBackend, StepsImplement
<1> QED BY <1>1, <1>2, <1>3, <1>4 DEF ServicesNext, ComesUp, GoesDown

\* A tick reaches the overlay (bot.py:415-421, 387-398), as long as no Ctrl-C has
\* come and the interpreter is not about to exit.
THEOREM TicksReachOverlayHolds ==
    ServicesSpec => []TicksReachOverlay
<1> DEFINE I == LoopsInv /\ BackendUp /\ LoopsHaveBackend
<1>1. ServicesInit => I
  <2>1. ServicesInit => ~Ticking /\ pc = "off"
    BY DEF ServicesInit, Init, SchedulerInit, Ticking, Alive
  <2> QED BY <2>1, LoopsInitInv DEF ServicesInit, Init, BackendUp, LoopsHaveBackend, WithBackend,
      Scheduling, Listening, Registering, Gone, Leaving
<1>2. I /\ [ServicesNext]_servicesVars => I'
  BY StepsImplement, LoopsNextInv, BackendUpNext, LoopsHaveBackendNext
<1>3. I => TicksReachOverlay
  BY SchedulerAssumption DEF LoopsHaveBackend, TicksReachOverlay, Ticking, Alive
<1> HIDE DEF I
<1> QED BY <1>1, <1>2, <1>3, PTL DEF ServicesSpec

\* What the main thread and the threads are each proved to keep, the bot keeps
\* that runs both: it leaves nothing behind, and one loop at most.
THEOREM BotKeepsBoth ==
    ServicesSpec => [](NothingLeftBehind /\ OneLoop /\ QuietWhenStopped)
BY ServicesImplement, NothingLeftBehindHolds, OneLoopHolds, QuietWhenStoppedHolds, PTL
=============================================================================
