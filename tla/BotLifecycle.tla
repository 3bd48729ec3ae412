---------------------------- MODULE BotLifecycle ----------------------------
(***************************************************************************)
(* TwitchBot.run and TwitchBot.stop (bot.py): the services the main thread   *)
(* starts and stops, in their order, together with what lives outside the    *)
(* process: the cloudflared tunnel (tunnel.py) and the subscriptions at      *)
(* Twitch (eventsub/client.py).  Any service may fail to start, an answer of *)
(* Twitch may get lost, Ctrl-C may come at any step, and another thread may  *)
(* call request_stop at any time.                                           *)
(*                                                                         *)
(* Abstractions: the overlay child and the timer thread are modules of their *)
(* own (OverlayProcess, TimerScheduler); here the thread runs or does not, and *)
(* the backend is up from its start() until the bot stops it or a Ctrl-C      *)
(* reaches the child.  The startup checks (EnvTokens) only matter by the app  *)
(* token they leave and by an id they cannot write; a subscription is its     *)
(* type and the start that made it.                                         *)
(***************************************************************************)
EXTENDS Naturals, FiniteSets

CONSTANTS
    Settings,       \* settings the bot may be constructed with
    Types,          \* subscription_types_for_triggers
    Faults,         \* subset of {"early interrupt", "checks", "prompt", "port",
                    \* "tunnel", "silence", "token", "register", "delete"}
    MaxRuns         \* calls of run (model bound)

\* The mode, and whether there is a twitch.webhook_secret, a client id, and a
\* twitch.callback_url to use without a tunnel.
SettingsType == [mode : {"silent", "production"}, secret : BOOLEAN,
                 clientId : BOOLEAN, callback : BOOLEAN]

ASSUME LifecycleAssumption ==
    /\ Settings \subseteq SettingsType
    /\ MaxRuns \in Nat

VARIABLES
    settings,   \* the settings of this bot, constant
    pc,         \* where the main thread is; "raised", "interrupted": leaving run by
                \* an exception, after which the process ends
    runs,       \* calls of run so far
    backend,    \* the overlay backend is started, and neither stopped nor interrupted
    scheduler,  \* the timer thread runs
    server,     \* the webhook server listens
    tunnel,     \* the cloudflared process runs
    manager,    \* self._tunnel_manager is set
    client,     \* self._eventsub_client is set
    pending,    \* types still to register
    ids,        \* the client's _subscription_ids
    remote,     \* subscriptions that exist at Twitch
    lost,       \* those of them whose id, or whose deletion, got lost
    running,    \* self._running
    asked,      \* request_stop has been called in this run
    interrupted \* Ctrl-C has come in this run (for the properties)

services == <<backend, scheduler, server, tunnel, manager>>
eventsub == <<client, pending, ids, remote, lost>>
signals == <<asked, interrupted>>
vars == <<settings, pc, runs, services, eventsub, running, signals>>

\* run() is left by an exception, and the interpreter is about to exit.
Leaving == {"raised", "interrupted"}

\* Where run() has ended: it returned, or left by an exception and the
\* interpreter exited.
Outside == {"off", "exited", "killed"}

Production == settings.mode = "production"
Goto(l) == pc' = l

Init ==
    /\ settings \in Settings
    /\ pc = "off"
    /\ runs = 0
    /\ backend = FALSE /\ scheduler = FALSE /\ server = FALSE
    /\ tunnel = FALSE /\ manager = FALSE
    /\ client = FALSE /\ pending = {} /\ ids = {} /\ remote = {} /\ lost = {}
    /\ running = FALSE
    /\ asked = FALSE /\ interrupted = FALSE
-----------------------------------------------------------------------------
(* run(): up to the loop.  What raises here leaves run() without stop().    *)

Run ==
    /\ pc = "off"
    /\ runs < MaxRuns
    /\ runs' = runs + 1
    /\ asked' = FALSE /\ interrupted' = FALSE
    /\ Goto("backend")
    /\ UNCHANGED <<settings, services, eventsub, running>>

\* There is a backend in production only, if the overlay is enabled.
StartBackend ==
    /\ pc = "backend"
    /\ backend' = Production
    /\ Goto("checks")
    /\ UNCHANGED <<settings, runs, scheduler, server, tunnel, manager, eventsub, running, signals>>

\* _run_startup_checks: requests and the app token log their failures.
Check ==
    /\ pc = "checks"
    /\ Goto("scheduler")
    /\ UNCHANGED <<settings, runs, services, eventsub, running, signals>>

\* An id that cannot be written to .env raises out of run(), in production only.
CheckRaises ==
    /\ "checks" \in Faults
    /\ pc = "checks"
    /\ Production
    /\ Goto("raised")
    /\ UNCHANGED <<settings, runs, services, eventsub, running, signals>>

StartScheduler ==
    /\ pc = "scheduler"
    /\ scheduler' = TRUE
    /\ Goto("webhook")
    /\ UNCHANGED <<settings, runs, backend, server, tunnel, manager, eventsub, running, signals>>

\* _start_webhook resolves its port first.  On a terminal, without a port in the
\* settings, it asks for one, in the first run only, as the bot keeps the port.
AskPort ==
    /\ "prompt" \in Faults
    /\ pc = "webhook"
    /\ runs = 1
    /\ Goto("prompt")
    /\ UNCHANGED <<settings, runs, services, eventsub, running, signals>>

\* input() returns a port, or raises at the end of the input; nothing makes it.
AnswerPort ==
    /\ pc = "prompt"
    /\ Goto("answered") \/ Goto("raised")
    /\ UNCHANGED <<settings, runs, services, eventsub, running, signals>>

\* Without a secret there is a warning and no server.
StartWebhook ==
    /\ pc \in {"webhook", "answered"}
    /\ server' = settings.secret
    /\ Goto("eventsub")
    /\ UNCHANGED <<settings, runs, backend, scheduler, tunnel, manager, eventsub, running, signals>>

\* resolve_port_or_exit exits, or make_server raises.
WebhookFails ==
    /\ "port" \in Faults
    /\ pc \in {"webhook", "answered"}
    /\ Goto("raised")
    /\ UNCHANGED <<settings, runs, services, eventsub, running, signals>>

\* _start_eventsub does nothing outside production or without a client id.
SkipEventSub ==
    /\ pc = "eventsub"
    /\ ~Production \/ ~settings.clientId
    /\ Goto("mark")
    /\ UNCHANGED <<settings, runs, services, eventsub, running, signals>>

MakeClient ==
    /\ pc = "eventsub"
    /\ Production /\ settings.clientId
    /\ client' = TRUE
    /\ ids' = {}
    /\ Goto("tunnel")
    /\ UNCHANGED <<settings, runs, services, pending, remote, lost, running, signals>>

\* _start_tunnel spawns cloudflared; a tunnel that is already managed is kept.
SpawnTunnel ==
    /\ pc = "tunnel"
    /\ tunnel' = TRUE
    /\ Goto("tunnel url")
    /\ UNCHANGED <<settings, runs, backend, scheduler, server, manager, eventsub, running, signals>>

TunnelUp ==
    /\ pc = "tunnel url"
    /\ manager' = TRUE
    /\ Goto("register")
    /\ pending' = Types
    /\ UNCHANGED <<settings, runs, backend, scheduler, server, tunnel, client, ids, remote, lost,
                   running, signals>>

\* No URL in time, or no binary: the process is stopped, and callback_url is
\* the fallback.
TunnelFails ==
    /\ "tunnel" \in Faults
    /\ pc = "tunnel url"
    /\ tunnel' = FALSE
    /\ Goto(IF settings.callback THEN "register" ELSE "mark")
    /\ pending' = IF settings.callback THEN Types ELSE {}
    /\ UNCHANGED <<settings, runs, backend, scheduler, server, manager, client, ids, remote, lost,
                   running, signals>>

\* cloudflared prints nothing and does not end: readline blocks, and nobody looks
\* at the deadline.  Then it may print a line, or end, but nothing makes it.
TunnelSilent ==
    /\ "silence" \in Faults
    /\ pc = "tunnel url"
    /\ Goto("tunnel silent")
    /\ UNCHANGED <<settings, runs, services, eventsub, running, signals>>

SilenceEnds ==
    /\ pc = "tunnel silent"
    /\ Goto("tunnel url")
    /\ UNCHANGED <<settings, runs, services, eventsub, running, signals>>

\* register_subscriptions: one POST per type.
Register ==
    /\ pc = "register"
    /\ \E s \in pending :
           /\ pending' = pending \ {s}
           /\ remote' = remote \cup {<<s, runs>>}
           /\ ids' = ids \cup {<<s, runs>>}
    /\ UNCHANGED <<settings, pc, runs, services, client, lost, running, signals>>

\* The POST is refused or does not arrive; or it does, and its answer is lost.
RegisterFails ==
    /\ "register" \in Faults
    /\ pc = "register"
    /\ \E s \in pending :
           /\ pending' = pending \ {s}
           /\ \/ UNCHANGED <<remote, lost>>
              \/ /\ remote' = remote \cup {<<s, runs>>}
                 /\ lost' = lost \cup {<<s, runs>>}
    /\ UNCHANGED <<settings, pc, runs, services, client, ids, running, signals>>

\* Mutant (RunComesUp): waits until every type is registered.
RegisteredAll ==
    /\ pc = "register"
    /\ pending = {}
    /\ Cardinality(ids) = Cardinality(Types)
    /\ Goto("mark")
    /\ UNCHANGED <<settings, runs, services, eventsub, running, signals>>

Registered ==
    /\ pc = "register"
    /\ pending = {}
    /\ Goto("mark")
    /\ UNCHANGED <<settings, runs, services, eventsub, running, signals>>

\* fetch_app_access_token raises before the first POST.
NoToken ==
    /\ "token" \in Faults
    /\ pc = "register"
    /\ pending = Types
    /\ pending' = {}
    /\ Goto("mark")
    /\ UNCHANGED <<settings, runs, services, client, ids, remote, lost, running, signals>>

\* self._running = True, then the loop.
MarkRunning ==
    /\ pc = "mark"
    /\ running' = TRUE
    /\ Goto("loop")
    /\ UNCHANGED <<settings, runs, services, eventsub, signals>>

\* Mutant (SubscribedWhileListening): the webhook is stopped first.
LoopEndsWebhookFirst ==
    /\ pc = "loop"
    /\ ~running
    /\ server' = FALSE
    /\ Goto("delete")
    /\ UNCHANGED <<settings, runs, backend, scheduler, tunnel, manager, eventsub, running, signals>>

\* Mutant (RequestEndsRun): while True.
LoopNeverEnds == FALSE

LoopEnds ==
    /\ pc = "loop"
    /\ ~running
    /\ Goto("delete")
    /\ UNCHANGED <<settings, runs, services, eventsub, running, signals>>

\* request_stop, from another thread, at any time.
RequestStop ==
    /\ ~asked
    /\ pc \notin Outside
    /\ asked' = TRUE
    /\ running' = FALSE
    /\ UNCHANGED <<settings, pc, runs, services, eventsub, interrupted>>
-----------------------------------------------------------------------------
(* stop()                                                                  *)

\* delete_subscriptions: one DELETE per id, whose failure is logged.
Delete ==
    /\ pc = "delete"
    /\ client
    /\ \E s \in ids :
           /\ ids' = ids \ {s}
           /\ remote' = remote \ {s}
    /\ UNCHANGED <<settings, pc, runs, services, client, pending, lost, running, signals>>

DeleteFails ==
    /\ "delete" \in Faults
    /\ pc = "delete"
    /\ client
    /\ \E s \in ids :
           /\ ids' = ids \ {s}
           /\ lost' = lost \cup {s}
    /\ UNCHANGED <<settings, pc, runs, services, client, pending, remote, running, signals>>

ForgetClient ==
    /\ pc = "delete"
    /\ ~client \/ ids = {}
    /\ client' = FALSE
    /\ Goto("stop webhook")
    /\ UNCHANGED <<settings, runs, services, pending, ids, remote, lost, running, signals>>

StopWebhook ==
    /\ pc = "stop webhook"
    /\ server' = FALSE
    /\ Goto("stop tunnel")
    /\ UNCHANGED <<settings, runs, backend, scheduler, tunnel, manager, eventsub, running, signals>>

\* Mutant (NothingLeftBehind): the handle is dropped, cloudflared runs on.
StopTunnelByForgetting ==
    /\ pc = "stop tunnel"
    /\ manager' = FALSE
    /\ Goto("stop scheduler")
    /\ UNCHANGED <<settings, runs, backend, scheduler, server, tunnel, eventsub, running, signals>>

\* Mutant (TicksReachOverlay): the overlay backend is stopped before the scheduler.
StopTunnelAndBackend ==
    /\ pc = "stop tunnel"
    /\ tunnel' = (tunnel /\ ~manager)
    /\ manager' = FALSE
    /\ backend' = FALSE
    /\ Goto("stop scheduler")
    /\ UNCHANGED <<settings, runs, scheduler, server, eventsub, running, signals>>

StopTunnel ==
    /\ pc = "stop tunnel"
    /\ tunnel' = (tunnel /\ ~manager)
    /\ manager' = FALSE
    /\ Goto("stop scheduler")
    /\ UNCHANGED <<settings, runs, backend, scheduler, server, eventsub, running, signals>>

StopScheduler ==
    /\ pc = "stop scheduler"
    /\ scheduler' = FALSE
    /\ Goto("stop backend")
    /\ UNCHANGED <<settings, runs, backend, server, tunnel, manager, eventsub, running, signals>>

StopBackend ==
    /\ pc = "stop backend"
    /\ backend' = FALSE
    /\ Goto("off")
    /\ UNCHANGED <<settings, runs, scheduler, server, tunnel, manager, eventsub, running, signals>>
-----------------------------------------------------------------------------
\* Ctrl-C in a terminal reaches the overlay child and cloudflared, too, and
\* may end either (Overlay_project/overlay_helpers.py:16-31).
CtrlC ==
    /\ interrupted' = TRUE
    /\ backend' \in {FALSE, backend}
    /\ tunnel' \in {FALSE, tunnel}
    /\ UNCHANGED <<settings, runs, scheduler, server, manager, client, ids, remote, lost,
                   running, asked>>

\* In the loop it is caught, and stop() follows.
Interrupt ==
    /\ pc = "loop"
    /\ CtrlC
    /\ Goto("delete")
    /\ UNCHANGED pending

\* In a step of the start or of stop() it leaves run() as an exception.
InterruptRaises ==
    /\ "early interrupt" \in Faults
    /\ pc \notin Outside \cup Leaving \cup {"loop"}
    /\ CtrlC
    /\ Goto("interrupted")
    /\ pending' = {}

\* OverlayFacade.stop is registered with atexit (overlay/facade.py:120): it runs
\* while the daemon threads still do.
StopBackendAtExit ==
    /\ pc \in Leaving
    /\ backend
    /\ backend' = FALSE
    /\ UNCHANGED <<settings, pc, runs, scheduler, server, tunnel, manager, eventsub, running,
                   signals>>

\* Then the process ends: its threads and its memory are gone, what is outside
\* of it stays.
Exit ==
    /\ ~backend
    /\ \/ pc = "raised" /\ Goto("exited")
       \/ pc = "interrupted" /\ Goto("killed")
    /\ scheduler' = FALSE /\ server' = FALSE
    /\ manager' = FALSE /\ client' = FALSE /\ ids' = {}
    /\ UNCHANGED <<settings, runs, backend, tunnel, pending, remote, lost, running, signals>>

Starting ==
    \/ StartBackend \/ Check \/ CheckRaises \/ StartScheduler
    \/ AskPort \/ StartWebhook \/ WebhookFails
    \/ SkipEventSub \/ MakeClient \/ SpawnTunnel \/ TunnelUp \/ TunnelFails \/ TunnelSilent
    \/ Register \/ RegisterFails \/ Registered \/ NoToken \/ MarkRunning \/ LoopEnds
Stopping ==
    \/ Delete \/ DeleteFails \/ ForgetClient \/ StopWebhook \/ StopTunnel
    \/ StopScheduler \/ StopBackend

Exiting == StopBackendAtExit \/ Exit

\* What somebody else has to do, and may never do.
Answered == AnswerPort \/ SilenceEnds

Next ==
    \/ Run \/ Starting \/ Stopping \/ Exiting \/ Answered
    \/ RequestStop \/ Interrupt \/ InterruptRaises

Spec == Init /\ [][Next]_vars

-----------------------------------------------------------------------------
\* Twitch delivers to a listening server: while the bot knows a subscription,
\* the webhook is up (bot.py:406-408, README.md:83).  The order of the calls in run
\* and in stop sees to that.  Holds if there is a secret.
SubscribedWhileListening == ids # {} /\ client => server

\* Nothing is left behind: when run() has returned, or the process has ended by
\* an exception, no service runs, and Twitch has only those subscriptions whose
\* id never reached the bot or whose deletion failed (bot.py:378-384).  A failure
\* to start the webhook leaves nothing because it comes before the tunnel and
\* the subscriptions.  A Ctrl-C outside of the loop may leave something.
NothingLeftBehind ==
    pc \in {"off", "exited"} => /\ remote \subseteq lost
                               /\ ~tunnel /\ ~server /\ ~scheduler /\ ~backend

\* request_stop ends the loop of run (bot.py:434-441), through a stop() of which
\* any step may fail.  A request that comes before the loop is overwritten.
RequestEndsRun == pc = "loop" /\ ~running ~> pc \in Outside

\* Whatever fails, run() comes to its loop or the process ends: no failure of
\* Twitch or cloudflared keeps the bot from starting (bot.py:401-432).  It waits
\* without end only for a user who does not answer the prompt (ports.py:153) and
\* for a cloudflared that neither prints a line nor ends (tunnel.py:92), and goes
\* on when they have answered.
RunComesUp ==
    pc \in {"backend", "answered", "tunnel url"}
        ~> pc \in {"loop", "prompt", "tunnel silent"} \cup Outside
=============================================================================
