# TLA+ specifications of TwitchBot

This directory models the parts of TwitchBot in which state, threads,
processes, files and time meet, model-checks them with TLC on small instances,
and proves the most important facts about them with TLAPS for every instance.
Line numbers are those of this commit; paths below are relative to
`src/twitchbot_runtime/` unless they say otherwise.

## 1. Inventory of the system

The bot is one Python process. Its **main thread** runs `TwitchBot.run()`, which
starts and stops all services. A **webhook thread** (werkzeug, EventSub) and a
**timer thread** (`TimerScheduler`) both call `TwitchBot.handle_event`; there is
no lock anywhere on that path. A **child process**, the overlay, is started by
`OverlayFacade` and has two threads of its own that matter: its main thread in the
blocking web server and the update loop. Outside of the process there are
files (`counters.json`, `silent_events.jsonl`, `settings.json`, `.env`), a
`cloudflared` process, and the subscriptions at Twitch.

| component | state | operations | talks to | what is hard | what makes it correct |
|---|---|---|---|---|---|
| Counters (`counter_handler.py`, `models/counter.py`) | `counters`, `counters.json` | ten actions of `handle()`, `_save`, `_load` | called by the reaction engine from both threads | read-modify-write without a lock; the file is truncated, then written; crash, failing write | a restart loses nothing that was returned; no increment of another thread is lost; a selected subcounter exists |
| Overlay process (`overlay/facade.py`, `Overlay_project/overlay_helpers.py`) | `running_event`, `queue`, the process | `start`, `stop`, `send_message`; loop, server, signal handler of the child | bot threads put, the child takes; event and queue outlive a child | two processes, four threads; join timeouts, terminate with and without a handler; leftovers of an earlier child | `stop()` returns and the child is gone; the loop ends; messages are taken |
| Trigger and reaction trees (`expression/`) | `payload["args"]` | `evaluate_when`, `match_event_condition`, `evaluate_reaction_ast` | `TriggerResolver`, the engine | short circuit and a side effect of one kind of leaf; branches on values that reactions before them, or other threads, change | a tree means its formula; args are set once; a gated branch stays gated |
| Event pipeline (`bot.py`, `trigger_resolver.py`, `chatter_tracker.py`, `silent_collector.py`) | last match by trigger, last message by chatter, counts by event type, the file | `handle_event`: collect, resolve, execute, record | webhook and timer thread | two threads, order of look and record, exceptions of reactions | once per interval and again and again; newcomers greeted once per window; the cap |
| Reaction engine (`reaction_engine.py`) | none | `execute`, one method per reaction | all services | an exception drops the rest of the event; all trigger trees come before the first reaction | order; a guarded counter stays near its limit |
| StreamPet (`Overlay_project/StreamPet.py`) | queue, current, prepared, frame, `loading_next` | `add_animation`, `update` | update loop of the child | items at any frame, short animations, unknown names | everything is shown, in order, once |
| Timer scheduler (`scheduler.py`) | `_stop_event`, `_thread` | `start`, `stop`, `_loop` | main thread, `handle_event` | a tick longer than the join timeout; ticks between the steps of `run` and `stop` | one thread; none after `stop()`; a tick finds the overlay up |
| Lifecycle (`bot.py`: `run`, `stop`, `request_stop`), tunnel, EventSub client | running services, `_subscription_ids`, `_running` | as named | Twitch, `cloudflared` | failures and Ctrl-C at every step, lost answers, a `cloudflared` that prints nothing | nothing is left behind; the webhook listens while subscribed; the run ends on request |
| EventSub webhook server (`eventsub/server.py`, `verify.py`, `events.py`) | none kept between requests | signature, challenge, normalisation | Twitch, `handle_event` | late answers, redelivery, restarts; no message ids kept | what was answered was acted on; every notification comes to an end |
| Tokens (`twitch_settings.py`, `eventsub/token_*.py`, `oauth_flow.py`, `scripts/get_all_scopes.py`) | `.env`, tokens in memory | validate, refresh, authorise, write | Twitch, user | two programs that rewrite one file; lost answers, failing writes | the saved token can be refreshed |
| Helix API (`twitch_api.py`, `moderation_handler.py`) | TTL cache of the channel's game | requests | Twitch | two threads, slow answers; a stale or empty game changes the key of a counter | the game is less than a minute out of date |
| Config UI (`src/UI/Backend/UI.py`) | `settings.json`, `Stream_Pet.json` | save handlers in threads, save-and-exit | browser | read-modify-write without a lock; pages that keep what they read; the process ends while it saves | a save changes its own part only |
| Ports (`ports.py`) | `settings.json` | probe, prompt, persist | user, OS | probe and bind are apart; the answer may come long after the load | a saved port is not asked for again |
| Overlay rendering and dispatch (`overlay/rendering_service.py`, `overlay/manager.py`) | messages of the last seconds, dispatched list | remember, prune, dispatch | update loop | time | only recent messages shown |
| Overlay position UI (`overlay_pos_ui/app.py`) | `Stream_Pet.json` | load all, send all back | browser | shares the file with the config UI | keeps the other's parts |
| REPL and replay, logging, schemas, browser code | none | forms, input and output | user | little | - |

Interaction in one picture:

    webhook thread --+                            +--> CounterHandler --> counters.json
                     +--> handle_event --> engine +--> OverlayFacade.send_message --> queue
    timer thread ----+      |        |                                                 |
                            |        +--> ChatterTracker                  child: update loop --> StreamPet
                            +--> SilentEventCollector, TriggerResolver (trees)

    main thread: run/stop --> backend, scheduler, webhook, tunnel, subscriptions

    Twitch --> notifications (again and again until answered) --> webhook thread
    engine --> ChannelInfoFetcher (cache) --> Twitch

    settings.json, Stream_Pet.json <-- Config UI threads, pages, programs asking for ports
    .env                           <-- startup checks of the bot, get_all_scopes.py

## 2. Modules

| module | models | checked in | theorems in |
|---|---|---|---|
| `CounterData` | a counter, shared by the next two | | |
| `DurableCounters` | what the counters promise: a persistent map changed by whole operations (abstract) | refinement | |
| `CounterStore` | `CounterHandler` with its file, step by step, for any number of threads | `MCCounterStore` | `CounterStoreProofs` |
| `OverlayProcess` | `OverlayFacade`, its child and the signal handler | `MCOverlayProcess` | `OverlayProcessProofs` |
| `TriggerTree` | "when" trees and their evaluation; used by the next three | | lemmas in `TriggerTreeProofs` |
| `TriggerEvaluation` | evaluation against the formula a tree stands for | `MCTriggerEvaluation` | `TriggerTreeProofs` |
| `ReactionTree` | reaction trees, unfolded node by node (EXTENDS `TriggerTree`) | | |
| `EventPipeline` | `handle_event` with resolver, engine, counters, tracker, collector (EXTENDS `ReactionTree`) | `MCEventPipeline` | `EventPipelineProofs` |
| `Playlist` | what the StreamPet promises its viewers (abstract) | refinement | |
| `StreamPet` | its animation state machine | `MCStreamPet` | `StreamPetProofs` |
| `TimerScheduler` | start, stop, daemon thread | in `BotServices` | `BotServicesProofs` |
| `BotLifecycle` | `run`, `stop`, `request_stop` with all services, tunnel and subscriptions | in `BotServices` | `BotServicesProofs` |
| `BotServices` | both composed: the timer threads run between the steps of `run` and `stop` (EXTENDS the two above) | `MCBotServices` | `BotServicesProofs` |
| `SharedFile` | a text file that several programs load, change and rewrite; `FileSpec`, with actors free in what they do, is the abstract specification of the next two | | `UserFilesProofs` |
| `ConfigFiles` | `settings.json` and `Stream_Pet.json` with the config UI, pages and ports (EXTENDS `SharedFile`) | `MCUserFiles` | `UserFilesProofs` |
| `EnvTokens` | `.env` with the startup checks and the authorisation script (EXTENDS `SharedFile`) | `MCUserFiles` | `UserFilesProofs` |
| `ChannelInfo` | `ChannelInfoFetcher.game_name` and its cache, for any number of threads | in `Notifications` | `NotificationsProofs` |
| `Notifications` | events from Twitch through the webhook server to a reaction and back to the answer (EXTENDS `ChannelInfo`) | `MCNotifications` | `NotificationsProofs` |

Variables carry the names of the attributes they stand for where TLA+ allows it
(`counters`, `queue`, `ids` for `_subscription_ids`, `since` for
`_last_trigger_times`, `silence` for the ages of `_last_seen`). `pc`, `main`,
`loop`, `caller`, `phase`, `label`, `where`, `step` say where a thread or a program is.
Variables kept only to state properties say so in their declaration (`spoke`, `fired`,
`due`, `shown`, `outlived`, `slow`, `interrupted`, `intended`, `careless`, `excused`, `executed`).

Some operators are marked *Mutant (P)*. They are variants of the definition that
follows, changed the way a plausible bug would change it, and are used by nothing.
Put in the place of that definition they make property P fail, which is how we
know that P depends on the code.

### Steps and why they are atomic

* **CounterStore.** A step is one access to shared state: `+=` is a read and a write;
  `_active_subcounter` reads the selection, fetches the subcounter and drops a selection
  whose subcounter is gone; `select_subcounter` tests and assigns;
  `delete_subcounter` tests, deletes (which may raise by then), tests the selection and
  clears it; `_save` is iterate, build, truncate, write. What the payload shares with
  memory, the dicts of subcounters (`to_dict`), is read when it is written (`Text`), and a
  dict that has changed its size makes the encoder raise (`DumpRaises`). One step is coarser
  than the code: `_save` reads the fields of all counters at one moment. A `Counter`, or a
  subcounter, that was dropped while a handler holds it is not followed (`detached`): it
  shows only in a `_save` that had begun before. In a counter a selection of `None` and one of
  `""` are the same, as every reader tests truth; a request may lack a name or
  have an empty one, which `select_subcounter` tells apart: the one is an error, the other
  is selected.
* **OverlayProcess.** A frame that raises ends the update loop (`FrameRaises`). Until the child
  has installed its handlers a signal kills it. `LeaveBacklog`, `TakeStop` and `TakeMessage` merge the test of the
  event and `queue.get()`. There is one consumer, so the head cannot change in
  between, and an event cleared in between is the same as one cleared after. A
  `multiprocessing.Queue` passes items on with a delay; a delayed item is the same
  as a later put.
* **EventPipeline.** One trigger per step; a match and the writing of its time are two
  steps (`Match`, `Stamp`), since the other thread may look in between. Time is
  kept as ages that stop growing at `MaxAge`: the code only asks whether an age has
  reached an interval or a window. The engine's recursion over a reaction tree is a
  list of nodes still to be evaluated: the first one is replaced by its children or
  its branch, or is a reaction and runs, so the other thread may come between any
  two; an increment is a read and a write here too.
* **StreamPet.** One step per call; both calls come from one thread. Calls of
  `update` before the frame time is over do nothing and are left out.
* **TimerScheduler, BotLifecycle.** One step per call that another thread, a signal or
  a failure may come after. An exception that leaves `run()` ends the process in two steps:
  the facade's stop, registered with `atexit`, during which the daemon threads still run
  (`StopBackendAtExit`), and the end of everything (`Exit`). Ctrl-C goes to all processes of
  the terminal, so it may end the overlay child and `cloudflared`, too (`CtrlC`). In `BotServices` the bot's `_start_scheduler` and
  `_stop_scheduler` are the whole of `TimerScheduler.start` and `stop`, step by step.
* **SharedFile.** Three steps: read everything, open for writing, which truncates, and
  write everything. Where two have the file open together (`mixing`), each writes in
  pieces from offset 0 of its own (`WriteSome`), and what is left after either of them
  may be its own text or a mix (`Written`). A mix that happens to parse is taken for
  `Torn`, too; no property speaks of a file that two had open together. A part of a
  file is what one handler edits; inside of it nothing is told apart. A file that is being
  written, or was left so, is `Torn`: `load_settings` raises on it, the readers of
  `Stream_Pet.json` and `.env` take it for empty.
* **EnvTokens.** An access and a refresh token are one pair, written together
  (token_refresher.py:105-108). Whether an access token still works is left open at
  every check. Twitch may or may not keep earlier refresh tokens valid.
* **Notifications.** One step per thing another thread, Twitch or a crash may come
  after. An event has one reaction; what a count does to a counter is the subject of
  `CounterStore` and `EventPipeline`, and is not repeated.

## 3. Runs

Twelve configurations; ten must pass, two must find a violation.

| run | instance | states | question |
|---|---|---|---|
| `counter_one_thread` | 1 thread, 2 keys, 2 subcounters, all actions, values -1..1, crashes outside and inside of a write | 1 883 048 | does the handler with its file and crashes implement a persistent map that a crash may empty but never mix (`ImplementsDurableCounters`), does each action save (`DurableWhenIdle`), does each selection exist (`SelectionExists`) |
| `counter_two_threads` | 2 threads, 1 shared and 1 private key, crashes and failing writes | 647 750 | is a private counter safe from the other thread (`OwnReadIsCurrent`); can a subcounter be written to that is gone (`WritesExistingSub`) |
| `counter_lost_update` | 2 threads, 1 key | violation | finding 1 |
| `overlay` | 3 children, 2 messages of 2 threads, 5 queued items, both ways to kill, both outcomes of `socketio.stop()`, joins that time out on a busy child, frames that raise, Ctrl-C | 437 886 | five properties, safety and liveness, of stop, loop and queue |
| `trigger_trees` | every tree of three nodes, two commands, all messages | 606 608 | evaluation with short circuit and side effect against the formula |
| `pipeline_timer` | 2 threads, silent mode, 2 starts, cap 1, failing appends, raising reactions, three triggers that increment one counter below 2 | 133 500 | `CapPerStart`, `OvershootBounded`, `OncePerInterval`, `Recurs` |
| `pipeline_chat` | 2 chatters, three sets of roles, a greeting, the counter that the config UI scaffolds, two commands | 1 016 522 | `NewcomerIsGreeted`, `GreetedOncePerWindow`, `ArgsOfOwnCommand`, `ResetByKeeper` |
| `pet` | animations of 1, 4 and (idle) 5 frames, an unknown name, 4 items | 33 556 | `ImplementsPlaylist`, `NothingLost`, `EveryAskIsShown` |
| `lifecycle` | 2 runs, 2 timer threads, 2 subscription types, all settings with a secret, all faults, an unanswered prompt, a silent `cloudflared`, Ctrl-C anywhere | 336 784 | what is left, what listens, does it come up and end, who ticks, and does a tick find the overlay (`TicksReachOverlay`) |
| `files` | 2 request threads, the position page, the config UI and the bot asking for 3 ports, 3 loads; or checks and script, 3 pairs of tokens; failing and overlapping writes, ends anywhere | 1 112 706 | does a save keep what others saved (`EditsSurvive`), is a port asked for once (`AskedOnce`), can the saved token be refreshed (`RefreshableKept`) |
| `notifications` | 1 event, 2 deliveries, 2 categories, 2 threads, clock up to 2 with a TTL of 2 and a skew of 1, stamps up to 2 ahead or no numbers, 1 restart | 896 040 | `AnsweredIsActedOn`, `EventsComeToAnEnd`, `GameIsRecent` |
| `moderation_raises` | the same without restarts | violation | finding 2 |

### Why the bounds are enough

* *Two threads* are the two that call `handle_event`. Two keys show that one
  counter's steps reach another's through the file only; the second subcounter
  shows that a selection and an addition may differ. Values matter through equality
  and zero only.
* *Three children*: the token of the first can be met by the second, and what the
  second leaves by the third. A message of each of two senders and the tokens make
  every order of messages, a token and a check.
* *Three nodes* are a connective over two others: enough for every pair of an
  evaluated and a skipped leaf under one connective, a `not` in between, shared
  and missing children.
* *The guarded counter*: its limit of 2, two triggers of one event and one `if` of the
  other thread make every order of guard, read and write; the bound of
  `OvershootBounded` is reached (the counter gets to 4), so it could not be smaller.
* *Ages* go to the interval itself, so that one less, equal, and never are different.
  A cap of one with two starts has the cap reached, not reached and reached again.
* *Animations of 1, 4 and 5 frames*: the end test at `frame = 2` after a switch is true
  at once, after one step, and after several.
* *Two runs with two timer threads* have a second start on what the first left in the
  object, with a thread that was given up on next to the new one.
* *Three loads* of settings are two that save over one another and a third that reads
  the outcome; `files` gives both programs their ports, one of which is missing or
  there from the start. The two halves of `MCUserFiles` change different files and
  have no actor in common, so a behaviour is one of the one or of the other.
* *Three pairs of tokens*: one in `.env` at first and two that the programs get, of one
  account or of two, in either order.
* *One event with two deliveries*: the first is late or cut short, the second comes while
  it is handled, or after a restart; more events only wait in the backlog. A clock of 2
  with a TTL of 2 has an entry that is fresh, one that is just not, and answers that
  take as long as the TTL; with a skew of 1, and stamps up to 2 ahead of the clock, a
  delivery is in time, too old, or too early, and the last may come in time when it is
  repeated; a stamp may also be no number.
* *Faults* need no bound: each is a step that may be taken wherever the code may fail.

Deadlock is checked everywhere except in `trigger_trees`, where an evaluation ends;
`lifecycle`, where a process that has ended, or has made its runs, really stops; and
`files`, `notifications` and `moderation_raises`, where the bounds on loads, tokens,
deliveries and time are reached. In `counter_*`, `pet`, `pipeline_*` and `overlay`
the system can always go on.

### Fairness

Only what the program's own threads guarantee: the child's threads run, until a frame
raises, and a call of `start()` or `stop()` that has begun goes on (`OverlayProcess`); the update loop calls
`update` (`StreamPet`, facade.py:275-308); the timer thread ticks, its call returns, and
time passes (`EventPipeline`); the main thread goes on because the calls it makes
return or have a timeout, with two exceptions, which are not fair (`Answered`) and which
`RunComesUp` names: `input()`, when the first start on a terminal asks for the webhook's
port (ports.py:153, through bot.py:579), and reading a line from `cloudflared`
(tunnel.py:92). The server's `shutdown()` waits for the request that is being handled,
which ends like a tick. Timer threads run and their ticks end (`BotServices`); the webhook server's thread runs,
as its requests to Twitch have timeouts, and Twitch goes on with what is due
(`Notifications`). Nobody is obliged to chat, to send, to start or to stop, and no
fault is obliged to happen or not to. Weak fairness is used throughout: no step waits
for a condition that others switch on and off. `Recurs` allows for one exception: in
silent mode the collector comes first in `handle_event`, and a file that can never be
written drops each tick.

## 4. Proofs

| theorem | states, for every value of the constants | assuming |
|---|---|---|
| `BotServicesProofs!OneLoopHolds` | of the threads that `stop()` has not given up on, at most one is alive | |
| `BotServicesProofs!QuietWhenStoppedHolds` | after `stop()` none of them is | |
| `StreamPetProofs!TypeCorrect`, `FrameInAnimationHolds` | types; the frame counter stays inside the animation | each animation has a file of its own, and not that of idle |
| `StreamPetProofs!ImplementsPlaylistHolds` | the animation state machine implements `Playlist` | the same |
| `StreamPetProofs!NothingLostHolds` | shown and prepared are exactly what was taken, in order | the same |
| `OverlayProcessProofs!TypeCorrect`, `OwnStopIsNotTakenHolds` | types; no child takes its own STOP, unless `stop()` gave up on it while it was busy | |
| `OverlayProcessProofs!StoppedChildIsGoneHolds` | when `stop()` returns the child is gone, with the same exception | |
| `CounterStoreProofs!TypeCorrect` | types of counters, file and handlers, for any number of threads and keys | `Keys` is finite |
| `CounterStoreProofs!OwnReadIsCurrentHolds` | an increment of a counter that one thread only names adds to its current value | the same |
| `CounterStoreProofs!WritesExistingSubHolds` | a handler that is about to write a subcounter finds it there | the same |
| `CounterStoreProofs!SelectionExistsHolds` | what a counter has selected exists in it, in memory and in the file, whatever crashes and whatever cannot be written | one thread |
| `CounterStoreProofs!DurableWhenIdleHolds` | between two actions the file says what memory says | one thread, no failing write |
| `CounterStoreProofs!ImplementsDurableCountersHolds` | the handler implements `DurableCounters` | the same |
| `TriggerTreeProofs!HoldsAsMeantHolds` | a tree of any size holds exactly when the formula over its leaves does, unless a compare leaf may read `{args[0]}` before args are set | |
| `TriggerTreeProofs!ArgsSetOnceHolds` | an evaluation changes args only when there are none, to those of a command leaf of the tree that matches the message | |
| `EventPipelineProofs!TypeOKHolds` | types of `handle_event`'s state; the counts stay within the cap | each type of event comes from one thread |
| `EventPipelineProofs!CapPerStartHolds` | a start of the bot adds at most `max_per_type` lines of a type to `silent_events.jsonl` | the same |
| `EventPipelineProofs!OncePerIntervalHolds` | a trigger that requires a `time` leaf matches at most once per interval | the events that it applies to come from one thread |
| `EventPipelineProofs!NewcomerIsGreetedHolds` | a trigger that is a `new_chatter` leaf matches whoever was silent for the window, whatever raises | |
| `EventPipelineProofs!GreetedOncePerWindowHolds` | a trigger that requires a `new_chatter` leaf matches nobody else | no reaction to a chat message raises |
| `EventPipelineProofs!ArgsOfOwnCommandHolds` | the reactions of a trigger that requires a command see that command's arguments | no message begins with two commands |
| `EventPipelineProofs!ResetByKeeperHolds` | a counter goes back to zero for someone with a keeper's role only | every way to a reset leads through an `if` that demands one |
| `EventPipelineProofs!OvershootBoundedHolds` | a counter that is incremented only below a limit passes it by less than what the threads' events may add together, whatever updates are lost and whatever saves fail | at most two threads increment it, or one if it is reset |
| `BotServicesProofs!SubscribedWhileListeningHolds` | the server listens while the bot knows a subscription | a webhook secret is set |
| `BotServicesProofs!NothingLeftBehindHolds` | a run that returns or raises, other than by Ctrl-C, leaves nothing it could have removed | |
| `BotServicesProofs!ServicesImplement`, `BotKeepsBoth` | the composition implements the lifecycle and the scheduler, so it keeps what is proved of either | |
| `BotServicesProofs!TicksReachOverlayHolds` | a timer thread that ticks, and was not given up on, finds the overlay backend up, unless a Ctrl-C came or the interpreter is exiting | |
| `UserFilesProofs!SharedFilesKeepEverything` | a readable file holds the last value saved of each part, unless an outdated copy was saved to it or two had it open for writing together; for any actors, free in what they do | |
| `UserFilesProofs!ConfigFilesKeepEverything`, `TokensFileKeepsEverything` | the same for the programs as they are | the parts and files each needs exist |
| `UserFilesProofs!PortsAreAskedOnce` | a program that knows the last save does not ask for a port that was saved | the same |
| `UserFilesProofs!TokensStayRefreshable` | `.env` holds a pair of each account that can be refreshed, unless it is excused | the same |
| `NotificationsProofs!GamesAreRecent`, `CountsAreOfRecentGames` | a category that is used was the stream's less than the TTL before it was asked for | clocks go forward |
| `NotificationsProofs!AnsweredAreHandled` | an event whose delivery was answered with 202 has been acted on, or its handling has raised | |

The arguments:

* *One thread.* Whatever is alive and not given up on is `self._thread`, and where
  `start()` spawns or `stop()` forgets nothing of that kind is alive (`OnlyThread`).
  `OneLoop` alone is not inductive: `stop()` sets `_thread` to `None`, and without
  knowing that the thread has ended or was given up on a start could add a second.
* *No own STOP.* `StopInOrder`: a token of the present run in the queue means that the
  event is cleared with `stop()` still in its joins, or that the child or its loop is
  over, or that a join timed out while the child was busy (`slow`). The loop looks at
  the event before it takes anything. It needs `ThreadsAgree`, which states of the
  child's two threads go together. Without `slow` the claim is false: `stop()` may
  give up on a loop that is still running, and the next `start()` sets the event
  under it.
* *The stopped child.* `Ending`: when `stop()` joins for the second time the child's main
  thread is over or the child was noted to be slow, and past that join the process is
  dead or slow.
* *Counters.* The argument is about what each thread may rely on (`Reliable`): what it
  holds is in the dictionary or it is marked `detached`; the subcounter that it has fetched
  and is about to write exists in the counter it holds; what it has read of a counter of its own
  is that counter's value. No thread's step breaks what another relies on
  (`Considerate`, `OthersReliable`): whoever removes a key detaches its holders
  (`HoldersDetached`), whoever deletes or replaces a subcounter detaches those that have
  fetched it, and every write goes to the writer's own key. What another thread does through the file
  cannot reach a running handler: the file is read only on start, when no
  thread is inside `handle()` (`Down`).
* *One thread's counters.* With two threads `select_subcounter` may select what the other
  has just deleted, and two saves may overlap; so these are theorems for one.
  `Selections` says that every selection exists in memory, in the image that is being
  written and in the file, except in the counter whose subcounter has just been dropped
  (`Dropping`, `OthersSound`), and that the name just tested is still there. It does not say what
  the file lags behind by: that is `Serial`, which has for every place in an action what
  memory is relative to the file (`Saved`): equal to it, changed by a half of an
  addition (`HalfAdded`) or of a deletion (`HalfDropped`), or by one whole operation (`OneOperation`) on its way through
  `_save`. From it `DurableWhenIdle` follows, and `StepIsDurableStep`: the write of the file is the
  abstract operation, a crash inside of it the abstract loss, all other steps stutter.
  A failing write is excluded because the code then returns with memory ahead of the file.
* *The playlist.* What waits, in the abstract sense, is the prepared animation followed by the
  known items of the queue (`KnownOf`, which drops unknown names). The lemmas about
  `KnownOf` (of an appended item, of the tail) are by induction over the length of
  the queue. An item added is an `Ask`, a switch is a `Show`, and the preparation of the next
  animation changes nothing that a viewer could see (`PrepareIsInvisible`).
* *Trees.* `evaluate_when` is a recursion over a tree, so what it returns is shown by
  induction over nodes, children first: the trees of settings are finite
  (`WellFormed`), so that recursion has a solution
  (`FoundedRecursion`) and an induction rule (`FoundedInduction`), both stated with sets where the
  library's theorems have operators. These lemmas of `TriggerTreeProofs` are about any tree T,
  given the results V of its leaves: `Evaluable` and `SolutionEvaluates` say that the recursion
  has one solution, of well-typed results. `NodesMean` says that when the leaves of a part of
  the tree that is closed under children have the truth that a formula M gives them, so have
  all its nodes, whatever the short circuit skips (`ChildrenMean`). With args set, no leaf can
  change them and every leaf has its truth; without, all but the compare leaves have: the two
  cases of `RootMeans`, and of the guard of `HoldsAsMeant`. In `EventPipelineProofs` the leaves
  depend on the event; there the lemmas give `TreeArgs` (args are never
  replaced, and new ones are a command the message begins with) and `RequiredHold`: when a
  tree holds, every leaf that it requires (`Required`, the leaves no other branch can make up for)
  held when it was evaluated. The last is what makes a property of a whole tree a property of leaves.
* *The pipeline's types.* `HandlerInv` has, besides types, that a thread's nodes to be
  evaluated are nodes of triggers and that its trigger is one of the list.
  `StepKinds` sorts the steps of `handle_event` by what they do to their
  thread, so each of the invariants below needs a handful of cases instead of twenty.
* *Once per interval.* `AgesAgree`: the resolver's time of a trigger's name is no older than the
  trigger's last match. `StampAllowed`: a thread between match and stamp has a trigger
  whose interval was over when it looked, and still is, because nobody else stamps a trigger that
  only it brings events for.
* *Greetings.* Whoever has not spoken for the window has not been recorded by the tracker for
  it either (`AgesAgree`); that every such chatter is greeted needs no more, and no assumption on
  exceptions. The converse needs the tracker to know the last message of everyone
  (`Tracked`), which it does not when a reaction raises before `record`.
* *Arguments.* `ArgsFit`: args are a command that the message begins with. `OwnCommands`: whatever
  is still to be evaluated belongs to a trigger whose required commands the message begins with.
  With one command per message these are the same command.
* *Resets.* `Kept(Free)`: what a thread has still to evaluate is a node of `Free`, a set
  without resets that is left only by the `then` of an `if` which demands a keeper, or the
  event is a keeper's. The set is the theorem's hypothesis (`ResetsAreGuarded`),
  since it depends on the settings; a counter that becomes zero from something else is shown to
  be reset (`ZeroIsReset`), as increments add to numbers that are not negative.
* *The overshoot.* A guard is looked at before any reaction of its event runs, so what bounds a
  counter is what the threads have decided on and not yet done. `Due` counts that: the
  increments in what a thread has still to evaluate, by what each node can unfold to at most
  (`Changes`), except in nodes from which every way to an increment leads through another guard
  (`Guarded`). `Foreseen` bounds it by what the triggers looked at yield for the
  event, and that is at most the thread's `Burst`. `TakerSteps` sorts the steps by what they do
  to the counter, to `Due` and to the value read; `Due` grows only when a guard was found
  below the limit. For one thread the invariant is then `Alone`: the counter, or the
  value read from it, and `Due` are together within the bound. For two it is `Beside`. Their sum
  alone is not inductive, since an update that overwrites the other's makes the counter
  smaller, so that a guard lets a thread pass that has already had its share; while the
  counter, or a value about to be written, is low, each thread must be within its
  *own* share. The sums over leaves, nodes and threads are folds; `SumsUnfold` gives the
  equation of the library's fold over a finite set, from which `SumProperties` and the rest follow.
* *Why two threads.* The bound is false for three: one is about to write a low value, the
  second writes a high one, the third reads that, the first writes the low one, the guards let
  it and the second pass once more, and the third writes the high one plus one; this can be
  repeated until the low values have reached the limit. With resets it is false for two, and
  there is no bound at all, since a reset makes the counter low again as often as one likes
  while one of them holds a high value. (Both were found when the proof for any number of
  threads failed.) The program has one webhook thread (server.py:94, a server without
  threads) and one timer thread; a timer thread that `stop()` gave up on would be a
  third. The instance fulfils the hypothesis (`FewTakers`, in `InstanceAssumption`).
* *The cap.* `CapPerStart` relates the file, which survives a restart, to counts that
  do not. `LinesCounted` adds what is missing: the lines are those of the earlier
  starts, those counted in this one, and one that is appended and not yet counted;
  `RoomForPending` keeps the cap's last place for that one. Two threads that bring
  one type would both pass the test before either counts, hence the assumption: the
  timer brings `timer.tick` only, and the webhook server handles the rest in one
  thread (server.py:94-104, `make_server` without threads). All other steps of `handle_event` leave this alone
  (`ElsewhereStep`).
* *Nothing lost.* The sequence shown followed by the prepared animation is what was
  taken from the queue, as long as `loading_next` is true exactly when a regular
  animation is prepared; files must identify animations, because `load_gif` looks
  them up by file.
* *Nothing left.* `InPhase` ties each service to the part of `run` and `stop` in which it
  may run, `Accounted` says that every subscription at Twitch is one the client knows
  or one it cannot know, `RaisedEarly` that an exception on the way up, other than
  Ctrl-C, comes before the tunnel and the client: from an id that the startup checks cannot
  write, from the prompt for the port, or from the webhook.

* *Ticks.* `ServicesImplement`: each step of the composition is a step of the lifecycle
  and one of the scheduler, or of one of them with the other's variables unchanged.
  Every theorem about one part is one about the bot. What neither part knows alone
  is `LoopsHaveBackend`: a thread that was not given up on is alive only where the
  main thread is between `StartBackend` and `StopBackend`, or where the interpreter
  exits, and between the two the backend is up unless a Ctrl-C came (`BackendUp`). `SpawnLoop`
  enters this region and `ForgetLoop`
  leaves no such thread (by `OnlyThread`).
* *Files.* `CopiesAgree`: what an actor's copy says of a part that it has not changed is
  what was saved last, unless the copy is outdated; a save makes all other copies
  outdated. A writer that is alone writes its copy; a file that two had open together is
  out of the property from then on. `ConfigFiles` and `EnvTokens` do nothing
  to a file that `FileNext` does not allow, so the theorem is theirs by refinement.
  For the ports, `ConfigInv` adds that what a program holds are the settings and
  what it has changed in them is a port other than 0.
* *Tokens.* The newest pair of an account can always be refreshed (Twitch). `KeptFor`
  follows it: it is with the one program that has got it, or in the copy that is
  about to be written, or in `.env`, and the other program saves it unchanged,
  because `write_env` reads `.env` again before it writes. `SavesApart` is what the
  code does not guarantee: between the reload and the end of the write nobody else
  may do the same, or everything is excused.
* *Categories.* `NothingOlder`: a category in the cache, or on its way to a thread, was
  the stream's at the time of its question or later. The property alone is not
  inductive: an entry is as old as its question, not as its answer.
* *Answers.* An answer counts only for the latest delivery of a message, and the server
  gives it after the handling (`AnswersAreFor`).

Only model-checked, and why:

* All liveness (`Recurs`, `EveryAskIsShown`, `StopTerminates`, `BacklogDrains`,
  `ClearedLoopEnds`, `RunComesUp`, `RequestEndsRun`, `StopEndsLoops`, `EventsComeToAnEnd`): the
  proof system has no rules for fairness.

Every safety property of the passing runs is a theorem.

### Assumptions on the constants

An `ASSUME` says what the program can rely on; TLC evaluates each in the runs. Those of
`EventPipeline` and `TriggerEvaluation` are the only ones that are not about types: `WellFormed`
and `WellFormedReactions` hold of what `from_dict` returns, which raises on unknown kinds
(expression/nodes.py:31-40, 105-115) and whose nodes are objects of one finite JSON value,
so no node is below itself (of a set of nodes one has none of the others below it); intervals and windows are whole numbers of some unit. `EvaluationAssumption` also says that a
leaf is a command, a comparison or one that leaves args alone. What a
theorem needs beyond these stands in the theorem, as a named hypothesis that the instances
of `MCEventPipeline` fulfil (`InstanceAssumption`).

`PipelineAssumption` asks for finitely many threads, of which a sum is taken, and that the mark
of a counter that does not exist is no number.

The provers see no definition through a recursive operator. Hence the recursions of
`TriggerTree` (`Children`, `EvaluateWhen`), `Changes` and `KnownOf` are recursive functions. The
library's `FoldFunctionOnSet` is one too, beneath its definition: it chooses a member, and the
lemmas about sums show that the choice does not matter.

## 5. What the checks show

Two disagreements with the repository's own words are reproduced by runs:

1. *Lost update* (`counter_lost_update`). `counter.value += amount` (counter_handler.py:101)
   is a read and a write; a chat trigger and a timer trigger on the same counter
   can lose one of two increments.
2. *Moderation* (`moderation_raises`). `_make_moderation_handler` (bot.py:215-229) returns a
   `ModerationHandler`, the engine calls it (reaction_engine.py:398), and the class has
   no `__call__`: the reaction raises, the rest of the event is dropped, and nothing
   reaches `ModerationActor`, against src/README.md:33 and reaction_engine.py:60. Each
   side is tested, but apart from the other.

Other places where reading the code for the models showed less than its comments
and docs promise; the models contain the behaviour, no property promises otherwise:

* Two overlapping `_save` calls can leave an unreadable `counters.json`, and so does a
  crash between its truncation and the write (counter_handler.py:374): all counters
  are then lost on the next start.
* The two threads share more than the file: `json.dump` walks the live dicts of subcounters,
  so a `_save` may raise, or write a counter's value of one moment with a subcounter's
  of another (models/counter.py:31).
* An exception of `render_frame` (facade.py:306, outside of the try) ends the update loop
  while the event is set and the server goes on: what is sent after that stays in the queue until
  the next child. `BacklogDrains` speaks of a loop that is alive.
* Messages left in the queue by a stopped child are handled by the next one, although
  facade.py:278 speaks of discarding the backlog.
* When the overlay's server raises in `start()`, the update loop, which is no daemon
  thread, keeps the child alive, against facade.py:318-319.
* docs/overlay.md:49 says the STOP token makes the server's `start()` return. `stop()`
  clears the event first, and a loop that is between two frames ends on the event
  without stopping the server; the child then blocks until `terminate()`. In fact no
  child takes its own token, except one that outlived its `stop()` (`OwnStopIsNotTaken`).
* If the moderation handler were callable, a timeout reaction without a duration would be
  a ban without end (moderation_handler.py:104 passes 0, twitch_api.py:247 leaves it
  out, and the config UI offers no duration), against "temporarily" in
  twitch_api.py:298; `unban` could not be reached and `purge` does nothing.
* The chatter of a message is recorded after resolution and only if no reaction
  raised (bot.py:800-806); chatter_tracker.py:33 and docs/runtime.md:44 say before,
  and for every message. bot.py's order is the one that `new_chatter` needs.
* A guard `{counter:x:value} < n` is false until the counter exists, and looking does not
  create it: a trigger that increments `x` only below a limit never starts. Where it does
  exist, the guard may let more through than the limit (`OvershootBounded`), because all
  trees of an event are evaluated before its first reaction. And the placeholder is that
  of the first counter with the name (counter_handler.py:322), whatever the category of the
  one that the reaction changes.
* A `time` leaf inside of an `if` of a reaction tree always holds: the engine matches with
  no last matches (reaction_engine.py:179).
* A command that is a prefix of another sets `args` for both triggers.
* A trigger with a `time` leaf and no `event` is evaluated by both threads and can match
  twice in one interval.
* The cap of silent mode counts lines of this start; the file is kept over starts.
* An animation that has the file of idle is prepared as idle and can be replaced before
  it is shown (StreamPet.py:141).
* A tick longer than two seconds outlives `stop()`, and the next `start()` clears the
  event it waits for: two threads then tick (scheduler.py:90 and 106).
* A tick may find the overlay gone: after a Ctrl-C, which the child may follow before `stop()`
  has stopped the timer, and while the interpreter exits, where the facade's `atexit` stop
  takes up to ten seconds (facade.py:120) and the daemon timer goes on. `TicksReachOverlay`
  names both.
* Of two ways to lose the webhook's port between the probe and `make_server`
  (ports.py:227, bot.py:654) only the probe's is handled, against ports.py:75-76 and
  245-246; the other leaves `run()` as an exception. Either way the run ends.
* A `request_stop()` during the start is overwritten (bot.py:425); without a webhook
  secret the bot subscribes without listening (bot.py:646); silent mode never
  subscribes (bot.py:692, against README.md:32); Ctrl-C outside of the loop leaves
  `run()` without `stop()`.
* The first start on a terminal asks for the webhook's port and waits for an answer without a
  timeout (ports.py:153), with the overlay and the timer running.
* A `cloudflared` that prints nothing and does not end holds the start up for ever, past
  the 30 seconds of tunnel.py:90; after the URL nobody reads its output any more.
* The position page sends back all of the configuration that it loaded
  (overlay_pos_ui/app.py:265): it keeps the keys of the config UI, as the comment of
  lines 10-12 says, but with the values of that time. A page, a program that asks for a
  port (ports.py:129, bot.py:579) and `POST /api/settings` are the ways to save an
  outdated copy, an exception of `EditsSurvive`; two handlers that save at the same time are the
  other ways, or have the file open together, which is the second exception.
* A pair of tokens that was refreshed but could not be written is dropped from memory by
  the `reload()` that follows (bot.py:523, 541). An id that cannot be written raises
  out of `run()`, although bot.py:492 says that each step is wrapped. A running
  bot does not see the tokens that the script writes.
* `verify_signature` takes the timestamp for a number (`float`, verify.py:36). What is none is
  refused with 403, and so is every RFC 3339 stamp, which is what Twitch documents: as far
  as the source says, a delivery with such a stamp is never accepted. A model delivery has a
  number, or none (`NotANumber`) and is refused.
* Message ids are not kept, so an event that is delivered again is handled again.
* The game's cache keeps an empty name for a minute, but no failure; of two answers the
  one that arrives last is kept, even if it was asked for first. `GameIsRecent` holds
  all the same, as an entry is as old as its question; it assumes a clock that
  does not go back.

## 6. Not modelled

Configuration formats, rendering, drawing and logging are left out of the modelled
components. Of the components:

* *Overlay rendering and dispatch*: the rendering service drops messages older than
  five seconds on each frame, in one thread, and the manager appends to a list and a
  log. The part with a protocol is the queue, in `OverlayProcess`.
* *Requests to Helix* (chat, clips, moderation): each is one request whose failure is
  logged; nothing is kept. The subscription's conditions, scopes, and the app access
  token (asked for once, kept in memory) change nothing that a property could see.
* *The signature and the challenge* of the webhook: functions of one request.
  Normalisation gives the messages that `MCEventPipeline` enumerates.
* *The upload of a GIF*, the routes that only read, and the layout of the pages.
* *REPL, replay, schemas, feature wrappers, browser code*: sequential, constant, or
  without state that several actors share.

## 7. Plan

In order of what matters most:

1. *Done*: counters, overlay process, trigger and reaction trees, event pipeline,
   StreamPet, scheduler, lifecycle.
2. *Done*: the composition of lifecycle and scheduler; settings, ports and tokens on files that
   programs share; notifications with the channel's cache; the silent tunnel.
3. *Done*: proofs about one thread's counters and that they implement `DurableCounters`; that
   `StreamPet` implements `Playlist`; types and five more properties of `EventPipeline`, and both
   of `TriggerEvaluation`, with the lemmas on trees that they need.
4. *Done*, proofs: `OvershootBounded`, the last safety property without a theorem.
5. *Next*, models: categories in `EventPipeline`'s counters, two triggers of one name, the
   overlay's rendering with the queue of `OverlayProcess` and `StreamPet`.
