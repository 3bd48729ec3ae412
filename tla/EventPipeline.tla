--------------------------- MODULE EventPipeline ---------------------------
(***************************************************************************)
(* TwitchBot.handle_event (bot.py) with everything it calls that keeps       *)
(* state: SilentEventCollector, TriggerResolver, ReactionEngine with its      *)
(* reaction trees, the counters they read and change, and ChatterTracker.     *)
(* The webhook thread and the timer thread call it, and no lock is taken:     *)
(* one call is a series of steps, each one access to state they share.       *)
(*                                                                         *)
(* Time is kept as ages: how long ago a trigger matched, how long ago a      *)
(* chatter spoke.  An age stops growing at MaxAge, which is at least every   *)
(* interval and window, since the code only asks whether an age has reached  *)
(* one of these.                                                            *)
(*                                                                         *)
(* Abstractions: one channel; a reaction is what it does to counters and to   *)
(* the rest of the event: go through, or raise.  A counter is its value, of   *)
(* one category and without subcounters, and its file is as its memory        *)
(* (CounterStore has the rest).  A "when" tree is evaluated in one step.      *)
(* Features produce no reactions for the events modelled                     *)
(* (features/overlay.py handles "event.test" only).                          *)
(***************************************************************************)
EXTENDS ReactionTree, FiniteSets

CONSTANTS
    Threads,    \* threads that call handle_event
    Timers,     \* those of them that bring timer ticks
    Inputs,     \* Inputs[t]: the events t may bring
    Triggers,   \* settings["triggers"]
    Node,       \* the nodes of their "when" trees
    Reaction,   \* the nodes of their reaction trees
    Keepers,    \* the roles that the trees demand for resetting a counter
    Users,      \* chatters; NoUser: an event without username
    NoUser,
    MaxAge,     \* ages stop growing here (model bound)
    Silent,     \* mode is SILENT
    MaxPerType, \* SilentEventCollector.max_per_type
    Faults,     \* subset of {"reaction", "collect"}: what may raise
    MaxStarts,  \* starts of the bot (model bound)
    MaxLines,   \* lines of one type in silent_events.jsonl (model bound)
    Never,      \* no timestamp
    AnyEvent    \* a trigger without "event"; a payload without trigger_name

ASSUME PipelineAssumption ==
    /\ IsFiniteSet(Threads) /\ Timers \subseteq Threads
    /\ \E t \in Threads : Inputs[t] # {}
    /\ MaxAge \in Nat
    /\ MaxPerType \in Nat
    /\ MaxStarts \in Nat \ {0}
    /\ Silent \in BOOLEAN
    /\ NoUser \notin Users
    /\ Never \notin Nat /\ NoCounter \notin Nat
    /\ \A t \in Threads : \A e \in Inputs[t] :
           e.user \in Users \cup {NoUser} /\ e.message \in Message

\* settings.json is read by from_dict; times are whole numbers of some unit.
ASSUME SettingsAssumption ==
    /\ WellFormed(Node)
    /\ \A n \in Nodes : Node[n].kind = "leaf" =>
           LET leaf == Node[n].leaf
           IN  /\ leaf.type \in {"command", "compare", "below", "time", "new_chatter",
                                 "follow", "role"}
               /\ leaf.type = "command" => leaf.command \in Commands
               /\ leaf.type = "time" => leaf.interval \in Nat
               /\ leaf.type = "new_chatter" => leaf.window \in Nat
               /\ leaf.type = "below" => leaf.counter \in Counters /\ leaf.limit \in Int
    /\ WellFormedReactions(Reaction)
    /\ Triggers \in Seq({Triggers[i] : i \in DOMAIN Triggers})
    /\ \A i \in DOMAIN Triggers :
           /\ Triggers[i].when \in Nodes \cup {NoNode}
           /\ Triggers[i].reactions \in ReactionNodes \cup {NoNode}

VARIABLES
    starts,     \* starts of the bot so far
    since,      \* _last_trigger_times: name |-> age
    silence,    \* ChatterTracker._last_seen: user |-> age
    counts,     \* SilentEventCollector._counts
    lines,      \* lines of silent_events.jsonl by event type
    pc,         \* where t is inside handle_event
    event,      \* the event t handles
    args,       \* payload["args"] of that event
    at,         \* the trigger t looks at
    todo,       \* the reaction trees collected so far, then what is left of them
    counters,   \* CounterHandler.counters: name |-> value
    read,       \* what t has read of the counter it increments
    spoke,      \* how long ago the last message of a user was handled, and
    fired       \* a trigger matched; both kept for the properties only

vars == <<starts, since, silence, counts, lines, pc, event, args, at, todo,
          counters, read, spoke, fired>>
memory == <<since, silence, counts, counters>>
local == <<event, args, at, todo, read>>
history == <<spoke, fired>>

Names      == {Triggers[i].name : i \in DOMAIN Triggers}
Events     == UNION {Inputs[t] : t \in Threads}
EventNames == {e.name : e \in Events}
Ages       == 0..MaxAge \cup {Never}
Indices    == 1..(Len(Triggers) + 1)
NoEvent    == CHOOSE e \in Events : TRUE

\* A node still to be evaluated, and the trigger it is of.
Reactions == [trigger : DOMAIN Triggers, node : ReactionNodes]

AtLeast(age, n) == age = Never \/ age >= n
Goto(t, l) == pc' = [pc EXCEPT ![t] = l]

Init ==
    /\ starts = 1
    /\ since = [n \in Names |-> Never]
    /\ silence = [u \in Users |-> Never]
    /\ counts = [e \in EventNames |-> 0]
    /\ lines = [e \in EventNames |-> 0]
    /\ pc = [t \in Threads |-> "idle"]
    /\ event = [t \in Threads |-> NoEvent]
    /\ args = [t \in Threads |-> NoArgs]
    /\ at = [t \in Threads |-> 1]
    /\ todo = [t \in Threads |-> <<>>]
    /\ counters \in [Counters -> {NoCounter, 0}]
    /\ read = [t \in Threads |-> 0]
    /\ spoke = [u \in Users |-> Never]
    /\ fired = [i \in DOMAIN Triggers |-> Never]
-----------------------------------------------------------------------------
\* The thread's call returns, or raises into the webhook's or the timer's
\* handler, which logs and goes on.
Return(t) ==
    /\ Goto(t, "idle")
    /\ event' = [event EXCEPT ![t] = NoEvent]
    /\ args' = [args EXCEPT ![t] = NoArgs]
    /\ at' = [at EXCEPT ![t] = 1]
    /\ todo' = [todo EXCEPT ![t] = <<>>]
    /\ read' = [read EXCEPT ![t] = 0]
    /\ spoke' = [u \in Users |->
                    IF event[t].name = "chat.message" /\ event[t].user = u
                    THEN 0 ELSE spoke[u]]
    /\ UNCHANGED fired

\* Mutant (NewcomerIsGreeted): the chatter is recorded before the triggers.
ReceiveAndRecord(t) ==
    /\ pc[t] = "idle"
    /\ ~Silent
    /\ \E e \in Inputs[t] :
           /\ event' = [event EXCEPT ![t] = e]
           /\ silence' = [u \in Users |-> IF u = e.user THEN 0 ELSE silence[u]]
    /\ Goto(t, "resolve")
    /\ UNCHANGED <<starts, since, counts, counters, lines, args, at, todo, read, history>>

Receive(t) ==
    /\ pc[t] = "idle"
    /\ \E e \in Inputs[t] :
           /\ event' = [event EXCEPT ![t] = e]
           /\ Silent => lines[e.name] < MaxLines
    /\ Goto(t, IF Silent THEN "collect" ELSE "resolve")
    /\ UNCHANGED <<starts, memory, lines, args, at, todo, read, history>>

\* Mutant (CapPerStart, TypeOK): one too many.
FullLate(type) == counts[type] > MaxPerType

Full(type) == counts[type] >= MaxPerType

\* collect: the cap, the append to the file, the count.
CapReached(t) ==
    /\ pc[t] = "collect"
    /\ Full(event[t].name)
    /\ Goto(t, "resolve")
    /\ UNCHANGED <<starts, memory, lines, local, history>>

AppendLine(t) ==
    /\ pc[t] = "collect"
    /\ ~Full(event[t].name)
    /\ lines' = [lines EXCEPT ![event[t].name] = @ + 1]
    /\ Goto(t, "count")
    /\ UNCHANGED <<starts, memory, local, history>>

AppendFails(t) ==
    /\ "collect" \in Faults
    /\ pc[t] = "collect"
    /\ ~Full(event[t].name)
    /\ Return(t)
    /\ UNCHANGED <<starts, memory, lines>>

CountLine(t) ==
    /\ pc[t] = "count"
    /\ counts' = [counts EXCEPT ![event[t].name] = @ + 1]
    /\ Goto(t, "resolve")
    /\ UNCHANGED <<starts, since, silence, counters, lines, local, history>>
-----------------------------------------------------------------------------
(* TriggerResolver.resolve, one trigger at a time.                          *)

\* Mutant (ResetByKeeper): a payload without roles is let through.
MatchesRolesOrNone(required, roles) ==
    \/ required = {} \/ "everyone" \in required \/ roles = {}
    \/ "broadcaster" \in roles
    \/ required \cap roles # {}

\* matches_roles: no requirement, "everyone", the broadcaster, a common role.
MatchesRoles(required, roles) ==
    \/ required = {} \/ "everyone" \in required
    \/ "broadcaster" \in roles
    \/ required \cap roles # {}

\* ChatterTracker.is_new.
IsNew(user, window) == user # NoUser /\ window > 0 /\ AtLeast(silence[user], window)

\* match_event_condition.  A time leaf looks at the last match it is given: that
\* of the trigger's name here, none at all in the engine.
LeafValue(leaf, a, e, last) ==
    CASE leaf.type = "command" -> MatchCommand(leaf, e.message, a)
      [] leaf.type = "compare" -> MatchCompare(leaf, e.message, a)
      [] leaf.type = "below" -> MatchBelow(leaf, counters, a)
      [] leaf.type = "time" -> [holds |-> AtLeast(last, leaf.interval), args |-> a]
      [] leaf.type = "new_chatter" -> [holds |-> IsNew(e.user, leaf.window), args |-> a]
      [] leaf.type = "follow" -> [holds |-> e.name = "event.follow", args |-> a]
      [] leaf.type = "role" -> [holds |-> MatchesRoles(leaf.roles, e.roles), args |-> a]

\* The filters that come before the "when" tree.
Applies(trig, e) ==
    /\ trig.event \in {AnyEvent, e.name}
    /\ e.selected \in {AnyEvent, trig.name}
    /\ MatchesRoles(trig.roles, e.roles)

Result(t) ==
    LET trig == Triggers[at[t]]
        Value(leaf, a) == LeafValue(leaf, a, event[t], since[trig.name])
    IN  EvaluateWhen(Node, trig.when, args[t], Value)

Next1(t) == at' = [at EXCEPT ![t] = @ + 1]

Filtered(t) ==
    /\ pc[t] = "resolve"
    /\ at[t] <= Len(Triggers)
    /\ ~Applies(Triggers[at[t]], event[t])
    /\ Next1(t)
    /\ UNCHANGED <<starts, memory, lines, pc, event, args, todo, read, history>>

\* Mutant (Recurs): the time of the evaluation is remembered, match or not.
NoMatchRemembered(t) ==
    /\ pc[t] = "resolve"
    /\ at[t] <= Len(Triggers)
    /\ Applies(Triggers[at[t]], event[t])
    /\ ~Result(t).holds
    /\ args' = [args EXCEPT ![t] = Result(t).args]
    /\ since' = [since EXCEPT ![Triggers[at[t]].name] = 0]
    /\ Next1(t)
    /\ UNCHANGED <<starts, silence, counts, counters, lines, pc, event, todo, read, history>>

\* The tree does not hold, but it may have put args into the payload.
NoMatch(t) ==
    /\ pc[t] = "resolve"
    /\ at[t] <= Len(Triggers)
    /\ Applies(Triggers[at[t]], event[t])
    /\ ~Result(t).holds
    /\ args' = [args EXCEPT ![t] = Result(t).args]
    /\ Next1(t)
    /\ UNCHANGED <<starts, memory, lines, pc, event, todo, read, history>>

\* The root of the trigger's reactions, if it has one; nothing is evaluated yet.
Collected(i) ==
    IF Triggers[i].reactions = NoNode THEN <<>>
    ELSE <<[trigger |-> i, node |-> Triggers[i].reactions]>>

Match(t) ==
    /\ pc[t] = "resolve"
    /\ at[t] <= Len(Triggers)
    /\ Applies(Triggers[at[t]], event[t])
    /\ Result(t).holds
    /\ args' = [args EXCEPT ![t] = Result(t).args]
    /\ todo' = [todo EXCEPT ![t] = @ \o Collected(at[t])]
    /\ Goto(t, "stamp")
    /\ UNCHANGED <<starts, memory, lines, event, at, read, history>>

\* Mutant (OncePerInterval): the match is not remembered.
RememberNothing(name) == since' = since

\* self._last_trigger_times[name] = self._time_provider()
Remember(name) == since' = [since EXCEPT ![name] = 0]

Stamp(t) ==
    /\ pc[t] = "stamp"
    /\ Remember(Triggers[at[t]].name)
    /\ fired' = [fired EXCEPT ![at[t]] = 0]
    /\ Next1(t)
    /\ Goto(t, "resolve")
    /\ UNCHANGED <<starts, silence, counts, counters, lines, event, args, todo, read, spoke>>

Resolved(t) ==
    /\ pc[t] = "resolve"
    /\ at[t] > Len(Triggers)
    /\ Goto(t, "execute")
    /\ UNCHANGED <<starts, memory, lines, local, history>>
-----------------------------------------------------------------------------
(* ReactionEngine.execute, then the chatter's timestamp.                    *)

Top(t) == Reaction[Head(todo[t]).node]

\* t's next node is of this kind; it is a reaction of this type; it is a counter
\* reaction of this action.
Reaches(t, kind) == pc[t] = "execute" /\ todo[t] # <<>> /\ Top(t).kind = kind
Runs(t, type) == Reaches(t, "reaction") /\ Top(t).reaction.type = type
RunsCounter(t, action) == Runs(t, "counter") /\ Top(t).reaction.action = action

\* The nodes that take the place of the first one of t.
Replace(t, ids) ==
    LET i == Head(todo[t]).trigger
    IN  todo' = [todo EXCEPT ![t] =
            [k \in DOMAIN ids |-> [trigger |-> i, node |-> ids[k]]] \o Tail(@)]

\* Whether t's next node, an "if", takes its "then", and the args afterwards.  The
\* engine matches leaves with no last matches.
Condition(t) ==
    LET Value(leaf, a) == LeafValue(leaf, a, event[t], Never)
    IN  EvaluateWhen(Node, Top(t).when, args[t], Value)

\* A seq, an if or a switch gives way to its children or its branch.
EnterNode(t, holds, value) ==
    /\ Replace(t, Unfold(Top(t), holds, value))
    /\ UNCHANGED <<starts, memory, lines, pc, event, at, read, history>>

EnterIf(t) ==
    /\ Reaches(t, "if")
    /\ EnterNode(t, Condition(t).holds, NoArgs)
    /\ args' = [args EXCEPT ![t] = Condition(t).args]

EnterSeq(t) == Reaches(t, "seq") /\ EnterNode(t, TRUE, NoArgs) /\ UNCHANGED args

EnterSwitch(t) ==
    /\ Reaches(t, "switch")
    /\ EnterNode(t, TRUE, PlaceholderValue(Top(t).on, event[t].message, args[t], counters))
    /\ UNCHANGED args

\* A chat reply, an overlay message, a clip.
Execute(t) ==
    /\ Runs(t, "chat")
    /\ Replace(t, <<>>)
    /\ UNCHANGED <<starts, memory, lines, pc, event, args, at, read, history>>

\* _ensure_counter, for every action on a counter that does not exist.
CreateCounter(t) ==
    /\ Runs(t, "counter")
    /\ counters[Top(t).reaction.counter] = NoCounter
    /\ counters' = [counters EXCEPT ![Top(t).reaction.counter] = 0]
    /\ UNCHANGED <<starts, since, silence, counts, lines, pc, local, history>>

Query(t) ==
    /\ RunsCounter(t, "query")
    /\ counters[Top(t).reaction.counter] # NoCounter
    /\ Replace(t, <<>>)
    /\ UNCHANGED <<starts, memory, lines, pc, event, args, at, read, history>>

\* counter.value += amount reads, then writes.
ReadCounter(t) ==
    /\ RunsCounter(t, "increment")
    /\ counters[Top(t).reaction.counter] # NoCounter
    /\ read' = [read EXCEPT ![t] = counters[Top(t).reaction.counter]]
    /\ Goto(t, "add")
    /\ UNCHANGED <<starts, memory, lines, event, args, at, todo, history>>

\* The change of a counter is saved, and the next node's turn comes; or the save
\* raises, when the change is made.
Saved(t) ==
    \/ /\ Replace(t, <<>>)
       /\ read' = [read EXCEPT ![t] = 0]
       /\ Goto(t, "execute")
       /\ UNCHANGED <<event, args, at, history>>
    \/ "reaction" \in Faults /\ Return(t)

AddToCounter(t) ==
    /\ pc[t] = "add"
    /\ counters' = [counters EXCEPT ![Top(t).reaction.counter] = read[t] + 1]
    /\ Saved(t)
    /\ UNCHANGED <<starts, since, silence, counts, lines>>

ResetCounter(t) ==
    /\ RunsCounter(t, "reset")
    /\ counters[Top(t).reaction.counter] # NoCounter
    /\ counters' = [counters EXCEPT ![Top(t).reaction.counter] = 0]
    /\ Saved(t)
    /\ UNCHANGED <<starts, since, silence, counts, lines>>

\* The reaction raises; what is left of the event is dropped.  A moderation
\* reaction always does: the engine calls the ModerationHandler object, which
\* is not callable (bot.py:215-229, reaction_engine.py:398).
ExecuteRaises(t) ==
    /\ Reaches(t, "reaction")
    /\ Top(t).reaction.type = "moderation" \/ "reaction" \in Faults
    /\ Return(t)
    /\ UNCHANGED <<starts, memory, lines>>

\* Mutant (GreetedOncePerWindow): moderators are not recorded.
IsChatOfViewer(e) == e.name = "chat.message" /\ e.user # NoUser /\ e.roles = {}

IsChat(e) == e.name = "chat.message" /\ e.user # NoUser

Record(t) ==
    /\ pc[t] = "execute"
    /\ todo[t] = <<>>
    /\ IsChat(event[t])
    /\ silence' = [silence EXCEPT ![event[t].user] = 0]
    /\ Return(t)
    /\ UNCHANGED <<starts, since, counts, counters, lines>>

NothingToRecord(t) ==
    /\ pc[t] = "execute"
    /\ todo[t] = <<>>
    /\ ~IsChat(event[t])
    /\ Return(t)
    /\ UNCHANGED <<starts, memory, lines>>
-----------------------------------------------------------------------------
Older(age) == IF age = Never \/ age = MaxAge THEN age ELSE age + 1

Clock ==
    /\ since' = [n \in Names |-> Older(since[n])]
    /\ silence' = [u \in Users |-> Older(silence[u])]
    /\ spoke' = [u \in Users |-> Older(spoke[u])]
    /\ fired' = [i \in DOMAIN Triggers |-> Older(fired[i])]
    /\ UNCHANGED <<starts, counts, counters, lines, pc, local>>

\* The bot ends and starts again: its memory is gone, the file is not.
Restart ==
    /\ starts < MaxStarts
    /\ starts' = starts + 1
    /\ since' = [n \in Names |-> Never]
    /\ silence' = [u \in Users |-> Never]
    /\ spoke' = [u \in Users |-> Never]
    /\ fired' = [i \in DOMAIN Triggers |-> Never]
    /\ counts' = [e \in EventNames |-> 0]
    /\ pc' = [t \in Threads |-> "idle"]
    /\ event' = [t \in Threads |-> NoEvent]
    /\ args' = [t \in Threads |-> NoArgs]
    /\ at' = [t \in Threads |-> 1]
    /\ todo' = [t \in Threads |-> <<>>]
    /\ read' = [t \in Threads |-> 0]
    /\ UNCHANGED <<lines, counters>>

Collect(t) == CapReached(t) \/ AppendLine(t) \/ AppendFails(t) \/ CountLine(t)
Resolve(t) == Filtered(t) \/ NoMatch(t) \/ Match(t) \/ Stamp(t) \/ Resolved(t)
React(t) ==
    \/ EnterSeq(t) \/ EnterIf(t) \/ EnterSwitch(t) \/ Execute(t) \/ ExecuteRaises(t)
    \/ CreateCounter(t) \/ Query(t) \/ ReadCounter(t) \/ AddToCounter(t) \/ ResetCounter(t)
Finish(t) == Record(t) \/ NothingToRecord(t)
HandleEvent(t) == Receive(t) \/ Collect(t) \/ Resolve(t) \/ React(t) \/ Finish(t)

Next ==
    \/ \E t \in Threads : HandleEvent(t)
    \/ Clock
    \/ Restart

Spec == Init /\ [][Next]_vars

\* The timer threads tick for ever and are not starved (a daemon thread in a
\* loop, every call of which returns), and time passes.  Nobody has to chat.
FairSpec == Spec /\ WF_vars(Clock) /\ \A t \in Timers : WF_vars(HandleEvent(t))
-----------------------------------------------------------------------------
\* The shape of every variable.
TypeOK ==
    /\ starts \in 1..MaxStarts
    /\ since \in [Names -> Ages]
    /\ silence \in [Users -> Ages]
    /\ counts \in [EventNames -> 0..MaxPerType]
    /\ lines \in [EventNames -> Nat]
    /\ pc \in [Threads -> {"idle", "collect", "count", "resolve", "stamp", "execute", "add"}]
    /\ event \in [Threads -> Events]
    /\ args \in [Threads -> Commands \cup {NoArgs}]
    /\ at \in [Threads -> Indices]
    /\ todo \in [Threads -> Seq(Reactions)]
    /\ counters \in [Counters -> Nat \cup {NoCounter}]
    /\ read \in [Threads -> Nat]
    /\ spoke \in [Users -> Ages]
    /\ fired \in [DOMAIN Triggers -> Ages]

\* The leaves that must hold for a node to hold, given those of its children; and
\* for the tree at root to hold.
RequiredAt(n, R) ==
    CASE Node[n].kind = "leaf" -> {Node[n].leaf}
      [] Normalized(Node[n].kind) = "and" ->
            UNION {R[Node[n].kids[k]] : k \in DOMAIN Node[n].kids}
      [] OTHER -> {}

Required(root) ==
    LET R[n \in Nodes] == RequiredAt(n, R)
    IN  IF root = NoNode THEN {} ELSE R[root]

RequiredOf(i, type) == {l \in Required(Triggers[i].when) : l.type = type}

\* t stamps trigger i as matched in this step.
Stamps(t, i) == pc[t] = "stamp" /\ pc'[t] = "resolve" /\ at[t] = i
Matches(t, i) == pc[t] = "resolve" /\ pc'[t] = "stamp" /\ at[t] = i

\* A trigger that requires a time leaf matches at most once per interval
\* (trigger_resolver.py:51, tests/test_trigger_resolver.py:83-101).  Holds while
\* only one thread brings events that the trigger applies to.
OncePerInterval ==
    [][\A t \in Threads : \A i \in DOMAIN Triggers : Stamps(t, i) =>
        \A l \in RequiredOf(i, "time") : AtLeast(fired[i], l.interval)]_vars

\* A trigger with a time leaf matches again and again, whatever other events bring
\* and whatever raises, if no other trigger has its name; unless the collector of
\* silent mode, which comes first, fails to write its file for ever.
TimedTriggers == {i \in DOMAIN Triggers : RequiredOf(i, "time") # {}}
Recurs ==
    \/ \A i \in TimedTriggers : []<>(\E t \in Threads : pc[t] = "stamp" /\ at[t] = i)
    \/ []<><<\E t \in Threads : AppendFails(t)>>_vars

\* A chatter that has not spoken for the window is greeted by a trigger that asks
\* for nothing else: it is evaluated against the time of the previous message
\* (bot.py:802-805), also when several triggers look at the same message.
NewcomerIsGreeted ==
    [][\A t \in Threads : \A i \in DOMAIN Triggers :
        LET root == Triggers[i].when
        IN  /\ pc[t] = "resolve" /\ pc'[t] = "resolve" /\ at[t] = i /\ at'[t] = i + 1
            /\ Applies(Triggers[i], event[t])
            /\ event[t].user # NoUser
            /\ root \in Nodes /\ Node[root].kind = "leaf"
            /\ Node[root].leaf.type = "new_chatter" /\ Node[root].leaf.window > 0
            => ~AtLeast(spoke[event[t].user], Node[root].leaf.window)]_vars

\* A chatter is greeted only after a window without a message from them.
\* Holds while no reaction raises.
GreetedOncePerWindow ==
    [][\A t \in Threads : \A i \in DOMAIN Triggers : Matches(t, i) =>
        \A l \in RequiredOf(i, "new_chatter") :
            AtLeast(spoke[event[t].user], l.window)]_vars

\* The reactions of a trigger see the arguments of its own command: the
\* remainder of the message becomes args (README.md:155).  Holds if no command
\* is a prefix of another.
ArgsOfOwnCommand ==
    \A t \in Threads : pc[t] = "execute" /\ todo[t] # <<>> =>
        \A l \in RequiredOf(Head(todo[t]).trigger, "command") : args[t] = l.command

\* How often one event, any event of one thread, and the events that all threads
\* handle at a time may do this to counter c.
OfEvent(e, action, c) ==
    SumFunction([i \in DOMAIN Triggers |->
        IF Applies(Triggers[i], e)
        THEN WeightOf(Triggers[i].reactions, Changes(Reaction, action, c)) ELSE 0])
Burst(t, action, c) == Max({0} \cup {OfEvent(e, action, c) : e \in Inputs[t]})
Bursts == [c \in Counters |-> SumFunction([t \in Threads |-> Burst(t, "increment", c)])]

\* Nodes that the trees leave only by the "then" of an "if" of Guards.
Confined(Free, Guards) ==
    LET MayBe == Free \cup {NoNode}
    IN  \A id \in Free :
            LET n == Reaction[id]
            IN  /\ n.kind = "seq" => n.kids \in Seq(Free)
                /\ n.kind = "if" => (n.then \in MayBe \/ id \in Guards) /\ n.else \in MayBe
                /\ n.kind = "switch" => /\ n.default \in MayBe
                                       /\ \A k \in 1..Len(n.cases) : n.cases[k].then \in MayBe

\* The limits of counters that are incremented below them only: {counter:c:value} <
\* limit must hold in the trigger's tree, or in that of an "if" above the increment.
Limits ==
    {l \in {Node[n].leaf : n \in {m \in Nodes : Node[m].kind = "leaf"}} :
        /\ l.type = "below" /\ l.limit > 0
        /\ \E Free \in SUBSET ReactionNodes :
               /\ \A id \in Free : ~IsChange(Reaction[id], "increment", l.counter)
               /\ Confined(Free, {id \in ReactionNodes : /\ Reaction[id].kind = "if"
                                                        /\ l \in Required(Reaction[id].when)})
               /\ \A i \in DOMAIN Triggers : \/ Triggers[i].reactions \in Free \cup {NoNode}
                                            \/ l \in Required(Triggers[i].when)}

\* Such a counter passes its limit by no more than the threads may have decided on
\* before they see each other's increments: all trees of an event are evaluated before
\* its first reaction (bot.py:791-800), and the other thread is anywhere.  Lost updates
\* and failing saves (counter_handler.py:101) do not add to that.  Holds while at most
\* two threads increment the counter, or one if it is reset: of three, one may write a low
\* value while another holds a high one, and the guards let through more than the shares.
OvershootBounded ==
    \A l \in Limits :
        counters[l.counter] # NoCounter => counters[l.counter] < l.limit + Bursts[l.counter]

\* Whatever branches the trees have and whatever the other thread does: a counter
\* goes back to zero only in an event of someone with a role that the trees demand
\* for that (docs/ui.md:57-61), in a trigger that everybody may use.
ResetByKeeper ==
    [][\A c \in Counters : counters[c] \notin {NoCounter, 0} /\ counters'[c] = 0 =>
        \E t \in Threads : /\ todo'[t] # todo[t]
                           /\ event[t].roles \cap (Keepers \cup {"broadcaster"}) # {}]_vars

\* One start of the bot adds at most max_per_type lines of a type to the file,
\* also when appends fail and when it ends between the append and the count
\* (silent_collector.py:46-52).  Holds while each type comes from one thread.
CapPerStart == \A e \in EventNames : lines[e] <= MaxPerType * starts
-----------------------------------------------------------------------------
(* What some of these properties ask of the settings and of the events.      *)

\* No two threads bring events of one type (CapPerStart, TypeOK).
OneThreadPerType ==
    \A t, u \in Threads : t # u =>
        \A e \in Inputs[t] : \A f \in Inputs[u] : e.name # f.name

\* No two threads bring events that one timed trigger applies to (OncePerInterval).
OneThreadPerTimedTrigger ==
    \A i \in TimedTriggers : \A t, u \in Threads : t # u =>
        \A e \in Inputs[t] : \A f \in Inputs[u] :
            ~(Applies(Triggers[i], e) /\ Applies(Triggers[i], f))

\* No message starts with two commands, since none is a prefix of another
\* (ArgsOfOwnCommand).
OneCommandPerMessage ==
    \A t \in Threads : \A e \in Inputs[t] : \A c, d \in e.message.starts : c = d

\* At most two threads increment a counter with a limit, and only one if it is reset
\* (OvershootBounded): the webhook's server handles one request after the other, and
\* one timer runs.
FewTakers ==
    \A l \in Limits :
        LET Doing(action) == {t \in Threads : Burst(t, action, l.counter) > 0}
        IN  \E t, u \in Threads : /\ Doing("increment") \subseteq {t, u}
                                  /\ t = u \/ Doing("reset") = {}

\* A "when" tree that holds only for someone with one of the keepers' roles.
DemandsKeeper(root) ==
    \E l \in Required(root) :
        l.type = "role" /\ l.roles # {} /\ "everyone" \notin l.roles /\ l.roles \subseteq Keepers

\* No way leads to a reset but by the "then" of an "if" that demands this
\* (ResetByKeeper).
ResetsAreGuarded ==
    \E Free \in SUBSET ReactionNodes :
        /\ \A id \in Free : \A c \in Counters : ~IsChange(Reaction[id], "reset", c)
        /\ Confined(Free, {id \in ReactionNodes : /\ Reaction[id].kind = "if"
                                                 /\ DemandsKeeper(Reaction[id].when)})
        /\ \A i \in DOMAIN Triggers : Triggers[i].reactions \in Free \cup {NoNode}
=============================================================================
