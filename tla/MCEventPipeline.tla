-------------------------- MODULE MCEventPipeline --------------------------
(***************************************************************************)
(* Instances of EventPipeline for TLC: small settings.json files.           *)
(***************************************************************************)
EXTENDS EventPipeline

CONSTANTS webhook, timer, ann, bob, so, sound, w, plus, reset,
          everyInterval, welcome, shout, horn, deaths, seats

\* The "when" trees: leaves, and the nodes above them.
NodeIds == 1..12

NodeTable == <<
    [kind |-> "leaf", leaf |-> [type |-> "time", interval |-> 2]],
    [kind |-> "leaf", leaf |-> [type |-> "new_chatter", window |-> 2]],
    [kind |-> "leaf", leaf |-> [type |-> "command", command |-> so]],
    [kind |-> "leaf", leaf |-> [type |-> "command", command |-> sound]],
    [kind |-> "leaf", leaf |-> [type |-> "role", roles |-> {"keeper"}]],
    [kind |-> "leaf", leaf |-> [type |-> "compare", word |-> w]],
    [kind |-> "and", kids |-> <<3, 1>>],
    [kind |-> "all", kids |-> <<4, 6>>],
    [kind |-> "not", kid |-> 3],
    [kind |-> "leaf", leaf |-> [type |-> "follow"]],
    [kind |-> "leaf", leaf |-> [type |-> "below", counter |-> seats, limit |-> 2]],
    [kind |-> "and", kids |-> <<10, 11>>]>>

\* The reaction trees.  4 to 6: a seat is taken if there is one left, then the
\* moderation reaction.  8 to 12: the counter that the config UI scaffolds
\* (docs/settings.example.json:67-103).
Do(r) == [kind |-> "reaction", reaction |-> r]
Count(action, c) == Do([type |-> "counter", action |-> action, counter |-> c])
If(when, then, else) == [kind |-> "if", when |-> when, then |-> then, else |-> else]
Seq_(kids) == [kind |-> "seq", kids |-> kids]

ReactionIds == 1..13

ReactionTable == <<
    Do([type |-> "chat"]),
    Do([type |-> "moderation"]),
    Count("increment", seats),
    Seq_(<<5, 2>>),
    If(11, 3, NoNode),
    Seq_(<<3, 1>>),
    Count("query", seats),
    [kind |-> "switch", on |-> [type |-> "args"],
     cases |-> <<[equals |-> plus, then |-> 5], [equals |-> reset, then |-> 9]>>, default |-> 7],
    If(5, 10, NoNode),
    Seq_(<<11, 1>>),
    Count("reset", seats),
    If(4, 13, 1),
    [kind |-> "switch", on |-> [type |-> "counter", counter |-> seats],
     cases |-> <<[equals |-> 2, then |-> NoNode]>>, default |-> 1]>>

Trigger(name, event_, roles, when, reactions) ==
    [name |-> name, event |-> event_, roles |-> roles, when |-> when, reactions |-> reactions]

Silence == [starts |-> {}, word |-> [c \in Commands |-> NoArgs]]
Says(s, x) == [starts |-> s, word |-> [c \in Commands |-> x]]

Event(name, user, message, roles) ==
    [name |-> name, user |-> user, message |-> message, roles |-> roles, selected |-> AnyEvent]

Tick == Event("timer.tick", NoUser, Silence, {})

\* Timers: an announcement that takes a seat and ends with a moderation reaction,
\* and two follow triggers that take a seat if their trees find one.
TimerTriggers == <<
    Trigger(everyInterval, "timer.tick", {}, 1, 4),
    Trigger(welcome, "event.follow", {}, 12, 3),
    Trigger(shout, "event.follow", {}, 11, 6)>>
TimerInputs ==
    [t \in Threads |->
        {IF t = timer THEN Tick ELSE Event("event.follow", NoUser, Silence, {})}]

\* Chat: a greeting, a counter, a command for moderators, one with a compare
\* leaf, and a trigger that only a test event may select by name.
ChatTriggers == <<
    Trigger(welcome, "chat.message", {}, 2, 12),
    Trigger(deaths, "chat.message", {}, 3, 8),
    Trigger(shout, "chat.message", {"mod"}, 7, 1),
    Trigger(horn, AnyEvent, {"everyone"}, 8, 1)>>
Messages == {Says({so}, plus), Says({so}, reset), Says({so}, NoArgs), Says({sound}, w), Silence}
ChatInputs ==
    [t \in Threads |->
        {Event("chat.message", u, m, r) :
            u \in Users, m \in Messages, r \in {{}, {"mod"}, {"keeper", "mod"}}}
        \cup {Event("chat.message", NoUser, Silence, {}),
              [Event("chat.message", ann, Says({so}, plus), {"broadcaster"}) EXCEPT !.selected = shout]}]

\* What the properties ask of the settings, of these too.
ASSUME InstanceAssumption ==
    /\ OneThreadPerType /\ OneThreadPerTimedTrigger /\ OneCommandPerMessage /\ ResetsAreGuarded
    /\ FewTakers /\ (Triggers = TimerTriggers => Limits # {})
=============================================================================
