--------------------------- MODULE Notifications ---------------------------
(***************************************************************************)
(* Events on their way from Twitch into the bot: Twitch posts a notification  *)
(* until it is answered in time, or too often; the webhook server             *)
(* (eventsub/server.py) takes one request after another, checks how old it    *)
(* is, lets handle_event run its reactions and answers 202 afterwards.  A     *)
(* reaction counts in a counter of the stream's category (ChannelInfo), or is *)
(* a moderation; the timer thread asks for the category, too.                *)
(*                                                                         *)
(* Abstractions: Twitch's signature is right and its requests are not        *)
(* challenges, an event has one reaction; what a count does to counters.json *)
(* is CounterStore's subject.  A timestamp is a number of seconds, of a clock *)
(* that may be ahead of the bot's, or is NotANumber: what float() refuses, as *)
(* the RFC 3339 stamps that Twitch documents.                                *)
(***************************************************************************)
EXTENDS ChannelInfo, Sequences

CONSTANTS
    Messages,   \* events
    Reactions,  \* the reactions in settings.json, of {"counter", "moderation"}
    Webhook,    \* the server's thread
    Timer,      \* the timer's thread
    Skew,       \* MAX_TIMESTAMP_SKEW_SECONDS
    Ahead,      \* how far Twitch's clock may be ahead (external; model bound)
    NotANumber, \* a timestamp that float() raises ValueError of
    NoMessage,  \* nothing is handled
    MaxTries,   \* deliveries of a message (external; model bound)
    MaxBacklog, \* requests that wait (model bound)
    MaxRestarts \* restarts of the bot (model bound)

ASSUME NotificationsAssumption ==
    /\ Threads = {Webhook, Timer} /\ Webhook # Timer
    /\ NoMessage \notin Messages
    /\ NotANumber \notin Nat
    /\ Skew \in Nat /\ Ahead \in Nat /\ MaxTries \in Nat /\ MaxBacklog \in Nat /\ MaxRestarts \in Nat

VARIABLES
    stamp,      \* stamp[m]: the message's timestamp, of which m is signed
    delivery,   \* delivery[m]: "none", "due", "open" (Twitch waits), "done", "dropped"
    tries,      \* tries[m]: deliveries so far
    backlog,    \* requests that the server has not taken yet
    serving,    \* the message that is handled
    step,       \* where the server thread is: "idle", "react", "answer"
    reaction,   \* reaction[m]: the reaction to m, constant
    handled,    \* messages whose reaction was executed, or raised
    executed,   \* those whose reaction was executed (for a property only)
    restarts

atTwitch == <<stamp, delivery, tries>>
server == <<backlog, serving, step>>
vars == <<channelVars, atTwitch, server, reaction, handled, executed, restarts>>

Init ==
    /\ ChannelInit
    /\ stamp = [m \in Messages |-> 0]
    /\ delivery = [m \in Messages |-> "none"]
    /\ tries = [m \in Messages |-> 0]
    /\ backlog = <<>>
    /\ serving = NoMessage
    /\ step = "idle"
    /\ reaction \in [Messages -> Reactions]
    /\ handled = {}
    /\ executed = {}
    /\ restarts = 0
-----------------------------------------------------------------------------
(* Twitch (external).                                                      *)

Happens(m) ==
    /\ delivery[m] = "none"
    /\ delivery' = [delivery EXCEPT ![m] = "due"]
    /\ \E s \in (clock .. clock + Ahead) \cup {NotANumber} :
          stamp' = [stamp EXCEPT ![m] = s]
    /\ UNCHANGED <<channelVars, tries, server, reaction, handled, executed, restarts>>

Deliver(m) ==
    /\ delivery[m] = "due" /\ tries[m] < MaxTries
    /\ Len(backlog) < MaxBacklog
    /\ delivery' = [delivery EXCEPT ![m] = "open"]
    /\ tries' = [tries EXCEPT ![m] = @ + 1]
    /\ backlog' = Append(backlog, m)
    /\ UNCHANGED <<channelVars, stamp, serving, step, reaction, handled, executed, restarts>>

\* There is no tunnel, or nobody listens.
NotDelivered(m) ==
    /\ delivery[m] = "due" /\ tries[m] < MaxTries
    /\ tries' = [tries EXCEPT ![m] = @ + 1]
    /\ UNCHANGED <<channelVars, stamp, delivery, server, reaction, handled, executed, restarts>>

\* The answer is late: the request stays where it is, its answer will not count.
StopsWaiting(m) ==
    /\ delivery[m] = "open"
    /\ delivery' = [delivery EXCEPT ![m] = "due"]
    /\ UNCHANGED <<channelVars, stamp, tries, server, reaction, handled, executed, restarts>>

Drop(m) ==
    /\ delivery[m] = "due" /\ tries[m] = MaxTries
    /\ delivery' = [delivery EXCEPT ![m] = "dropped"]
    /\ UNCHANGED <<channelVars, stamp, tries, server, reaction, handled, executed, restarts>>

\* What Twitch makes of an answer to m: nothing, if m was delivered again since.
Answered(m, outcome) ==
    delivery' = IF delivery[m] = "open" /\ \A i \in DOMAIN backlog' : backlog'[i] # m
                  THEN [delivery EXCEPT ![m] = outcome] ELSE delivery
-----------------------------------------------------------------------------
(* The server's thread: eventsub_callback.                                 *)

\* What verify_signature asks of the timestamp: a number, neither too old nor too
\* far in the future.
InTime(m) == stamp[m] # NotANumber /\ clock - stamp[m] \in -Skew .. Skew

\* 403.
Refuse ==
    /\ step = "idle" /\ backlog # <<>>
    /\ ~InTime(Head(backlog))
    /\ backlog' = Tail(backlog)
    /\ Answered(Head(backlog), "due")
    /\ UNCHANGED <<channelVars, stamp, tries, serving, step, reaction, handled, executed, restarts>>

\* Mutant (AnsweredIsActedOn): answers before it handles.
AcceptAndAnswer ==
    /\ step = "idle" /\ backlog # <<>>
    /\ InTime(Head(backlog))
    /\ backlog' = Tail(backlog)
    /\ serving' = Head(backlog)
    /\ step' = "react"
    /\ Answered(Head(backlog), "done")
    /\ UNCHANGED <<channelVars, stamp, tries, reaction, handled, executed, restarts>>

Accept ==
    /\ step = "idle" /\ backlog # <<>>
    /\ InTime(Head(backlog))
    /\ backlog' = Tail(backlog)
    /\ serving' = Head(backlog)
    /\ step' = "react"
    /\ UNCHANGED <<channelVars, atTwitch, reaction, handled, executed, restarts>>

IsAbout(type) == step = "react" /\ reaction[serving] = type
Handled == step' = "answer" /\ handled' = handled \cup {serving}

\* A counter reaction asks for the category, then counts.
AskGame ==
    /\ IsAbout("counter")
    /\ GameName(Webhook)
    /\ UNCHANGED <<atTwitch, server, reaction, handled, executed, restarts>>

Count ==
    /\ IsAbout("counter")
    /\ Done(Webhook)
    /\ Handled
    /\ executed' = executed \cup {serving}
    /\ UNCHANGED <<atTwitch, backlog, serving, reaction, restarts>>

\* What handle_event raises (of a file that cannot be written), before the
\* reaction or in it, is logged.
CountRaises ==
    /\ IsAbout("counter")
    /\ \/ where[Webhook] = "idle" /\ UNCHANGED channelVars
       \/ Done(Webhook)
    /\ Handled
    /\ UNCHANGED <<atTwitch, backlog, serving, reaction, executed, restarts>>

\* The engine calls what _make_moderation_handler has returned, a ModerationHandler,
\* which is not callable: the TypeError is logged, too.
ModerationRaises ==
    /\ IsAbout("moderation")
    /\ Handled
    /\ UNCHANGED <<channelVars, atTwitch, backlog, serving, reaction, executed, restarts>>

\* Mutant (EventsComeToAnEnd): the handling never comes back.
AnswerNever == FALSE

\* 202.
Answer ==
    /\ step = "answer"
    /\ step' = "idle" /\ serving' = NoMessage
    /\ UNCHANGED backlog
    /\ Answered(serving, "done")
    /\ UNCHANGED <<channelVars, stamp, tries, reaction, handled, executed, restarts>>
-----------------------------------------------------------------------------
\* A time trigger has a category-dependent counter, too.
TimerCounts ==
    /\ GameName(Timer) \/ Done(Timer)
    /\ UNCHANGED <<atTwitch, server, reaction, handled, executed, restarts>>

\* The process ends in whatever it does, and is started again: connections are
\* closed, and what was in memory is gone.
Restart ==
    /\ restarts < MaxRestarts
    /\ restarts' = restarts + 1
    /\ ForgetAll
    /\ backlog' = <<>> /\ serving' = NoMessage /\ step' = "idle"
    /\ delivery' = [m \in Messages |-> IF delivery[m] = "open" THEN "due" ELSE delivery[m]]
    /\ UNCHANGED <<stamp, tries, reaction, handled, executed>>

Elsewhere ==
    /\ Tick \/ \E g \in Games : ChooseGame(g)
    /\ UNCHANGED <<atTwitch, server, reaction, handled, executed, restarts>>

Serve ==
    Refuse \/ Accept \/ AskGame \/ Count \/ CountRaises \/ ModerationRaises \/ Answer
Send(m) == Deliver(m) \/ NotDelivered(m) \/ Drop(m)

Next ==
    \/ Serve \/ TimerCounts \/ Restart \/ Elsewhere
    \/ \E m \in Messages : Happens(m) \/ Send(m) \/ StopsWaiting(m)

Spec == Init /\ [][Next]_vars

\* The server's thread runs, every request to Twitch ends (it has a timeout of ten
\* seconds), and Twitch goes on with what is due.
FairSpec == Spec /\ WF_vars(Serve) /\ \A m \in Messages : WF_vars(Send(m))
-----------------------------------------------------------------------------
\* An event that Twitch takes for delivered was acted on, or its handling has
\* raised: the 202 comes after handle_event (server.py:55-63), so that an event
\* whose handling a crash has cut short is delivered again.
AnsweredIsActedOn ==
    \A m \in Messages : delivery[m] = "done" => m \in handled

\* However slowly it is handled, and however often it is delivered again
\* meanwhile, every event comes to an end at Twitch.
EventsComeToAnEnd ==
    \A m \in Messages : delivery[m] = "due" ~> delivery[m] \in {"done", "dropped"}

\* A moderation reaction of an event that was handled is executed: "Outbound
\* chat/clip/moderation go through Helix REST" (README.md:33).  Fails.
ModerationIsExecuted ==
    \A m \in handled : reaction[m] = "moderation" => m \in executed
=============================================================================
