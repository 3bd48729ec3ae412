---------------------------- MODULE ChannelInfo ----------------------------
(***************************************************************************)
(* ChannelInfoFetcher.game_name (twitch_api.py): the category of the stream, *)
(* asked from Twitch and kept for cache_ttl seconds, by the thread of the      *)
(* webhook and by that of the timer, without a lock.  The reaction engine        *)
(* asks for it to tell which counter a category-dependent counter reaction        *)
(* is about.                                                               *)
(*                                                                         *)
(* Abstractions: one channel, in production mode; time is a number that both   *)
(* sides agree on.                                                         *)
(***************************************************************************)
EXTENDS Integers

CONSTANTS
    Threads,    \* threads that handle events
    Games,      \* categories
    NoGame,     \* "", for no category and for every failure
    TTL,        \* cache_ttl
    NoEntry,    \* the cache is empty
    MaxTime     \* the time at which the model stops (model bound)

ASSUME ChannelAssumption ==
    /\ NoGame \in Games
    /\ TTL \in Nat \ {0} /\ MaxTime \in Nat
    /\ NoEntry \notin [at : Nat, game : Games]

VARIABLES
    clock,      \* time.time()
    game,       \* the category at Twitch
    last,       \* last[g]: when g last was the category (-TTL: never)
    entry,      \* _cache: when it was asked for, and the category
    where,      \* where[t]: where thread t is in game_name
    started,    \* started[t]: now
    result      \* result[t]: what Twitch answered, or game_name returns

outside == <<clock, game, last>>
fetching == <<where, started, result>>
channelVars == <<outside, entry, fetching>>

ChannelInit ==
    /\ clock = 0
    /\ game \in Games
    /\ last = [g \in Games |-> IF g = game THEN 0 ELSE -TTL]
    /\ entry = NoEntry
    /\ where = [t \in Threads |-> "idle"]
    /\ started = [t \in Threads |-> 0]
    /\ result = [t \in Threads |-> NoGame]
-----------------------------------------------------------------------------
(* Time passes, the streamer chooses another category (external).           *)

Tick ==
    /\ clock < MaxTime
    /\ clock' = clock + 1
    /\ last' = [last EXCEPT ![game] = clock + 1]
    /\ UNCHANGED <<game, entry, fetching>>

ChooseGame(g) ==
    /\ g # game
    /\ game' = g
    /\ last' = [last EXCEPT ![g] = clock]
    /\ UNCHANGED <<clock, entry, fetching>>
-----------------------------------------------------------------------------
(* game_name, called by thread t.                                          *)

Fresh == entry # NoEntry /\ clock - entry.at < TTL

AskCache(t) ==
    /\ where[t] = "idle"
    /\ Fresh
    /\ where' = [where EXCEPT ![t] = "returned"]
    /\ started' = [started EXCEPT ![t] = clock]
    /\ result' = [result EXCEPT ![t] = entry.game]
    /\ UNCHANGED <<outside, entry>>

AskTwitch(t) ==
    /\ where[t] = "idle"
    /\ ~Fresh
    /\ where' = [where EXCEPT ![t] = "asked"]
    /\ started' = [started EXCEPT ![t] = clock]
    /\ UNCHANGED <<outside, entry, result>>

\* Twitch looks at the category; its answer is still on its way.  It has no
\* item if it does not know the channel.
TwitchLooks(t) ==
    /\ where[t] = "asked"
    /\ where' = [where EXCEPT ![t] = "answered"]
    /\ result' \in {[result EXCEPT ![t] = g] : g \in {game, NoGame}}
    /\ UNCHANGED <<outside, entry, started>>

\* Mutant (GameIsRecent): the entry is as old as its answer's arrival.
KeepAnswerFromNow(t) ==
    /\ where[t] = "answered"
    /\ entry' = [at |-> clock, game |-> result[t]]
    /\ where' = [where EXCEPT ![t] = "returned"]
    /\ UNCHANGED <<outside, started, result>>

\* The answer is kept, as old as the question, even if it is "".
KeepAnswer(t) ==
    /\ where[t] = "answered"
    /\ entry' = [at |-> started[t], game |-> result[t]]
    /\ where' = [where EXCEPT ![t] = "returned"]
    /\ UNCHANGED <<outside, started, result>>

\* No answer in ten seconds, not the status 200, or no JSON: "", which is not kept.
FetchFails(t) ==
    /\ where[t] \in {"asked", "answered"}
    /\ where' = [where EXCEPT ![t] = "returned"]
    /\ result' = [result EXCEPT ![t] = NoGame]
    /\ UNCHANGED <<outside, entry, started>>

\* The caller goes on with what was returned.
Done(t) ==
    /\ where[t] = "returned"
    /\ where' = [where EXCEPT ![t] = "idle"]
    /\ started' = [started EXCEPT ![t] = 0]
    /\ result' = [result EXCEPT ![t] = NoGame]
    /\ UNCHANGED <<outside, entry>>

\* The process ends, and starts again.
ForgetAll ==
    /\ entry' = NoEntry
    /\ where' = [t \in Threads |-> "idle"]
    /\ started' = [t \in Threads |-> 0]
    /\ result' = [t \in Threads |-> NoGame]
    /\ UNCHANGED outside

GameName(t) ==
    AskCache(t) \/ AskTwitch(t) \/ TwitchLooks(t) \/ KeepAnswer(t) \/ FetchFails(t)

ChannelNext ==
    \/ Tick
    \/ \E g \in Games : ChooseGame(g)
    \/ \E t \in Threads : GameName(t) \/ Done(t)
    \/ ForgetAll

ChannelSpec == ChannelInit /\ [][ChannelNext]_channelVars
-----------------------------------------------------------------------------
\* A category-dependent counter is that of a category which the stream had less
\* than cache_ttl seconds before the reaction asked for it ("cached per
\* broadcaster id with a TTL", twitch_api.py:435-436), or of the default one:
\* however slow the answers are, and whichever thread has kept which of them.
GameIsRecent ==
    \A t \in Threads :
        where[t] = "returned" /\ result[t] # NoGame => last[result[t]] > started[t] - TTL
=============================================================================
