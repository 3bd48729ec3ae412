------------------------ MODULE NotificationsProofs ------------------------
(***************************************************************************)
(* Proofs about ChannelInfo and Notifications: for every time to live, any    *)
(* number of threads, categories, messages and deliveries.                   *)
(***************************************************************************)
EXTENDS Notifications, TLAPS

(* ChannelInfo.                                                            *)

ChannelTypeOK ==
    /\ clock \in Nat
    /\ game \in Games
    /\ last \in [Games -> Int]
    /\ entry = NoEntry \/ entry \in [at : Nat, game : Games]
    /\ where \in [Threads -> {"idle", "asked", "answered", "returned"}]
    /\ started \in [Threads -> Nat]
    /\ result \in [Threads -> Games]

\* g was the category at the time x, or later.
Since(g, x) == g # NoGame => last[g] >= x

\* What is known of a category is as old as the question at most.
NothingOlder ==
    /\ last[game] = clock
    /\ \A g \in Games : last[g] <= clock
    /\ \A t \in Threads : started[t] <= clock
    /\ entry # NoEntry => entry.at <= clock /\ Since(entry.game, entry.at)
    /\ \A t \in Threads : where[t] = "answered" => Since(result[t], started[t])

ChannelInv == ChannelTypeOK /\ NothingOlder /\ GameIsRecent

LEMMA ChannelInitially == ChannelInit => ChannelInv
<1> SUFFICES ASSUME ChannelInit PROVE ChannelInv
    OBVIOUS
<1>1. -TTL \in Int /\ -TTL < 0
    BY ChannelAssumption
<1>2. ChannelTypeOK
    BY <1>1, ChannelAssumption DEF ChannelInit, ChannelTypeOK
<1>3. NothingOlder
    BY <1>1 DEF ChannelInit, NothingOlder
<1>4. GameIsRecent
    BY DEF ChannelInit, GameIsRecent
<1> QED
    BY <1>2, <1>3, <1>4 DEF ChannelInv

\* The categories that were seen are seen for ever, and seen later again.
LEMMA TimeGoesOn ==
    ASSUME ChannelInv, Tick \/ \E g \in Games : ChooseGame(g)
    PROVE  ChannelInv'
<1>1. /\ clock' \in Nat /\ clock <= clock' /\ game' \in Games /\ last' \in [Games -> Int]
      /\ last'[game'] = clock'
      /\ \A g \in Games : last[g] <= last'[g] /\ last'[g] <= clock'
    <2>1. /\ clock \in Nat /\ game \in Games /\ last \in [Games -> Int]
          /\ last[game] = clock /\ \A g \in Games : last[g] <= clock
        BY DEF ChannelInv, ChannelTypeOK, NothingOlder
    <2>2. CASE Tick
        BY <2>1, <2>2 DEF Tick
    <2>3. CASE \E g \in Games : ChooseGame(g)
        BY <2>1, <2>3 DEF ChooseGame
    <2> QED
        BY <2>2, <2>3
<1>2. UNCHANGED <<entry, where, started, result>>
    BY DEF Tick, ChooseGame, fetching
<1>3. ChannelTypeOK'
    BY <1>1, <1>2 DEF ChannelInv, ChannelTypeOK
<1>4. NothingOlder'
    BY <1>1, <1>2 DEF ChannelInv, ChannelTypeOK, NothingOlder, Since
<1>5. GameIsRecent'
    <2> SUFFICES ASSUME NEW t \in Threads, where'[t] = "returned", result'[t] # NoGame
                 PROVE  last'[result'[t]] > started'[t] - TTL'
        BY DEF GameIsRecent
    <2>1. /\ last[result[t]] > started[t] - TTL /\ result[t] \in Games /\ started[t] \in Nat
          /\ last \in [Games -> Int]
        BY <1>2 DEF ChannelInv, ChannelTypeOK, GameIsRecent
    <2> QED
        BY <1>1, <1>2, <2>1, ChannelAssumption
<1> QED
    BY <1>3, <1>4, <1>5 DEF ChannelInv

LEMMA GameNameKeepsInv ==
    ASSUME ChannelInv, NEW t \in Threads, GameName(t)
    PROVE  ChannelInv'
<1>1. ChannelTypeOK /\ NothingOlder /\ GameIsRecent /\ TTL \in Nat \ {0} /\ NoGame \in Games
    BY ChannelAssumption DEF ChannelInv
<1>2. UNCHANGED <<clock, game, last>>
    BY DEF GameName, AskCache, AskTwitch, TwitchLooks, KeepAnswer, FetchFails, outside
<1>3. ASSUME ChannelTypeOK', NothingOlder',
             where'[t] = "returned" /\ result'[t] # NoGame => last[result'[t]] > started'[t] - TTL,
             \A s \in Threads \ {t} : /\ where'[s] = where[s] /\ started'[s] = started[s]
                                      /\ result'[s] = result[s]
      PROVE  ChannelInv'
    BY <1>1, <1>2, <1>3 DEF ChannelInv, GameIsRecent
<1>4. CASE AskCache(t)
    <2>1. /\ entry \in [at : Nat, game : Games] /\ clock - entry.at < TTL
          /\ where' = [where EXCEPT ![t] = "returned"]
          /\ started' = [started EXCEPT ![t] = clock]
          /\ result' = [result EXCEPT ![t] = entry.game]
          /\ entry' = entry
        BY <1>1, <1>4 DEF AskCache, Fresh, ChannelTypeOK
    <2>2. entry # NoEntry
        BY <1>4 DEF AskCache, Fresh
    <2>3. Since(entry.game, entry.at)
        BY <1>1, <2>2 DEF NothingOlder
    <2>4. ChannelTypeOK'
        BY <1>1, <1>2, <2>1 DEF ChannelTypeOK
    <2>5. NothingOlder'
        BY <1>1, <1>2, <2>1 DEF ChannelTypeOK, NothingOlder, Since
    <2>6. result'[t] # NoGame => last[result'[t]] > started'[t] - TTL
        BY <1>1, <2>1, <2>3 DEF ChannelTypeOK, Since
    <2> QED
        BY <1>1, <1>3, <2>1, <2>4, <2>5, <2>6 DEF ChannelTypeOK
<1>5. CASE AskTwitch(t)
    <2>1. /\ where' = [where EXCEPT ![t] = "asked"] /\ started' = [started EXCEPT ![t] = clock]
          /\ result' = result /\ entry' = entry
        BY <1>5 DEF AskTwitch
    <2>2. ChannelTypeOK'
        BY <1>1, <1>2, <2>1 DEF ChannelTypeOK
    <2>3. NothingOlder'
        BY <1>1, <1>2, <2>1 DEF ChannelTypeOK, NothingOlder, Since
    <2> QED
        BY <1>1, <1>3, <2>1, <2>2, <2>3 DEF ChannelTypeOK
<1>6. CASE TwitchLooks(t)
    <2>1. PICK g \in {game, NoGame} : result' = [result EXCEPT ![t] = g]
        BY <1>6 DEF TwitchLooks
    <2>2. /\ where' = [where EXCEPT ![t] = "answered"] /\ started' = started /\ entry' = entry
        BY <1>6 DEF TwitchLooks
    <2>3. ChannelTypeOK'
        BY <1>1, <1>2, <2>1, <2>2 DEF ChannelTypeOK
    <2>4. Since(g, clock)
        BY <1>1 DEF Since, NothingOlder, ChannelTypeOK
    <2>5. NothingOlder'
        BY <1>1, <1>2, <2>1, <2>2, <2>4 DEF ChannelTypeOK, NothingOlder, Since
    <2> QED
        BY <1>1, <1>3, <2>1, <2>2, <2>3, <2>5 DEF ChannelTypeOK
<1>7. CASE KeepAnswer(t)
    <2>1. /\ where[t] = "answered" /\ where' = [where EXCEPT ![t] = "returned"]
          /\ entry' = [at |-> started[t], game |-> result[t]]
          /\ started' = started /\ result' = result
        BY <1>7 DEF KeepAnswer
    <2>2. Since(result[t], started[t]) /\ started[t] <= clock
        BY <1>1, <2>1 DEF NothingOlder
    <2>3. ChannelTypeOK'
        BY <1>1, <1>2, <2>1 DEF ChannelTypeOK
    <2>4. NothingOlder'
        BY <1>1, <1>2, <2>1, <2>2 DEF ChannelTypeOK, NothingOlder, Since
    <2>5. result'[t] # NoGame => last[result'[t]] > started'[t] - TTL
        BY <1>1, <2>1, <2>2 DEF ChannelTypeOK, Since
    <2> QED
        BY <1>1, <1>3, <2>1, <2>3, <2>4, <2>5 DEF ChannelTypeOK
<1>8. CASE FetchFails(t)
    <2>1. /\ where' = [where EXCEPT ![t] = "returned"] /\ result' = [result EXCEPT ![t] = NoGame]
          /\ started' = started /\ entry' = entry
        BY <1>8 DEF FetchFails
    <2>2. ChannelTypeOK'
        BY <1>1, <1>2, <2>1 DEF ChannelTypeOK
    <2>3. NothingOlder'
        BY <1>1, <1>2, <2>1 DEF ChannelTypeOK, NothingOlder, Since
    <2> QED
        BY <1>1, <1>3, <2>1, <2>2, <2>3 DEF ChannelTypeOK
<1> QED
    BY <1>4, <1>5, <1>6, <1>7, <1>8 DEF GameName

LEMMA ForgettingKeepsInv ==
    ASSUME ChannelInv, ForgetAll \/ \E t \in Threads : Done(t)
    PROVE  ChannelInv'
<1>1. ChannelTypeOK /\ NothingOlder /\ GameIsRecent /\ NoGame \in Games /\ UNCHANGED outside
    BY ChannelAssumption DEF ChannelInv, ForgetAll, Done
<1>2. CASE ForgetAll
    <2>1. ChannelTypeOK'
        BY <1>1, <1>2 DEF ForgetAll, outside, ChannelTypeOK
    <2>2. NothingOlder' /\ GameIsRecent'
        BY <1>1, <1>2 DEF ForgetAll, outside, ChannelTypeOK, NothingOlder, GameIsRecent, Since
    <2> QED
        BY <2>1, <2>2 DEF ChannelInv
<1>3. ASSUME NEW t \in Threads, Done(t) PROVE ChannelInv'
    <2>1. ChannelTypeOK'
        BY <1>1, <1>3 DEF Done, outside, ChannelTypeOK
    <2>2. NothingOlder'
        BY <1>1, <1>3 DEF Done, outside, ChannelTypeOK, NothingOlder, Since
    <2>3. GameIsRecent'
        BY <1>1, <1>3 DEF Done, outside, ChannelTypeOK, GameIsRecent
    <2> QED
        BY <2>1, <2>2, <2>3 DEF ChannelInv
<1> QED
    BY <1>2, <1>3

LEMMA ChannelStep == ChannelInv /\ [ChannelNext]_channelVars => ChannelInv'
<1> SUFFICES ASSUME ChannelInv, [ChannelNext]_channelVars PROVE ChannelInv'
    OBVIOUS
<1>1. CASE Tick \/ \E g \in Games : ChooseGame(g)
    BY <1>1, TimeGoesOn
<1>2. ASSUME NEW t \in Threads, GameName(t) PROVE ChannelInv'
    BY <1>2, GameNameKeepsInv
<1>3. CASE ForgetAll \/ \E t \in Threads : Done(t)
    BY <1>3, ForgettingKeepsInv
<1>4. CASE UNCHANGED channelVars
    BY <1>4 DEF channelVars, outside, fetching, ChannelInv, ChannelTypeOK, NothingOlder,
                GameIsRecent, Since
<1> QED
    BY <1>1, <1>2, <1>3, <1>4 DEF ChannelNext

\* game_name returns no category that the stream last had cache_ttl ago or
\* earlier, for any number of threads.
THEOREM GamesAreRecent == ChannelSpec => []GameIsRecent
<1>1. ChannelInv => GameIsRecent
    BY DEF ChannelInv
<1> QED
    BY <1>1, ChannelInitially, ChannelStep, PTL DEF ChannelSpec
-----------------------------------------------------------------------------
(* Notifications.                                                          *)

LEMMA NotificationsStepIsChannelStep == Next => [ChannelNext]_channelVars
<1> SUFFICES ASSUME Next PROVE ChannelNext \/ UNCHANGED channelVars
    OBVIOUS
<1>0. Webhook \in Threads /\ Timer \in Threads
    BY NotificationsAssumption
<1>1. CASE Serve
    BY <1>0, <1>1 DEF Serve, Refuse, Accept, AskGame, Count, CountRaises, ModerationRaises, Answer,
                      ChannelNext
<1>2. CASE TimerCounts
    BY <1>0, <1>2 DEF TimerCounts, ChannelNext
<1>3. CASE Restart \/ Elsewhere
    BY <1>3 DEF Restart, Elsewhere, ChannelNext
<1>4. ASSUME NEW m \in Messages, Happens(m) \/ Send(m) \/ StopsWaiting(m)
      PROVE  UNCHANGED channelVars
    BY <1>4 DEF Happens, Send, Deliver, NotDelivered, Drop, StopsWaiting
<1> QED
    BY <1>1, <1>2, <1>3, <1>4 DEF Next

\* What the reactions to notifications count is of a recent category.
THEOREM CountsAreOfRecentGames == Spec => []GameIsRecent
<1>1. Init => ChannelInv
    BY ChannelInitially DEF Init
<1>2. ChannelInv /\ [Next]_vars => ChannelInv'
    <2>1. UNCHANGED vars => UNCHANGED channelVars
        BY DEF vars
    <2> QED
        BY <2>1, NotificationsStepIsChannelStep, ChannelStep
<1>3. ChannelInv => GameIsRecent
    BY DEF ChannelInv
<1> QED
    BY <1>1, <1>2, <1>3, PTL DEF Spec

\* The server answers only for what it has handled.
AnswersAreFor ==
    /\ DOMAIN delivery = Messages
    /\ step = "answer" => serving \in handled

AnsweringInv == AnswersAreFor /\ AnsweredIsActedOn

LEMMA AnsweringStep == AnsweringInv /\ [Next]_vars => AnsweringInv'
<1> SUFFICES ASSUME AnsweringInv, [Next]_vars PROVE AnsweringInv'
    OBVIOUS
<1> USE DEF AnsweringInv, AnswersAreFor, AnsweredIsActedOn
<1>1. CASE Refuse
    BY <1>1 DEF Refuse, Answered
<1>2. CASE Accept
    BY <1>2 DEF Accept, atTwitch
<1>3. CASE AskGame \/ TimerCounts
    BY <1>3 DEF AskGame, TimerCounts, atTwitch, server
<1>4. CASE Count \/ CountRaises \/ ModerationRaises
    BY <1>4 DEF Count, CountRaises, ModerationRaises, Handled, atTwitch
<1>5. CASE Answer
    BY <1>5 DEF Answer, Answered
<1>6. CASE Restart
    BY <1>6 DEF Restart
<1>7. CASE Elsewhere
    BY <1>7 DEF Elsewhere, atTwitch, server
<1>8. ASSUME NEW m \in Messages, Happens(m) \/ Send(m) \/ StopsWaiting(m)
      PROVE  AnsweringInv'
    BY <1>8 DEF Happens, Send, Deliver, NotDelivered, Drop, StopsWaiting, server
<1>9. CASE UNCHANGED vars
    BY <1>9 DEF vars, atTwitch, server
<1> QED
    BY <1>1, <1>2, <1>3, <1>4, <1>5, <1>6, <1>7, <1>8, <1>9 DEF Next, Serve

\* No event is lost after its 202.
THEOREM AnsweredAreHandled == Spec => []AnsweredIsActedOn
<1>1. Init => AnsweringInv
    BY DEF Init, AnsweringInv, AnswersAreFor, AnsweredIsActedOn
<1>2. AnsweringInv => AnsweredIsActedOn
    BY DEF AnsweringInv
<1> QED
    BY <1>1, <1>2, AnsweringStep, PTL DEF Spec
=============================================================================
