------------------------------ MODULE EnvTokens ------------------------------
(***************************************************************************)
(* The tokens of the two Twitch accounts in .env (SharedFile): the startup   *)
(* checks of the bot (bot.py, _run_startup_checks), which validate and        *)
(* refresh them, and scripts/get_all_scopes.py, with which the user            *)
(* authorises anew (eventsub/oauth_flow.py), at any time.  Both save with      *)
(* TwitchSettings.write_env.                                                  *)
(*                                                                         *)
(* Abstractions: an access and its refresh token are one pair, a number in    *)
(* the order in which Twitch issued them; an access token may run out at any    *)
(* time, so that one that is asked for may be valid or not; "client" stands     *)
(* for the four keys without which is_complete is false.                        *)
(***************************************************************************)
EXTENDS SharedFile

CONSTANTS
    Bot,        \* the bot's startup checks
    Script,     \* get_all_scopes.py
    MaxIssued   \* pairs issued by Twitch (model bound)

Accounts == {"BOT", "CHANNEL"}
IdOf     == [BOT |-> "BOT id", CHANNEL |-> "CHANNEL id"]
Renewers == {Bot, Script}

ASSUME TokensAssumption ==
    /\ "env" \in Lenient /\ "env" \in Files
    /\ PartsOf["env"] = Accounts \cup {"BOT id", "CHANNEL id", "client"}
    /\ MaxIssued \in Nat \ {0} /\ 0 .. MaxIssued \subseteq Values /\ Values \subseteq Nat
    /\ Renewers \subseteq Actors
    /\ Bot # Script

VARIABLES
    label,      \* label[x]: where x is
    stage,      \* stage[x]: the account it is about; "id" for the last check of the bot
    news,       \* news[x]: what x has got and write_env has not written yet
    issued,     \* issued[a]: pairs that Twitch has issued for account a
    refreshable,\* refreshable[a]: those of them whose refresh token is valid
    excused     \* accounts whose tokens may be lost (for a property only)

twitch == <<issued, refreshable>>
tokenVars == <<label, stage, news, twitch, excused>>

Memory(p) == copy[Bot][p]
Nothing   == [p \in {} |-> 0]
Fact(p, v) == [q \in {p} |-> v]

TokensInit ==
    /\ label = [x \in Renewers |-> "off"]
    /\ stage = [x \in Renewers |-> "BOT"]
    /\ news = [x \in Renewers |-> Nothing]
    /\ issued = [a \in Accounts |-> file["env"][a]]
    /\ refreshable = [a \in Accounts |-> {file["env"][a]} \ {0}]
    /\ excused = {}

GoOn(x, l)   == label' = [label EXCEPT ![x] = l]
Has(x, l)    == label[x] = l
Got(x, fact) == news' = [news EXCEPT ![x] = fact] /\ GoOn(x, "save")
Held(x)      == DOMAIN news[x] \cap Accounts
-----------------------------------------------------------------------------
(* Twitch (external).                                                      *)

\* A new pair.  With it earlier refresh tokens may become invalid.
Issue(a) ==
    /\ issued["BOT"] + issued["CHANNEL"] < MaxIssued
    /\ issued' = [issued EXCEPT ![a] = @ + 1]
    /\ \E kept \in SUBSET refreshable[a] :
           refreshable' = [refreshable EXCEPT ![a] = kept \cup {issued[a] + 1}]

\* x receives a new pair.  If the other program has one of the same account
\* that it has not written, the older may be written last.
Receive(x, a) ==
    /\ Issue(a)
    /\ Got(x, Fact(a, issued[a] + 1))
    /\ excused' = IF \E y \in Renewers \ {x} : a \in Held(y) THEN excused \cup {a} ELSE excused

\* The answer with the new pair does not arrive.
Miss(a) == Issue(a) /\ excused' = excused \cup {a}
-----------------------------------------------------------------------------
(* TwitchSettings.write_env.                                               *)

\* Mutant (RefreshableKept): the values in memory are taken, not those on disk.
WriteEnvFromMemory(x) ==
    /\ Has(x, "save")
    /\ Change(x, news[x])
    /\ GoOn(x, "open")
    /\ UNCHANGED <<stage, news, twitch, excused>>

\* reload, then the changes.
WriteEnv(x) ==
    /\ Has(x, "save")
    /\ Load(x, "env", news[x])
    /\ GoOn(x, "open")
    /\ excused' = IF Readable("env") /\ \A y \in Renewers : label[y] \notin {"open", "write"}
                    THEN excused ELSE Accounts
    /\ UNCHANGED <<stage, news, twitch>>

OpenEnv(x) ==
    /\ Has(x, "open")
    /\ Open(x)
    /\ GoOn(x, "write")
    /\ UNCHANGED <<stage, news, twitch, excused>>

\* While the other program writes .env, too.
EnvWritesBeside(x) == WriteSome(x) /\ UNCHANGED tokenVars

\* After BOT comes CHANNEL, if the script is not called with --bot-only.
NextAccount ==
    IF stage[Script] = "BOT"
      THEN \/ stage' = [stage EXCEPT ![Script] = "CHANNEL"] /\ GoOn(Script, "authorise")
           \/ UNCHANGED stage /\ GoOn(Script, "done")
      ELSE UNCHANGED stage /\ GoOn(Script, "done")

EnvWritten(x) ==
    /\ Has(x, "write")
    /\ Write(x) /\ Keep(x)
    /\ news' = [news EXCEPT ![x] = Nothing]
    /\ IF x = Bot THEN GoOn(Bot, "reload") /\ UNCHANGED stage ELSE NextAccount
    /\ UNCHANGED <<twitch, excused>>

\* The file cannot be opened, or not be written.  TokenRefresher logs it, and
\* the reload that follows drops the new pair from memory, too.  Nobody catches
\* it for an id, or in the script: the program ends.
EnvNotWritten(x) ==
    /\ news' = [news EXCEPT ![x] = Nothing]
    /\ excused' = excused \cup Held(x)
    /\ IF x = Bot /\ Held(x) # {}
         THEN /\ GoOn(x, "reload") /\ UNCHANGED stage
              /\ \/ Has(x, "open") /\ UNCHANGED fileVars
                 \/ Has(x, "write") /\ WriteBreaks(x) /\ Keep(x)
         ELSE /\ GoOn(x, "off") /\ stage' = [stage EXCEPT ![x] = "BOT"]
              /\ \/ Has(x, "open") /\ Forget({x})
                 \/ Has(x, "write") /\ WriteBreaks(x) /\ Close(x)
    /\ UNCHANGED twitch
-----------------------------------------------------------------------------
(* The bot: TwitchSettings.load, and in production _run_startup_checks, if    *)
(* no required key is missing.                                              *)

NextStage ==
    /\ stage' = [stage EXCEPT ![Bot] = IF @ = "BOT" THEN "CHANNEL" ELSE "id"]
    /\ GoOn(Bot, CASE stage[Bot] = "BOT" -> "validate"
                   [] stage[Bot] = "CHANNEL" -> "fetch"
                   [] OTHER -> "done")

StartBot ==
    /\ Has(Bot, "off")
    /\ Load(Bot, "env", Nothing)
    /\ GoOn(Bot, IF copy'[Bot]["client"] = 0 THEN "done" ELSE "validate")
    /\ UNCHANGED <<stage, news, twitch, excused>>

\* The account's id is saved if there is none.
Validated ==
    LET a == stage[Bot]
    IN  /\ Has(Bot, "validate")
        /\ Memory(a) # 0
        /\ IF Memory(IdOf[a]) = 0
             THEN Got(Bot, Fact(IdOf[a], 1)) /\ UNCHANGED stage
             ELSE NextStage /\ UNCHANGED news
        /\ UNCHANGED <<fileVars, twitch, excused>>

\* The token is refused, or the request fails, or there is no token: the
\* channel can do without one, the bot's is refreshed all the same.
NotValidated ==
    /\ Has(Bot, "validate")
    /\ IF stage[Bot] = "CHANNEL" /\ Memory("CHANNEL") = 0
         THEN NextStage
         ELSE GoOn(Bot, "refresh") /\ UNCHANGED stage
    /\ UNCHANGED <<fileVars, news, twitch, excused>>

Refreshed ==
    LET a == stage[Bot]
    IN  /\ Has(Bot, "refresh")
        /\ Memory(a) \in refreshable[a] /\ Memory("client") # 0
        /\ Receive(Bot, a)
        /\ UNCHANGED <<fileVars, stage>>

\* After None the bot goes on with the old tokens; .env is read again for the
\* channel only.
Unrefreshed == IF stage[Bot] = "BOT" THEN NextStage ELSE GoOn(Bot, "reload") /\ UNCHANGED stage

RefreshFails ==
    LET a == stage[Bot]
    IN  /\ Has(Bot, "refresh")
        /\ \/ UNCHANGED <<twitch, excused>>
           \/ Memory(a) \in refreshable[a] /\ Miss(a)
        /\ Unrefreshed
        /\ UNCHANGED <<fileVars, news>>

Reload ==
    /\ Has(Bot, "reload")
    /\ Load(Bot, "env", Nothing)
    /\ NextStage
    /\ UNCHANGED <<news, twitch, excused>>

\* ChannelIdFetcher, with the bot's token.
FetchId ==
    /\ Has(Bot, "fetch")
    /\ \/ /\ Memory("CHANNEL id") = 0
          /\ Memory("BOT") # 0 /\ Memory("client") # 0
          /\ Got(Bot, Fact("CHANNEL id", 1)) /\ UNCHANGED stage
       \/ NextStage /\ UNCHANGED news
    /\ UNCHANGED <<fileVars, twitch, excused>>
-----------------------------------------------------------------------------
(* The script: for BOT, CHANNEL or both.  A client id may be an argument.     *)

StartScript ==
    /\ Has(Script, "off")
    /\ Load(Script, "env", Nothing)
    /\ \E a \in Accounts : stage' = [stage EXCEPT ![Script] = a]
    /\ GoOn(Script, "authorise")
    /\ UNCHANGED <<news, twitch, excused>>

\* The user has authorised, the callback server or the terminal has got the
\* code, and the exchange returns the pair.
Authorised ==
    /\ Has(Script, "authorise")
    /\ Receive(Script, stage[Script])
    /\ UNCHANGED <<fileVars, stage>>

\* No answer in 300 seconds, no code, or the exchange is refused: the next
\* account follows.
NotAuthorised ==
    /\ Has(Script, "authorise")
    /\ NextAccount
    /\ UNCHANGED <<fileVars, news, twitch, excused>>

\* The exchange raises, its answer is lost: start_and_wait asks for a code on
\* the terminal.
ExchangeRaises ==
    /\ Has(Script, "authorise")
    /\ Miss(stage[Script])
    /\ UNCHANGED <<fileVars, label, stage, news>>
-----------------------------------------------------------------------------
\* x ends, or is killed wherever it is.
End(x) ==
    /\ ~Has(x, "off")
    /\ GoOn(x, "off")
    /\ Forget({x})
    /\ news' = [news EXCEPT ![x] = Nothing]
    /\ stage' = [stage EXCEPT ![x] = "BOT"]
    /\ excused' = excused \cup Held(x)
    /\ UNCHANGED twitch

TokensNext ==
    \/ \E x \in Renewers : \/ WriteEnv(x) \/ OpenEnv(x) \/ EnvWritesBeside(x)
                           \/ EnvWritten(x) \/ EnvNotWritten(x) \/ End(x)
    \/ StartBot \/ Validated \/ NotValidated \/ Refreshed \/ RefreshFails \/ Reload \/ FetchId
    \/ StartScript \/ Authorised \/ NotAuthorised \/ ExchangeRaises

TokensSpec == FileInit /\ TokensInit /\ [][TokensNext]_<<fileVars, tokenVars>>
-----------------------------------------------------------------------------
\* The user need not authorise again ("Bot token refresh failed. Run
\* scripts/get_all_scopes.py", bot.py:517): the pair in .env is one whose refresh
\* token Twitch takes, whatever the bot and the script have refreshed, authorised
\* and saved, for whichever account, between whatever crashes.  Excused is an
\* account whose new pair never got into .env (its answer was lost, the write
\* failed, the program was killed), which both programs renewed at the same
\* time, or all if write_env read .env while the other program, or a broken
\* write, had it changed or damaged.
RefreshableKept ==
    \A a \in Accounts \ excused :
        Readable("env") /\ issued[a] # 0 /\ a \notin Held(Bot) \cup Held(Script) =>
            file["env"][a] \in refreshable[a]
=============================================================================
