---------------------------- MODULE MCUserFiles ----------------------------
(***************************************************************************)
(* Instances of ConfigFiles and EnvTokens for TLC.  The two change different  *)
(* files and have no actor in common, so nothing is gained by interleaving    *)
(* their steps: a behaviour is one of the one or of the other, as focus says.  *)
(***************************************************************************)
EXTENDS ConfigFiles, EnvTokens

VARIABLE focus

vars == <<fileVars, configVars, tokenVars, focus>>

SettingsParts == {"triggers", "features", "webui", "overlay", "webhook"}

Parts == [settings |-> SettingsParts,
          pet      |-> {"animations", "layout"},
          env      |-> {"BOT", "CHANNEL", "BOT id", "CHANNEL id", "client"}]

\* A project that is new, or has its ports; a .env with the application's keys,
\* and with tokens of the bot or of both accounts.
InitialFiles ==
    [settings |-> {[p \in SettingsParts |-> IF p \in {"overlay", "webhook"} THEN v ELSE 0] : v \in {0, 1}},
     pet      |-> {Blank("pet")},
     env      |-> {[p \in Parts["env"] |-> IF p \in S THEN 1 ELSE 0] :
                      S \in {{"client", "BOT"}}}]

ShownFile == [pos |-> "pet", editor |-> "settings"]
EditedParts == [pos |-> {"layout"}, editor |-> {"triggers"}]
AskedPorts == [webui |-> <<"webui">>, bot |-> <<"overlay", "webhook">>]
OnePort    == [webui |-> <<"webui">>]

MCInit == FileInit /\ ConfigInit /\ TokensInit /\ focus \in {"config", "tokens"}

ConfigStep == focus = "config" /\ ConfigNext /\ UNCHANGED <<tokenVars, focus>>
TokensStep == focus = "tokens" /\ TokensNext /\ UNCHANGED <<configVars, focus>>

Spec == MCInit /\ [][ConfigStep \/ TokensStep]_vars
=============================================================================
