---------------------------- MODULE MCBotServices ----------------------------
(***************************************************************************)
(* Instances of BotServices for TLC.                                        *)
(***************************************************************************)
EXTENDS BotServices

CONSTANTS l1, l2

WithSecret   == {s \in SettingsType : s.secret}
=============================================================================
