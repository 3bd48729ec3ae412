-------------------------- MODULE MCNotifications --------------------------
(***************************************************************************)
(* Instances of Notifications for TLC.                                      *)
(***************************************************************************)
EXTENDS Notifications

CONSTANTS webhook, timer, m1
=============================================================================
