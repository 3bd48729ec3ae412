-------------------------- MODULE MCOverlayProcess --------------------------
(***************************************************************************)
(* Instances of OverlayProcess for TLC.                                     *)
(***************************************************************************)
EXTENDS OverlayProcess

CONSTANTS webhook, timer
=============================================================================
