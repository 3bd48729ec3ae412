---------------------------- MODULE MCStreamPet ----------------------------
(***************************************************************************)
(* Instances of StreamPet for TLC.                                          *)
(***************************************************************************)
EXTENDS StreamPet

CONSTANTS d1, d2

TwoAnimations == <<"wave", "dance">>

OwnGif == [n \in {"wave", "dance"} |-> n]

\* One frame, the shortest animation that reaches its own end, a longer one.
Lengths == [n \in {"wave", "dance", "idle"} |->
                CASE n = "idle" -> 5 [] n = "wave" -> 4 [] n = "dance" -> 1]
=============================================================================
