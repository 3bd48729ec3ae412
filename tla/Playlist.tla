------------------------------ MODULE Playlist ------------------------------
(***************************************************************************)
(* What the StreamPet promises its viewers: the animations that reactions    *)
(* ask for are shown one after the other, each once, in that order.  How an  *)
(* animation is prepared while another one still plays is not visible here.  *)
(***************************************************************************)
EXTENDS Sequences

CONSTANT Plays      \* what may be asked for: an animation with its data

VARIABLES
    waiting,    \* asked for and not yet shown
    shown       \* shown so far

Init == waiting = <<>> /\ shown = <<>>

Ask(p) == waiting' = Append(waiting, p) /\ UNCHANGED shown

Show ==
    /\ waiting # <<>>
    /\ shown' = Append(shown, Head(waiting))
    /\ waiting' = Tail(waiting)

Next == Show \/ \E p \in Plays : Ask(p)

Spec == Init /\ [][Next]_<<waiting, shown>>
=============================================================================
