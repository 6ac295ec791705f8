------------------------- MODULE MCConvergencePass -------------------------
(***************************************************************************)
(* Inputs for TLC: two peer commits and one own commit compete in epoch 0, *)
(* one peer and one own commit follow, one application message is sent     *)
(* above the fork, and one peer commit lies beyond the first window.       *)
(***************************************************************************)
EXTENDS ConvergencePass

MCSrc ==
    [i \in Input |-> CASE i \in {"c1", "c2", "o1"} -> 0
                       [] i \in {"c3", "o2", "a1"} -> 1
                       [] OTHER -> 2]

\* The wall clock is set back before a pass was opened, or forward by a tick.
MCWallSteps == {-2, 1}
=============================================================================
