--------------------------- MODULE MCFanoutDelivery ---------------------------
(* Instance of FanoutDelivery for TLC. *)
EXTENDS FanoutDelivery, TLC

Symmetry == Permutations(Target)
===============================================================================
