-------------------------- MODULE MCPublishLifecycle --------------------------
(* Instances of PublishLifecycle for TLC. *)
EXTENDS PublishLifecycle, TLC

Symmetry == Permutations(Group)

\* Two commits with one fault between them, or one commit with two.
FaultBudget == minted + crashes + failures <= 3
===============================================================================
