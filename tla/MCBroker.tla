------------------------------ MODULE MCBroker -------------------------------
(* Instances of BrokerRooms for TLC. *)
EXTENDS BrokerRooms, TLC

Symmetry == Permutations(Key) \cup Permutations(Pub) \cup Permutations(Sub)

=============================================================================
