------------------------------- MODULE MCLedger -------------------------------
(* Instances of IngestLedger: w1 and w3 carry the same commit of epoch 0, w2 a
   commit of epoch 1 and w4 nothing valid.                                  *)
EXTENDS IngestLedger

CONSTANTS w1, w2, w3, w4, c1, c2

Carried == [w \in Wrapper |-> IF w \in {w1, w3} THEN c1 ELSE c2]
OpensAt == (c1 :> 0) @@ (c2 :> 1)

=============================================================================
