------------------------- MODULE BatchAdjudication -------------------------
(***************************************************************************)
(* What a convergence pass promises about the input it judges: input is    *)
(* collected, a batch of it is closed, and the whole of that batch is      *)
(* judged in one step.  A closed batch neither grows nor shrinks, and two  *)
(* batches never overlap in time.  An application message that no branch   *)
(* depends on may be judged by itself between batches.                     *)
(***************************************************************************)
CONSTANTS Input, App

VARIABLES arrived,   \* input retained
          batch,     \* the closed batch, empty while collecting
          judged     \* input with a verdict

vars == <<arrived, batch, judged>>

Init == arrived = {} /\ batch = {} /\ judged = {}

Arrive(i) ==
    /\ i \notin arrived
    /\ arrived' = arrived \cup {i}
    /\ UNCHANGED <<batch, judged>>

\* Judged input may be judged again together with its rivals, but no batch
\* is closed without something new in it.
Close ==
    /\ batch = {}
    /\ batch' \in SUBSET arrived
    /\ ~(batch' \subseteq judged)
    /\ UNCHANGED <<arrived, judged>>

\* A late arrival may be what closes the batch it is too late for.
ArriveLate(i) ==
    /\ i \notin arrived
    /\ arrived' = arrived \cup {i}
    /\ batch = {}
    /\ batch' \in SUBSET arrived
    /\ ~(batch' \subseteq judged)
    /\ UNCHANGED judged

Judge ==
    /\ batch # {}
    /\ judged' = judged \cup batch
    /\ batch' = {}
    /\ UNCHANGED arrived

Deliver(i) ==
    /\ batch = {}
    /\ i \in (arrived \cap App) \ judged
    /\ judged' = judged \cup {i}
    /\ UNCHANGED <<arrived, batch>>

Next ==
    \/ \E i \in Input : Arrive(i) \/ ArriveLate(i) \/ Deliver(i)
    \/ Close
    \/ Judge

Spec == Init /\ [][Next]_vars
=============================================================================
