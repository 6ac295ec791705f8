----------------------------- MODULE EpochManager -----------------------------
(***************************************************************************)
(* The engine's in-memory epoch state machine                              *)
(* (cgka-engine/src/epoch_manager.rs over traits/src/engine_state.rs): the *)
(* EpochState of every group, the pending publications by reference, and   *)
(* the reference allocator.  All of it is lost when the process dies.      *)
(*                                                                         *)
(* The operators are the manager's methods; a method that returns an error *)
(* leaves the maps untouched, so its operator is simply not enabled.       *)
(***************************************************************************)
EXTENDS Naturals

CONSTANT Group

VARIABLES
  states,    \* group -> EpochState, or NoEntry
  pending,   \* PendingStateRef -> PendingMeta (a partial function)
  counter    \* the last reference handed out in this session

emVars == <<states, pending, counter>>

NoEntry == [name |-> "NoEntry", epoch |-> 0]
Stable(e) == [name |-> "Stable", epoch |-> e]
PendingPublish(e, ref) == [name |-> "PendingPublish", epoch |-> e, ref |-> ref]

IsStable(g) == states[g].name = "Stable"
IsPublishing(g) == states[g].name = "PendingPublish"

\* can_ingest: a group without an entry is ingestible.
CanIngest(g) == states[g].name \in {"Stable", "NoEntry"}

EMInit ==
  /\ states = [g \in Group |-> NoEntry]
  /\ pending = [r \in {} |-> NoEntry]
  /\ counter = 0

\* Process death: a fresh manager.
EMReset ==
  /\ states' = [g \in Group |-> NoEntry]
  /\ pending' = [r \in {} |-> NoEntry]
  /\ counter' = 0

GroupForPending(ref) == pending[ref].group

NextPendingRef == counter + 1

Without(ref) == [r \in DOMAIN pending \ {ref} |-> pending[r]]

With(ref, meta) ==
  [r \in DOMAIN pending \cup {ref} |-> IF r = ref THEN meta ELSE pending[r]]

\* set_stable refuses to steal the exit of an unresolved publication.
SetStable(g, e) ==
  /\ states' = IF IsPublishing(g) THEN states
               ELSE [states EXCEPT ![g] = Stable(e)]
  /\ UNCHANGED <<pending, counter>>

\* begin_pending: only from Stable, an absent entry counting as Stable.
BeginPending(g, prior, new, ref) ==
  /\ states[g].name \in {"Stable", "NoEntry"}
  /\ states' = [states EXCEPT ![g] = PendingPublish(new, ref)]
  /\ pending' = With(ref, [group |-> g, prior |-> prior])

\* Mutant: the restored reference does not advance the allocator.
RestorePendingKeepCounter(g, prior, new, ref) ==
  BeginPending(g, prior, new, ref) /\ counter' = counter

\* restore_pending: the reference of a durable row; the allocator moves past it.
RestorePending(g, prior, new, ref) ==
  /\ BeginPending(g, prior, new, ref)
  /\ counter' = IF ref > counter THEN ref ELSE counter

\* confirm_publish: the group is the one the reference maps to.
ConfirmPublish(ref) ==
  /\ ref \in DOMAIN pending
  /\ LET g == GroupForPending(ref)
     IN  /\ IsPublishing(g)
         /\ states' = [states EXCEPT ![g] = Stable(states[g].epoch)]
  /\ pending' = Without(ref)
  /\ UNCHANGED counter

\* Mutant: rollback returns to the projected epoch.
RollbackToProjected(ref) ==
  /\ ref \in DOMAIN pending
  /\ LET g == GroupForPending(ref)
     IN  /\ IsPublishing(g)
         /\ states' = [states EXCEPT ![g] = Stable(states[g].epoch)]
  /\ pending' = Without(ref)
  /\ UNCHANGED counter

\* rollback_publish: back to the epoch stashed by begin_pending.
RollbackPublish(ref) ==
  /\ ref \in DOMAIN pending
  /\ LET g == GroupForPending(ref)
     IN  /\ IsPublishing(g)
         /\ states' = [states EXCEPT ![g] = Stable(pending[ref].prior)]
  /\ pending' = Without(ref)
  /\ UNCHANGED counter
===============================================================================
