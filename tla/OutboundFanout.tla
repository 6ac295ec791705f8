---------------------------- MODULE OutboundFanout ----------------------------
(***************************************************************************)
(* The durable outbound fanout: one exact, already signed event and the    *)
(* delivery state of every endpoint it was frozen for                      *)
(* (traits/src/transport_adapter.rs).  The module has no state of its own: *)
(* it gives the record and the operations on it, as functions from a       *)
(* record to a record, and the storage guard on successive versions.       *)
(*                                                                         *)
(* Abstracted: the signed bytes, endpoint addresses and failure texts; the *)
(* attempt counters and times, which only decide when a target is due      *)
(* again (a driver chooses the due set nondeterministically instead).      *)
(***************************************************************************)
EXTENDS Naturals, FiniteSets

CONSTANT Target      \* the endpoints a publication is frozen for

NoRef == 0           \* no pending MLS state is attached

TargetStatus == {"NotAttempted", "Attempting", "Accepted", "Failed",
                 "PossiblyExposed", "RetryableUnavailable"}

FailureKind == {"TerminalRejected", "NotExposed", "PossiblyExposed",
                "RetryableUnavailable"}

MlsState == {"NotApplicable", "Pending", "Confirmed", "RolledBack"}

\* The record for a set of groups; `app' says that the event carries an
\* application message, `welcomes' that frozen Welcomes wait for confirmation.
FanoutType(Group) ==
  [group: Group, app: BOOLEAN, status: [Target -> TargetStatus],
   exposed: [Target -> BOOLEAN], mls: MlsState, ref: Nat, welcomes: BOOLEAN]

Terminal(s) == s \in {"Accepted", "Failed"}

(***************************************************************************)
(* Construction and queries                                                *)
(***************************************************************************)
Stage(group, pending, app, welcomes) ==
  [group    |-> group,
   app      |-> app,
   status   |-> [t \in Target |-> "NotAttempted"],
   exposed  |-> [t \in Target |-> FALSE],
   mls      |-> IF pending = NoRef THEN "NotApplicable" ELSE "Pending",
   ref      |-> pending,
   welcomes |-> welcomes]

OutstandingTargets(f) == {t \in Target : ~Terminal(f.status[t])}
AcceptedTargets(f)    == {t \in Target : f.status[t] = "Accepted"}
FanoutComplete(f)     == OutstandingTargets(f) = {}

PossibleExposure(f) ==
  \E t \in Target : f.exposed[t] \/ f.status[t] = "PossiblyExposed"

\* Mutant: an unacknowledged send that may have arrived counts as published.
ConfirmationOnExposure(f) ==
  f.mls = "Pending" /\ (AcceptedTargets(f) # {} \/ PossibleExposure(f))

MlsConfirmationRequired(f) == f.mls = "Pending" /\ AcceptedTargets(f) # {}

(***************************************************************************)
(* Updates                                                                 *)
(***************************************************************************)
\* A new attempt keeps the sticky exposure flag and does not set it.
MarkAttemptStarted(f, due) ==
  [f EXCEPT !.status = [t \in Target |->
     IF t \in due /\ ~Terminal(f.status[t]) THEN "Attempting" ELSE f.status[t]]]

MarkTargetAccepted(f, t) ==
  IF Terminal(f.status[t]) THEN f ELSE [f EXCEPT !.status[t] = "Accepted"]

\* Once one attempt was possibly exposed no later answer may claim otherwise.
FailureStatus(exposed, kind) ==
  IF exposed THEN "PossiblyExposed"
  ELSE IF kind \in {"TerminalRejected", "NotExposed"} THEN "Failed" ELSE kind

\* Mutant: the exposure flag reflects only the latest attempt.
RecordTargetFailureLatestOnly(f, t, kind) ==
  LET exposed == kind = "PossiblyExposed"
  IN  IF Terminal(f.status[t]) THEN f
      ELSE [f EXCEPT !.exposed[t] = exposed,
                     !.status[t]  = FailureStatus(exposed, kind)]

RecordTargetFailure(f, t, kind) ==
  LET exposed == f.exposed[t] \/ kind = "PossiblyExposed"
  IN  IF Terminal(f.status[t]) THEN f
      ELSE [f EXCEPT !.exposed[t] = exposed,
                     !.status[t]  = FailureStatus(exposed, kind)]

MarkMlsConfirmed(f)  == [f EXCEPT !.mls = "Confirmed",  !.ref = NoRef]
MarkMlsRolledBack(f) == [f EXCEPT !.mls = "RolledBack", !.ref = NoRef]
MarkWelcomesReleased(f) == [f EXCEPT !.welcomes = FALSE]

(***************************************************************************)
(* The guard of put_outbound_fanout: what a stored row may become.         *)
(***************************************************************************)
TargetStatusAdvances(prev, next) ==
  \/ prev = next
  \/ prev = "Attempting" /\ next # "NotAttempted"
  \/ /\ prev \in {"NotAttempted", "PossiblyExposed", "RetryableUnavailable"}
     /\ next = "Attempting"

MlsStateAdvances(prev, next) ==
  \/ prev.mls = next.mls /\ prev.ref = next.ref
  \/ prev.mls = "Pending" /\ next.mls \in {"Confirmed", "RolledBack"}

ValidSuccessor(next, prev) ==
  /\ next.group = prev.group /\ next.app = prev.app
  /\ \A t \in Target : /\ TargetStatusAdvances(prev.status[t], next.status[t])
                       /\ prev.exposed[t] => next.exposed[t]
  /\ MlsStateAdvances(prev, next)
  /\ next.welcomes => prev.welcomes
===============================================================================
