---------------------------- MODULE FanoutDelivery ----------------------------
(***************************************************************************)
(* The driver that delivers frozen publications                            *)
(* (marmot-account/src/runtime.rs: publish_one_with_post_confirmation_-    *)
(* welcomes, drive_outbound_fanout, resolve_outbound_fanout_mls and        *)
(* resume_outbound_fanouts_for_group) over the durable outbound_fanouts    *)
(* table (storage-sqlite/src/storage/outbound.rs).                         *)
(*                                                                         *)
(* The runtime is a single owner (&mut self), so at most one row is being  *)
(* driven.  What interleaves with it is the network, a storage or engine   *)
(* call that fails and ends the drive, and a process crash between any two *)
(* durable writes or external effects.                                     *)
(*                                                                         *)
(* What confirmation and rollback do inside the engine is the business of  *)
(* PublishLifecycle, which composes this module with the engine.           *)
(***************************************************************************)
EXTENDS OutboundFanout

CONSTANTS Group,         \* the groups of the account
          MaxMsg,        \* bound: publications staged over all time
          MaxRef,        \* bound: references the engine hands out
          MaxCrashes,    \* bound: process crashes
          MaxFailures,   \* bound: failed storage, engine and Welcome calls
          NoRow          \* the table has no such row

ASSUME BoundsAreNat ==
  /\ MaxMsg \in Nat /\ MaxRef \in Nat
  /\ MaxCrashes \in Nat /\ MaxFailures \in Nat

ASSUME NoRowIsNoFanout == NoRow \notin FanoutType(Group)

\* Message ids are numbered in staging order: the table's insert_order.
Msg == 1..MaxMsg
NoMsg == 0

VARIABLES
  rows,      \* durable: the outbound_fanouts table
  next,      \* ids below it were staged, or never will be
  phase,     \* volatile: where drive_outbound_fanout stands
  cur,       \* volatile: the message being driven
  copy,      \* volatile: the driver's own copy of the row
  wait,      \* volatile: targets with a publish call in flight
  round,     \* volatile: before or after the attempts of this drive
  relay,     \* environment: targets that hold the event
  loose,     \* environment: an earlier attempt may still reach the target
  lost,      \* history: an attempt whose answer was never stored
  fate,      \* history: what became of the pending MLS state
  released,  \* history: messages whose frozen Welcomes were published
  crashes, failures

durable == <<rows, next>>
drive   == <<phase, cur, copy, wait, round>>
network == <<relay, loose>>
history == <<lost, fate, released>>
bounds  == <<crashes, failures>>
vars    == <<rows, next, phase, cur, copy, wait, round, relay, loose,
             lost, fate, released, crashes, failures>>

Phase == {"idle", "resolve", "welcomes", "release", "attempt", "publishing",
          "finish"}

HasRow(m) == rows[m] # NoRow

TypeOK ==
  /\ rows \in [Msg -> FanoutType(Group) \cup {NoRow}]
  /\ next \in 1..(MaxMsg + 1)
  /\ phase \in Phase
  /\ cur \in Msg \cup {NoMsg}
  /\ copy \in FanoutType(Group) \cup {NoRow}
  /\ wait \in SUBSET Target
  /\ round \in {"before", "after"}
  /\ relay \in [Msg -> SUBSET Target]
  /\ loose \in [Msg -> SUBSET Target]
  /\ lost \in [Msg -> SUBSET Target]
  /\ fate \in [Msg -> {"none", "confirmed", "rolledback"}]
  /\ released \in SUBSET Msg
  /\ crashes \in 0..MaxCrashes
  /\ failures \in 0..MaxFailures

Init ==
  /\ rows = [m \in Msg |-> NoRow]
  /\ next = 1
  /\ phase = "idle" /\ cur = NoMsg /\ copy = NoRow
  /\ wait = {} /\ round = "before"
  /\ relay = [m \in Msg |-> {}] /\ loose = [m \in Msg |-> {}]
  /\ lost = [m \in Msg |-> {}] /\ fate = [m \in Msg |-> "none"]
  /\ released = {}
  /\ crashes = 0 /\ failures = 0

(***************************************************************************)
(* Driver bookkeeping                                                      *)
(***************************************************************************)
GoTo(p) == phase' = p /\ UNCHANGED <<cur, copy, wait, round>>

StartDrive(m, row) ==
  /\ phase' = "resolve" /\ cur' = m /\ copy' = row
  /\ wait' = {} /\ round' = "before"

EndDrive ==
  /\ phase' = "idle" /\ cur' = NoMsg /\ copy' = NoRow
  /\ wait' = {} /\ round' = "before"

PutRow(f) == rows' = [rows EXCEPT ![cur] = f]

(***************************************************************************)
(* Staging and driving one row                                             *)
(***************************************************************************)
\* publish_one...: freeze the request, put the row, then drive it.
StageFanout(m, g, ref, app, welcomes) ==
  /\ phase = "idle" /\ m \in Msg /\ m >= next
  /\ ref = NoRef => ~welcomes
  /\ ref # NoRef => ~app
  /\ LET row == Stage(g, ref, app, welcomes)
     IN  rows' = [rows EXCEPT ![m] = row] /\ StartDrive(m, row)
  /\ next' = m + 1
  /\ UNCHANGED <<network, history, bounds>>

\* confirm_published_fanout_retrying: the engine merges the staged commit and
\* stores the confirmed row in one transaction.
ConfirmPublished ==
  /\ phase = "resolve" /\ MlsConfirmationRequired(copy)
  /\ PutRow(MarkMlsConfirmed(copy))
  /\ copy' = MarkMlsConfirmed(copy) /\ phase' = "welcomes"
  /\ fate' = [fate EXCEPT ![cur] = "confirmed"]
  /\ UNCHANGED <<next, cur, wait, round, network, lost, released, bounds>>

\* The transaction commits, but a later step of the engine's handler fails (the
\* snapshot, the replay).  Its error is not transient, so it ends the drive.
ConfirmThenFails ==
  /\ phase = "resolve" /\ MlsConfirmationRequired(copy)
  /\ failures < MaxFailures
  /\ PutRow(MarkMlsConfirmed(copy))
  /\ fate' = [fate EXCEPT ![cur] = "confirmed"]
  /\ EndDrive
  /\ failures' = failures + 1
  /\ UNCHANGED <<next, network, lost, released, crashes>>

\* Mutant: the check that there is a pending MLS state to roll back is lost.
RollbackDueWithoutPending(f) ==
  FanoutComplete(f) /\ AcceptedTargets(f) = {} /\ ~PossibleExposure(f)

RollbackDue(f) ==
  /\ f.mls = "Pending" /\ FanoutComplete(f)
  /\ AcceptedTargets(f) = {} /\ ~PossibleExposure(f)

\* publish_failed_fanout: clear the staged commit and store the rolled-back
\* row in one transaction.
PublishFailed ==
  /\ phase = "resolve" /\ RollbackDue(copy)
  /\ PutRow(MarkMlsRolledBack(copy))
  /\ copy' = MarkMlsRolledBack(copy) /\ phase' = "welcomes"
  /\ fate' = [fate EXCEPT ![cur] = "rolledback"]
  /\ UNCHANGED <<next, cur, wait, round, network, lost, released, bounds>>

PublishFailedThenFails ==
  /\ phase = "resolve" /\ RollbackDue(copy)
  /\ failures < MaxFailures
  /\ PutRow(MarkMlsRolledBack(copy))
  /\ fate' = [fate EXCEPT ![cur] = "rolledback"]
  /\ EndDrive
  /\ failures' = failures + 1
  /\ UNCHANGED <<next, network, lost, released, crashes>>

NothingToResolve ==
  /\ phase = "resolve"
  /\ ~MlsConfirmationRequired(copy) /\ ~RollbackDue(copy)
  /\ GoTo("welcomes")
  /\ UNCHANGED <<durable, network, history, bounds>>

\* Mutant: Welcomes leave whatever the state of their commit.
WelcomesDueUnconditionally(f) == f.welcomes

WelcomesDue(f) == f.mls = "Confirmed" /\ f.welcomes

\* publish_welcome_fanout sends the frozen Welcomes ...
PublishWelcomes ==
  /\ phase = "welcomes" /\ WelcomesDue(copy)
  /\ released' = released \cup {cur}
  /\ GoTo("release")
  /\ UNCHANGED <<durable, network, lost, fate, bounds>>

AfterResolve == IF round = "after" THEN "finish" ELSE "attempt"

\* ... and only then is the continuation marked released and stored.
PutWelcomesReleased ==
  /\ phase = "release"
  /\ PutRow(MarkWelcomesReleased(copy))
  /\ copy' = MarkWelcomesReleased(copy) /\ phase' = AfterResolve
  /\ UNCHANGED <<next, cur, wait, round, network, history, bounds>>

NoWelcomes ==
  /\ phase = "welcomes" /\ ~WelcomesDue(copy)
  /\ GoTo(AfterResolve)
  /\ UNCHANGED <<durable, network, history, bounds>>

\* Targets whose retry delay is zero, and the ones that may be due by now.
AlwaysDue(f) == {t \in Target : f.status[t] \in {"NotAttempted", "Attempting"}}
DueSets(f) ==
  {due \in SUBSET OutstandingTargets(f) : AlwaysDue(f) \subseteq due}

\* The attempt is stored before anything is sent.
StartAttempts(due) ==
  /\ phase = "attempt" /\ due \in DueSets(copy) /\ due # {}
  /\ PutRow(MarkAttemptStarted(copy, due))
  /\ copy' = MarkAttemptStarted(copy, due)
  /\ wait' = due /\ round' = "after" /\ phase' = "publishing"
  /\ UNCHANGED <<next, cur, network, history, bounds>>

NothingDue ==
  /\ phase = "attempt" /\ {} \in DueSets(copy)
  /\ GoTo("finish")
  /\ UNCHANGED <<durable, network, history, bounds>>

\* One endpoint answers.  An acknowledgement means that the relay holds the
\* event; the other definite answers mean that this attempt did not store it;
\* after an ambiguous one it may still arrive.
AnswerAccepted(t) ==
  /\ phase = "publishing" /\ t \in wait
  /\ copy' = MarkTargetAccepted(copy, t)
  /\ relay' = [relay EXCEPT ![cur] = @ \cup {t}]
  /\ wait' = wait \ {t}
  /\ UNCHANGED <<durable, phase, cur, round, loose, history, bounds>>

AnswerFailed(t, kind) ==
  /\ phase = "publishing" /\ t \in wait
  /\ copy' = RecordTargetFailure(copy, t, kind)
  /\ loose' = IF kind = "PossiblyExposed"
              THEN [loose EXCEPT ![cur] = @ \cup {t}] ELSE loose
  /\ wait' = wait \ {t}
  /\ UNCHANGED <<durable, phase, cur, round, relay, history, bounds>>

PutResults ==
  /\ phase = "publishing" /\ wait = {}
  /\ PutRow(copy)
  /\ GoTo("resolve")
  /\ UNCHANGED <<next, network, history, bounds>>

Retirable(f) ==
  /\ FanoutComplete(f) /\ f.mls # "Pending"
  /\ ~(AcceptedTargets(f) # {} /\ f.app)

\* A finished row is deleted, except an accepted application message, which
\* waits for the application's acknowledgement.
FinishDrive ==
  /\ phase = "finish"
  /\ rows' = IF Retirable(copy) THEN [rows EXCEPT ![cur] = NoRow] ELSE rows
  /\ EndDrive
  /\ UNCHANGED <<next, network, history, bounds>>

(***************************************************************************)
(* The drain: rows in staging order, an unfinished older row of the same   *)
(* group being a barrier                                                   *)
(***************************************************************************)
\* Mutant: a row with no outstanding target counts as finished although its
\* MLS state is still pending.
OnlyOutstanding(f) == OutstandingTargets(f) # {}

Unfinished(f) == OutstandingTargets(f) # {} \/ f.mls = "Pending"

Blocked(m) ==
  \E k \in 1..(m - 1) :
    HasRow(k) /\ rows[k].group = rows[m].group /\ Unfinished(rows[k])

ResumeFanout(m) ==
  /\ phase = "idle" /\ HasRow(m) /\ ~Blocked(m) /\ Unfinished(rows[m])
  /\ StartDrive(m, rows[m])
  /\ UNCHANGED <<durable, network, history, bounds>>

RetireFanout(m) ==
  /\ phase = "idle" /\ HasRow(m) /\ ~Blocked(m) /\ Retirable(rows[m])
  /\ rows' = [rows EXCEPT ![m] = NoRow]
  /\ UNCHANGED <<next, drive, network, history, bounds>>

\* acknowledge_published_app_messages
AcknowledgePublished(m) ==
  /\ phase = "idle" /\ HasRow(m) /\ rows[m].app
  /\ AcceptedTargets(rows[m]) # {} /\ FanoutComplete(rows[m])
  /\ rows[m].mls # "Pending"
  /\ rows' = [rows EXCEPT ![m] = NoRow]
  /\ UNCHANGED <<next, drive, network, history, bounds>>

(***************************************************************************)
(* Failures                                                                *)
(***************************************************************************)
\* The drive is about to make a call that can fail without effect.
CallPending ==
  \/ phase = "resolve" /\ (MlsConfirmationRequired(copy) \/ RollbackDue(copy))
  \/ phase = "welcomes" /\ WelcomesDue(copy)
  \/ phase = "release"
  \/ phase = "attempt" /\ OutstandingTargets(copy) # {}
  \/ phase = "publishing" /\ wait = {}
  \/ phase = "finish" /\ Retirable(copy)

\* Targets whose attempt is stored and whose answer is not.
Unrecorded ==
  IF phase = "publishing"
  THEN {t \in Target : rows[cur].status[t] = "Attempting"} ELSE {}

LoseAnswers ==
  lost' = IF phase = "idle" THEN lost
          ELSE [lost EXCEPT ![cur] = @ \cup Unrecorded]

\* Routing, freezing or storing a new publication fails: no row exists.
StagingFails ==
  /\ phase = "idle" /\ failures < MaxFailures
  /\ failures' = failures + 1
  /\ UNCHANGED <<durable, drive, network, history, crashes>>

CallFails ==
  /\ CallPending /\ failures < MaxFailures
  /\ LoseAnswers
  /\ EndDrive
  /\ failures' = failures + 1
  /\ UNCHANGED <<durable, network, fate, released, crashes>>

\* The process dies: the drive is gone, the calls in flight may still land.
Crash ==
  /\ crashes < MaxCrashes
  /\ LoseAnswers
  /\ loose' = IF phase = "publishing"
              THEN [loose EXCEPT ![cur] = @ \cup wait] ELSE loose
  /\ EndDrive
  /\ crashes' = crashes + 1
  /\ UNCHANGED <<durable, relay, fate, released, failures>>

\* An attempt of unknown outcome reaches the relay after all.
LateArrival(m, t) ==
  /\ t \in loose[m] \ relay[m]
  /\ relay' = [relay EXCEPT ![m] = @ \cup {t}]
  /\ UNCHANGED <<durable, drive, loose, history, bounds>>

DriveStep ==
  \/ ConfirmPublished \/ PublishFailed \/ NothingToResolve
  \/ PublishWelcomes \/ PutWelcomesReleased \/ NoWelcomes
  \/ \E due \in SUBSET Target : StartAttempts(due)
  \/ NothingDue
  \/ \E t \in Target : \/ AnswerAccepted(t)
                       \/ \E kind \in FailureKind : AnswerFailed(t, kind)
  \/ PutResults \/ FinishDrive

\* Some publication of the account: an application message, an event without
\* MLS state (a proposal), or a commit with or without Welcomes.
StageAny ==
  \E m \in Msg, g \in Group, ref \in 0..MaxRef, app, welcomes \in BOOLEAN :
    StageFanout(m, g, ref, app, welcomes)

Next ==
  \/ StageAny
  \/ DriveStep
  \/ \E m \in Msg : ResumeFanout(m) \/ RetireFanout(m) \/ AcknowledgePublished(m)
  \/ ConfirmThenFails \/ PublishFailedThenFails
  \/ StagingFails \/ CallFails \/ Crash
  \/ \E m \in Msg, t \in Target : LateArrival(m, t)

Spec == Init /\ [][Next]_vars

\* The runtime runs a drive to its end (every adapter call returns, at the
\* latest with a timeout), and each drain visits every row that is not behind
\* a barrier.
FairSpec ==
  /\ Spec
  /\ WF_vars(DriveStep)
  /\ \A m \in Msg : SF_vars(ResumeFanout(m))

(***************************************************************************)
(* Properties                                                              *)
(***************************************************************************)
\* A commit is rolled back only if no relay can hold it: every failure the
\* rollback rests on was definite, except for attempts whose answer was never
\* stored because the process died or the write failed in between.
RollbackIsUnexposed ==
  \A m \in Msg : fate[m] = "rolledback" =>
    (relay[m] \cup loose[m]) \subseteq lost[m]

\* What message_processor/mod.rs says without that exception: "a publication
\* whose exposure is ambiguous is never rolled back".
AmbiguousIsNeverRolledBack ==
  \A m \in Msg : fate[m] = "rolledback" => relay[m] \cup loose[m] = {}

\* Publish before apply: the engine merges a commit only when some relay has
\* acknowledged it, whatever crashes and retries came before.
ConfirmedIsHeldByRelay ==
  \A m \in Msg : fate[m] = "confirmed" => relay[m] # {}

\* Welcomes frozen behind a commit leave only after that commit is confirmed.
WelcomesFollowConfirmation ==
  \A m \in released : fate[m] = "confirmed"

\* The driver never asks storage for a transition that put_outbound_fanout
\* refuses: each write is a valid successor of the row stored before it.
DriverWritesAreMonotonic ==
  [][\A m \in Msg : HasRow(m) /\ rows'[m] # NoRow =>
        ValidSuccessor(rows'[m], rows[m])]_vars

\* A commit with a stored acknowledgement is confirmed, unless an older row of
\* its group is an unfinished barrier.
AcceptedCommitIsConfirmed ==
  \A m \in Msg :
    (HasRow(m) /\ MlsConfirmationRequired(rows[m])) ~>
      (fate[m] = "confirmed" \/ (HasRow(m) /\ Blocked(m)))
===============================================================================
