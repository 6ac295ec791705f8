------------------------- MODULE FanoutDeliveryProofs -------------------------
(***************************************************************************)
(* Proofs about FanoutDelivery, for every set of groups and targets and    *)
(* every bound.                                                            *)
(*                                                                         *)
(* The safety properties speak of what became of a commit (fate) and of    *)
(* what the relays may hold (relay, loose).  They are not inductive: the   *)
(* driver decides from its own copy of a row, so the invariant has to say  *)
(* how that copy, the stored row and the network are related at each point *)
(* of a drive.  The heart of it is Known: whatever a relay holds or may    *)
(* still receive is on record as accepted or exposed, or is an attempt     *)
(* whose answer was lost.                                                  *)
(***************************************************************************)
EXTENDS FanoutDelivery, TLAPS

Fanout == FanoutType(Group)

\* What a stored row f of m says is true of the network and of the past.
RowOK(m, f) ==
  /\ m < next
  /\ f.mls = "Pending" => fate[m] = "none"
  /\ f.mls = "Confirmed" => fate[m] = "confirmed"
  /\ \A t \in Target : /\ fate[m] = "rolledback" => f.status[t] = "Failed"
                       /\ f.status[t] = "Accepted" => t \in relay[m]

\* Every target that may hold the event is on record.
Known(m, f) ==
  \A t \in relay[m] \cup loose[m] :
    t \in lost[m] \/ f.exposed[t] \/ f.status[t] = "Accepted"

\* During the attempts the copy c differs from the stored row f only in the
\* answers to attempts that f already records as started.
AnswerTo(t, f, c) ==
  /\ f.exposed[t] => c.exposed[t]
  /\ f.status[t] = "Attempting" => c.status[t] # "NotAttempted"
  /\ f.status[t] # "Attempting" =>
       c.status[t] = f.status[t] /\ c.exposed[t] = f.exposed[t]
  /\ t \in wait => f.status[t] = "Attempting" /\ c.status[t] = "Attempting"
  /\ c.status[t] = "Accepted" => t \in relay[cur]

SameRequest(f, c) ==
  /\ c.group = f.group /\ c.app = f.app /\ c.mls = f.mls /\ c.ref = f.ref
  /\ c.welcomes = f.welcomes

Answers(f, c) == SameRequest(f, c) /\ \A t \in Target : AnswerTo(t, f, c)

RowsOK == \A m \in Msg : HasRow(m) => RowOK(m, rows[m])

RowsKnown ==
  \A m \in Msg : HasRow(m) /\ ~(phase = "publishing" /\ cur = m) =>
    Known(m, rows[m])

FutureIsBlank ==
  \A m \in Msg : m >= next => fate[m] = "none" /\ relay[m] = {} /\ loose[m] = {}

DriveOK ==
  /\ phase # "idle" => cur \in Msg /\ HasRow(cur) /\ copy \in Fanout
  /\ phase \notin {"idle", "publishing"} => copy = rows[cur]
  /\ phase = "publishing" => Answers(rows[cur], copy) /\ Known(cur, copy)

Safety ==
  RollbackIsUnexposed /\ ConfirmedIsHeldByRelay /\ WelcomesFollowConfirmation

IInv == TypeOK /\ RowsOK /\ RowsKnown /\ FutureIsBlank /\ DriveOK /\ Safety

(***************************************************************************)
(* The operations on a record (OutboundFanout)                             *)
(***************************************************************************)
\* A staged record is a record, has no answer yet and names its MLS state.
LEMMA StageFacts ==
  ASSUME NEW g \in Group, NEW ref \in Nat, NEW app \in BOOLEAN,
         NEW welcomes \in BOOLEAN
  PROVE  /\ Stage(g, ref, app, welcomes) \in Fanout
         /\ Stage(g, ref, app, welcomes).mls \in {"NotApplicable", "Pending"}
         /\ \A t \in Target :
              Stage(g, ref, app, welcomes).status[t] = "NotAttempted"
BY DEF Stage, Fanout, FanoutType, TargetStatus, MlsState, NoRef

\* Confirming, rolling back and releasing Welcomes leave the targets alone.
LEMMA MarkFacts ==
  ASSUME NEW f \in Fanout
  PROVE  /\ MarkMlsConfirmed(f) \in Fanout /\ MarkMlsRolledBack(f) \in Fanout
         /\ MarkWelcomesReleased(f) \in Fanout
         /\ MarkMlsConfirmed(f).mls = "Confirmed"
         /\ MarkMlsRolledBack(f).mls = "RolledBack"
         /\ MarkWelcomesReleased(f).mls = f.mls
         /\ MarkMlsConfirmed(f).status = f.status
         /\ MarkMlsConfirmed(f).exposed = f.exposed
         /\ MarkMlsRolledBack(f).status = f.status
         /\ MarkMlsRolledBack(f).exposed = f.exposed
         /\ MarkWelcomesReleased(f).status = f.status
         /\ MarkWelcomesReleased(f).exposed = f.exposed
BY DEF MarkMlsConfirmed, MarkMlsRolledBack, MarkWelcomesReleased, Fanout,
       FanoutType, MlsState, NoRef

\* Starting attempts moves exactly the due targets without a final answer.
LEMMA AttemptFacts ==
  ASSUME NEW f \in Fanout, NEW due \in SUBSET Target
  PROVE  LET r == MarkAttemptStarted(f, due)
         IN  /\ r \in Fanout
             /\ r.group = f.group /\ r.app = f.app /\ r.mls = f.mls
             /\ r.ref = f.ref /\ r.welcomes = f.welcomes
             /\ r.exposed = f.exposed
             /\ \A t \in Target :
                  /\ t \in due /\ ~Terminal(f.status[t]) =>
                       r.status[t] = "Attempting"
                  /\ ~(t \in due /\ ~Terminal(f.status[t])) =>
                       r.status[t] = f.status[t]
BY DEF MarkAttemptStarted, Fanout, FanoutType, TargetStatus

\* An acknowledgement changes only the status of its own target.
LEMMA AcceptedFacts ==
  ASSUME NEW f \in Fanout, NEW t \in Target, f.status[t] = "Attempting"
  PROVE  LET r == MarkTargetAccepted(f, t)
         IN  /\ r \in Fanout
             /\ r.group = f.group /\ r.app = f.app /\ r.mls = f.mls
             /\ r.ref = f.ref /\ r.welcomes = f.welcomes
             /\ r.exposed = f.exposed
             /\ r.status[t] = "Accepted"
             /\ \A u \in Target \ {t} : r.status[u] = f.status[u]
BY DEF MarkTargetAccepted, Terminal, Fanout, FanoutType, TargetStatus

\* A failure keeps the exposure flag once set, and sets it when this attempt
\* was possibly exposed.
LEMMA FailureFacts ==
  ASSUME NEW f \in Fanout, NEW t \in Target, NEW kind \in FailureKind,
         f.status[t] = "Attempting", NEW r, r = RecordTargetFailure(f, t, kind)
  PROVE  /\ r \in Fanout
         /\ r.group = f.group /\ r.app = f.app /\ r.mls = f.mls
         /\ r.ref = f.ref /\ r.welcomes = f.welcomes
         /\ f.exposed[t] \/ kind = "PossiblyExposed" => r.exposed[t]
         /\ r.status[t] \in {"Failed", "PossiblyExposed", "RetryableUnavailable"}
         /\ \A u \in Target \ {t} : /\ r.status[u] = f.status[u]
                                    /\ r.exposed[u] = f.exposed[u]
BY DEF RecordTargetFailure, FailureStatus, FailureKind, Terminal, Fanout,
       FanoutType, TargetStatus

(***************************************************************************)
(* The invariant is inductive                                              *)
(***************************************************************************)
\* The empty table satisfies the invariant.
LEMMA InitOK == Init => IInv
<1> SUFFICES ASSUME Init PROVE IInv
  OBVIOUS
<1> USE BoundsAreNat DEF Init, Msg, NoMsg
<1>1. TypeOK
  BY DEF TypeOK, Phase
<1>2. RowsOK /\ RowsKnown /\ FutureIsBlank
  BY DEF RowsOK, RowsKnown, FutureIsBlank, HasRow
<1>3. DriveOK /\ Safety
  BY DEF DriveOK, Safety, RollbackIsUnexposed, ConfirmedIsHeldByRelay,
         WelcomesFollowConfirmation
<1> QED
  BY <1>1, <1>2, <1>3 DEF IInv

\* A new row is blank, and nothing is known of its message.
LEMMA StageOK ==
  ASSUME IInv, NEW m \in Msg, NEW g \in Group, NEW ref \in 0..MaxRef,
         NEW app \in BOOLEAN, NEW welcomes \in BOOLEAN,
         StageFanout(m, g, ref, app, welcomes)
  PROVE  IInv'
<1> DEFINE row == Stage(g, ref, app, welcomes)
<1>1. row \in Fanout /\ row.mls \in {"NotApplicable", "Pending"}
      /\ \A t \in Target : row.status[t] = "NotAttempted"
  BY StageFacts, BoundsAreNat
<1>2. row # NoRow
  BY <1>1, NoRowIsNoFanout DEF Fanout
<1> HIDE DEF row
<1>3. /\ phase = "idle" /\ m >= next
      /\ rows' = [rows EXCEPT ![m] = row]
      /\ phase' = "resolve" /\ cur' = m /\ copy' = row
      /\ wait' = {} /\ round' = "before" /\ next' = m + 1
      /\ UNCHANGED <<relay, loose, lost, fate, released, crashes, failures>>
  BY DEF StageFanout, StartDrive, row, network, history, bounds
<1>4. rows'[m] = row /\ \A k \in Msg : k # m => rows'[k] = rows[k]
  BY <1>3 DEF IInv, TypeOK
<1>5. TypeOK'
  BY <1>1, <1>3, BoundsAreNat DEF IInv, TypeOK, Fanout, Phase, Msg, NoMsg
<1>6. RowsOK'
  <2> SUFFICES ASSUME NEW k \in Msg, HasRow(k)' PROVE RowOK(k, rows[k])'
    BY DEF RowsOK
  <2>1. CASE k = m
    BY <2>1, <1>1, <1>3, <1>4, BoundsAreNat DEF IInv, FutureIsBlank, RowOK, Msg
  <2>2. CASE k # m
    BY <2>2, <1>3, <1>4, BoundsAreNat
       DEF IInv, TypeOK, RowsOK, RowOK, HasRow, Msg
  <2> QED BY <2>1, <2>2
<1>7. RowsKnown'
  <2> SUFFICES ASSUME NEW k \in Msg, HasRow(k)' PROVE Known(k, rows[k])'
    BY DEF RowsKnown
  <2>1. CASE k = m
    BY <2>1, <1>3 DEF IInv, FutureIsBlank, Known
  <2>2. CASE k # m
    BY <2>2, <1>3, <1>4 DEF IInv, RowsKnown, Known, HasRow
  <2> QED BY <2>1, <2>2
<1>8. FutureIsBlank'
  BY <1>3, BoundsAreNat DEF IInv, TypeOK, FutureIsBlank, Msg
<1>9. DriveOK'
  BY <1>1, <1>2, <1>3, <1>4 DEF DriveOK, HasRow
<1>10. Safety'
  BY <1>3 DEF IInv, Safety, RollbackIsUnexposed, ConfirmedIsHeldByRelay,
         WelcomesFollowConfirmation
<1> QED
  BY <1>5, <1>6, <1>7, <1>8, <1>9, <1>10 DEF IInv

\* A step that stores the driver's copy with a new MLS state or new attempts,
\* and the same exposure and acknowledgements, keeps the rows truthful.
LEMMA PutOK ==
  ASSUME IInv, phase \notin {"idle", "publishing"}, NEW f \in Fanout, NEW v,
         rows' = [rows EXCEPT ![cur] = f], fate' = [fate EXCEPT ![cur] = v],
         UNCHANGED <<next, relay, loose, lost>>,
         \A t \in Target :
           /\ f.exposed[t] = copy.exposed[t]
           /\ f.status[t] = "Accepted" <=> copy.status[t] = "Accepted",
         f.mls = "Pending" => v = "none",
         f.mls = "Confirmed" => v = "confirmed",
         v = "rolledback" => \A t \in Target : f.status[t] = "Failed"
  PROVE  /\ RowsOK' /\ FutureIsBlank'
         /\ \A k \in Msg : HasRow(k)' => Known(k, rows[k])'
         /\ rows'[cur] # NoRow /\ rows'[cur] = f
<1>1. cur \in Msg /\ HasRow(cur) /\ copy = rows[cur]
  BY DEF IInv, DriveOK
<1>2. /\ rows'[cur] = f /\ fate'[cur] = v
      /\ \A k \in Msg : k # cur => rows'[k] = rows[k] /\ fate'[k] = fate[k]
  BY <1>1 DEF IInv, TypeOK
<1>3. rows'[cur] # NoRow
  BY <1>2, NoRowIsNoFanout DEF Fanout
<1>4. RowsOK'
  <2> SUFFICES ASSUME NEW k \in Msg, HasRow(k)' PROVE RowOK(k, rows[k])'
    BY DEF RowsOK
  <2>1. CASE k = cur
    BY <2>1, <1>1, <1>2 DEF IInv, RowsOK, RowOK
  <2>2. CASE k # cur
    BY <2>2, <1>2 DEF IInv, RowsOK, RowOK, HasRow
  <2> QED BY <2>1, <2>2
<1>5. FutureIsBlank'
  <2>1. cur < next
    BY <1>1 DEF IInv, RowsOK, RowOK
  <2>2. cur \in Nat /\ next \in Nat
    BY <1>1, BoundsAreNat DEF IInv, TypeOK, Msg
  <2> QED
    BY <2>1, <2>2, <1>1, <1>2 DEF IInv, FutureIsBlank
<1>6. ASSUME NEW k \in Msg, HasRow(k)' PROVE Known(k, rows[k])'
  <2>1. Known(k, rows[k])
    BY <1>1, <1>2, <1>6 DEF IInv, RowsKnown, HasRow
  <2>2. relay[k] \cup loose[k] \subseteq Target
    BY DEF IInv, TypeOK
  <2>3. CASE k = cur
    BY <2>1, <2>2, <2>3, <1>1, <1>2 DEF Known
  <2>4. CASE k # cur
    BY <2>1, <2>4, <1>2 DEF Known
  <2> QED BY <2>3, <2>4
<1> QED
  BY <1>2, <1>3, <1>4, <1>5, <1>6 DEF HasRow

\* The engine confirms: a target acknowledged, so a relay holds the commit.
LEMMA ConfirmOK ==
  ASSUME IInv, ConfirmPublished \/ ConfirmThenFails
  PROVE  IInv'
<1> DEFINE f == MarkMlsConfirmed(copy)
<1>1. phase = "resolve" /\ copy.mls = "Pending" /\ AcceptedTargets(copy) # {}
  BY DEF ConfirmPublished, ConfirmThenFails, MlsConfirmationRequired
<1>2. cur \in Msg /\ HasRow(cur) /\ copy \in Fanout /\ copy = rows[cur]
  BY <1>1 DEF IInv, DriveOK
<1>3. f \in Fanout /\ f.mls = "Confirmed" /\ f.status = copy.status
      /\ f.exposed = copy.exposed
  BY <1>2, MarkFacts
<1> HIDE DEF f
<1>4. /\ rows' = [rows EXCEPT ![cur] = f]
      /\ fate' = [fate EXCEPT ![cur] = "confirmed"]
      /\ UNCHANGED <<next, relay, loose, lost, released, crashes>>
      /\ \/ /\ phase' = "welcomes" /\ copy' = f
            /\ UNCHANGED <<cur, wait, round, failures>>
         \/ /\ phase' = "idle" /\ cur' = NoMsg /\ copy' = NoRow /\ wait' = {}
            /\ round' = "before" /\ failures < MaxFailures
            /\ failures' = failures + 1
  BY DEF ConfirmPublished, ConfirmThenFails, PutRow, EndDrive, f,
         network, bounds
<1>5. /\ RowsOK' /\ FutureIsBlank' /\ rows'[cur] # NoRow /\ rows'[cur] = f
      /\ \A k \in Msg : HasRow(k)' => Known(k, rows[k])'
  BY <1>1, <1>3, <1>4, PutOK
<1>6. TypeOK'
  BY <1>2, <1>3, <1>4, BoundsAreNat DEF IInv, TypeOK, Fanout, Phase
<1>7. DriveOK'
  BY <1>2, <1>3, <1>4, <1>5 DEF DriveOK, HasRow
<1>8. relay[cur] # {}
  BY <1>1, <1>2 DEF AcceptedTargets, IInv, RowsOK, RowOK
<1>9. Safety'
  BY <1>2, <1>4, <1>8 DEF IInv, TypeOK, Safety, RollbackIsUnexposed,
     ConfirmedIsHeldByRelay, WelcomesFollowConfirmation
<1> QED
  BY <1>5, <1>6, <1>7, <1>9 DEF IInv, RowsKnown

\* The engine rolls back: every target has a definite failure, so by Known
\* only lost attempts can have arrived.
LEMMA RollbackOK ==
  ASSUME IInv, PublishFailed \/ PublishFailedThenFails
  PROVE  IInv'
<1> DEFINE f == MarkMlsRolledBack(copy)
<1>1. /\ phase = "resolve" /\ copy.mls = "Pending"
      /\ \A t \in Target : Terminal(copy.status[t])
      /\ \A t \in Target : copy.status[t] # "Accepted" /\ ~copy.exposed[t]
  BY DEF PublishFailed, PublishFailedThenFails, RollbackDue, FanoutComplete, OutstandingTargets,
         AcceptedTargets, PossibleExposure
<1>2. cur \in Msg /\ HasRow(cur) /\ copy \in Fanout /\ copy = rows[cur]
  BY <1>1 DEF IInv, DriveOK
<1>3. f \in Fanout /\ f.mls = "RolledBack" /\ f.status = copy.status
      /\ f.exposed = copy.exposed
  BY <1>2, MarkFacts
<1> HIDE DEF f
<1>4. /\ rows' = [rows EXCEPT ![cur] = f]
      /\ fate' = [fate EXCEPT ![cur] = "rolledback"]
      /\ UNCHANGED <<next, relay, loose, lost, released, crashes>>
      /\ \/ /\ phase' = "welcomes" /\ copy' = f
            /\ UNCHANGED <<cur, wait, round, failures>>
         \/ /\ phase' = "idle" /\ cur' = NoMsg /\ copy' = NoRow /\ wait' = {}
            /\ round' = "before" /\ failures < MaxFailures
            /\ failures' = failures + 1
  BY DEF PublishFailed, PublishFailedThenFails, PutRow, EndDrive, f, network,
         bounds
<1>5. \A t \in Target : f.status[t] = "Failed"
  BY <1>1, <1>3 DEF Terminal
<1>6. /\ RowsOK' /\ FutureIsBlank' /\ rows'[cur] # NoRow /\ rows'[cur] = f
      /\ \A k \in Msg : HasRow(k)' => Known(k, rows[k])'
  BY <1>1, <1>3, <1>4, <1>5, PutOK
<1>7. TypeOK'
  BY <1>2, <1>3, <1>4, BoundsAreNat DEF IInv, TypeOK, Fanout, Phase
<1>8. DriveOK'
  BY <1>2, <1>3, <1>4, <1>6 DEF DriveOK, HasRow
<1>9. (relay[cur] \cup loose[cur]) \subseteq lost[cur]
  <2>1. Known(cur, copy)
    BY <1>1, <1>2 DEF IInv, RowsKnown
  <2>2. relay[cur] \cup loose[cur] \subseteq Target
    BY <1>2 DEF IInv, TypeOK
  <2> QED
    BY <1>1, <2>1, <2>2 DEF Known
<1>10. fate[cur] = "none"
  BY <1>1, <1>2 DEF IInv, RowsOK, RowOK
<1>11. Safety'
  BY <1>2, <1>4, <1>9, <1>10 DEF IInv, TypeOK, Safety, RollbackIsUnexposed,
     ConfirmedIsHeldByRelay, WelcomesFollowConfirmation
<1> QED
  BY <1>6, <1>7, <1>8, <1>11 DEF IInv, RowsKnown

\* The released continuation changes no target.
LEMMA ReleasedOK ==
  ASSUME IInv, PutWelcomesReleased
  PROVE  IInv'
<1> DEFINE f == MarkWelcomesReleased(copy)
<1>1. phase = "release"
  BY DEF PutWelcomesReleased
<1>2. cur \in Msg /\ HasRow(cur) /\ copy \in Fanout /\ copy = rows[cur]
  BY <1>1 DEF IInv, DriveOK
<1>3. f \in Fanout /\ f.mls = copy.mls /\ f.status = copy.status
      /\ f.exposed = copy.exposed
  BY <1>2, MarkFacts
<1> HIDE DEF f
<1>4. /\ rows' = [rows EXCEPT ![cur] = f] /\ copy' = f
      /\ phase' \in {"attempt", "finish"}
      /\ UNCHANGED <<next, cur, wait, round, relay, loose, lost, fate, released,
                     crashes, failures>>
  BY DEF PutWelcomesReleased, PutRow, AfterResolve, f, network, history, bounds
<1>5. fate' = [fate EXCEPT ![cur] = fate[cur]]
  BY <1>2, <1>4 DEF IInv, TypeOK
<1>6. RowOK(cur, copy)
  BY <1>2 DEF IInv, RowsOK
<1>7. /\ RowsOK' /\ FutureIsBlank' /\ rows'[cur] # NoRow /\ rows'[cur] = f
      /\ \A k \in Msg : HasRow(k)' => Known(k, rows[k])'
  <2> DEFINE v == fate[cur]
  <2>1. /\ f.mls = "Pending" => v = "none"
        /\ f.mls = "Confirmed" => v = "confirmed"
        /\ v = "rolledback" => \A t \in Target : f.status[t] = "Failed"
    BY <1>3, <1>6 DEF RowOK
  <2> HIDE DEF v
  <2>2. fate' = [fate EXCEPT ![cur] = v]
    BY <1>5 DEF v
  <2> QED
    BY <2>1, <2>2, <1>1, <1>3, <1>4, PutOK
<1>8. TypeOK'
  BY <1>2, <1>3, <1>4 DEF IInv, TypeOK, Fanout, Phase
<1>9. DriveOK'
  BY <1>2, <1>3, <1>4, <1>7 DEF DriveOK, HasRow
<1>10. Safety'
  BY <1>4 DEF IInv, Safety, RollbackIsUnexposed, ConfirmedIsHeldByRelay,
     WelcomesFollowConfirmation
<1> QED
  BY <1>7, <1>8, <1>9, <1>10 DEF IInv, RowsKnown

\* Storing the attempt before the send: the copy is the stored row, and the
\* targets that may be called are exactly recorded as attempting.
LEMMA AttemptsOK ==
  ASSUME IInv, NEW due \in SUBSET Target, StartAttempts(due)
  PROVE  IInv'
<1> DEFINE f == MarkAttemptStarted(copy, due)
<1>1. phase = "attempt" /\ due # {}
      /\ \A t \in due : ~Terminal(copy.status[t])
  BY DEF StartAttempts, DueSets, OutstandingTargets
<1>2. cur \in Msg /\ HasRow(cur) /\ copy \in Fanout /\ copy = rows[cur]
  BY <1>1 DEF IInv, DriveOK
<1>3. /\ f \in Fanout /\ f.mls = copy.mls /\ f.exposed = copy.exposed
      /\ \A t \in Target : /\ t \in due => f.status[t] = "Attempting"
                           /\ t \notin due => f.status[t] = copy.status[t]
  BY <1>1, <1>2, AttemptFacts
<1> HIDE DEF f
<1>4. /\ rows' = [rows EXCEPT ![cur] = f] /\ copy' = f /\ wait' = due
      /\ phase' = "publishing" /\ round' = "after"
      /\ UNCHANGED <<next, cur, relay, loose, lost, fate, released, crashes,
                     failures>>
  BY DEF StartAttempts, PutRow, f, network, history, bounds
<1>5. fate' = [fate EXCEPT ![cur] = fate[cur]]
  BY <1>2, <1>4 DEF IInv, TypeOK
<1>6. RowOK(cur, copy)
  BY <1>2 DEF IInv, RowsOK
<1>7. fate[cur] # "rolledback"
  BY <1>1, <1>6 DEF RowOK, Terminal
<1>8. \A t \in Target : f.status[t] = "Accepted" <=> copy.status[t] = "Accepted"
  BY <1>1, <1>3 DEF Terminal
<1>9. /\ RowsOK' /\ FutureIsBlank' /\ rows'[cur] # NoRow /\ rows'[cur] = f
      /\ \A k \in Msg : HasRow(k)' => Known(k, rows[k])'
  <2> DEFINE v == fate[cur]
  <2>1. /\ f.mls = "Pending" => v = "none"
        /\ f.mls = "Confirmed" => v = "confirmed"
        /\ v # "rolledback"
    BY <1>3, <1>6, <1>7 DEF RowOK
  <2> HIDE DEF v
  <2>2. fate' = [fate EXCEPT ![cur] = v]
    BY <1>5 DEF v
  <2> QED
    BY <2>1, <2>2, <1>1, <1>3, <1>4, <1>8, PutOK
<1>10. TypeOK'
  BY <1>2, <1>3, <1>4 DEF IInv, TypeOK, Fanout, Phase
<1>11. Answers(rows[cur], copy)'
  <2>1. \A t \in Target : f.status[t] = "Accepted" => t \in relay[cur]
    BY <1>6, <1>8 DEF RowOK
  <2>2. rows'[cur'] = f /\ copy' = f /\ relay'[cur'] = relay[cur]
    BY <1>4, <1>9
  <2> QED
    BY <2>1, <2>2, <1>3, <1>4 DEF Answers, AnswerTo, SameRequest
<1>12. DriveOK'
  BY <1>2, <1>3, <1>4, <1>9, <1>11 DEF DriveOK, HasRow
<1>13. Safety'
  BY <1>4 DEF IInv, Safety, RollbackIsUnexposed, ConfirmedIsHeldByRelay,
     WelcomesFollowConfirmation
<1> QED
  BY <1>9, <1>10, <1>12, <1>13 DEF IInv, RowsKnown

\* An answer is recorded in the copy in the step in which it takes effect.
LEMMA AnswerAcceptedOK ==
  ASSUME IInv, NEW t \in Target, AnswerAccepted(t)
  PROVE  IInv'
<1> DEFINE c == MarkTargetAccepted(copy, t)
<1>1. phase = "publishing" /\ t \in wait
  BY DEF AnswerAccepted
<1>2. cur \in Msg /\ HasRow(cur) /\ copy \in Fanout
      /\ Answers(rows[cur], copy) /\ Known(cur, copy)
  BY <1>1 DEF IInv, DriveOK
<1>3. rows[cur].status[t] = "Attempting" /\ copy.status[t] = "Attempting"
  BY <1>1, <1>2 DEF Answers, AnswerTo
<1>4. /\ c \in Fanout /\ c.group = copy.group /\ c.app = copy.app
      /\ c.mls = copy.mls /\ c.ref = copy.ref /\ c.welcomes = copy.welcomes
      /\ c.exposed = copy.exposed /\ c.status[t] = "Accepted"
      /\ \A u \in Target \ {t} : c.status[u] = copy.status[u]
  BY <1>2, <1>3, AcceptedFacts
<1> HIDE DEF c
<1>5. /\ copy' = c /\ relay' = [relay EXCEPT ![cur] = @ \cup {t}]
      /\ wait' = wait \ {t}
      /\ UNCHANGED <<rows, next, phase, cur, round, loose, lost, fate, released,
                     crashes, failures>>
  BY DEF AnswerAccepted, durable, history, bounds, c
<1>6. /\ relay'[cur] = relay[cur] \cup {t}
      /\ \A k \in Msg : k # cur => relay'[k] = relay[k]
  BY <1>2, <1>5 DEF IInv, TypeOK
<1>7. TypeOK'
  BY <1>2, <1>4, <1>5 DEF IInv, TypeOK, Fanout
<1>8. RowsOK'
  BY <1>5, <1>6 DEF IInv, RowsOK, RowOK, HasRow
<1>9. RowsKnown'
  BY <1>1, <1>5, <1>6 DEF IInv, RowsKnown, Known, HasRow
<1>10. cur < next /\ cur \in Nat /\ next \in Nat /\ fate[cur] # "rolledback"
  BY <1>2, <1>3, BoundsAreNat DEF IInv, TypeOK, RowsOK, RowOK, Msg
<1>11. FutureIsBlank'
  <2>1. ASSUME NEW k \in Msg, k >= next PROVE k # cur
    BY <2>1, <1>10
  <2> QED
    BY <1>5, <1>6, <2>1 DEF IInv, FutureIsBlank
<1>12. Answers(rows[cur], copy)'
  <2>1. SameRequest(rows[cur], copy)'
    BY <1>2, <1>4, <1>5 DEF Answers, SameRequest
  <2>2. ASSUME NEW u \in Target PROVE AnswerTo(u, rows[cur], copy)'
    <3>1. AnswerTo(u, rows[cur], copy)
      BY <1>2 DEF Answers
    <3>2. CASE u = t
      BY <3>1, <3>2, <1>3, <1>4, <1>5, <1>6 DEF AnswerTo
    <3>3. CASE u # t
      BY <3>1, <3>3, <1>4, <1>5, <1>6 DEF AnswerTo
    <3> QED BY <3>2, <3>3
  <2> QED
    BY <2>1, <2>2, <1>5 DEF Answers
<1>13. Known(cur, copy)'
  <2>1. relay[cur] \cup loose[cur] \subseteq Target
    BY <1>2 DEF IInv, TypeOK
  <2> QED
    BY <2>1, <1>2, <1>4, <1>5, <1>6 DEF Known
<1>14. DriveOK'
  BY <1>1, <1>2, <1>4, <1>5, <1>12, <1>13 DEF DriveOK, HasRow
<1>15. Safety'
  BY <1>5, <1>6, <1>10 DEF IInv, Safety, RollbackIsUnexposed,
     ConfirmedIsHeldByRelay, WelcomesFollowConfirmation
<1> QED
  BY <1>7, <1>8, <1>9, <1>11, <1>14, <1>15 DEF IInv

\* A failed answer: the copy is exposed in the step in which the attempt
\* becomes one that may still arrive.
LEMMA AnswerFailedOK ==
  ASSUME IInv, NEW t \in Target, NEW kind \in FailureKind, AnswerFailed(t, kind)
  PROVE  IInv'
<1> DEFINE c == RecordTargetFailure(copy, t, kind)
<1>1. phase = "publishing" /\ t \in wait
  BY DEF AnswerFailed
<1>2. cur \in Msg /\ HasRow(cur) /\ copy \in Fanout
      /\ Answers(rows[cur], copy) /\ Known(cur, copy)
  BY <1>1 DEF IInv, DriveOK
<1>3. rows[cur].status[t] = "Attempting" /\ copy.status[t] = "Attempting"
  BY <1>1, <1>2 DEF Answers, AnswerTo
<1> HIDE DEF c
<1>4. /\ c \in Fanout /\ c.group = copy.group /\ c.app = copy.app
      /\ c.mls = copy.mls /\ c.ref = copy.ref /\ c.welcomes = copy.welcomes
      /\ copy.exposed[t] \/ kind = "PossiblyExposed" => c.exposed[t]
      /\ c.status[t] \in {"Failed", "PossiblyExposed", "RetryableUnavailable"}
      /\ \A u \in Target \ {t} : /\ c.status[u] = copy.status[u]
                                 /\ c.exposed[u] = copy.exposed[u]
  <2>1. c = RecordTargetFailure(copy, t, kind)
    BY DEF c
  <2> QED
    BY <2>1, <1>2, <1>3, FailureFacts
<1>5. /\ copy' = c /\ wait' = wait \ {t}
      /\ loose' = IF kind = "PossiblyExposed"
                  THEN [loose EXCEPT ![cur] = @ \cup {t}] ELSE loose
      /\ UNCHANGED <<rows, next, phase, cur, round, relay, lost, fate, released,
                     crashes, failures>>
  BY DEF AnswerFailed, durable, history, bounds, c
<1>6. /\ \/ loose'[cur] = loose[cur] \cup {t} /\ c.exposed[t]
         \/ loose'[cur] = loose[cur]
      /\ \A k \in Msg : k # cur => loose'[k] = loose[k]
  BY <1>2, <1>4, <1>5 DEF IInv, TypeOK
<1>7. TypeOK'
  BY <1>2, <1>4, <1>5 DEF IInv, TypeOK, Fanout
<1>8. RowsOK'
  BY <1>5 DEF IInv, RowsOK, RowOK, HasRow
<1>9. RowsKnown'
  BY <1>1, <1>5, <1>6 DEF IInv, RowsKnown, Known, HasRow
<1>10. cur < next /\ cur \in Nat /\ next \in Nat /\ fate[cur] # "rolledback"
  BY <1>2, <1>3, BoundsAreNat DEF IInv, TypeOK, RowsOK, RowOK, Msg
<1>11. FutureIsBlank'
  <2>1. ASSUME NEW k \in Msg, k >= next PROVE k # cur
    BY <2>1, <1>10
  <2> QED
    BY <1>5, <1>6, <2>1 DEF IInv, FutureIsBlank
<1>12. Answers(rows[cur], copy)'
  <2>1. SameRequest(rows[cur], copy)'
    BY <1>2, <1>4, <1>5 DEF Answers, SameRequest
  <2>2. ASSUME NEW u \in Target PROVE AnswerTo(u, rows[cur], copy)'
    <3>1. AnswerTo(u, rows[cur], copy)
      BY <1>2 DEF Answers
    <3>2. CASE u = t
      BY <3>1, <3>2, <1>3, <1>4, <1>5 DEF AnswerTo
    <3>3. CASE u # t
      BY <3>1, <3>3, <1>4, <1>5 DEF AnswerTo
    <3> QED BY <3>2, <3>3
  <2> QED
    BY <2>1, <2>2, <1>5 DEF Answers
<1>13. Known(cur, copy)'
  <2>1. relay[cur] \cup loose[cur] \subseteq Target
    BY <1>2 DEF IInv, TypeOK
  <2>2. SUFFICES ASSUME NEW u \in relay[cur] \cup loose'[cur]
                 PROVE  u \in lost[cur] \/ c.exposed[u] \/ c.status[u] = "Accepted"
    BY <1>5 DEF Known
  <2>3. CASE u = t
    BY <2>1, <2>2, <2>3, <1>2, <1>3, <1>4, <1>6 DEF Known
  <2>4. CASE u # t
    BY <2>1, <2>2, <2>4, <1>2, <1>4, <1>6 DEF Known
  <2> QED BY <2>3, <2>4
<1>14. DriveOK'
  BY <1>1, <1>2, <1>4, <1>5, <1>12, <1>13 DEF DriveOK, HasRow
<1>15. Safety'
  BY <1>5, <1>6, <1>10 DEF IInv, Safety, RollbackIsUnexposed,
     ConfirmedIsHeldByRelay, WelcomesFollowConfirmation
<1> QED
  BY <1>7, <1>8, <1>9, <1>11, <1>14, <1>15 DEF IInv

\* Storing the answers makes the row as knowledgeable as the copy was.
LEMMA ResultsOK ==
  ASSUME IInv, PutResults
  PROVE  IInv'
<1>1. phase = "publishing"
  BY DEF PutResults
<1>2. cur \in Msg /\ HasRow(cur) /\ copy \in Fanout
      /\ Answers(rows[cur], copy) /\ Known(cur, copy)
  BY <1>1 DEF IInv, DriveOK
<1>3. /\ rows' = [rows EXCEPT ![cur] = copy] /\ phase' = "resolve"
      /\ UNCHANGED <<next, cur, copy, wait, round, relay, loose, lost, fate,
                     released, crashes, failures>>
  BY DEF PutResults, PutRow, GoTo, network, history, bounds
<1>4. /\ rows'[cur] = copy /\ copy # NoRow
      /\ \A k \in Msg : k # cur => rows'[k] = rows[k]
  BY <1>2, <1>3, NoRowIsNoFanout DEF IInv, TypeOK, Fanout
<1>5. TypeOK'
  BY <1>2, <1>3 DEF IInv, TypeOK, Fanout, Phase
<1>6. RowsOK'
  <2> SUFFICES ASSUME NEW k \in Msg, HasRow(k)' PROVE RowOK(k, rows[k])'
    BY DEF RowsOK
  <2>1. CASE k = cur
    <3>1. RowOK(cur, rows[cur])
      BY <1>2 DEF IInv, RowsOK
    <3> QED
      BY <3>1, <2>1, <1>2, <1>3, <1>4 DEF RowOK, Answers, AnswerTo, SameRequest
  <2>2. CASE k # cur
    BY <2>2, <1>3, <1>4 DEF IInv, RowsOK, RowOK, HasRow
  <2> QED BY <2>1, <2>2
<1>7. RowsKnown'
  BY <1>1, <1>2, <1>3, <1>4 DEF IInv, RowsKnown, Known, HasRow
<1>8. FutureIsBlank'
  BY <1>3 DEF IInv, FutureIsBlank
<1>9. DriveOK'
  BY <1>2, <1>3, <1>4 DEF DriveOK, HasRow
<1>10. Safety'
  BY <1>3 DEF IInv, Safety, RollbackIsUnexposed, ConfirmedIsHeldByRelay,
     WelcomesFollowConfirmation
<1> QED
  BY <1>5, <1>6, <1>7, <1>8, <1>9, <1>10 DEF IInv

\* A step that changes nothing but the driver's position.
LEMMA QuietOK ==
  ASSUME IInv, phase # "publishing",
         UNCHANGED <<rows, next, relay, loose, lost, fate>>,
         TypeOK', DriveOK', \A m \in released' : fate[m] = "confirmed"
  PROVE  IInv'
<1>1. RowsOK' /\ FutureIsBlank'
  BY DEF IInv, RowsOK, RowOK, HasRow, FutureIsBlank
<1>2. RowsKnown'
  BY DEF IInv, RowsKnown, Known, HasRow
<1>3. Safety'
  BY DEF IInv, Safety, RollbackIsUnexposed, ConfirmedIsHeldByRelay,
         WelcomesFollowConfirmation
<1> QED
  BY <1>1, <1>2, <1>3 DEF IInv

\* Resuming, and the steps of a drive that store nothing.
LEMMA PositionOK ==
  ASSUME IInv,
         \/ NothingToResolve \/ PublishWelcomes \/ NoWelcomes \/ NothingDue
         \/ \E m \in Msg : ResumeFanout(m)
         \/ StagingFails
  PROVE  IInv'
<1>1. CASE NothingToResolve \/ NoWelcomes \/ NothingDue
  <2>1. /\ phase \in {"resolve", "welcomes", "attempt"}
        /\ phase' \in {"welcomes", "attempt", "finish"}
        /\ UNCHANGED <<rows, next, cur, copy, wait, round, relay, loose, lost,
                       fate, released, crashes, failures>>
    BY <1>1 DEF NothingToResolve, NoWelcomes, NothingDue, GoTo, AfterResolve,
                durable, network, history, bounds
  <2>2. TypeOK'
    BY <2>1 DEF IInv, TypeOK, Phase
  <2>3. DriveOK'
    BY <2>1 DEF IInv, DriveOK, HasRow
  <2> QED
    BY <2>1, <2>2, <2>3, QuietOK DEF IInv, Safety, WelcomesFollowConfirmation
<1>2. CASE PublishWelcomes
  <2>1. /\ phase = "welcomes" /\ copy.mls = "Confirmed" /\ phase' = "release"
        /\ released' = released \cup {cur}
        /\ UNCHANGED <<rows, next, cur, copy, wait, round, relay, loose, lost,
                       fate, crashes, failures>>
    BY <1>2 DEF PublishWelcomes, WelcomesDue, GoTo, durable, network, bounds
  <2>2. cur \in Msg /\ HasRow(cur) /\ copy = rows[cur]
    BY <2>1 DEF IInv, DriveOK
  <2>3. TypeOK'
    BY <2>1, <2>2 DEF IInv, TypeOK, Phase
  <2>4. DriveOK'
    BY <2>1 DEF IInv, DriveOK, HasRow
  <2>5. fate[cur] = "confirmed"
    BY <2>1, <2>2 DEF IInv, RowsOK, RowOK
  <2> QED
    BY <2>1, <2>3, <2>4, <2>5, QuietOK
       DEF IInv, Safety, WelcomesFollowConfirmation
<1>3. CASE \E m \in Msg : ResumeFanout(m)
  <2>1. PICK m \in Msg : ResumeFanout(m)
    BY <1>3
  <2>2. /\ phase = "idle" /\ HasRow(m) /\ phase' = "resolve" /\ cur' = m
        /\ copy' = rows[m] /\ wait' = {} /\ round' = "before"
        /\ UNCHANGED <<rows, next, relay, loose, lost, fate, released, crashes,
                       failures>>
    BY <2>1 DEF ResumeFanout, StartDrive, durable, network, history, bounds
  <2>3. rows[m] \in Fanout
    BY <2>2 DEF IInv, TypeOK, HasRow, Fanout
  <2>4. TypeOK'
    BY <2>2, <2>3 DEF IInv, TypeOK, Phase, Fanout
  <2>5. DriveOK'
    BY <2>2, <2>3 DEF DriveOK, HasRow
  <2> QED
    BY <2>2, <2>4, <2>5, QuietOK DEF IInv, Safety, WelcomesFollowConfirmation
<1>4. CASE StagingFails
  <2>1. /\ phase = "idle" /\ failures < MaxFailures /\ failures' = failures + 1
        /\ UNCHANGED <<rows, next, phase, cur, copy, wait, round, relay, loose,
                       lost, fate, released, crashes>>
    BY <1>4 DEF StagingFails, durable, drive, network, history
  <2>2. TypeOK'
    BY <2>1, BoundsAreNat DEF IInv, TypeOK
  <2>3. DriveOK'
    BY <2>1 DEF DriveOK
  <2> QED
    BY <2>1, <2>2, <2>3, QuietOK DEF IInv, Safety, WelcomesFollowConfirmation
<1> QED
  BY <1>1, <1>2, <1>3, <1>4

\* Deleting a row forgets nothing that the properties speak of.
LEMMA DeleteOK ==
  ASSUME IInv, FinishDrive \/ \E m \in Msg : RetireFanout(m) \/ AcknowledgePublished(m)
  PROVE  IInv'
<1>1. /\ phase \in {"idle", "finish"} /\ phase' = "idle"
      /\ \/ rows' = rows
         \/ \E m \in Msg : rows' = [rows EXCEPT ![m] = NoRow]
      /\ \/ cur' = NoMsg /\ copy' = NoRow /\ wait' = {} /\ round' = "before"
         \/ UNCHANGED <<cur, copy, wait, round>>
      /\ UNCHANGED <<next, relay, loose, lost, fate, released, crashes, failures>>
  <2>1. phase = "finish" => cur \in Msg
    BY DEF IInv, DriveOK
  <2> QED
    BY <2>1 DEF FinishDrive, RetireFanout, AcknowledgePublished, EndDrive, drive,
                network, history, bounds
<1>2. \A k \in Msg : rows'[k] \in {rows[k], NoRow}
  BY <1>1 DEF IInv, TypeOK
<1>3. TypeOK'
  BY <1>1 DEF IInv, TypeOK, Phase
<1>4. RowsOK'
  <2> SUFFICES ASSUME NEW k \in Msg, HasRow(k)' PROVE RowOK(k, rows[k])'
    BY DEF RowsOK
  <2>1. rows'[k] = rows[k] /\ RowOK(k, rows[k])
    BY <1>2 DEF IInv, RowsOK, HasRow
  <2> QED
    BY <2>1, <1>1 DEF RowOK
<1>5. RowsKnown'
  <2> SUFFICES ASSUME NEW k \in Msg, HasRow(k)' PROVE Known(k, rows[k])'
    BY DEF RowsKnown
  <2>1. rows'[k] = rows[k] /\ Known(k, rows[k])
    BY <1>1, <1>2 DEF IInv, RowsKnown, HasRow
  <2> QED
    BY <2>1, <1>1 DEF Known
<1>6. FutureIsBlank' /\ Safety' /\ DriveOK'
  BY <1>1 DEF IInv, FutureIsBlank, DriveOK, Safety, RollbackIsUnexposed,
              ConfirmedIsHeldByRelay, WelcomesFollowConfirmation
<1> QED
  BY <1>3, <1>4, <1>5, <1>6 DEF IInv

\* The drive is cut off by a crash or a failed call: what the copy knew and the
\* row does not is recorded as lost.
LEMMA CutOffOK ==
  ASSUME IInv, Crash \/ CallFails
  PROVE  IInv'
<1> DEFINE gone == {t \in Target : rows[cur].status[t] = "Attempting"}
<1>1. /\ phase' = "idle" /\ cur' = NoMsg /\ copy' = NoRow /\ wait' = {}
      /\ round' = "before"
      /\ UNCHANGED <<rows, next, relay, fate, released>>
      /\ \/ crashes < MaxCrashes /\ crashes' = crashes + 1 /\ failures' = failures
         \/ failures < MaxFailures /\ failures' = failures + 1 /\ crashes' = crashes
  BY DEF Crash, CallFails, EndDrive, durable, network
<1>2. phase # "publishing" => loose' = loose
      /\ (lost' = lost \/ lost' = [lost EXCEPT ![cur] = @ \cup {}])
  BY DEF Crash, CallFails, LoseAnswers, Unrecorded, network
<1>3. phase = "publishing" =>
        /\ loose' = loose \/ loose' = [loose EXCEPT ![cur] = @ \cup wait]
        /\ lost' = [lost EXCEPT ![cur] = @ \cup gone]
  BY DEF Crash, CallFails, LoseAnswers, Unrecorded, network
<1>4. phase = "publishing" =>
        cur \in Msg /\ HasRow(cur) /\ copy \in Fanout
        /\ Answers(rows[cur], copy) /\ Known(cur, copy)
  BY DEF IInv, DriveOK
<1>5. phase # "publishing" => lost' = lost
  <2>1. phase # "publishing" /\ phase # "idle" => cur \in Msg
    BY DEF IInv, DriveOK
  <2>2. phase = "idle" => lost' = lost
    BY DEF Crash, CallFails, LoseAnswers
  <2> QED
    BY <1>2, <2>1, <2>2 DEF IInv, TypeOK
<1>6. TypeOK'
  <2>1. crashes' \in 0..MaxCrashes /\ failures' \in 0..MaxFailures
    BY <1>1, BoundsAreNat DEF IInv, TypeOK
  <2>2. /\ loose \in [Msg -> SUBSET Target] /\ lost \in [Msg -> SUBSET Target]
        /\ wait \in SUBSET Target /\ gone \in SUBSET Target
    BY DEF IInv, TypeOK
  <2>3. loose' \in [Msg -> SUBSET Target]
    BY <1>2, <1>3, <2>2
  <2>4. lost' \in [Msg -> SUBSET Target]
    BY <1>3, <1>5, <2>2
  <2> QED
    BY <1>1, <2>1, <2>3, <2>4 DEF IInv, TypeOK, Phase, NoMsg
<1>7. RowsOK'
  BY <1>1 DEF IInv, RowsOK, RowOK, HasRow
<1>8. CASE phase # "publishing"
  <2>1. RowsKnown' /\ FutureIsBlank'
    BY <1>1, <1>2, <1>5, <1>8 DEF IInv, RowsKnown, Known, HasRow, FutureIsBlank
  <2>2. Safety' /\ DriveOK'
    BY <1>1, <1>2, <1>5, <1>8 DEF IInv, Safety, RollbackIsUnexposed, DriveOK,
       ConfirmedIsHeldByRelay, WelcomesFollowConfirmation
  <2> QED
    BY <2>1, <2>2, <1>6, <1>7 DEF IInv
<1>9. CASE phase = "publishing"
  <2>1. /\ lost'[cur] = lost[cur] \cup gone
        /\ loose[cur] \subseteq loose'[cur]
        /\ loose'[cur] \subseteq loose[cur] \cup wait
        /\ \A k \in Msg : k # cur => loose'[k] = loose[k] /\ lost'[k] = lost[k]
    <3>1. /\ loose \in [Msg -> SUBSET Target] /\ lost \in [Msg -> SUBSET Target]
          /\ cur \in Msg
      BY <1>4, <1>9 DEF IInv, TypeOK
    <3>2. /\ lost'[cur] = lost[cur] \cup gone
          /\ \A k \in Msg : k # cur => lost'[k] = lost[k]
      BY <3>1, <1>3, <1>9
    <3>3. /\ loose'[cur] = loose[cur] \/ loose'[cur] = loose[cur] \cup wait
          /\ \A k \in Msg : k # cur => loose'[k] = loose[k]
      BY <3>1, <1>3, <1>9
    <3> QED
      BY <3>2, <3>3
  <2>2. wait \subseteq gone
    BY <1>4, <1>9 DEF IInv, TypeOK, Answers, AnswerTo
  <2>3. relay[cur] \cup loose[cur] \subseteq Target
    BY <1>4, <1>9 DEF IInv, TypeOK
  <2>4. ASSUME NEW t \in relay[cur] \cup loose'[cur], t \notin lost'[cur]
        PROVE  rows[cur].exposed[t] \/ rows[cur].status[t] = "Accepted"
    <3>1. t \in Target /\ t \notin gone /\ t \in relay[cur] \cup loose[cur]
      BY <2>1, <2>2, <2>3, <2>4
    <3>2. AnswerTo(t, rows[cur], copy) /\ (copy.exposed[t] \/ copy.status[t] = "Accepted")
      BY <3>1, <2>1, <2>4, <1>4, <1>9 DEF Known, Answers
    <3> QED
      BY <3>1, <3>2 DEF AnswerTo
  <2>5. RowsKnown'
    <3> SUFFICES ASSUME NEW k \in Msg, HasRow(k)' PROVE Known(k, rows[k])'
      BY DEF RowsKnown
    <3>1. CASE k = cur
      BY <3>1, <2>4, <1>1 DEF Known
    <3>2. CASE k # cur
      BY <3>2, <2>1, <1>1 DEF IInv, RowsKnown, Known, HasRow
    <3> QED BY <3>1, <3>2
  <2>6. cur < next /\ cur \in Nat /\ next \in Nat
    BY <1>4, <1>9, BoundsAreNat DEF IInv, TypeOK, RowsOK, RowOK, Msg
  <2>7. FutureIsBlank'
    BY <1>1, <2>1, <2>6 DEF IInv, FutureIsBlank
  <2>8. fate[cur] = "rolledback" => gone = {}
    BY <1>4, <1>9 DEF IInv, RowsOK, RowOK
  <2>9. Safety'
    BY <1>1, <1>4, <1>9, <2>1, <2>2, <2>8 DEF IInv, Safety, RollbackIsUnexposed,
       ConfirmedIsHeldByRelay, WelcomesFollowConfirmation
  <2> QED
    BY <1>1, <1>6, <1>7, <2>5, <2>7, <2>9 DEF IInv, DriveOK
<1> QED
  BY <1>8, <1>9

\* A late arrival turns a possible exposure into a real one.
LEMMA ArrivalOK ==
  ASSUME IInv, NEW m \in Msg, NEW t \in Target, LateArrival(m, t)
  PROVE  IInv'
<1>1. /\ t \in loose[m] /\ relay' = [relay EXCEPT ![m] = @ \cup {t}]
      /\ UNCHANGED <<rows, next, phase, cur, copy, wait, round, loose, lost, fate,
                     released, crashes, failures>>
  BY DEF LateArrival, durable, drive, history, bounds
<1>2. /\ relay'[m] = relay[m] \cup {t}
      /\ \A k \in Msg : k # m => relay'[k] = relay[k]
  BY <1>1 DEF IInv, TypeOK
<1>3. TypeOK'
  BY <1>1 DEF IInv, TypeOK
<1>4. RowsOK'
  <2> SUFFICES ASSUME NEW k \in Msg, HasRow(k) PROVE RowOK(k, rows[k])'
    BY <1>1 DEF RowsOK, HasRow
  <2>1. RowOK(k, rows[k]) /\ relay[k] \subseteq relay'[k]
    BY <1>2 DEF IInv, RowsOK
  <2> QED
    BY <2>1, <1>1 DEF RowOK
<1>5. RowsKnown'
  <2> SUFFICES ASSUME NEW k \in Msg, HasRow(k), ~(phase = "publishing" /\ cur = k)
               PROVE  Known(k, rows[k])'
    BY <1>1 DEF RowsKnown, HasRow
  <2>1. Known(k, rows[k]) /\ relay'[k] \cup loose[k] = relay[k] \cup loose[k]
    BY <1>1, <1>2 DEF IInv, RowsKnown
  <2> QED
    BY <2>1, <1>1 DEF Known
<1>6. FutureIsBlank'
  BY <1>1, <1>2 DEF IInv, FutureIsBlank
<1>7. DriveOK'
  <2>1. CASE phase # "publishing"
    BY <1>1, <2>1 DEF IInv, DriveOK, HasRow
  <2>2. CASE phase = "publishing"
    <3>1. cur \in Msg /\ HasRow(cur) /\ copy \in Fanout
          /\ Answers(rows[cur], copy) /\ Known(cur, copy)
      BY <2>2 DEF IInv, DriveOK
    <3>2. Answers(rows[cur], copy)'
      <4>1. SameRequest(rows[cur], copy)'
        BY <3>1, <1>1 DEF Answers, SameRequest
      <4>2. ASSUME NEW u \in Target PROVE AnswerTo(u, rows[cur], copy)'
        <5>1. AnswerTo(u, rows[cur], copy) /\ relay[cur] \subseteq relay'[cur]
          BY <3>1, <1>2 DEF Answers
        <5> QED
          BY <5>1, <1>1 DEF AnswerTo
      <4> QED
        BY <4>1, <4>2 DEF Answers
    <3>3. Known(cur, copy)'
      BY <3>1, <1>1, <1>2 DEF Known
    <3> QED
      BY <3>1, <3>2, <3>3, <1>1, <2>2 DEF DriveOK, HasRow
  <2> QED
    BY <2>1, <2>2
<1>8. Safety'
  BY <1>1, <1>2 DEF IInv, Safety, RollbackIsUnexposed, ConfirmedIsHeldByRelay,
     WelcomesFollowConfirmation
<1> QED
  BY <1>3, <1>4, <1>5, <1>6, <1>7, <1>8 DEF IInv

\* So does a step of the rest of the system.
LEMMA StutterOK ==
  ASSUME IInv, UNCHANGED vars
  PROVE  IInv'
<1>1. UNCHANGED <<rows, next, phase, cur, copy, wait, round, relay, loose, lost,
                  fate, released, crashes, failures>>
  BY DEF vars
<1>2. TypeOK'
  BY <1>1 DEF IInv, TypeOK
<1>3. RowsOK'
  BY <1>1 DEF IInv, RowsOK, RowOK, HasRow
<1>4. RowsKnown'
  BY <1>1 DEF IInv, RowsKnown, Known, HasRow
<1>5. FutureIsBlank'
  BY <1>1 DEF IInv, FutureIsBlank
<1>6. DriveOK'
  BY <1>1 DEF IInv, DriveOK, Answers, AnswerTo, SameRequest, Known, HasRow
<1>7. Safety'
  BY <1>1 DEF IInv, Safety, RollbackIsUnexposed, ConfirmedIsHeldByRelay,
     WelcomesFollowConfirmation
<1> QED
  BY <1>2, <1>3, <1>4, <1>5, <1>6, <1>7 DEF IInv

\* Every step keeps the invariant.
LEMMA NextOK == IInv /\ [Next]_vars => IInv'
<1> SUFFICES ASSUME IInv, [Next]_vars PROVE IInv'
  OBVIOUS
<1>1. CASE StageAny
  BY <1>1, StageOK DEF StageAny
<1>2. CASE DriveStep
  BY <1>2, ConfirmOK, RollbackOK, PositionOK, ReleasedOK, AttemptsOK,
     AnswerAcceptedOK, AnswerFailedOK, ResultsOK, DeleteOK DEF DriveStep
<1>3. CASE \E m \in Msg :
             ResumeFanout(m) \/ RetireFanout(m) \/ AcknowledgePublished(m)
  BY <1>3, PositionOK, DeleteOK
<1>4. CASE ConfirmThenFails \/ PublishFailedThenFails
  BY <1>4, ConfirmOK, RollbackOK
<1>5. CASE StagingFails \/ CallFails \/ Crash
  BY <1>5, PositionOK, CutOffOK
<1>6. CASE \E m \in Msg, t \in Target : LateArrival(m, t)
  BY <1>6, ArrivalOK
<1>7. CASE UNCHANGED vars
  BY <1>7, StutterOK
<1> QED
  BY <1>1, <1>2, <1>3, <1>4, <1>5, <1>6, <1>7 DEF Next

\* The invariant holds in every reachable state.
THEOREM Invariance == Spec => []IInv
<1>1. Init => IInv
  BY InitOK
<1>2. IInv /\ [Next]_vars => IInv'
  BY NextOK
<1> QED
  BY <1>1, <1>2, PTL DEF Spec

(***************************************************************************)
(* The results                                                             *)
(***************************************************************************)
\* The table, the driver and the network keep their types.
THEOREM TypeCorrect == Spec => []TypeOK
<1>1. IInv => TypeOK
  BY DEF IInv
<1> QED
  BY <1>1, Invariance, PTL

\* publish_failed_fanout is called only for commits that no relay can hold,
\* attempts with a lost answer excepted.
THEOREM RollbackSafe == Spec => []RollbackIsUnexposed
<1>1. IInv => RollbackIsUnexposed
  BY DEF IInv, Safety
<1> QED
  BY <1>1, Invariance, PTL

\* confirm_published_fanout is called only for commits that some relay holds.
THEOREM PublishBeforeApply == Spec => []ConfirmedIsHeldByRelay
<1>1. IInv => ConfirmedIsHeldByRelay
  BY DEF IInv, Safety
<1> QED
  BY <1>1, Invariance, PTL

\* Frozen Welcomes are published only behind a confirmed commit.
THEOREM WelcomesAfterConfirmation == Spec => []WelcomesFollowConfirmation
<1>1. IInv => WelcomesFollowConfirmation
  BY DEF IInv, Safety
<1> QED
  BY <1>1, Invariance, PTL

\* A row may be written again unchanged.
LEMMA SameIsValid == \A f : ValidSuccessor(f, f)
BY DEF ValidSuccessor, TargetStatusAdvances, MlsStateAdvances

Successors == \A m \in Msg : HasRow(m) /\ rows'[m] # NoRow =>
                ValidSuccessor(rows'[m], rows[m])

\* A write to the current row alone has to be checked there only.
LEMMA WriteIsValid ==
  ASSUME IInv, phase # "idle", NEW f, rows' = [rows EXCEPT ![cur] = f],
         ValidSuccessor(f, rows[cur])
  PROVE  Successors
BY SameIsValid DEF IInv, TypeOK, DriveOK, Successors

\* A row that is deleted, or staged where there was none, is not rewritten.
LEMMA OtherWrites ==
  ASSUME IInv, NEW m \in Msg, NEW f, rows' = [rows EXCEPT ![m] = f],
         f = NoRow \/ ~HasRow(m)
  PROVE  Successors
BY SameIsValid DEF IInv, TypeOK, Successors, HasRow

\* Each durable write of a step is one that put_outbound_fanout accepts.
LEMMA StepIsMonotonic == IInv /\ [Next]_vars => Successors
<1> SUFFICES ASSUME IInv, [Next]_vars PROVE Successors
  OBVIOUS
<1>1. CASE rows' = rows
  BY <1>1, SameIsValid DEF Successors
<1>2. CASE StageAny
  <2>1. PICK m \in Msg : m >= next /\ \E f : rows' = [rows EXCEPT ![m] = f]
    BY <1>2 DEF StageAny, StageFanout
  <2>2. PICK f : rows' = [rows EXCEPT ![m] = f]
    BY <2>1
  <2>3. ~HasRow(m)
    BY <2>1, BoundsAreNat DEF IInv, TypeOK, RowsOK, RowOK, Msg
  <2> QED
    BY <2>2, <2>3, OtherWrites
<1>3. CASE \/ ConfirmPublished \/ ConfirmThenFails
           \/ PublishFailed \/ PublishFailedThenFails
           \/ PutWelcomesReleased
  <2>1. /\ phase \in {"resolve", "release"}
        /\ \/ copy.mls = "Pending" /\ rows' = [rows EXCEPT ![cur] = MarkMlsConfirmed(copy)]
           \/ copy.mls = "Pending" /\ rows' = [rows EXCEPT ![cur] = MarkMlsRolledBack(copy)]
           \/ rows' = [rows EXCEPT ![cur] = MarkWelcomesReleased(copy)]
    BY <1>3 DEF ConfirmPublished, ConfirmThenFails, PublishFailed,
       PublishFailedThenFails, PutWelcomesReleased, MlsConfirmationRequired, RollbackDue, PutRow
  <2>2. copy \in Fanout /\ copy = rows[cur]
    BY <2>1 DEF IInv, DriveOK
  <2>3. /\ copy.mls = "Pending" => ValidSuccessor(MarkMlsConfirmed(copy), copy)
        /\ copy.mls = "Pending" => ValidSuccessor(MarkMlsRolledBack(copy), copy)
        /\ ValidSuccessor(MarkWelcomesReleased(copy), copy)
    BY <2>2 DEF ValidSuccessor, TargetStatusAdvances, MlsStateAdvances,
       MarkMlsConfirmed, MarkMlsRolledBack, MarkWelcomesReleased, Fanout, FanoutType
  <2> QED
    BY <2>1, <2>2, <2>3, WriteIsValid
<1>4. CASE \E due \in SUBSET Target : StartAttempts(due)
  <2>1. PICK due \in SUBSET Target : StartAttempts(due)
    BY <1>4
  <2> DEFINE f == MarkAttemptStarted(copy, due)
  <2>2. /\ phase = "attempt" /\ rows' = [rows EXCEPT ![cur] = f]
    BY <2>1 DEF StartAttempts, PutRow
  <2>3. copy \in Fanout /\ copy = rows[cur]
    BY <2>2 DEF IInv, DriveOK
  <2>4. \A t \in Target : TargetStatusAdvances(copy.status[t], f.status[t])
    <3>1. \A t \in Target : copy.status[t] \in TargetStatus
      BY <2>3 DEF Fanout, FanoutType
    <3>2. \A t \in Target :
             /\ t \in due /\ ~Terminal(copy.status[t]) => f.status[t] = "Attempting"
             /\ ~(t \in due /\ ~Terminal(copy.status[t])) =>
                  f.status[t] = copy.status[t]
      BY <2>3, AttemptFacts
    <3> HIDE DEF f
    <3> QED
      BY <3>1, <3>2 DEF TargetStatusAdvances, Terminal, TargetStatus
  <2>5. ValidSuccessor(f, copy)
    <3>1. /\ f.group = copy.group /\ f.app = copy.app /\ f.mls = copy.mls
          /\ f.ref = copy.ref /\ f.welcomes = copy.welcomes
          /\ f.exposed = copy.exposed
      BY <2>3, AttemptFacts
    <3> HIDE DEF f
    <3> QED
      BY <3>1, <2>4 DEF ValidSuccessor, MlsStateAdvances
  <2> QED
    BY <2>2, <2>3, <2>5, WriteIsValid
<1>5. CASE PutResults
  <2>1. /\ phase = "publishing" /\ rows' = [rows EXCEPT ![cur] = copy]
    BY <1>5 DEF PutResults, PutRow
  <2>2. Answers(rows[cur], copy)
    BY <2>1 DEF IInv, DriveOK
  <2>3. ValidSuccessor(copy, rows[cur])
    BY <2>2 DEF Answers, AnswerTo, SameRequest, ValidSuccessor,
       TargetStatusAdvances, MlsStateAdvances
  <2> QED
    BY <2>1, <2>3, WriteIsValid
<1>6. CASE FinishDrive \/ \E m \in Msg : RetireFanout(m) \/ AcknowledgePublished(m)
  <2>1. phase = "finish" => cur \in Msg
    BY DEF IInv, DriveOK
  <2>2. rows' = rows \/ \E m \in Msg : rows' = [rows EXCEPT ![m] = NoRow]
    BY <1>6, <2>1 DEF FinishDrive, RetireFanout, AcknowledgePublished
  <2> QED
    BY <2>2, <1>1, OtherWrites
<1>7. CASE \/ NothingToResolve \/ PublishWelcomes \/ NoWelcomes \/ NothingDue
           \/ \E t \in Target : \/ AnswerAccepted(t)
                                \/ \E kind \in FailureKind : AnswerFailed(t, kind)
           \/ \E m \in Msg : ResumeFanout(m)
           \/ StagingFails \/ CallFails \/ Crash
           \/ \E m \in Msg, t \in Target : LateArrival(m, t)
           \/ UNCHANGED vars
  <2>1. rows' = rows
    BY <1>7 DEF NothingToResolve, PublishWelcomes, NoWelcomes, NothingDue,
       AnswerAccepted, AnswerFailed, ResumeFanout, StagingFails, CallFails, Crash,
       LateArrival, durable, vars
  <2> QED
    BY <2>1, <1>1
<1> QED
  BY <1>2, <1>3, <1>4, <1>5, <1>6, <1>7 DEF Next, DriveStep

\* The driver never asks storage for a transition that it would refuse.
THEOREM WritesAreMonotonic == Spec => DriverWritesAreMonotonic
<1>1. IInv /\ [Next]_vars =>
        [\A m \in Msg : HasRow(m) /\ rows'[m] # NoRow =>
            ValidSuccessor(rows'[m], rows[m])]_vars
  BY StepIsMonotonic DEF Successors
<1> QED
  BY <1>1, Invariance, PTL DEF Spec, DriverWritesAreMonotonic
===============================================================================
