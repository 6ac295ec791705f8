-------------------------- MODULE LifecycleInvariant --------------------------
(***************************************************************************)
(* The inductive invariant of PublishLifecycle: what the runtime's durable *)
(* rows, the engine's durable group state and its in-memory references     *)
(* have to do with each other as long as hydration did not restore a       *)
(* reference that was in use (clash).  Here too: the driver's steps, which *)
(* touch the rows only, and what a step leaves alone of a group.           *)
(***************************************************************************)
EXTENDS PublishLifecycle, TLAPS

\* A stored row of m: staged before, acknowledged only where a relay holds the
\* event, and in step with what became of the commit.
RowInv(m, f) ==
  /\ m < next
  /\ f.mls = "Pending" => fate[m] = "none"
  /\ f.mls = "Confirmed" => fate[m] = "confirmed"
  /\ \A t \in Target : f.status[t] = "Accepted" => t \in relay[m]

\* The driver's copy c of the row f: the same publication.
SameRequest(f, c) == c.group = f.group /\ c.mls = f.mls /\ c.ref = f.ref

TableInv ==
  /\ rows \in [Msg -> F!FanoutType(Group) \cup {NoRow}]
  /\ relay \in [Msg -> SUBSET Target]
  /\ next \in 1..(MaxMsg + 1)
  /\ fate \in [Msg -> {"none", "confirmed", "rolledback"}]
  /\ released \subseteq Msg
  /\ \A m \in Msg : rows[m] # NoRow => RowInv(m, rows[m])
  /\ \A m \in Msg : m >= next => fate[m] = "none"
  /\ \A m \in released : fate[m] = "confirmed"

CopyInv ==
  /\ phase # "idle" =>
       /\ cur \in Msg /\ rows[cur] # NoRow /\ copy \in F!FanoutType(Group)
       /\ SameRequest(rows[cur], copy)
       /\ \A t \in Target : copy.status[t] = "Accepted" => t \in relay[cur]
  /\ phase \notin {"idle", "publishing"} => copy = rows[cur]

\* What the lifecycle needs of the driver.  (FanoutDeliveryProofs has more.)
DriverInv == TableInv /\ CopyInv

Shape ==
  /\ states = [g \in Group |-> states[g]]
  /\ staged \in [Group -> Msg \cup {NoMsg}]
  /\ tip \in [Group -> Nat]
  /\ record \in [Group -> [epoch : Nat, exact : BOOLEAN]]
  /\ origin = [m \in Msg |-> origin[m]]
  /\ welcome \in [Msg -> {"none", "staged", "sent", "failed"}]
  /\ minted \in 0..MaxMsg /\ counter \in Nat
  /\ removal \subseteq Msg /\ merged \subseteq Msg
  /\ live \subseteq Group

\* The in-memory entry of g: published exactly while it has its own reference,
\* stable at the epoch of the MLS group.
EntryOK(g) ==
  /\ g \in live <=> states[g].name # "NoEntry"
  /\ states[g].name \in {"NoEntry", "Stable", "PendingPublish"}
  /\ IsPublishing(g) =>
       /\ states[g].ref \in DOMAIN pending /\ pending[states[g].ref].group = g
       /\ states[g].epoch = IF staged[g] = NoMsg THEN tip[g] ELSE tip[g] + 1
       /\ staged[g] # NoMsg => pending[states[g].ref].prior = tip[g]
       /\ g \notin input
  /\ IsStable(g) =>
       /\ states[g].epoch = IF g \in drift THEN record[g].epoch ELSE tip[g]
       /\ staged[g] # NoMsg => staged[g] \in removal /\ g \in drift

\* The commit attached to the MLS group of g, and the group record.
StagedOK(g) ==
  /\ staged[g] # NoMsg =>
       /\ staged[g] <= minted /\ staged[g] \notin merged
       /\ origin[staged[g]] = [group |-> g, epoch |-> tip[g]]
       /\ welcome[staged[g]] \in {"none", "staged"}
  /\ staged[g] = NoMsg /\ g \notin drift =>
       record[g] = [epoch |-> tip[g], exact |-> TRUE]

\* A pending row is the attached commit, and its publication in memory.
RowsMatch(g) ==
  \A m \in PendingRows(g) :
    /\ staged[g] = m /\ g \notin input
    /\ g \in live => IsPublishing(g) /\ states[g].ref = rows[m].ref

GroupOK(g) == EntryOK(g) /\ StagedOK(g) /\ RowsMatch(g)

\* A reference names the publication of one group.
RefsOK ==
  \A r \in DOMAIN pending :
    /\ r \in Nat /\ r <= counter /\ pending[r].group \in Group
    /\ IsPublishing(pending[r].group) /\ states[pending[r].group].ref = r

\* Work on its way to the table belongs to the publication just begun.
OutboxOK ==
  outbox # NoWork =>
    /\ outbox.msg \in Msg /\ outbox.group \in live /\ outbox.welcomes \in BOOLEAN
    /\ outbox.ref \in 0..MaxRef
    /\ phase = "idle" /\ next <= outbox.msg /\ outbox.msg <= minted
    /\ IsPublishing(outbox.group) /\ states[outbox.group].ref = outbox.ref
    /\ staged[outbox.group] = outbox.msg

\* The driver works for live groups only.
DriverOK ==
  /\ phase # "idle" => outbox = NoWork /\ rows[cur].group \in live
  /\ ~Deferred /\ (phase # "idle" \/ outbox # NoWork) => live = Group

\* What was not minted yet has left no trace.
MintedOK ==
  /\ next <= minted + 1
  /\ \A m \in Msg : m > minted => m \notin merged \cup removal /\ welcome[m] = "none"
  /\ \A m \in removal : welcome[m] = "none"

\* An eager session finds a reference in one row at most, and until all groups
\* are hydrated uses no others.
EagerOK ==
  ~Deferred =>
    /\ \A g, h \in Group : \A m \in PendingRows(g), k \in PendingRows(h) :
         rows[m].ref = rows[k].ref => g = h
    /\ live # Group =>
         \A r \in DOMAIN pending : \E m \in PendingRows(pending[r].group) : rows[m].ref = r

Core ==
  /\ DriverInv /\ Shape
  /\ \A g \in Group : GroupOK(g)
  /\ RefsOK /\ OutboxOK /\ DriverOK /\ MintedOK /\ EagerOK
  /\ WelcomeTracksCommit /\ MergedIsHeldByRelay

IInv == clash \in BOOLEAN /\ (~Deferred => ~clash) /\ (~clash => Core)
-----------------------------------------------------------------------------
(* The fanout driver inside the lifecycle. *)

\* What the operations on a row keep of it (OutboundFanout).
LEMMA MarkFacts ==
  ASSUME NEW f \in F!FanoutType(Group)
  PROVE  /\ F!MarkMlsConfirmed(f) \in F!FanoutType(Group)
         /\ F!MarkMlsConfirmed(f).mls = "Confirmed"
         /\ F!MarkMlsConfirmed(f).status = f.status
         /\ F!MarkMlsRolledBack(f) \in F!FanoutType(Group)
         /\ F!MarkMlsRolledBack(f).mls = "RolledBack"
         /\ F!MarkMlsRolledBack(f).status = f.status
         /\ F!MarkWelcomesReleased(f) \in F!FanoutType(Group)
         /\ SameRequest(f, F!MarkWelcomesReleased(f))
         /\ F!MarkWelcomesReleased(f).status = f.status
BY Zenon DEF F!MarkMlsConfirmed, F!MarkMlsRolledBack, F!MarkWelcomesReleased, F!FanoutType,
       F!MlsState, F!NoRef, SameRequest

\* A new attempt acknowledges nothing.
LEMMA AttemptFacts ==
  ASSUME NEW f \in F!FanoutType(Group), NEW due \in SUBSET Target
  PROVE  /\ F!MarkAttemptStarted(f, due) \in F!FanoutType(Group)
         /\ SameRequest(f, F!MarkAttemptStarted(f, due))
         /\ \A t \in Target : F!MarkAttemptStarted(f, due).status[t] = "Accepted" =>
              f.status[t] = "Accepted"
BY Zenon DEF F!MarkAttemptStarted, F!FanoutType, F!TargetStatus, SameRequest

\* An acknowledgement marks its own target.
LEMMA AcceptedFacts ==
  ASSUME NEW f \in F!FanoutType(Group), NEW t \in Target
  PROVE  /\ F!MarkTargetAccepted(f, t) \in F!FanoutType(Group)
         /\ SameRequest(f, F!MarkTargetAccepted(f, t))
         /\ \A u \in Target : F!MarkTargetAccepted(f, t).status[u] = "Accepted" =>
              u = t \/ f.status[u] = "Accepted"
BY Zenon DEF F!MarkTargetAccepted, F!Terminal, F!FanoutType, F!TargetStatus, SameRequest

\* A failed attempt acknowledges nothing.
LEMMA FailureFacts ==
  ASSUME NEW f \in F!FanoutType(Group), NEW t \in Target, NEW kind \in F!FailureKind,
         NEW r, r = F!RecordTargetFailure(f, t, kind)
  PROVE  /\ r \in F!FanoutType(Group) /\ SameRequest(f, r)
         /\ \A u \in Target : r.status[u] = "Accepted" => f.status[u] = "Accepted"
BY Zenon DEF F!RecordTargetFailure, F!FailureStatus, F!FailureKind, F!Terminal, F!FanoutType,
       F!TargetStatus, SameRequest

\* A row being driven is written: put_outbound_fanout, with the engine's verdict
\* v on its commit when the write resolves one.
LEMMA RowWritten ==
  ASSUME DriverInv, phase # "idle", NEW f \in F!FanoutType(Group),
         NEW v \in {"none", "confirmed", "rolledback"},
         rows' = [rows EXCEPT ![cur] = f], UNCHANGED <<next, relay, released>>,
         fate' = [fate EXCEPT ![cur] = v],
         f.mls = "Pending" => v = "none", f.mls = "Confirmed" => v = "confirmed",
         cur \in released => v = "confirmed",
         \A t \in Target : f.status[t] = "Accepted" => t \in relay[cur]
  PROVE  TableInv'
<1>1. PICK m : m = cur
  BY Zenon
<1>2. m \in Msg /\ rows[m] # NoRow /\ TableInv
  BY <1>1, Zenon DEF DriverInv, CopyInv
<1>3. /\ rows' \in [Msg -> F!FanoutType(Group) \cup {NoRow}]
      /\ rows'[m] = f /\ \A k \in Msg : k # m => rows'[k] = rows[k]
  BY <1>1, <1>2, Zenon DEF TableInv, Msg, F!Msg
<1>4. /\ fate' \in [Msg -> {"none", "confirmed", "rolledback"}]
      /\ fate'[m] = v /\ \A k \in Msg : k # m => fate'[k] = fate[k]
  BY <1>1, <1>2, Zenon DEF TableInv, Msg, F!Msg
<1>5. m < next
  BY <1>2, Zenon DEF TableInv, RowInv
<1>6. \A k \in Msg : rows'[k] # NoRow => RowInv(k, rows[k])' 
  <2> SUFFICES ASSUME NEW k \in Msg, rows'[k] # NoRow PROVE RowInv(k, rows[k])'
    BY Zenon
  <2>1. CASE k = m
    BY <2>1, <1>1, <1>3, <1>4, <1>5, Zenon DEF RowInv
  <2>2. CASE k # m
    BY <2>2, <1>2, <1>3, <1>4 DEF RowInv, TableInv
  <2> QED
    BY <2>1, <2>2, Zenon
<1>7. \A k \in Msg : k >= next => fate'[k] = "none"
  <2>1. MaxMsg \in Nat /\ next \in Nat /\ \A k \in Msg : k \in Nat
    BY <1>2, BoundsAssumption DEF TableInv, Msg, F!Msg
  <2>2. \A k \in Msg : k >= next => k # m
    BY <2>1, <1>2, <1>5
  <2> QED
    BY <2>2, <1>2, <1>4, Zenon DEF TableInv
<1>8. \A k \in released : fate'[k] = "confirmed"
  BY <1>1, <1>2, <1>4, Zenon DEF TableInv
<1> QED
  BY <1>2, <1>3, <1>4, <1>6, <1>7, <1>8, Zenon DEF TableInv, Msg, F!Msg

\* The same write when no verdict is involved.
LEMMA RowRewritten ==
  ASSUME DriverInv, phase # "idle", NEW f \in F!FanoutType(Group),
         rows' = [rows EXCEPT ![cur] = f], UNCHANGED <<next, relay, fate, released>>,
         f.mls = copy.mls,
         \A t \in Target : f.status[t] = "Accepted" => t \in relay[cur]
  PROVE  TableInv'
<1>1. /\ cur \in Msg /\ rows[cur] # NoRow /\ rows[cur].mls = copy.mls
      /\ fate \in [Msg -> {"none", "confirmed", "rolledback"}]
      /\ RowInv(cur, rows[cur])
      /\ \A m \in released : fate[m] = "confirmed"
  BY Zenon DEF DriverInv, CopyInv, TableInv, SameRequest
<1>2. PICK v : v = fate[cur]
  BY Zenon
<1>3. v \in {"none", "confirmed", "rolledback"} /\ fate' = [fate EXCEPT ![cur] = v]
  BY <1>1, <1>2, Zenon
<1>4. /\ f.mls = "Pending" => v = "none"
      /\ f.mls = "Confirmed" => v = "confirmed"
      /\ cur \in released => v = "confirmed"
  BY <1>1, <1>2, Zenon DEF RowInv
<1> QED
  BY <1>3, <1>4, RowWritten, Zenon

\* The driver's copy after a write of the row.
LEMMA CopyWritten ==
  ASSUME DriverInv, phase # "idle", NEW f \in F!FanoutType(Group),
         rows' = [rows EXCEPT ![cur] = f], cur' = cur, copy' = f, relay' = relay,
         \A t \in Target : f.status[t] = "Accepted" => t \in relay[cur]
  PROVE  CopyInv'
<1>1. cur \in Msg /\ rows \in [Msg -> F!FanoutType(Group) \cup {NoRow}]
  BY Zenon DEF DriverInv, CopyInv, TableInv
<1>2. rows'[cur] = f /\ f # NoRow
  BY <1>1, NoRowAssumption, Zenon
<1> QED
  BY <1>1, <1>2, Zenon DEF CopyInv, SameRequest, Msg, F!Msg

\* A drive that ends leaves no copy.
LEMMA CopyDropped ==
  ASSUME F!EndDrive
  PROVE  CopyInv'
BY Zenon DEF F!EndDrive, CopyInv

\* The table is left alone.
LEMMA TableSame ==
  ASSUME DriverInv, UNCHANGED <<rows, next, relay, fate, released>>
  PROVE  TableInv'
BY Zenon DEF DriverInv, TableInv, RowInv, Msg, F!Msg

\* The drive goes on without a write.
LEMMA CopyKept ==
  ASSUME DriverInv, UNCHANGED <<rows, relay, cur, copy>>,
         phase # "idle" \/ phase' = "idle",
         phase # "publishing" \/ phase' \in {"idle", "publishing"}
  PROVE  CopyInv'
BY Zenon DEF DriverInv, CopyInv, Msg, F!Msg

\* A row is deleted while nothing is driven, or by the drive that ends.
LEMMA RowDeleted ==
  ASSUME DriverInv, NEW m \in Msg, rows' = [rows EXCEPT ![m] = NoRow], phase' = "idle",
         UNCHANGED <<next, relay, fate, released>>
  PROVE  DriverInv'
<1>1. /\ rows' \in [Msg -> F!FanoutType(Group) \cup {NoRow}]
      /\ \A k \in Msg : rows'[k] # NoRow => rows'[k] = rows[k] /\ rows[k] # NoRow
  BY Zenon DEF DriverInv, TableInv
<1>2. \A k \in Msg : rows'[k] # NoRow => RowInv(k, rows[k])'
  BY <1>1, Zenon DEF DriverInv, TableInv, RowInv
<1> QED
  BY <1>1, <1>2, Zenon DEF DriverInv, TableInv, CopyInv, Msg, F!Msg

\* A publication is staged under a fresh id (publish_one).
LEMMA RowStaged ==
  ASSUME DriverInv, NEW m \in F!Msg, NEW g \in Group, NEW ref \in 0..MaxRef,
         NEW app \in BOOLEAN, NEW welcomes \in BOOLEAN,
         F!StageFanout(m, g, ref, app, welcomes)
  PROVE  DriverInv'
<1>1. PICK f : f = F!Stage(g, ref, app, welcomes)
  BY Zenon
<1>2. /\ f \in F!FanoutType(Group) /\ f.mls \in {"NotApplicable", "Pending"}
      /\ \A t \in Target : f.status[t] = "NotAttempted"
  BY <1>1, BoundsAssumption DEF F!Stage, F!FanoutType, F!TargetStatus, F!MlsState, F!NoRef
<1>3. /\ rows' = [rows EXCEPT ![m] = f] /\ next' = m + 1 /\ m >= next
      /\ cur' = m /\ copy' = f /\ UNCHANGED <<relay, fate, released>>
  BY <1>1, Zenon DEF F!StageFanout, F!StartDrive, F!network, F!history
<1>4. m \in Msg /\ Msg = 1..MaxMsg /\ MaxMsg \in Nat /\ next \in 1..(MaxMsg + 1)
  BY BoundsAssumption, Zenon DEF DriverInv, TableInv, Msg, F!Msg
<1>5. /\ rows' \in [Msg -> F!FanoutType(Group) \cup {NoRow}]
      /\ rows'[m] = f /\ f # NoRow /\ \A k \in Msg : k # m => rows'[k] = rows[k]
  BY <1>2, <1>3, <1>4, NoRowAssumption, Zenon DEF DriverInv, TableInv
<1>6. next' \in 1..(MaxMsg + 1)
  BY <1>3, <1>4
<1>7. \A k \in Msg : (k < next => k < next') /\ (k >= next' => k >= next)
  BY <1>3, <1>4
<1>8. \A k \in Msg : rows'[k] # NoRow => RowInv(k, rows[k])'
  <2> SUFFICES ASSUME NEW k \in Msg, rows'[k] # NoRow PROVE RowInv(k, rows[k])'
    BY Zenon
  <2>1. CASE k = m
    <3>1. fate[m] = "none" /\ m < next'
      BY <1>3, <1>4 DEF DriverInv, TableInv
    <3> QED
      BY <2>1, <3>1, <1>2, <1>3, <1>5, Zenon DEF RowInv
  <2>2. CASE k # m
    BY <2>2, <1>3, <1>5, <1>7, Zenon DEF RowInv, DriverInv, TableInv
  <2> QED
    BY <2>1, <2>2, Zenon
<1>9. TableInv'
  BY <1>3, <1>5, <1>6, <1>7, <1>8, Zenon DEF DriverInv, TableInv, Msg, F!Msg
<1>10. CopyInv'
  BY <1>2, <1>3, <1>4, <1>5, Zenon DEF CopyInv, SameRequest, Msg, F!Msg
<1> QED
  BY <1>9, <1>10, Zenon DEF DriverInv

\* An event reaches a relay.
LEMMA RelayGains ==
  ASSUME DriverInv, NEW m, NEW t \in Target, relay' = [relay EXCEPT ![m] = @ \cup {t}],
         UNCHANGED <<rows, next, fate, released>>
  PROVE  TableInv' /\ \A k \in Msg : relay[k] \subseteq relay'[k]
<1>1. /\ relay' \in [Msg -> SUBSET Target]
      /\ \A k \in Msg : relay[k] \subseteq relay'[k]
  BY Zenon DEF DriverInv, TableInv
<1>2. \A k \in Msg : rows'[k] # NoRow => RowInv(k, rows[k])'
  BY <1>1, Zenon DEF DriverInv, TableInv, RowInv, F!FanoutType
<1> QED
  BY <1>1, <1>2, Zenon DEF DriverInv, TableInv, Msg, F!Msg

\* The drive's own steps.
LEMMA DriveKeepsInv ==
  ASSUME DriverInv, F!DriveStep
  PROVE  DriverInv'
<1>0. /\ phase # "idle" =>
           /\ cur \in Msg /\ rows[cur] # NoRow /\ copy \in F!FanoutType(Group)
           /\ SameRequest(rows[cur], copy)
           /\ \A t \in Target : copy.status[t] = "Accepted" => t \in relay[cur]
      /\ fate \in [Msg -> {"none", "confirmed", "rolledback"}]
      /\ phase # "idle" => RowInv(cur, rows[cur])
      /\ \A m \in released : fate[m] = "confirmed"
  BY Zenon DEF DriverInv, CopyInv, TableInv
<1>1. CASE F!ConfirmPublished
  <2>1. PICK f : f = F!MarkMlsConfirmed(copy)
    BY Zenon
  <2>2. /\ phase # "idle" /\ rows' = [rows EXCEPT ![cur] = f] /\ cur' = cur /\ copy' = f
        /\ fate' = [fate EXCEPT ![cur] = "confirmed"]
        /\ UNCHANGED <<next, relay, released>>
    BY <1>1, <2>1, Zenon DEF F!ConfirmPublished, F!PutRow, F!network
  <2>3. /\ f \in F!FanoutType(Group) /\ f.mls = "Confirmed"
        /\ \A t \in Target : f.status[t] = "Accepted" => t \in relay[cur]
    BY <1>0, <2>1, <2>2, MarkFacts, Zenon
  <2>4. TableInv'
    BY <2>2, <2>3, RowWritten, Zenon
  <2>5. CopyInv'
    BY <2>2, <2>3, CopyWritten, Zenon
  <2> QED
    BY <2>4, <2>5, Zenon DEF DriverInv
<1>2. CASE F!PublishFailed
  <2>1. PICK f : f = F!MarkMlsRolledBack(copy)
    BY Zenon
  <2>2. /\ phase # "idle" /\ rows' = [rows EXCEPT ![cur] = f] /\ cur' = cur /\ copy' = f
        /\ fate' = [fate EXCEPT ![cur] = "rolledback"] /\ copy.mls = "Pending"
        /\ UNCHANGED <<next, relay, released>>
    BY <1>2, <2>1, Zenon DEF F!PublishFailed, F!RollbackDue, F!PutRow, F!network
  <2>3. /\ f \in F!FanoutType(Group) /\ f.mls = "RolledBack"
        /\ \A t \in Target : f.status[t] = "Accepted" => t \in relay[cur]
    BY <1>0, <2>1, <2>2, MarkFacts, Zenon
  <2>4. cur \notin released
    BY <1>0, <2>2, Zenon DEF RowInv, SameRequest
  <2>5. TableInv'
    BY <2>2, <2>3, <2>4, RowWritten, Zenon
  <2>6. CopyInv'
    BY <2>2, <2>3, CopyWritten, Zenon
  <2> QED
    BY <2>5, <2>6, Zenon DEF DriverInv
<1>3. CASE F!NothingToResolve \/ F!NoWelcomes \/ F!NothingDue
  <2>1. /\ UNCHANGED <<rows, next, relay, fate, released, cur, copy>>
        /\ phase # "idle" /\ phase # "publishing"
    BY <1>3, Zenon DEF F!NothingToResolve, F!NoWelcomes, F!NothingDue, F!GoTo, F!durable,
                F!network, F!history
  <2> QED
    BY <2>1, TableSame, CopyKept, Zenon DEF DriverInv
<1>4. CASE F!PublishWelcomes
  <2>1. /\ UNCHANGED <<rows, next, relay, fate, cur, copy>> /\ released' = released \cup {cur}
        /\ phase # "idle" /\ phase # "publishing" /\ copy.mls = "Confirmed"
    BY <1>4, Zenon DEF F!PublishWelcomes, F!WelcomesDue, F!GoTo, F!durable, F!network
  <2>2. fate[cur] = "confirmed" /\ cur \in Msg
    BY <1>0, <2>1, Zenon DEF RowInv, SameRequest
  <2>3. TableInv'
    BY <2>1, <2>2, Zenon DEF DriverInv, TableInv, RowInv, Msg, F!Msg
  <2> QED
    BY <2>1, <2>3, CopyKept, Zenon DEF DriverInv
<1>5. CASE F!PutWelcomesReleased
  <2>1. PICK f : f = F!MarkWelcomesReleased(copy)
    BY Zenon
  <2>2. /\ phase # "idle" /\ rows' = [rows EXCEPT ![cur] = f] /\ cur' = cur /\ copy' = f
        /\ UNCHANGED <<next, relay, fate, released>>
    BY <1>5, <2>1, Zenon DEF F!PutWelcomesReleased, F!PutRow, F!network, F!history
  <2>3. /\ f \in F!FanoutType(Group) /\ f.mls = copy.mls
        /\ \A t \in Target : f.status[t] = "Accepted" => t \in relay[cur]
    BY <1>0, <2>1, <2>2, MarkFacts, Zenon DEF SameRequest
  <2> QED
    BY <2>2, <2>3, RowRewritten, CopyWritten, Zenon DEF DriverInv
<1>6. ASSUME NEW due \in SUBSET Target, F!StartAttempts(due)
      PROVE  DriverInv'
  <2>1. PICK f : f = F!MarkAttemptStarted(copy, due)
    BY Zenon
  <2>2. /\ phase # "idle" /\ rows' = [rows EXCEPT ![cur] = f] /\ cur' = cur /\ copy' = f
        /\ UNCHANGED <<next, relay, fate, released>>
    BY <1>6, <2>1, Zenon DEF F!StartAttempts, F!PutRow, F!network, F!history
  <2>3. /\ f \in F!FanoutType(Group) /\ f.mls = copy.mls
        /\ \A t \in Target : f.status[t] = "Accepted" => t \in relay[cur]
    BY <1>0, <2>1, <2>2, AttemptFacts DEF SameRequest
  <2> QED
    BY <2>2, <2>3, RowRewritten, CopyWritten, Zenon DEF DriverInv
<1>7. ASSUME NEW t \in Target, F!AnswerAccepted(t)
      PROVE  DriverInv'
  <2>1. PICK f : f = F!MarkTargetAccepted(copy, t)
    BY Zenon
  <2>2. /\ phase = "publishing" /\ phase' = phase /\ cur' = cur /\ copy' = f
        /\ relay' = [relay EXCEPT ![cur] = @ \cup {t}]
        /\ UNCHANGED <<rows, next, fate, released>>
    BY <1>7, <2>1, Zenon DEF F!AnswerAccepted, F!durable, F!history
  <2>3. /\ f \in F!FanoutType(Group) /\ SameRequest(copy, f)
        /\ \A u \in Target : f.status[u] = "Accepted" => u = t \/ copy.status[u] = "Accepted"
    BY <1>0, <2>1, <2>2, AcceptedFacts, Zenon
  <2>4. TableInv' /\ \A k \in Msg : relay[k] \subseteq relay'[k]
    BY <2>2, RelayGains, Zenon
  <2>5. t \in relay'[cur]
    BY <1>0, <2>2, Zenon DEF DriverInv, TableInv
  <2>6. \A u \in Target : f.status[u] = "Accepted" => u \in relay'[cur]
    BY <1>0, <2>2, <2>3, <2>4, <2>5, Zenon
  <2>7. SameRequest(rows[cur], f) /\ cur \in Msg /\ rows[cur] # NoRow
    BY <1>0, <2>2, <2>3, Zenon DEF SameRequest
  <2>8. CopyInv'
    BY <2>2, <2>3, <2>6, <2>7, Zenon DEF CopyInv, SameRequest, Msg, F!Msg
  <2> QED
    BY <2>4, <2>8, Zenon DEF DriverInv
<1>8. ASSUME NEW t \in Target, NEW kind \in F!FailureKind, F!AnswerFailed(t, kind)
      PROVE  DriverInv'
  <2>1. PICK f : f = F!RecordTargetFailure(copy, t, kind)
    BY Zenon
  <2>2. /\ phase = "publishing" /\ phase' = phase /\ cur' = cur /\ copy' = f
        /\ UNCHANGED <<rows, next, relay, fate, released>>
    BY <1>8, <2>1, Zenon DEF F!AnswerFailed, F!durable, F!history
  <2>3. /\ f \in F!FanoutType(Group) /\ SameRequest(copy, f)
        /\ \A u \in Target : f.status[u] = "Accepted" => copy.status[u] = "Accepted"
    BY <1>0, <2>1, <2>2, FailureFacts
  <2>4. SameRequest(rows[cur], f) /\ cur \in Msg /\ rows[cur] # NoRow
    BY <1>0, <2>2, <2>3, Zenon DEF SameRequest
  <2>5. CopyInv'
    BY <1>0, <2>2, <2>3, <2>4, Zenon DEF CopyInv, SameRequest, Msg, F!Msg
  <2> QED
    BY <2>2, <2>5, TableSame, Zenon DEF DriverInv
<1>9. CASE F!PutResults
  <2>1. PICK f : f = copy
    BY Zenon
  <2>2. /\ phase # "idle" /\ rows' = [rows EXCEPT ![cur] = f] /\ cur' = cur /\ copy' = f
        /\ UNCHANGED <<next, relay, fate, released>>
    BY <1>9, <2>1, Zenon DEF F!PutResults, F!GoTo, F!PutRow, F!network, F!history
  <2>3. /\ f \in F!FanoutType(Group) /\ f.mls = copy.mls
        /\ \A t \in Target : f.status[t] = "Accepted" => t \in relay[cur]
    BY <1>0, <2>1, <2>2, Zenon
  <2> QED
    BY <2>2, <2>3, RowRewritten, CopyWritten, Zenon DEF DriverInv
<1>10. CASE F!FinishDrive
  <2>1. /\ phase # "idle" /\ F!EndDrive /\ phase' = "idle"
        /\ UNCHANGED <<next, relay, fate, released>>
        /\ rows' = rows \/ rows' = [rows EXCEPT ![cur] = NoRow]
    BY <1>10, Zenon DEF F!FinishDrive, F!EndDrive, F!network, F!history
  <2>2. CASE rows' = rows
    BY <2>1, <2>2, TableSame, CopyDropped, Zenon DEF DriverInv
  <2>3. CASE rows' = [rows EXCEPT ![cur] = NoRow]
    BY <1>0, <2>1, <2>3, RowDeleted, Zenon
  <2> QED
    BY <2>1, <2>2, <2>3, Zenon
<1> QED
  BY <1>1, <1>2, <1>3, <1>4, <1>5, <1>6, <1>7, <1>8, <1>9, <1>10, Zenon DEF F!DriveStep

\* Confirming or rolling back, with an error after the transaction.
LEMMA ResolveThenFails ==
  ASSUME DriverInv, F!ConfirmThenFails \/ F!PublishFailedThenFails
  PROVE  DriverInv'
<1>0. phase # "idle" /\ F!EndDrive /\ UNCHANGED <<next, relay, released>>
  BY Zenon DEF F!ConfirmThenFails, F!PublishFailedThenFails, F!network
<1>1. /\ cur \in Msg /\ copy \in F!FanoutType(Group) /\ rows[cur].mls = copy.mls
      /\ \A t \in Target : copy.status[t] = "Accepted" => t \in relay[cur]
      /\ RowInv(cur, rows[cur]) /\ \A m \in released : fate[m] = "confirmed"
  BY <1>0, Zenon DEF DriverInv, CopyInv, TableInv, SameRequest
<1>2. CASE F!ConfirmThenFails
  <2>1. PICK f : f = F!MarkMlsConfirmed(copy)
    BY Zenon
  <2>2. rows' = [rows EXCEPT ![cur] = f] /\ fate' = [fate EXCEPT ![cur] = "confirmed"]
    BY <1>2, <2>1, Zenon DEF F!ConfirmThenFails, F!PutRow
  <2>3. /\ f \in F!FanoutType(Group) /\ f.mls = "Confirmed"
        /\ \A t \in Target : f.status[t] = "Accepted" => t \in relay[cur]
    BY <1>1, <2>1, MarkFacts, Zenon
  <2>4. TableInv'
    BY <1>0, <2>2, <2>3, RowWritten, Zenon
  <2> QED
    BY <1>0, <2>4, CopyDropped, Zenon DEF DriverInv
<1>3. CASE F!PublishFailedThenFails
  <2>1. PICK f : f = F!MarkMlsRolledBack(copy)
    BY Zenon
  <2>2. /\ rows' = [rows EXCEPT ![cur] = f] /\ fate' = [fate EXCEPT ![cur] = "rolledback"]
        /\ copy.mls = "Pending"
    BY <1>3, <2>1, Zenon DEF F!PublishFailedThenFails, F!RollbackDue, F!PutRow
  <2>3. /\ f \in F!FanoutType(Group) /\ f.mls = "RolledBack"
        /\ \A t \in Target : f.status[t] = "Accepted" => t \in relay[cur]
    BY <1>1, <2>1, MarkFacts, Zenon
  <2>4. cur \notin released
    BY <1>1, <2>2, Zenon DEF RowInv
  <2>5. TableInv'
    BY <1>0, <2>2, <2>3, <2>4, RowWritten, Zenon
  <2> QED
    BY <1>0, <2>5, CopyDropped, Zenon DEF DriverInv
<1> QED
  BY <1>2, <1>3, Zenon

\* The driver's part of the invariant survives every step of the driver.
LEMMA DriverStep ==
  ASSUME DriverInv, F!Next \/ UNCHANGED fanoutVars
  PROVE  DriverInv'
<1>1. CASE UNCHANGED fanoutVars
  <2>1. UNCHANGED <<rows, next, relay, fate, released, phase, cur, copy>>
    BY <1>1, Zenon DEF fanoutVars
  <2> QED
    BY <2>1, Zenon DEF DriverInv, TableInv, CopyInv, RowInv, Msg, F!Msg
<1>2. CASE F!StageAny
  BY <1>2, RowStaged, Zenon DEF F!StageAny
<1>3. CASE F!DriveStep
  BY <1>3, DriveKeepsInv, Zenon
<1>4. ASSUME NEW m \in F!Msg, F!ResumeFanout(m)
      PROVE  DriverInv'
  <2>1. /\ UNCHANGED <<rows, next, relay, fate, released>>
        /\ rows[m] # NoRow /\ cur' = m /\ copy' = rows[m]
    BY <1>4, Zenon DEF F!ResumeFanout, F!HasRow, F!StartDrive, F!durable, F!network, F!history
  <2>2. m \in Msg /\ copy' \in F!FanoutType(Group) /\ RowInv(m, rows[m])
    BY <2>1, Zenon DEF DriverInv, TableInv, Msg
  <2>3. CopyInv'
    BY <2>1, <2>2, Zenon DEF CopyInv, SameRequest, RowInv, Msg, F!Msg
  <2> QED
    BY <2>1, <2>3, TableSame, Zenon DEF DriverInv
<1>5. ASSUME NEW m \in F!Msg, F!RetireFanout(m) \/ F!AcknowledgePublished(m)
      PROVE  DriverInv'
  <2>1. /\ m \in Msg /\ rows' = [rows EXCEPT ![m] = NoRow] /\ phase' = "idle"
        /\ UNCHANGED <<next, relay, fate, released>>
    BY <1>5, Zenon DEF F!RetireFanout, F!AcknowledgePublished, F!drive, F!network, F!history, Msg
  <2> QED
    BY <2>1, RowDeleted, Zenon
<1>6. CASE F!ConfirmThenFails \/ F!PublishFailedThenFails
  BY <1>6, ResolveThenFails, Zenon
<1>7. CASE F!StagingFails
  <2>1. UNCHANGED <<rows, next, relay, fate, released, phase, cur, copy>>
    BY <1>7, Zenon DEF F!StagingFails, F!durable, F!drive, F!network, F!history
  <2> QED
    BY <2>1, Zenon DEF DriverInv, TableInv, CopyInv, RowInv, Msg, F!Msg
<1>8. CASE F!CallFails \/ F!Crash
  <2>1. UNCHANGED <<rows, next, relay, fate, released>> /\ F!EndDrive
    BY <1>8, Zenon DEF F!CallFails, F!Crash, F!durable, F!network
  <2> QED
    BY <2>1, TableSame, CopyDropped, Zenon DEF DriverInv
<1>9. ASSUME NEW m \in F!Msg, NEW t \in Target, F!LateArrival(m, t)
      PROVE  DriverInv'
  <2>1. /\ relay' = [relay EXCEPT ![m] = @ \cup {t}]
        /\ UNCHANGED <<rows, next, fate, released, phase, cur, copy>>
    BY <1>9, Zenon DEF F!LateArrival, F!durable, F!drive, F!history
  <2>2. TableInv' /\ \A k \in Msg : relay[k] \subseteq relay'[k]
    BY <2>1, RelayGains, Zenon
  <2>3. CopyInv'
    BY <2>1, <2>2, Zenon DEF DriverInv, CopyInv, Msg, F!Msg
  <2> QED
    BY <2>2, <2>3, Zenon DEF DriverInv
<1> QED
  BY <1>1, <1>2, <1>3, <1>4, <1>5, <1>6, <1>7, <1>8, <1>9, Zenon DEF F!Next

\* What the lifecycle needs to know of the driver's state.
LEMMA DriverFacts ==
  ASSUME DriverInv
  PROVE  /\ Msg = 1..MaxMsg /\ NoMsg = 0
         /\ rows \in [Msg -> F!FanoutType(Group) \cup {NoRow}]
         /\ relay \in [Msg -> SUBSET Target]
         /\ next \in 1..(MaxMsg + 1)
         /\ \A m \in Msg : rows[m] # NoRow =>
              /\ rows[m] \in F!FanoutType(Group) /\ m < next
              /\ \A t \in Target : rows[m].status[t] = "Accepted" => t \in relay[m]
         /\ phase # "idle" =>
              /\ cur \in Msg /\ rows[cur] # NoRow /\ copy \in F!FanoutType(Group)
              /\ copy.group = rows[cur].group /\ copy.mls = rows[cur].mls
              /\ copy.ref = rows[cur].ref
         /\ phase \notin {"idle", "publishing"} => copy = rows[cur]
<1>1. Msg = 1..MaxMsg /\ NoMsg = 0
  BY Zenon DEF Msg, NoMsg, F!Msg, F!NoMsg
<1> QED
  BY <1>1, Zenon DEF DriverInv, TableInv, CopyInv, RowInv, SameRequest

\* A step leaves the pending rows, their groups and references alone.
IsPendingRow(m) == rows[m] # NoRow /\ rows[m].mls = "Pending"
PendingSame ==
  \A m \in Msg : /\ IsPendingRow(m)' <=> IsPendingRow(m)
                 /\ IsPendingRow(m) => /\ rows'[m].group = rows[m].group
                                       /\ rows'[m].ref = rows[m].ref

\* Pending rows that are kept keep their references.
LEMMA PendingRowsSame ==
  ASSUME PendingSame, NEW g
  PROVE  PendingRows(g)' = PendingRows(g) /\ \A m \in PendingRows(g) : rows'[m].ref = rows[m].ref
BY Zenon DEF PendingSame, IsPendingRow, PendingRows, F!HasRow, Msg, F!Msg

\* Writing the row that is driven, with its group, reference and MLS state.
LEMMA WriteSame ==
  ASSUME DriverInv, cur \in Msg, rows[cur] # NoRow, NEW f \in F!FanoutType(Group),
         f.group = rows[cur].group, f.mls = rows[cur].mls, f.ref = rows[cur].ref,
         rows' = [rows EXCEPT ![cur] = f]
  PROVE  PendingSame /\ rows'[cur].group = rows[cur].group
<1>1. rows \in [Msg -> F!FanoutType(Group) \cup {NoRow}]
  BY DriverFacts, Zenon
<1>2. f # NoRow
  BY NoRowAssumption, Zenon
<1> QED
  BY <1>1, <1>2, Zenon DEF PendingSame, IsPendingRow

\* Deleting a row that is not pending.
LEMMA DeleteSame ==
  ASSUME DriverInv, NEW m \in Msg, rows[m].mls # "Pending",
         rows' = [rows EXCEPT ![m] = NoRow]
  PROVE  PendingSame
<1>1. rows \in [Msg -> F!FanoutType(Group) \cup {NoRow}]
  BY DriverFacts, Zenon
<1> QED
  BY <1>1, Zenon DEF PendingSame, IsPendingRow

\* The record operations of the driver that leave the MLS part of a row alone.
LEMMA RecordFacts ==
  ASSUME NEW f \in F!FanoutType(Group), NEW due \in SUBSET Target
  PROVE  /\ F!MarkAttemptStarted(f, due) \in F!FanoutType(Group)
         /\ F!MarkAttemptStarted(f, due).group = f.group
         /\ F!MarkAttemptStarted(f, due).mls = f.mls
         /\ F!MarkAttemptStarted(f, due).ref = f.ref
         /\ F!MarkWelcomesReleased(f) \in F!FanoutType(Group)
         /\ F!MarkWelcomesReleased(f).group = f.group
         /\ F!MarkWelcomesReleased(f).mls = f.mls
         /\ F!MarkWelcomesReleased(f).ref = f.ref
BY Zenon DEF F!MarkAttemptStarted, F!MarkWelcomesReleased, F!FanoutType, F!TargetStatus

QuietDrive ==
  \/ F!NothingToResolve
  \/ F!PublishWelcomes \/ F!PutWelcomesReleased \/ F!NoWelcomes
  \/ \E due \in SUBSET Target : F!StartAttempts(due)
  \/ F!NothingDue
  \/ \E t \in Target : \/ F!AnswerAccepted(t)
                       \/ \E kind \in F!FailureKind : F!AnswerFailed(t, kind)
  \/ F!PutResults \/ F!FinishDrive

\* What such a step of the driver leaves alone.
LEMMA QuietDriveFacts ==
  ASSUME DriverInv, QuietDrive
  PROVE  /\ F!Next /\ next' = next /\ PendingSame /\ phase # "idle"
         /\ phase' # "idle" => cur' = cur /\ rows'[cur].group = rows[cur].group
         /\ \A m \in Msg : relay[m] \subseteq relay'[m]
<1>0. F!Next
  BY Zenon DEF QuietDrive, F!Next, F!DriveStep
<1>1. phase # "idle" /\ next' = next
  BY Zenon DEF QuietDrive, F!NothingToResolve, F!PublishWelcomes, F!PutWelcomesReleased,
         F!NoWelcomes, F!StartAttempts, F!NothingDue, F!AnswerAccepted, F!AnswerFailed,
         F!PutResults, F!FinishDrive, F!durable
<1>2. /\ cur \in Msg /\ rows[cur] # NoRow /\ copy \in F!FanoutType(Group)
      /\ copy.group = rows[cur].group /\ copy.mls = rows[cur].mls
      /\ copy.ref = rows[cur].ref
      /\ phase # "publishing" => copy = rows[cur]
      /\ relay \in [Msg -> SUBSET Target]
  BY <1>1, DriverFacts, Zenon
<1>3. CASE \/ F!NothingToResolve \/ F!PublishWelcomes \/ F!NoWelcomes \/ F!NothingDue
           \/ \E t \in Target : \/ F!AnswerAccepted(t)
                                \/ \E kind \in F!FailureKind : F!AnswerFailed(t, kind)
  <2>1. rows' = rows /\ cur' = cur
    BY <1>3, Zenon DEF F!NothingToResolve, F!PublishWelcomes, F!NoWelcomes, F!NothingDue,
                F!AnswerAccepted, F!AnswerFailed, F!durable, F!GoTo
  <2>2. \A m \in Msg : relay[m] \subseteq relay'[m]
    BY <1>2, <1>3, Zenon DEF F!NothingToResolve, F!PublishWelcomes, F!NoWelcomes, F!NothingDue,
                F!AnswerAccepted, F!AnswerFailed, F!network
  <2> QED
    BY <1>0, <1>1, <2>1, <2>2, Zenon DEF PendingSame, IsPendingRow
<1>4. CASE F!PutWelcomesReleased
  <2>1. /\ rows' = [rows EXCEPT ![cur] = F!MarkWelcomesReleased(copy)]
        /\ cur' = cur /\ relay' = relay
    BY <1>4, Zenon DEF F!PutWelcomesReleased, F!PutRow, F!network
  <2>2. /\ F!MarkWelcomesReleased(copy) \in F!FanoutType(Group)
        /\ F!MarkWelcomesReleased(copy).group = rows[cur].group
        /\ F!MarkWelcomesReleased(copy).mls = rows[cur].mls
        /\ F!MarkWelcomesReleased(copy).ref = rows[cur].ref
    BY <1>2, RecordFacts, Zenon
  <2>3. PendingSame /\ rows'[cur].group = rows[cur].group
    BY <1>2, <2>1, <2>2, WriteSame, Zenon
  <2> QED
    BY <1>0, <1>1, <2>1, <2>3, Zenon
<1>5. CASE \E due \in SUBSET Target : F!StartAttempts(due)
  <2>1. PICK due \in SUBSET Target : F!StartAttempts(due)
    BY <1>5, Zenon
  <2>2. /\ rows' = [rows EXCEPT ![cur] = F!MarkAttemptStarted(copy, due)]
        /\ cur' = cur /\ relay' = relay
    BY <2>1, Zenon DEF F!StartAttempts, F!PutRow, F!network
  <2>3. /\ F!MarkAttemptStarted(copy, due) \in F!FanoutType(Group)
        /\ F!MarkAttemptStarted(copy, due).group = rows[cur].group
        /\ F!MarkAttemptStarted(copy, due).mls = rows[cur].mls
        /\ F!MarkAttemptStarted(copy, due).ref = rows[cur].ref
    BY <1>2, RecordFacts, Zenon
  <2>4. PendingSame /\ rows'[cur].group = rows[cur].group
    BY <1>2, <2>2, <2>3, WriteSame, Zenon
  <2> QED
    BY <1>0, <1>1, <2>2, <2>4, Zenon
<1>6. CASE F!PutResults
  <2>1. rows' = [rows EXCEPT ![cur] = copy] /\ cur' = cur /\ relay' = relay
    BY <1>6, Zenon DEF F!PutResults, F!PutRow, F!network, F!GoTo
  <2>2. PendingSame /\ rows'[cur].group = rows[cur].group
    BY <1>2, <2>1, WriteSame, Zenon
  <2> QED
    BY <1>0, <1>1, <2>1, <2>2, Zenon
<1>7. CASE F!FinishDrive
  <2>1. phase' = "idle" /\ relay' = relay
    BY <1>7, Zenon DEF F!FinishDrive, F!EndDrive, F!network
  <2>2. PendingSame
    <3>1. CASE F!Retirable(copy)
      <4>1. rows' = [rows EXCEPT ![cur] = NoRow] /\ rows[cur].mls # "Pending"
        BY <1>2, <1>7, <3>1, Zenon DEF F!FinishDrive, F!Retirable
      <4> QED
        BY <1>2, <4>1, DeleteSame, Zenon
    <3>2. CASE ~F!Retirable(copy)
      BY <1>7, <3>2, Zenon DEF F!FinishDrive, PendingSame, IsPendingRow
    <3> QED
      BY <3>1, <3>2, Zenon
  <2> QED
    BY <1>0, <1>1, <2>1, <2>2, Zenon
<1> QED
  BY <1>3, <1>4, <1>5, <1>6, <1>7, Zenon DEF QuietDrive

-----------------------------------------------------------------------------
(* What a step leaves alone. *)

\* The commit attached to h, its record and its Welcomes are kept.
KeepsStaged(h) ==
  /\ staged'[h] = staged[h] /\ tip'[h] = tip[h] /\ record'[h] = record[h]
  /\ (h \in drift') <=> (h \in drift)
  /\ minted' \in Nat /\ minted <= minted'
  /\ staged[h] # NoMsg => /\ staged[h] \notin merged'
                          /\ origin'[staged[h]] = origin[staged[h]]
                          /\ welcome'[staged[h]] \in {"none", "staged"}

\* The entry of h in memory and its reference are kept.
KeepsEntry(h) ==
  /\ states'[h] = states[h] /\ ((h \in live') <=> (h \in live))
  /\ removal \subseteq removal'
  /\ IsPublishing(h) => /\ states[h].ref \in DOMAIN pending'
                        /\ pending'[states[h].ref] = pending[states[h].ref]

\* No row of h becomes pending, and no input arrives.
KeepsRows(h) ==
  /\ PendingRows(h)' \subseteq PendingRows(h)
  /\ \A m \in PendingRows(h)' : rows'[m].ref = rows[m].ref
  /\ (h \in input') => (h \in input)

\* The attached commit of a group that is not touched.
LEMMA StagedFrame ==
  ASSUME NEW h \in Group, Shape, StagedOK(h), KeepsStaged(h), Msg = 1..MaxMsg, NoMsg = 0
  PROVE  StagedOK(h)'
<1>1. staged[h] \in Nat /\ minted \in Nat
  BY BoundsAssumption DEF Shape
<1>2. NoMsg' = NoMsg
  BY Zenon DEF NoMsg, F!NoMsg
<1> QED
  BY <1>1, <1>2, BoundsAssumption DEF StagedOK, KeepsStaged

\* A group that a step does not touch keeps its part of the invariant.
LEMMA GroupFrame ==
  ASSUME NEW h \in Group, Core, KeepsStaged(h), KeepsEntry(h), KeepsRows(h)
  PROVE  GroupOK(h)'
<1>0. Msg = 1..MaxMsg /\ NoMsg = 0
  BY DriverFacts, Zenon DEF Core
<1>1. GroupOK(h) /\ Shape
  BY Zenon DEF Core
<1>2. StagedOK(h)'
  BY <1>0, <1>1, StagedFrame, Zenon DEF GroupOK
<1>3. EntryOK(h)'
  BY <1>0, <1>1, Zenon DEF GroupOK, EntryOK, KeepsStaged, KeepsEntry, KeepsRows, IsPublishing, IsStable,
                    NoMsg, F!NoMsg
<1>4. RowsMatch(h)'
  BY <1>1, ZenonT(30) DEF GroupOK, RowsMatch, KeepsStaged, KeepsEntry, KeepsRows, IsPublishing
<1> QED
  BY <1>2, <1>3, <1>4, Zenon DEF GroupOK

\* After a process death no group has an entry.
LEMMA ResetFrame ==
  ASSUME NEW h \in Group, Core, EMReset, live' = {}, StagedOK(h)',
         KeepsRows(h), PendingRows(h) # {} => staged'[h] = staged[h]
  PROVE  GroupOK(h)'
<1>1. GroupOK(h)
  BY Zenon DEF Core
<1>2. states'[h] = NoEntry
  BY Zenon DEF EMReset
<1>3. EntryOK(h)'
  BY <1>2, SMTT(30) DEF EntryOK, IsPublishing, IsStable, NoEntry
<1>4. RowsMatch(h)'
  BY <1>1, Zenon DEF GroupOK, RowsMatch, KeepsRows
<1> QED
  BY <1>3, <1>4, Zenon DEF GroupOK

\* Whose commit is attached where, and what a row says of its group.
LEMMA GroupFacts ==
  ASSUME Core, NEW g \in Group
  PROVE  /\ states[g].name \in {"NoEntry", "Stable", "PendingPublish"}
         /\ staged[g] \in Msg \cup {NoMsg} /\ NoMsg \notin Msg
         /\ \A h \in Group : h # g /\ staged[g] # NoMsg => staged[h] # staged[g]
         /\ IsStable(g) => PendingRows(g) = {}
         /\ staged[g] = NoMsg => PendingRows(g) = {}
         /\ PendingRows(g) \subseteq {staged[g]}
         /\ g \in input => PendingRows(g) = {}
<1>0. Msg = 1..MaxMsg /\ NoMsg = 0
  BY DriverFacts, Zenon DEF Core
<1>1. NoMsg \notin Msg /\ staged[g] \in Msg \cup {NoMsg}
  BY <1>0, BoundsAssumption DEF Core, Shape
<1>2. \A h \in Group : EntryOK(h) /\ StagedOK(h) /\ RowsMatch(h)
  BY Zenon DEF Core, GroupOK
<1>3. \A h \in Group : h # g /\ staged[g] # NoMsg => staged[h] # staged[g]
  <2> SUFFICES ASSUME NEW h \in Group, staged[g] # NoMsg, staged[h] = staged[g]
               PROVE  h = g
    BY Zenon
  <2>1. /\ origin[staged[g]] = [group |-> g, epoch |-> tip[g]]
        /\ origin[staged[g]] = [group |-> h, epoch |-> tip[h]]
    BY <1>2, Zenon DEF StagedOK
  <2>2. origin[staged[g]].group = g /\ origin[staged[g]].group = h
    BY <2>1
  <2> QED
    BY <2>2, Zenon
<1>4. PendingRows(g) \subseteq Msg
  BY Zenon DEF PendingRows, Msg
<1>5. EntryOK(g) /\ RowsMatch(g)
  BY <1>2, Zenon
<1>6. IsStable(g) => PendingRows(g) = {}
  BY <1>5, Zenon DEF EntryOK, RowsMatch, IsStable, IsPublishing
<1>7. states[g].name \in {"NoEntry", "Stable", "PendingPublish"}
  BY <1>5, Zenon DEF EntryOK
<1>8. /\ staged[g] = NoMsg => PendingRows(g) = {}
      /\ PendingRows(g) \subseteq {staged[g]}
      /\ g \in input => PendingRows(g) = {}
  BY <1>1, <1>4, <1>5, Zenon DEF RowsMatch
<1> QED
  BY <1>1, <1>3, <1>6, <1>7, <1>8, Zenon

\* What is known of an attached commit.
LEMMA Attached ==
  ASSUME Core, NEW h \in Group, staged[h] # NoMsg
  PROVE  /\ staged[h] \in Msg /\ staged[h] <= minted /\ staged[h] \notin merged
         /\ origin[staged[h]] = [group |-> h, epoch |-> tip[h]]
         /\ welcome[staged[h]] \in {"none", "staged"}
<1>1. StagedOK(h)
  BY Zenon DEF Core, GroupOK
<1> QED
  BY <1>1, GroupFacts, Zenon DEF StagedOK

\* A step that does not write the table.
LEMMA RowsKept ==
  ASSUME UNCHANGED fanoutVars \/ UNCHANGED rows
  PROVE  PendingSame /\ \A h : KeepsRows(h) <=> (h \in input' => h \in input)
<1>1. rows' = rows
  BY Zenon DEF fanoutVars
<1> QED
  BY <1>1, Zenon DEF PendingSame, IsPendingRow, KeepsRows, PendingRows, F!HasRow


\* A step of the driver that calls nothing in the engine.
LEMMA QuietOK ==
  ASSUME Core, F!Next \/ UNCHANGED fanoutVars, UNCHANGED <<emVars, engineVars, lifeVars>>,
         PendingSame, next' = next, \A m \in Msg : relay[m] \subseteq relay'[m],
         phase' # "idle" => /\ outbox = NoWork /\ rows'[cur'].group \in live
                            /\ ~Deferred => live = Group
  PROVE  Core'
<1>0. /\ UNCHANGED <<states, pending, counter>>
      /\ UNCHANGED <<tip, staged, record, welcome, merged, input, held, drift>>
      /\ UNCHANGED <<live, outbox, minted, origin, removal, aborted, clash>>
  BY ZenonT(30) DEF emVars, engineVars, lifeVars, madeVars
<1>1. DriverInv /\ Shape
  BY Zenon DEF Core
<1>2. DriverInv'
  BY <1>1, DriverStep, Zenon
<1>3. Msg' = Msg /\ NoMsg' = NoMsg /\ NoWork' = NoWork
  BY Zenon DEF Msg, F!Msg, NoMsg, F!NoMsg, NoWork
<1>4. Shape'
  BY <1>0, <1>1, <1>3, Zenon DEF Shape
<1>5. \A g : PendingRows(g)' = PendingRows(g) /\ \A m \in PendingRows(g) : rows'[m].ref = rows[m].ref
  BY PendingRowsSame, Zenon
<1>6. ASSUME NEW g \in Group PROVE GroupOK(g)'
  <2>1. staged[g] # NoMsg => /\ staged[g] \notin merged
                             /\ welcome[staged[g]] \in {"none", "staged"}
    BY Zenon DEF Core, GroupOK, StagedOK
  <2>2. IsPublishing(g) => states[g].ref \in DOMAIN pending
    BY Zenon DEF Core, GroupOK, EntryOK
  <2>3. minted \in Nat
    BY <1>1, BoundsAssumption, SMTT(30) DEF Shape
  <2>4. KeepsStaged(g)
    <3>1. staged' = staged /\ tip' = tip /\ record' = record /\ drift' = drift
      BY <1>0, ZenonT(30)
    <3>2. minted' = minted /\ merged' = merged /\ origin' = origin /\ welcome' = welcome
      BY <1>0, Zenon
    <3>3. minted' \in Nat /\ minted <= minted'
      BY <2>3, <3>2
    <3> QED
      BY <2>1, <3>1, <3>2, <3>3, Zenon DEF KeepsStaged
  <2>5. KeepsEntry(g)
    BY <1>0, <2>2, Zenon DEF KeepsEntry
  <2>6. KeepsRows(g)
    BY <1>0, <1>5, Zenon DEF KeepsRows
  <2> QED
    BY <2>4, <2>5, <2>6, GroupFrame, Zenon
<1>7. RefsOK'
  BY <1>0, Zenon DEF Core, RefsOK, IsPublishing
<1>8. OutboxOK'
  BY <1>0, <1>3, Zenon DEF Core, OutboxOK, IsPublishing
<1>9. DriverOK'
  BY <1>0, <1>3, Zenon DEF Core, DriverOK
<1>10. MintedOK'
  BY <1>0, <1>3, Zenon DEF Core, MintedOK
<1>11. EagerOK'
  BY <1>0, <1>5, SMTT(30) DEF Core, EagerOK
<1>12. WelcomeTracksCommit'
  BY <1>0, <1>3, Zenon DEF Core, WelcomeTracksCommit
<1>13. MergedIsHeldByRelay'
  BY <1>0, <1>1, Zenon DEF Core, MergedIsHeldByRelay, Shape
<1> QED
  BY <1>2, <1>4, <1>6, <1>7, <1>8, <1>9, <1>10, <1>11, <1>12, <1>13, Zenon DEF Core

\* transition_staged_invite_welcomes.
LEMMA SettleFacts ==
  ASSUME Core, NEW g \in Group, NEW own \in {"sent", "failed"}, SettleWelcomes(g, own)
  PROVE  /\ welcome' \in [Msg -> {"none", "staged", "sent", "failed"}]
         /\ \A m \in Msg :
              /\ welcome[m] # "staged" => welcome'[m] = welcome[m]
              /\ welcome[m] = "staged" => \/ welcome'[m] \in {"staged", "failed"}
                                          \/ m = staged[g] /\ welcome'[m] = own
         /\ staged[g] # NoMsg /\ welcome[staged[g]] = "staged" => welcome'[staged[g]] = own
         /\ \A h \in Group : h # g /\ staged[h] # NoMsg =>
              welcome'[staged[h]] = welcome[staged[h]]
<1>1. welcome \in [Msg -> {"none", "staged", "sent", "failed"}]
  BY Zenon DEF Core, Shape
<1>2. \A h \in Group : staged[h] # NoMsg =>
        staged[h] \in Msg /\ origin[staged[h]] = [group |-> h, epoch |-> tip[h]]
  BY GroupFacts, Zenon DEF Core, GroupOK, StagedOK
<1>3. \A m \in Msg : welcome'[m] =
        IF staged[g] # NoMsg /\ welcome[m] = "staged"
           /\ origin[m] = [group |-> g, epoch |-> tip[g]]
        THEN IF m = staged[g] THEN own ELSE "failed"
        ELSE welcome[m]
  BY Zenon DEF SettleWelcomes
<1>4. welcome' \in [Msg -> {"none", "staged", "sent", "failed"}]
  BY <1>1, Zenon DEF SettleWelcomes
<1>5. ASSUME NEW h \in Group, h # g, staged[h] # NoMsg
      PROVE  welcome'[staged[h]] = welcome[staged[h]]
  <2>0. origin[staged[h]] = [group |-> h, epoch |-> tip[h]]
    BY <1>2, <1>5, Zenon
  <2>1. origin[staged[h]].group = h
    BY <2>0
  <2>2. origin[staged[h]] # [group |-> g, epoch |-> tip[g]]
    BY <2>1, <1>5, SMTT(30)
  <2> QED
    BY <1>2, <1>3, <1>5, <2>2, Zenon
<1>6. staged[g] # NoMsg /\ welcome[staged[g]] = "staged" => welcome'[staged[g]] = own
  BY <1>2, <1>3, Zenon
<1>7. ASSUME NEW m \in Msg
      PROVE  /\ welcome[m] # "staged" => welcome'[m] = welcome[m]
             /\ welcome[m] = "staged" => \/ welcome'[m] \in {"staged", "failed"}
                                         \/ m = staged[g] /\ welcome'[m] = own
  BY <1>3, Zenon
<1> QED
  BY <1>4, <1>5, <1>6, <1>7, Zenon

-----------------------------------------------------------------------------
(* Steps of the driver alone. *)

\* The driver writes a row or waits for a relay.
LEMMA DriveAloneOK ==
  ASSUME Core, DriveAlone
  PROVE  Core'
<1>1. QuietDrive /\ UNCHANGED <<emVars, engineVars, lifeVars>>
  BY Zenon DEF DriveAlone, QuietDrive
<1>2. /\ F!Next /\ next' = next /\ PendingSame /\ phase # "idle"
      /\ phase' # "idle" => cur' = cur /\ rows'[cur].group = rows[cur].group
      /\ \A m \in Msg : relay[m] \subseteq relay'[m]
  BY <1>1, QuietDriveFacts, Zenon DEF Core
<1>3. phase' # "idle" => /\ outbox = NoWork /\ rows'[cur'].group \in live
                         /\ ~Deferred => live = Group
  BY <1>2, Zenon DEF Core, DriverOK
<1> QED
  BY <1>1, <1>2, <1>3, QuietOK, Zenon

\* The drain takes up a row.
LEMMA ResumeOK ==
  ASSUME Core, NEW m \in Msg, Resume(m)
  PROVE  Core'
<1>0. /\ phase = "idle" /\ outbox = NoWork /\ (Deferred \/ live = Group)
      /\ rows[m].group \in live /\ UNCHANGED <<emVars, engineVars, lifeVars>>
  BY Zenon DEF Resume, Ready
<1>1. DriverInv /\ Msg = F!Msg
  BY Zenon DEF Core, Msg
<1>2. F!Next
  BY <1>1, Zenon DEF Resume, F!Next
<1>3. CASE F!ResumeFanout(m)
  <2>1. rows' = rows /\ next' = next /\ relay' = relay /\ cur' = m
    BY <1>3, Zenon DEF F!ResumeFanout, F!StartDrive, F!durable, F!network
  <2>2. PendingSame
    BY <2>1, Zenon DEF PendingSame, IsPendingRow
  <2>3. rows'[cur'].group \in live /\ outbox = NoWork /\ (~Deferred => live = Group)
    BY <1>0, <2>1, Zenon
  <2>4. \A k \in Msg : relay[k] \subseteq relay'[k]
    BY <2>1, Zenon
  <2> QED
    BY <1>0, <1>2, <2>1, <2>2, <2>3, <2>4, QuietOK, Zenon
<1>4. CASE F!RetireFanout(m)
  <2>1. /\ rows' = [rows EXCEPT ![m] = NoRow] /\ rows[m].mls # "Pending"
        /\ next' = next /\ relay' = relay /\ phase' = phase
    BY <1>4, Zenon DEF F!RetireFanout, F!Retirable, F!drive, F!network
  <2>2. PendingSame
    BY <1>1, <2>1, DeleteSame, Zenon
  <2>4. \A k \in Msg : relay[k] \subseteq relay'[k]
    BY <2>1, Zenon
  <2> QED
    BY <1>0, <1>2, <2>1, <2>2, <2>4, QuietOK, Zenon
<1> QED
  BY <1>3, <1>4, Zenon DEF Resume

\* A call of the driver fails.
LEMMA CallFailsOK ==
  ASSUME Core, CallFails
  PROVE  Core'
<1>1. UNCHANGED <<emVars, engineVars, lifeVars>> /\ F!CallFails /\ F!Next
  BY Zenon DEF CallFails, F!Next
<1>2. rows' = rows /\ next' = next /\ relay' = relay /\ phase' = "idle"
  BY <1>1, Zenon DEF F!CallFails, F!EndDrive, F!durable, F!network
<1>3. PendingSame /\ \A k \in Msg : relay[k] \subseteq relay'[k]
  BY <1>2, Zenon DEF PendingSame, IsPendingRow
<1> QED
  BY <1>1, <1>2, <1>3, QuietOK, Zenon

\* An earlier attempt reaches its relay late.
LEMMA LateArrivalOK ==
  ASSUME Core, LateArrival
  PROVE  Core'
<1>0. DriverInv /\ Msg = F!Msg /\ relay \in [Msg -> SUBSET Target]
  BY DriverFacts, Zenon DEF Core, Msg
<1>1. PICK m \in Msg, t \in Target : F!LateArrival(m, t)
  BY Zenon DEF LateArrival
<1>2. UNCHANGED <<emVars, engineVars, lifeVars>> /\ F!Next
  BY <1>0, <1>1, Zenon DEF LateArrival, F!Next
<1>3. /\ rows' = rows /\ next' = next /\ phase' = phase /\ cur' = cur
      /\ relay' = [relay EXCEPT ![m] = @ \cup {t}]
  BY <1>1, Zenon DEF F!LateArrival, F!durable, F!drive
<1>4. PendingSame /\ \A k \in Msg : relay[k] \subseteq relay'[k]
  BY <1>0, <1>3, Zenon DEF PendingSame, IsPendingRow
<1>5. phase' # "idle" => /\ outbox = NoWork /\ rows'[cur'].group \in live
                         /\ ~Deferred => live = Group
  BY <1>3, Zenon DEF Core, DriverOK
<1> QED
  BY <1>2, <1>3, <1>4, <1>5, QuietOK, Zenon
=============================================================================
