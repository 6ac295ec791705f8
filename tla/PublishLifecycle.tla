--------------------------- MODULE PublishLifecycle ---------------------------
(***************************************************************************)
(* Publish before apply, over several groups, crashes and restarts: the    *)
(* engine (EpochManager in memory, the MLS group and its staged commit,    *)
(* the group record and the staged Welcomes on disk) composed with the     *)
(* fanout driver of FanoutDelivery.                                        *)
(*                                                                         *)
(* Code: cgka-engine/src/message_processor/send.rs (staging a commit) and  *)
(* ingest.rs (auto-commits, retained input), publish.rs (confirm and       *)
(* rollback), pending_commit_guard.rs, engine.rs (per-group hydration      *)
(* after a restart), marmot-account/src/runtime.rs.                        *)
(*                                                                         *)
(* An engine call runs to its end inside one drive step of the runtime, so *)
(* nothing but a crash separates the driver's step from the engine's.      *)
(***************************************************************************)
EXTENDS EpochManager, FiniteSets

CONSTANTS Target, NoRow, MaxMsg, MaxRef, MaxCrashes, MaxFailures,
          MaxEpoch,   \* bound: commits of peers applied on top of ours
          Deferred    \* SessionConfig::defer_group_hydration

VARIABLES
  rows, next, phase, cur, copy, wait, round, relay, loose,
  lost, fate, released, crashes, failures,  \* FanoutDelivery
  live,     \* volatile: groups hydrated in this session
  outbox,   \* volatile: a send result the runtime has yet to stage, or NoWork
  minted,   \* commits created so far (their message ids)
  tip,      \* durable: MLS epoch of each group
  staged,   \* durable: the pending commit attached to the MLS group
  origin,   \* durable: group and source epoch of each commit, or NoOrigin
  removal,  \* commits that remove a member
  aborted,  \* history: commits whose send failed after its Welcomes were stored
  clash,    \* history: hydration restored a reference that was in use
  record,   \* durable: the group record (its epoch; it mirrors the members)
  welcome,  \* durable: state of each commit's Welcome record
  merged,   \* history: own commits merged into the MLS group
  input,    \* durable: groups with unresolved convergence input
  held,     \* durable: groups with raw input retained during a publication
  drift     \* history: the record was left projected after a restart

F == INSTANCE FanoutDelivery

\* The bounds are numbers, and the absent row is no row of the outbound table.
ASSUME BoundsAssumption ==
  /\ MaxMsg \in Nat /\ MaxRef \in Nat /\ MaxCrashes \in Nat
  /\ MaxFailures \in Nat /\ MaxEpoch \in Nat /\ Deferred \in BOOLEAN

ASSUME NoRowAssumption == NoRow \notin F!FanoutType(Group)

fanoutVars == <<rows, next, phase, cur, copy, wait, round, relay, loose,
                lost, fate, released, crashes, failures>>
engineVars == <<tip, staged, record, welcome, merged, input, held, drift>>
madeVars   == <<minted, origin, removal, aborted, clash>>
lifeVars   == <<live, outbox, madeVars>>
vars       == <<fanoutVars, emVars, engineVars, lifeVars>>

Msg == F!Msg
NoMsg == F!NoMsg
NoWork == [msg |-> NoMsg]
NoOrigin == [epoch |-> 0]

TypeOK ==
  /\ F!TypeOK
  /\ \A g \in Group :
       \/ states[g] = NoEntry
       \/ states[g] \in [name : {"Stable"}, epoch : Nat]
       \/ states[g] \in [name : {"PendingPublish"}, epoch : Nat, ref : 1..MaxRef]
  /\ DOMAIN pending \subseteq 1..MaxRef
  /\ \A r \in DOMAIN pending : pending[r] \in [group : Group, prior : Nat]
  /\ counter \in 0..MaxRef
  /\ live \in SUBSET Group
  /\ outbox = NoWork \/
     outbox \in [msg : Msg, group : Group, ref : 1..MaxRef, welcomes : BOOLEAN]
  /\ minted \in 0..MaxMsg
  /\ tip \in [Group -> Nat]
  /\ staged \in [Group -> Msg \cup {NoMsg}]
  /\ \A m \in Msg : origin[m] = NoOrigin \/ origin[m] \in [group : Group, epoch : Nat]
  /\ removal \in SUBSET Msg /\ aborted \in SUBSET Msg
  /\ clash \in BOOLEAN
  /\ record \in [Group -> [epoch : Nat, exact : BOOLEAN]]
  /\ welcome \in [Msg -> {"none", "staged", "sent", "failed"}]
  /\ merged \in SUBSET Msg
  /\ input \in SUBSET Group /\ held \in SUBSET Group
  /\ drift \in SUBSET Group

Init ==
  /\ F!Init /\ EMInit
  /\ live = {} /\ outbox = NoWork
  /\ minted = 0 /\ removal = {} /\ aborted = {} /\ clash = FALSE
  /\ origin = [m \in Msg |-> NoOrigin]
  /\ tip = [g \in Group |-> 0]
  /\ staged = [g \in Group |-> NoMsg]
  /\ record = [g \in Group |-> [epoch |-> 0, exact |-> TRUE]]
  /\ welcome = [m \in Msg |-> "none"]
  /\ merged = {} /\ input = {} /\ held = {} /\ drift = {}

\* The runtime takes new work: nothing is half done, and an eager session has
\* hydrated every group before it is handed out.
Ready == phase = "idle" /\ outbox = NoWork /\ (Deferred \/ live = Group)

(***************************************************************************)
(* Staging a commit                                                        *)
(***************************************************************************)
\* should_queue_outbound_intent: only a stable group with settled input sends.
Preflight(g) == IsStable(g) /\ g \notin input

\* A commit can be built: the preflight settled the group's convergence input
\* and no other commit is attached to the MLS group.
MayCommit(g) ==
  /\ Ready /\ g \in live /\ Preflight(g) /\ staged[g] = NoMsg
  /\ minted < MaxMsg

\* Building it: a new message id, the commit attached, its Welcomes recorded.
MakeCommit(g, m, removes, invites) ==
  /\ minted' = m
  /\ origin' = [origin EXCEPT ![m] = [group |-> g, epoch |-> tip[g]]]
  /\ staged' = [staged EXCEPT ![g] = m]
  /\ removal' = IF removes THEN removal \cup {m} ELSE removal
  /\ welcome' = IF invites THEN [welcome EXCEPT ![m] = "staged"] ELSE welcome

\* Tracking it: the pending publication begins, the runtime gets the work.
TrackCommit(g, m, invites) ==
  /\ NextPendingRef <= MaxRef
  /\ BeginPending(g, tip[g], tip[g] + 1, NextPendingRef)
  /\ counter' = NextPendingRef
  /\ outbox' = [msg |-> m, group |-> g, ref |-> NextPendingRef,
                welcomes |-> invites]

\* do_send_invite, do_send_remove_members, ...: the record shows the members
\* after the commit, its epoch stays.
SendCommit(g, removes, invites) ==
  /\ MayCommit(g) /\ ~(removes /\ invites)
  /\ MakeCommit(g, minted + 1, removes, invites)
  /\ TrackCommit(g, minted + 1, invites)
  /\ record' = [record EXCEPT ![g].exact = FALSE]
  /\ UNCHANGED <<fanoutVars, live, aborted, clash, tip, merged, input, held,
                 drift>>

\* stage_due_self_remove_auto_commit: commit the proposals of leaving members.
\* It needs an exact record epoch, and moves the record to the next epoch.
AutoCommit(g) ==
  /\ MayCommit(g) /\ record[g].epoch = tip[g]
  /\ MakeCommit(g, minted + 1, TRUE, FALSE)
  /\ TrackCommit(g, minted + 1, FALSE)
  /\ record' = [record EXCEPT ![g] = [epoch |-> tip[g] + 1, exact |-> FALSE]]
  /\ UNCHANGED <<fanoutVars, live, aborted, clash, tip, merged, input, held,
                 drift>>

\* Writing that record fails: the publication is unwound in memory, the guard
\* clears the commit, and only the reference is used up.
AutoCommitFails(g) ==
  /\ MayCommit(g) /\ record[g].epoch = tip[g] /\ F!StagingFails
  /\ NextPendingRef <= MaxRef /\ counter' = NextPendingRef
  /\ UNCHANGED <<states, pending, engineVars, lifeVars>>

\* The process dies in a send: the commit is attached, and perhaps its Welcome
\* recorded, but the record is not written.
SendCutShort(g, removes, invites) ==
  /\ MayCommit(g) /\ ~(removes /\ invites)
  /\ F!Crash /\ EMReset /\ live' = {} /\ outbox' = NoWork
  /\ MakeCommit(g, minted + 1, removes, invites)
  /\ UNCHANGED <<aborted, clash, tip, record, merged, input, held, drift>>

\* A wrap or a write fails after a Welcome record was stored: the guard clears
\* the commit, the record stays.
SendFails(g) ==
  /\ MayCommit(g) /\ F!StagingFails
  /\ LET m == minted + 1
     IN  /\ minted' = m /\ aborted' = aborted \cup {m}
         /\ origin' = [origin EXCEPT ![m] = [group |-> g, epoch |-> tip[g]]]
         /\ welcome' = [welcome EXCEPT ![m] = "staged"]
  /\ UNCHANGED <<emVars, live, outbox, removal, clash, tip, staged, record, merged,
                 input, held, drift>>

\* OpenMLS refuses a second commit while one is attached; the cleanup guard of
\* the failed send clears the attached one.
SendRefused(g) ==
  /\ Ready /\ g \in live /\ Preflight(g) /\ staged[g] # NoMsg
  /\ staged' = [staged EXCEPT ![g] = NoMsg]
  /\ UNCHANGED <<fanoutVars, emVars, lifeVars, tip, record, welcome, merged,
                 input, held, drift>>

\* The runtime freezes the fanout of the commit it was handed.
StageOutbox ==
  /\ outbox # NoWork
  /\ F!StageFanout(outbox.msg, outbox.group, outbox.ref, FALSE, outbox.welcomes)
  /\ outbox' = NoWork
  /\ UNCHANGED <<emVars, engineVars, live, madeVars>>

(***************************************************************************)
(* Confirm and roll back                                                   *)
(***************************************************************************)
\* Mutant: the commit a Welcome belongs to is not looked at.
SettleWelcomesByEpoch(g, own) ==
  welcome' = [m \in Msg |->
    IF welcome[m] = "staged" /\ origin[m] = [group |-> g, epoch |-> tip[g]]
    THEN own ELSE welcome[m]]

\* transition_staged_invite_welcomes: the staged records of this source epoch
\* are settled, those of the attached commit as told, stale ones as failed.
SettleWelcomes(g, own) ==
  welcome' = [m \in Msg |->
    IF staged[g] # NoMsg /\ welcome[m] = "staged"
       /\ origin[m] = [group |-> g, epoch |-> tip[g]]
    THEN IF m = staged[g] THEN own ELSE "failed"
    ELSE welcome[m]]

\* The record is derived from the MLS group again.
Mirror(g, e) ==
  /\ record' = [record EXCEPT ![g] = [epoch |-> e, exact |-> TRUE]]
  /\ drift' = drift \ {g}

\* The durable half of do_confirm_published: merge what is attached, promote
\* exactly its Welcomes, mirror the record.
EngineMerge(g) ==
  /\ tip' = IF staged[g] = NoMsg THEN tip ELSE [tip EXCEPT ![g] = @ + 1]
  /\ merged' = merged \cup ({staged[g]} \ {NoMsg})
  /\ SettleWelcomes(g, "sent")
  /\ staged' = [staged EXCEPT ![g] = NoMsg]
  /\ Mirror(g, tip'[g])

\* Mutant: the record keeps the members of the dropped commit.
EngineClearKeepRecord(g) ==
  /\ SettleWelcomes(g, "failed")
  /\ staged' = [staged EXCEPT ![g] = NoMsg]
  /\ drift' = drift \ {g}
  /\ UNCHANGED <<tip, merged, record>>

\* The durable half of do_publish_failed, and of clearing a stranded commit at
\* hydration: drop the staged commit, retire its Welcomes, re-derive the record.
EngineClear(g) ==
  /\ SettleWelcomes(g, "failed")
  /\ staged' = [staged EXCEPT ![g] = NoMsg]
  /\ Mirror(g, tip[g])
  /\ UNCHANGED <<tip, merged>>

\* replay_buffered_messages: the raw input retained meanwhile is ingested.
Replay(g) == input' = input \cup ({g} \cap held) /\ held' = held \ {g}

ConfirmPublished ==
  /\ F!ConfirmPublished
  /\ ConfirmPublish(copy.ref) /\ EngineMerge(GroupForPending(copy.ref))
  /\ Replay(GroupForPending(copy.ref))
  /\ UNCHANGED lifeVars

\* The transaction commits and the snapshot after it fails: the in-memory
\* transition and the replay are not reached.
ConfirmThenSnapshotFails ==
  /\ F!ConfirmThenFails
  /\ copy.ref \in DOMAIN pending /\ EngineMerge(GroupForPending(copy.ref))
  /\ UNCHANGED <<emVars, lifeVars, input, held>>

\* Only the replay fails.
ConfirmThenReplayFails ==
  /\ F!ConfirmThenFails
  /\ ConfirmPublish(copy.ref) /\ EngineMerge(GroupForPending(copy.ref))
  /\ UNCHANGED <<lifeVars, input, held>>

PublishFailed ==
  /\ F!PublishFailed
  /\ RollbackPublish(copy.ref) /\ EngineClear(GroupForPending(copy.ref))
  /\ Replay(GroupForPending(copy.ref))
  /\ UNCHANGED lifeVars

PublishFailedThenReplayFails ==
  /\ F!PublishFailedThenFails
  /\ RollbackPublish(copy.ref) /\ EngineClear(GroupForPending(copy.ref))
  /\ UNCHANGED <<lifeVars, input, held>>

\* Mutant: the drive ends although the engine knows the reference.
UnknownPendingAlways ==
  /\ phase = "resolve"
  /\ F!MlsConfirmationRequired(copy) \/ F!RollbackDue(copy)
  /\ F!EndDrive
  /\ UNCHANGED <<rows, next, relay, loose, lost, fate, released, crashes, failures>>
  /\ UNCHANGED <<emVars, engineVars, lifeVars>>

\* The engine does not know the reference of the row: the drive ends.
UnknownPending ==
  /\ phase = "resolve"
  /\ F!MlsConfirmationRequired(copy) \/ F!RollbackDue(copy)
  /\ copy.ref \notin DOMAIN pending
  /\ F!EndDrive
  /\ UNCHANGED <<rows, next, relay, loose, lost, fate, released, crashes, failures>>
  /\ UNCHANGED <<emVars, engineVars, lifeVars>>

\* rollback_unstaged_pending: no row was written, the publication is undone.
StagingFails ==
  /\ outbox # NoWork /\ F!StagingFails
  /\ RollbackPublish(outbox.ref) /\ EngineClear(GroupForPending(outbox.ref))
  /\ Replay(GroupForPending(outbox.ref))
  /\ outbox' = NoWork
  /\ UNCHANGED <<live, madeVars>>

\* The undo fails as well: the commit stays pending without a row.
StagingAndUndoFail ==
  /\ outbox # NoWork /\ F!StagingFails
  /\ outbox' = NoWork
  /\ UNCHANGED <<emVars, engineVars, live, madeVars>>

(***************************************************************************)
(* Crash and hydration                                                     *)
(***************************************************************************)
Crash ==
  /\ F!Crash
  /\ EMReset /\ live' = {} /\ outbox' = NoWork
  /\ UNCHANGED <<engineVars, madeVars>>

\* Rows list_outbound_fanouts_for_group finds pending for the group.
PendingRows(g) ==
  {m \in Msg : F!HasRow(m) /\ rows[m].group = g /\ rows[m].mls = "Pending"}

HydrationDue(g) ==
  /\ phase = "idle" /\ outbox = NoWork /\ g \notin live
  /\ live' = live \cup {g}
  /\ clash' = (clash \/ \E m \in PendingRows(g) : rows[m].ref \in DOMAIN pending)
  /\ UNCHANGED <<fanoutVars, outbox, minted, origin, removal, aborted>>

\* Staged commit and pending row: the publication goes on.
HydratePending(g) ==
  /\ HydrationDue(g) /\ staged[g] # NoMsg /\ PendingRows(g) # {}
  /\ LET first == CHOOSE m \in PendingRows(g) : \A k \in PendingRows(g) : m <= k
     IN  RestorePending(g, tip[g], tip[g] + 1, rows[first].ref)
  /\ UNCHANGED engineVars

\* Mutant: the table is not consulted.
StrandedIgnoringRows(g) == staged[g] # NoMsg /\ staged[g] \notin removal

\* A staged commit without a row, that removes no member.
Stranded(g) ==
  staged[g] # NoMsg /\ staged[g] \notin removal /\ PendingRows(g) = {}

\* Nothing of it was sent: drop it.
HydrateStranded(g) ==
  /\ HydrationDue(g) /\ Stranded(g)
  /\ EngineClear(g) /\ SetStable(g, tip[g])
  /\ UNCHANGED <<input, held>>

\* The record is written after that transaction: the process can die between.
HydrateStrandedTorn(g) ==
  /\ phase = "idle" /\ g \notin live /\ Stranded(g)
  /\ F!Crash /\ EMReset /\ live' = {} /\ outbox' = NoWork
  /\ SettleWelcomes(g, "failed")
  /\ staged' = [staged EXCEPT ![g] = NoMsg]
  /\ drift' = drift \cup {g}
  /\ UNCHANGED <<madeVars, tip, record, merged, input, held>>

\* A removal without a row is left attached, its record projected.
HydrateOrphanedRemoval(g) ==
  /\ HydrationDue(g) /\ staged[g] \in removal /\ PendingRows(g) = {}
  /\ drift' = drift \cup {g}
  /\ SetStable(g, record[g].epoch)
  /\ UNCHANGED <<tip, staged, record, welcome, merged, input, held>>

HydrateStable(g) ==
  /\ HydrationDue(g) /\ staged[g] = NoMsg
  /\ SetStable(g, record[g].epoch)
  /\ UNCHANGED engineVars

(***************************************************************************)
(* The rest of the system                                                  *)
(***************************************************************************)
\* Input of a group whose publication is unresolved is retained unopened.
Ingest(g) ==
  /\ Ready /\ g \in live
  /\ IF CanIngest(g) THEN input' = input \cup {g} /\ UNCHANGED held
                     ELSE held' = held \cup {g} /\ UNCHANGED input
  /\ UNCHANGED <<fanoutVars, emVars, lifeVars, tip, staged, record, welcome,
                 merged, drift>>

\* A convergence pass settles the input, with no branch to adopt ...
SettleInput(g) ==
  /\ Ready /\ g \in live /\ g \in input
  /\ input' = input \ {g}
  /\ UNCHANGED <<fanoutVars, emVars, lifeVars, tip, staged, record, welcome,
                 merged, held, drift>>

\* ... or by adopting a peer's commit.  OpenMLS drops a staged commit then.
AdoptPeerCommit(g) ==
  /\ Ready /\ g \in live /\ g \in input /\ tip[g] < MaxEpoch
  /\ input' = input \ {g}
  /\ tip' = [tip EXCEPT ![g] = @ + 1]
  /\ staged' = [staged EXCEPT ![g] = NoMsg]
  /\ Mirror(g, tip[g] + 1)
  /\ SetStable(g, tip[g] + 1)
  /\ UNCHANGED <<fanoutVars, lifeVars, welcome, merged, held>>

\* Driver steps without an engine call.
DriveAlone ==
  /\ \/ F!NothingToResolve
     \/ F!PublishWelcomes \/ F!PutWelcomesReleased \/ F!NoWelcomes
     \/ \E due \in SUBSET Target : F!StartAttempts(due)
     \/ F!NothingDue
     \/ \E t \in Target : \/ F!AnswerAccepted(t)
                          \/ \E kind \in F!FailureKind : F!AnswerFailed(t, kind)
     \/ F!PutResults \/ F!FinishDrive
  /\ UNCHANGED <<emVars, engineVars, lifeVars>>

\* outbound_fanouts hides the rows of groups that are not hydrated.
Resume(m) ==
  /\ Ready /\ F!HasRow(m) /\ rows[m].group \in live
  /\ F!ResumeFanout(m) \/ F!RetireFanout(m)
  /\ UNCHANGED <<emVars, engineVars, lifeVars>>

CallFails == F!CallFails /\ UNCHANGED <<emVars, engineVars, lifeVars>>

LateArrival ==
  /\ \E m \in Msg, t \in Target : F!LateArrival(m, t)
  /\ UNCHANGED <<emVars, engineVars, lifeVars>>

Hydrate(g) == \/ HydratePending(g) \/ HydrateStranded(g)
              \/ HydrateOrphanedRemoval(g) \/ HydrateStable(g)

Drive == ConfirmPublished \/ PublishFailed \/ UnknownPending \/ DriveAlone

Next ==
  \/ \E g \in Group : \/ \E removes, invites \in BOOLEAN :
                            \/ SendCommit(g, removes, invites)
                            \/ SendCutShort(g, removes, invites)
                      \/ AutoCommit(g) \/ AutoCommitFails(g)
                      \/ SendFails(g) \/ SendRefused(g) \/ Ingest(g) \/ SettleInput(g)
                      \/ AdoptPeerCommit(g)
                      \/ Hydrate(g) \/ HydrateStrandedTorn(g)
  \/ StageOutbox \/ StagingFails \/ StagingAndUndoFail
  \/ Drive \/ ConfirmThenSnapshotFails \/ ConfirmThenReplayFails
  \/ PublishFailedThenReplayFails \/ CallFails
  \/ \E m \in Msg : Resume(m)
  \/ Crash \/ LateArrival

Spec == Init /\ [][Next]_vars

\* The runtime finishes what it started, a session hydrates its groups (the
\* eager open, or the background pipeline), and every drain visits each row.
FairSpec ==
  /\ Spec
  /\ WF_vars(Drive) /\ WF_vars(StageOutbox)
  /\ \A g \in Group : WF_vars(Hydrate(g))
  /\ \A m \in Msg : SF_vars(Resume(m))

(***************************************************************************)
(* Properties                                                              *)
(***************************************************************************)
\* Publish before apply: a commit of ours enters the MLS group only when a
\* relay holds it, whichever row and reference the confirmation came through.
MergedIsHeldByRelay == \A m \in merged : relay[m] # {}

\* The same as far as the reference allocator carries: it can fail only after
\* hydration restored the reference of a row that a send of this session had
\* been given.  (An eager session hydrates before it sends.)
MergedUnlessClash == MergedIsHeldByRelay \/ (Deferred /\ clash)

\* A stable entry in memory agrees with the MLS group: same epoch, and no
\* commit attached.  The exception is a removal that hydration leaves attached,
\* behind a record that an auto-commit had moved ahead.
StableMatchesMls ==
  \A g \in live : IsStable(g) =>
    /\ states[g].epoch = IF g \in drift THEN record[g].epoch ELSE tip[g]
    /\ staged[g] = NoMsg \/ staged[g] \in removal

\* An unresolved publication keeps the entry its exits need, at the epoch its
\* commit leads to (or the merged one, if the confirmation was cut short).
PublicationIsTracked ==
  \A g \in live : IsPublishing(g) =>
    /\ states[g].ref \in DOMAIN pending /\ pending[states[g].ref].group = g
    /\ states[g].epoch = IF staged[g] = NoMsg THEN tip[g] ELSE tip[g] + 1

\* A durable pending row, the commit staged in its group and the in-memory
\* publication are three views of one obligation, in every session in which no
\* restored reference met one in use.
PendingRowIsStagedCommit ==
  ~(Deferred /\ clash) => \A g \in Group : \A m \in PendingRows(g) :
    /\ staged[g] = m
    /\ g \in live => IsPublishing(g) /\ states[g].ref = rows[m].ref

\* A stable group's record shows the members of its MLS group, unless a
\* restart left the projection of an unmerged commit behind.
StableRecordIsExact ==
  \A g \in live : IsStable(g) /\ record[g] # [epoch |-> tip[g], exact |-> TRUE] =>
    g \in drift

\* What hydration says of its recovery: it clears a staged commit, "then
\* re-derive[s] the Marmot record".  (Removals are exempt there.)
RecordIsRederived ==
  removal = {} => \A g \in live : IsStable(g) => record[g].exact

\* set_stable's comment: a held publication and unresolved convergence input
\* cannot coexist, so no pass can adopt a branch under a publication.
PublicationHasNoInput ==
  \A g \in Group : IsPublishing(g) => g \notin input

\* Input retained during a publication is replayed by the time the group is
\* stable again, unless a failed call cut the publication's exit short.
RetainedInputIsReplayed ==
  failures = 0 => \A g \in live : IsStable(g) => g \notin held

\* A Welcome record is deliverable only once its own commit is merged, even if
\* a failed send left a stale record at the same epoch, and never stays staged
\* behind a publication that is over.
WelcomeTracksCommit ==
  \A m \in Msg :
    /\ welcome[m] = "sent" => m \in merged
    /\ m \in merged => welcome[m] \in {"none", "sent"}
    /\ welcome[m] = "staged" => m \in aborted \/ \E g \in Group : staged[g] = m

\* The driver publishes the Welcomes of merged commits only.
ReleasedWelcomesAreMerged == released \subseteq merged

\* The lifecycle is a behaviour of the fanout driver: what holds of
\* FanoutDelivery holds here.
RefinesFanoutDelivery == F!Spec

\* A commit with a stored acknowledgement is merged and its group returns to
\* Stable.
AcknowledgedCommitSettles ==
  \A g \in Group, m \in Msg :
    (m \in PendingRows(g) /\ F!MlsConfirmationRequired(rows[m])) ~>
      (m \in merged /\ g \in live /\ IsStable(g))
===============================================================================
