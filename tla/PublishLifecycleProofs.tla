----------------------- MODULE PublishLifecycleProofs -------------------------
(***************************************************************************)
(* Proofs about PublishLifecycle for all groups, targets and bounds.  The  *)
(* rest of the steps (hydration, staging a row, confirming, rolling back)  *)
(* keeps the invariant of LifecycleInvariant; the theorems follow.         *)
(***************************************************************************)
EXTENDS LifecycleEngineSteps

-----------------------------------------------------------------------------
(* Hydration. *)

\* What every outcome of hydration has in common.
LEMMA HydrationFacts ==
  ASSUME Core, NEW g \in Group, HydrationDue(g)
  PROVE  /\ phase = "idle" /\ outbox = NoWork /\ g \notin live /\ live' = live \cup {g}
         /\ UNCHANGED fanoutVars /\ UNCHANGED <<rows, next, phase, cur, relay>>
         /\ UNCHANGED <<outbox, minted, origin, removal, aborted>>
         /\ states[g].name = "NoEntry" /\ ~IsPublishing(g)
         /\ live \subseteq live' /\ live' \subseteq Group
         /\ \A h : PendingRows(h)' = PendingRows(h)
         /\ \A h \in Group : h \notin input' \/ h \in input => KeepsRows(h)
<1>1. /\ phase = "idle" /\ outbox = NoWork /\ g \notin live /\ live' = live \cup {g}
      /\ UNCHANGED fanoutVars /\ UNCHANGED <<outbox, minted, origin, removal, aborted>>
  BY Zenon DEF HydrationDue
<1>2. UNCHANGED <<rows, next, phase, cur, relay>>
  BY <1>1, Zenon DEF fanoutVars
<1>3. states[g].name = "NoEntry" /\ ~IsPublishing(g)
  BY <1>1, Zenon DEF Core, GroupOK, EntryOK, IsPublishing
<1>4. live \subseteq live' /\ live' \subseteq Group
  BY <1>1, Zenon DEF Core, Shape
<1>5. \A h : PendingRows(h)' = PendingRows(h)
  BY <1>2, RowsKept, PendingRowsSame, Zenon
<1>6. \A h \in Group : h \notin input' \/ h \in input => KeepsRows(h)
  BY <1>2, RowsKept, Zenon
<1> QED
  BY <1>1, <1>2, <1>3, <1>4, <1>5, <1>6, Zenon

\* An eager session restores no reference that is in use.
LEMMA NoEagerClash ==
  ASSUME Core, NEW g \in Group, HydrationDue(g), ~Deferred, ~clash
  PROVE  ~clash'
<1>1. g \notin live /\ ~IsPublishing(g)
  BY HydrationFacts, Zenon
<1>2. live # Group
  BY <1>1, Zenon
<1>3. ASSUME NEW m \in PendingRows(g), rows[m].ref \in DOMAIN pending PROVE FALSE
  <2>1. PICK k \in PendingRows(pending[rows[m].ref].group) : rows[k].ref = rows[m].ref
    BY <1>2, <1>3, Zenon DEF Core, EagerOK
  <2>2. /\ pending[rows[m].ref].group \in Group
        /\ IsPublishing(pending[rows[m].ref].group)
    BY <1>3, Zenon DEF Core, RefsOK
  <2>3. pending[rows[m].ref].group = g
    BY <2>1, <2>2 DEF Core, EagerOK
  <2> QED
    BY <1>1, <2>2, <2>3, Zenon
<1> QED
  BY <1>3, Zenon DEF HydrationDue

\* Hydration that leaves a group stable.
LEMMA HydrateStableFrame ==
  ASSUME Core, NEW g \in Group, HydrationDue(g), NEW e, SetStable(g, e),
         UNCHANGED <<merged, input>>, DiskShape', MintedOK', WelcomeTracksCommit',
         StagedOK(g)', \A h \in Group : h # g => KeepsStaged(h),
         PendingRows(g) = {}, e = (IF g \in drift' THEN record'[g].epoch ELSE tip'[g]),
         staged'[g] # NoMsg => staged'[g] \in removal /\ g \in drift'
  PROVE  Core'
<1>1. /\ phase = "idle" /\ outbox = NoWork /\ g \notin live /\ live' = live \cup {g}
      /\ UNCHANGED fanoutVars /\ UNCHANGED <<rows, next, phase, cur, relay>>
      /\ UNCHANGED <<outbox, minted, origin, removal, aborted>>
      /\ ~IsPublishing(g) /\ live \subseteq live' /\ live' \subseteq Group
      /\ PendingRows(g)' = PendingRows(g) /\ \A h \in Group : KeepsRows(h)
  BY HydrationFacts, Zenon
<1>2. states' = [states EXCEPT ![g] = Stable(e)] /\ UNCHANGED <<pending, counter>>
  BY <1>1, Zenon DEF SetStable
<1>3. states = [h \in Group |-> states[h]] /\ counter \in Nat
  BY Zenon DEF Core, Shape
<1>4. /\ states' = [h \in Group |-> states'[h]]
      /\ states'[g] = Stable(e) /\ \A h \in Group : h # g => states'[h] = states[h]
  BY <1>2, <1>3, Zenon
<1>5. counter' \in Nat /\ counter <= counter' /\ NoMsg' = NoMsg
  BY <1>2, <1>3 DEF NoMsg, F!NoMsg
<1>6. ASSUME NEW h \in Group PROVE GroupOK(h)'
  <2>1. CASE h # g
    <3>1. IsPublishing(h) => states[h].ref \in DOMAIN pending
      BY Zenon DEF Core, GroupOK, EntryOK
    <3>2. KeepsEntry(h)
      BY <1>1, <1>2, <1>4, <2>1, <3>1, Zenon DEF KeepsEntry
    <3> QED
      BY <1>1, <2>1, <3>2, GroupFrame, Zenon
  <2>2. CASE h = g
    <3>1. EntryOK(g)'
      BY <1>1, <1>4, <1>5 DEF EntryOK, IsStable, IsPublishing, Stable
    <3>2. RowsMatch(g)'
      BY <1>1, Zenon DEF RowsMatch
    <3> QED
      BY <2>2, <3>1, <3>2, Zenon DEF GroupOK
  <2> QED
    BY <2>1, <2>2, Zenon
<1>7. \A h \in Group : IsPublishing(h) => states'[h] = states[h]
  BY <1>1, <1>4, Zenon
<1> QED
  BY <1>1, <1>2, <1>4, <1>5, <1>6, <1>7, LocalOK, Zenon

\* Hydration clears a commit without a row.
LEMMA HydrateStrandedOK ==
  ASSUME Core, NEW g \in Group, HydrateStranded(g)
  PROVE  Core'
<1>1. /\ HydrationDue(g) /\ PendingRows(g) = {} /\ EngineClear(g) /\ SetStable(g, tip[g])
      /\ UNCHANGED <<input, held>>
  BY Zenon DEF HydrateStranded, Stranded
<1>2. UNCHANGED <<minted, origin, removal, aborted, next>>
  BY <1>1, HydrationFacts, Zenon
<1>3. /\ DiskShape' /\ MintedOK' /\ WelcomeTracksCommit' /\ StagedOK(g)'
      /\ staged'[g] = NoMsg /\ g \notin drift' /\ tip' = tip /\ merged' = merged
      /\ \A h \in Group : h # g => KeepsStaged(h)
  BY <1>1, <1>2, ClearOK, Zenon
<1>4. tip[g] = (IF g \in drift' THEN record'[g].epoch ELSE tip'[g])
  BY <1>3, Zenon
<1>5. UNCHANGED <<merged, input>> /\ (staged'[g] # NoMsg => staged'[g] \in removal /\ g \in drift')
  BY <1>1, <1>3, Zenon
<1> QED
  BY <1>1, <1>3, <1>4, <1>5, HydrateStableFrame, Zenon

\* Hydration that leaves the MLS group as it finds it.
LEMMA HydrateKeepingOK ==
  ASSUME Core, NEW g \in Group, HydrateOrphanedRemoval(g) \/ HydrateStable(g)
  PROVE  Core'
<1>0. Shape /\ MintedOK /\ WelcomeTracksCommit /\ Msg' = Msg /\ NoMsg' = NoMsg
  BY Zenon DEF Core, Msg, F!Msg, NoMsg, F!NoMsg
<1>1. /\ HydrationDue(g) /\ SetStable(g, record[g].epoch)
      /\ UNCHANGED <<tip, staged, record, welcome, merged, input, held>>
      /\ PendingRows(g) = {}
      /\ drift' = IF staged[g] \in removal THEN drift \cup {g} ELSE drift
      /\ staged[g] \in removal \/ staged[g] = NoMsg
  <2>1. CASE HydrateOrphanedRemoval(g)
    BY <2>1, Zenon DEF HydrateOrphanedRemoval
  <2>2. CASE HydrateStable(g)
    <3>1. staged[g] \notin removal
      BY <1>0, <2>2, GroupFacts, Zenon DEF HydrateStable, Shape
    <3> QED
      BY <2>2, <3>1, GroupFacts, Zenon DEF HydrateStable, engineVars
  <2> QED
    BY <2>1, <2>2, Zenon
<1>2. UNCHANGED <<rows, next, minted, origin, removal, aborted>>
  BY <1>1, HydrationFacts, Zenon
<1>3. DiskShape' /\ MintedOK' /\ WelcomeTracksCommit'
  BY <1>0, <1>1, <1>2, Zenon DEF DiskShape, Shape, MintedOK, WelcomeTracksCommit
<1>4. StagedOK(g)
  BY Zenon DEF Core, GroupOK
<1>5. StagedOK(g)'
  BY <1>0, <1>1, <1>2, <1>4, Zenon DEF StagedOK
<1>6. ASSUME NEW h \in Group, h # g PROVE KeepsStaged(h)
  <2>1. staged[h] # NoMsg => /\ staged[h] \notin merged
                             /\ welcome[staged[h]] \in {"none", "staged"}
    BY Attached, Zenon
  <2>2. minted \in Nat
    BY <1>0, BoundsAssumption DEF Shape
  <2> QED
    BY <1>1, <1>2, <1>6, <2>1, <2>2 DEF KeepsStaged
<1>7. record[g].epoch = (IF g \in drift' THEN record'[g].epoch ELSE tip'[g])
  <2>1. CASE g \in drift'
    BY <1>1, <2>1, Zenon
  <2>2. CASE g \notin drift'
    <3>1. staged[g] = NoMsg /\ g \notin drift
      BY <1>1, <2>2, Zenon
    <3>2. record[g] = [epoch |-> tip[g], exact |-> TRUE]
      BY <1>4, <3>1, Zenon DEF StagedOK
    <3> QED
      BY <1>1, <2>2, <3>2
  <2> QED
    BY <2>1, <2>2, Zenon
<1>8. staged'[g] # NoMsg => staged'[g] \in removal /\ g \in drift'
  BY <1>1, Zenon
<1>9. UNCHANGED <<merged, input>>
  BY <1>1, Zenon
<1> QED
  BY <1>1, <1>3, <1>5, <1>6, <1>7, <1>8, <1>9, HydrateStableFrame, Zenon


\* A publication goes on under the reference of its row.
LEMMA HydratePendingOK ==
  ASSUME Core, NEW g \in Group, HydratePending(g), ~clash'
  PROVE  Core'
<1> DEFINE m == staged[g]
           r == rows[staged[g]].ref
<1>0. /\ Msg = 1..MaxMsg /\ NoMsg = 0 /\ Msg' = Msg /\ NoMsg' = NoMsg /\ NoWork' = NoWork
      /\ Shape /\ MintedOK /\ WelcomeTracksCommit /\ RefsOK /\ EagerOK /\ DriverInv
  BY DriverFacts, Zenon DEF Core, Msg, F!Msg, NoMsg, F!NoMsg, NoWork
<1>1. /\ HydrationDue(g) /\ m # NoMsg /\ PendingRows(g) # {}
      /\ UNCHANGED <<tip, staged, record, welcome, merged, input, held, drift>>
  BY Zenon DEF HydratePending, engineVars
<1>2. /\ phase = "idle" /\ outbox = NoWork /\ g \notin live /\ live' = live \cup {g}
      /\ UNCHANGED fanoutVars /\ UNCHANGED <<rows, next, phase, cur, relay>>
      /\ UNCHANGED <<outbox, minted, origin, removal, aborted>>
      /\ states[g].name = "NoEntry" /\ ~IsPublishing(g)
      /\ live \subseteq live' /\ live' \subseteq Group
      /\ \A h : PendingRows(h)' = PendingRows(h)
      /\ \A h \in Group : KeepsRows(h)
  BY <1>1, HydrationFacts, Zenon
<1>3. PendingRows(g) = {m} /\ m \in Msg
  BY <1>1, GroupFacts, Zenon
<1>4. rows[m] \in F!FanoutType(Group)
  BY <1>0, <1>3, DriverFacts, Zenon DEF PendingRows, F!HasRow
<1>5. r \in Nat
  BY <1>4, Zenon DEF F!FanoutType
<1>6. r \notin DOMAIN pending
  BY <1>1, <1>3, Zenon DEF HydrationDue
<1>7. /\ states' = [states EXCEPT ![g] = PendingPublish(tip[g] + 1, r)]
      /\ pending' = [k \in DOMAIN pending \cup {r} |->
                       IF k = r THEN [group |-> g, prior |-> tip[g]] ELSE pending[k]]
      /\ counter' = IF r > counter THEN r ELSE counter
  <2> DEFINE P == PendingRows(g)
             f == CHOOSE n \in P : \A k \in P : n <= k
  <2>1. m \in P /\ \A k \in P : m <= k
    BY <1>0, <1>3
  <2>2. f \in P
    BY <2>1, Zenon
  <2>3. f = m
    BY <1>3, <2>2, Zenon
  <2>4. RestorePending(g, tip[g], tip[g] + 1, rows[f].ref)
    BY Zenon DEF HydratePending
  <2> HIDE DEF f
  <2>5. RestorePending(g, tip[g], tip[g] + 1, r)
    BY <2>3, <2>4, Zenon
  <2> QED
    BY <2>5, Zenon DEF RestorePending, BeginPending, With
<1>8. counter' \in Nat /\ counter \in Nat /\ counter <= counter' /\ r <= counter'
  BY <1>0, <1>5, <1>7 DEF Shape
<1>9. /\ states'[g] = PendingPublish(tip[g] + 1, r)
      /\ \A h \in Group : h # g => states'[h] = states[h]
      /\ states' = [h \in Group |-> states'[h]]
  <2>1. states = [h \in Group |-> states[h]]
    BY <1>0, Zenon DEF Shape
  <2> QED
    BY <1>7, <2>1, Zenon
<1> HIDE DEF r, m
<1>10. Shape'
  BY <1>0, <1>1, <1>2, <1>8, <1>9, Zenon DEF Shape
<1>11. MintedOK' /\ WelcomeTracksCommit'
  BY <1>0, <1>1, <1>2, Zenon DEF MintedOK, WelcomeTracksCommit
<1>12. ASSUME NEW h \in Group PROVE GroupOK(h)'
  <2>0. GroupOK(h)
    BY Zenon DEF Core
  <2>1. CASE h # g
    <3>0. minted \in Nat
      BY <1>0, BoundsAssumption DEF Shape
    <3>1. staged[h] # NoMsg => /\ staged[h] \notin merged
                               /\ welcome[staged[h]] \in {"none", "staged"}
      BY Attached, Zenon
    <3>2. KeepsStaged(h)
      BY <1>1, <1>2, <3>0, <3>1 DEF KeepsStaged
    <3>3. IsPublishing(h) => states[h].ref \in DOMAIN pending
      BY <2>0, Zenon DEF GroupOK, EntryOK
    <3>4. KeepsEntry(h)
      BY <1>2, <1>6, <1>7, <1>9, <2>1, <3>3, Zenon DEF KeepsEntry
    <3> QED
      BY <1>2, <3>2, <3>4, GroupFrame, Zenon
  <2>2. CASE h = g
    <3>1. StagedOK(g)'
      BY <1>0, <1>1, <1>2, <2>0, <2>2, Zenon DEF GroupOK, StagedOK
    <3>2. RowsMatch(g)
      BY <2>0, <2>2, Zenon DEF GroupOK
    <3>3. g \notin input
      BY <1>3, <3>2, Zenon DEF RowsMatch
    <3>4. EntryOK(g)'
      BY <1>0, <1>1, <1>2, <1>7, <1>9, <3>3, Zenon DEF EntryOK, IsPublishing, IsStable, PendingPublish, m
    <3>5. RowsMatch(g)'
      BY <1>1, <1>2, <1>3, <1>9, <3>3 DEF RowsMatch, IsPublishing, PendingPublish, m, r
    <3> QED
      BY <2>2, <3>1, <3>4, <3>5, Zenon DEF GroupOK
  <2> QED
    BY <2>1, <2>2, Zenon
<1>13. ASSUME NEW k \in DOMAIN pending', k # r
       PROVE  /\ k \in DOMAIN pending /\ pending'[k] = pending[k] /\ pending[k].group # g
              /\ k \in Nat /\ k <= counter' /\ pending[k].group \in Group
              /\ IsPublishing(pending[k].group) /\ states[pending[k].group].ref = k
  <2>1. k \in DOMAIN pending /\ pending'[k] = pending[k]
    BY <1>7, <1>13, Zenon
  <2>2. /\ k \in Nat /\ k <= counter /\ pending[k].group \in Group
        /\ IsPublishing(pending[k].group) /\ states[pending[k].group].ref = k
    BY <1>0, <2>1, Zenon DEF RefsOK
  <2> QED
    BY <1>2, <1>8, <2>1, <2>2
<1>14. pending'[r].group = g /\ r \in DOMAIN pending'
  BY <1>7, Zenon
<1>15. RefsOK'
  <2> SUFFICES ASSUME NEW k \in DOMAIN pending'
               PROVE  /\ k \in Nat /\ k <= counter' /\ pending'[k].group \in Group
                      /\ states'[pending'[k].group].name = "PendingPublish"
                      /\ states'[pending'[k].group].ref = k
    BY Zenon DEF RefsOK, IsPublishing
  <2>1. CASE k = r
    BY <1>5, <1>8, <1>9, <1>14, <2>1 DEF PendingPublish
  <2>2. CASE k # r
    BY <1>9, <1>13, <2>2 DEF IsPublishing
  <2> QED
    BY <2>1, <2>2, Zenon
<1>16. OutboxOK' /\ DriverOK'
  BY <1>0, <1>2, Zenon DEF OutboxOK, DriverOK
<1>17. EagerOK'
  <2> SUFFICES ASSUME ~Deferred
               PROVE  /\ \A a, b \in Group : \A n \in PendingRows(a)', k \in PendingRows(b)' :
                           rows'[n].ref = rows'[k].ref => a = b
                      /\ live' # Group => \A k \in DOMAIN pending' :
                           \E n \in PendingRows(pending[k].group)' : rows'[n].ref = k
    BY Zenon DEF EagerOK
  <2>0. rows' = rows /\ \A a : PendingRows(a)' = PendingRows(a)
    BY <1>2, Zenon
  <2>1. \A a, b \in Group : \A n \in PendingRows(a)', k \in PendingRows(b)' :
          rows'[n].ref = rows'[k].ref => a = b
    BY <1>0, <2>0 DEF EagerOK
  <2>2. ASSUME live' # Group, NEW k \in DOMAIN pending'
        PROVE  \E n \in PendingRows(pending[k].group)' : rows'[n].ref = k
    <3>0. PICK p : p = pending'[k].group
      BY Zenon
    <3>1. \A n \in PendingRows(p) : n \in PendingRows(pending[k].group)'
      BY <1>0, <2>0, <3>0, Zenon DEF PendingRows, F!HasRow, Msg
    <3>2. CASE k = r
      BY <1>3, <1>14, <2>0, <3>0, <3>1, <3>2, Zenon DEF r, m
    <3>3. CASE k # r
      <4>1. live # Group
        BY <1>2, <2>2, Zenon
      <4>2. k \in DOMAIN pending /\ p = pending[k].group
        BY <1>13, <3>0, <3>3, Zenon
      <4>3. PICK n \in PendingRows(p) : rows[n].ref = k
        BY <1>0, <4>1, <4>2, Zenon DEF EagerOK
      <4> QED
        BY <2>0, <3>1, <4>3, Zenon
    <3> QED
      BY <3>2, <3>3, Zenon
  <2> QED
    BY <2>1, <2>2, Zenon
<1>18. MergedIsHeldByRelay'
  BY <1>1, <1>2, Zenon DEF Core, MergedIsHeldByRelay
<1>19. DriverInv'
  BY <1>0, <1>2, DriverStep, Zenon
<1> QED
  BY <1>10, <1>11, <1>12, <1>15, <1>16, <1>17, <1>18, <1>19, Zenon DEF Core

-----------------------------------------------------------------------------
(* From the engine to the table, and back. *)

\* A publication ends in memory: its reference is gone, the others stay.
LEMMA ResolveFacts ==
  ASSUME Core, NEW g \in Group, IsPublishing(g), NEW e,
         states' = [states EXCEPT ![g] = Stable(e)],
         pending' = Without(states[g].ref), UNCHANGED <<counter, live, removal>>
  PROVE  /\ RefsOK' /\ states' = [h \in Group |-> states'[h]] /\ states'[g] = Stable(e)
         /\ \A h \in Group : h # g => states'[h] = states[h] /\ KeepsEntry(h)
<1>1. states = [h \in Group |-> states[h]]
  BY Zenon DEF Core, Shape
<1>2. /\ states' = [h \in Group |-> states'[h]] /\ states'[g] = Stable(e)
      /\ \A h \in Group : h # g => states'[h] = states[h]
  BY <1>1, Zenon
<1>3. \A k : k \in DOMAIN pending' <=> k \in DOMAIN pending /\ k # states[g].ref
  BY Zenon DEF Without
<1>4. \A k \in DOMAIN pending' : pending'[k] = pending[k]
  BY Zenon DEF Without
<1>5. \A h \in Group : IsPublishing(h) =>
        states[h].ref \in DOMAIN pending /\ pending[states[h].ref].group = h
  BY Zenon DEF Core, GroupOK, EntryOK
<1>6. RefsOK'
  <2> SUFFICES ASSUME NEW k \in DOMAIN pending'
               PROVE  /\ k \in Nat /\ k <= counter' /\ pending'[k].group \in Group
                      /\ states'[pending'[k].group].name = "PendingPublish"
                      /\ states'[pending'[k].group].ref = k
    BY Zenon DEF RefsOK, IsPublishing
  <2>1. k \in DOMAIN pending /\ k # states[g].ref /\ pending'[k] = pending[k]
    BY <1>3, <1>4, Zenon
  <2>2. /\ k \in Nat /\ k <= counter /\ pending[k].group \in Group
        /\ IsPublishing(pending[k].group) /\ states[pending[k].group].ref = k
    BY <2>1, Zenon DEF Core, RefsOK
  <2> QED
    BY <1>2, <2>1, <2>2, Zenon DEF IsPublishing
<1>7. ASSUME NEW h \in Group, h # g PROVE KeepsEntry(h)
  <2>1. IsPublishing(h) => states[h].ref \in DOMAIN pending'
    BY <1>3, <1>5, <1>7
  <2> QED
    BY <1>2, <1>4, <1>7, <2>1, Zenon DEF KeepsEntry
<1> QED
  BY <1>2, <1>6, <1>7, Zenon

\* The work in the outbox is the publication of its group, without a row yet.
LEMMA OutboxFacts ==
  ASSUME Core, outbox # NoWork
  PROVE  /\ outbox.msg \in Msg /\ outbox.group \in Group /\ outbox.group \in live
         /\ IsPublishing(outbox.group) /\ states[outbox.group].ref = outbox.ref
         /\ staged[outbox.group] = outbox.msg /\ PendingRows(outbox.group) = {}
         /\ phase = "idle" /\ next <= outbox.msg /\ outbox.msg <= minted
         /\ outbox.group \notin input /\ (~Deferred => live = Group)
<1>1. /\ outbox.msg \in Msg /\ outbox.group \in Group /\ outbox.group \in live
      /\ IsPublishing(outbox.group) /\ states[outbox.group].ref = outbox.ref
      /\ staged[outbox.group] = outbox.msg
      /\ phase = "idle" /\ next <= outbox.msg /\ outbox.msg <= minted
      /\ ~Deferred => live = Group
  BY Zenon DEF Core, OutboxOK, DriverOK, Shape
<1>2. outbox.group \notin input
  BY <1>1, Zenon DEF Core, GroupOK, EntryOK
<1>3. ASSUME NEW m \in PendingRows(outbox.group) PROVE FALSE
  <2>1. m = outbox.msg /\ m \in Msg /\ rows[m] # NoRow
    BY <1>1, GroupFacts, Zenon DEF PendingRows, F!HasRow, Msg
  <2>2. m < next /\ next \in 1..(MaxMsg + 1) /\ Msg = 1..MaxMsg
    BY <2>1, DriverFacts, Zenon DEF Core
  <2> QED
    BY <1>1, <2>1, <2>2
<1> QED
  BY <1>1, <1>2, <1>3, Zenon

\* The runtime stores the row.
LEMMA StageOutboxOK ==
  ASSUME Core, StageOutbox
  PROVE  Core'
<1>p. PICK m, g, r, w : m = outbox.msg /\ g = outbox.group /\ r = outbox.ref /\ w = outbox.welcomes
  BY Zenon
<1> DEFINE row == F!Stage(g, r, FALSE, w)
<1>0. /\ Msg = 1..MaxMsg /\ NoMsg = 0 /\ Msg' = Msg /\ NoMsg' = NoMsg /\ NoWork' = NoWork
      /\ F!Msg = Msg /\ Shape /\ MintedOK /\ WelcomeTracksCommit /\ RefsOK /\ EagerOK /\ DriverInv
  BY DriverFacts, Zenon DEF Core, Msg, F!Msg, NoMsg, F!NoMsg, NoWork
<1>1. /\ outbox # NoWork /\ outbox' = NoWork
      /\ F!StageFanout(m, g, r, FALSE, w)
      /\ UNCHANGED <<states, pending, counter>>
      /\ UNCHANGED <<tip, staged, record, welcome, merged, input, held, drift>>
      /\ UNCHANGED <<live, minted, origin, removal, aborted, clash>>
  BY <1>p, Zenon DEF StageOutbox, emVars, engineVars, madeVars
<1>2. /\ m \in Msg /\ g \in Group /\ g \in live
      /\ IsPublishing(g) /\ states[g].ref = r
      /\ staged[g] = m /\ PendingRows(g) = {}
      /\ phase = "idle" /\ next <= m /\ m <= minted
      /\ g \notin input /\ (~Deferred => live = Group)
  BY <1>p, <1>1, OutboxFacts, Zenon
<1>3. r \in 0..MaxRef /\ w \in BOOLEAN
  BY <1>p, <1>1, Zenon DEF Core, OutboxOK
<1>4. F!Next
  BY <1>0, <1>1, <1>2, <1>3, Zenon DEF F!Next, F!StageAny
<1>5. DriverInv'
  BY <1>0, <1>4, DriverStep, Zenon
<1>6. /\ rows' = [rows EXCEPT ![m] = row] /\ next' = m + 1 /\ relay' = relay
      /\ phase' = "resolve" /\ cur' = m
  BY <1>1, Zenon DEF F!StageFanout, F!StartDrive, F!network
<1>7. row.group = g /\ row.ref = r
  BY Zenon DEF F!Stage
<1> HIDE DEF row
<1>8. /\ rows \in [Msg -> F!FanoutType(Group) \cup {NoRow}]
      /\ rows'[m] = row /\ \A k \in Msg : k # m => rows'[k] = rows[k]
  BY <1>0, <1>2, <1>6, DriverFacts, Zenon
<1>9. \A h \in Group : h # g => PendingRows(h)' \subseteq PendingRows(h)
  BY <1>0, <1>7, <1>8, Zenon DEF PendingRows, F!HasRow, Msg
<1>10. PendingRows(g)' \subseteq {m}
  BY <1>0, <1>2, <1>8, Zenon DEF PendingRows, F!HasRow, Msg
<1>11. Shape' /\ WelcomeTracksCommit' /\ RefsOK'
  BY <1>0, <1>1, ZenonT(40) DEF Shape, WelcomeTracksCommit, RefsOK, IsPublishing
<1>12. MintedOK'
  <2>1. next' <= minted' + 1
    BY <1>0, <1>1, <1>2, <1>6, BoundsAssumption DEF Shape
  <2> QED
    BY <1>0, <1>1, <2>1, Zenon DEF MintedOK
<1>13. ASSUME NEW h \in Group PROVE GroupOK(h)'
  <2>0. minted \in Nat /\ GroupOK(h)
    BY <1>0, BoundsAssumption DEF Shape, Core
  <2>1. staged[h] # NoMsg => /\ staged[h] \notin merged
                             /\ welcome[staged[h]] \in {"none", "staged"}
    BY Attached, Zenon
  <2>2. KeepsStaged(h)
    BY <1>1, <2>0, <2>1 DEF KeepsStaged
  <2>3. KeepsEntry(h)
    BY <1>1, <2>0, Zenon DEF KeepsEntry, GroupOK, EntryOK
  <2>4. CASE h # g
    <3>1. \A k \in PendingRows(h) : k # m
      BY <1>2, <2>4, GroupFacts DEF PendingRows, Msg
    <3>2. \A k \in PendingRows(h)' : k \in PendingRows(h) /\ k \in Msg /\ rows'[k] = rows[k]
      BY <1>8, <1>9, <2>4, <3>1, Zenon DEF PendingRows, Msg
    <3>3. KeepsRows(h)
      BY <1>1, <1>9, <2>4, <3>2, Zenon DEF KeepsRows
    <3> QED
      BY <2>2, <2>3, <3>3, GroupFrame, Zenon
  <2>5. CASE h = g
    <3>1. StagedOK(g)'
      BY <1>0, <2>0, <2>2, <2>5, StagedFrame, Zenon DEF GroupOK
    <3>2. EntryOK(g)'
      BY <1>0, <1>1, <2>0, <2>5, Zenon DEF GroupOK, EntryOK, IsStable, IsPublishing
    <3>3. RowsMatch(g)'
      BY <1>1, <1>2, <1>7, <1>8, <1>10, Zenon DEF RowsMatch, IsPublishing
    <3> QED
      BY <2>5, <3>1, <3>2, <3>3, Zenon DEF GroupOK
  <2> QED
    BY <2>4, <2>5, Zenon
<1>14. OutboxOK' /\ DriverOK'
  BY <1>0, <1>1, <1>2, <1>6, <1>7, <1>8, Zenon DEF OutboxOK, DriverOK
<1>15. EagerOK'
  <2> SUFFICES ASSUME ~Deferred, NEW a \in Group, NEW b \in Group, NEW n \in PendingRows(a)',
                      NEW k \in PendingRows(b)', rows'[n].ref = rows'[k].ref
               PROVE  a = b
    BY <1>1, <1>2, Zenon DEF EagerOK
  <2>1. \A h \in Group : \A i \in PendingRows(h)' :
          h \in live /\ IsPublishing(h) /\ states[h].ref = rows'[i].ref
    BY <1>1, <1>2, <1>13, Zenon DEF GroupOK, RowsMatch, IsPublishing
  <2>2. \A h \in Group : IsPublishing(h) => pending[states[h].ref].group = h
    BY Zenon DEF Core, GroupOK, EntryOK
  <2> QED
    BY <2>1, <2>2
<1>16. MergedIsHeldByRelay'
  BY <1>1, <1>6, Zenon DEF Core, MergedIsHeldByRelay
<1> QED
  BY <1>5, <1>11, <1>12, <1>13, <1>14, <1>15, <1>16, Zenon DEF Core


\* Staging and its undo fail: the commit stays attached without a row.
LEMMA StagingAndUndoFailOK ==
  ASSUME Core, StagingAndUndoFail
  PROVE  Core'
<1>0. /\ Msg' = Msg /\ NoMsg' = NoMsg /\ NoWork' = NoWork
      /\ Shape /\ MintedOK /\ WelcomeTracksCommit /\ RefsOK /\ EagerOK /\ DriverInv
  BY Zenon DEF Core, Msg, F!Msg, NoMsg, F!NoMsg, NoWork
<1>1. /\ outbox # NoWork /\ outbox' = NoWork /\ F!StagingFails
      /\ UNCHANGED <<states, pending, counter>>
      /\ UNCHANGED <<tip, staged, record, welcome, merged, input, held, drift>>
      /\ UNCHANGED <<live, minted, origin, removal, aborted, clash>>
  BY Zenon DEF StagingAndUndoFail, emVars, engineVars, madeVars
<1>2. F!Next /\ phase = "idle" /\ UNCHANGED <<rows, next, phase, cur, relay>>
  BY <1>1, StagingFailsFacts, Zenon
<1>3. DriverInv' /\ \A h : PendingRows(h)' = PendingRows(h)
  BY <1>0, <1>2, DriverStep, RowsKept, PendingRowsSame, Zenon
<1>4. Shape' /\ WelcomeTracksCommit' /\ RefsOK' /\ MintedOK'
  BY <1>0, <1>1, <1>2, ZenonT(40) DEF Shape, WelcomeTracksCommit, RefsOK, MintedOK, IsPublishing
<1>5. OutboxOK' /\ DriverOK'
  BY <1>0, <1>1, <1>2, Zenon DEF OutboxOK, DriverOK
<1>6. EagerOK' /\ MergedIsHeldByRelay'
  BY <1>0, <1>1, <1>2, <1>3 DEF EagerOK, MergedIsHeldByRelay, Core
<1>7. ASSUME NEW h \in Group PROVE GroupOK(h)'
  <2>0. minted \in Nat /\ GroupOK(h)
    BY <1>0, BoundsAssumption DEF Shape, Core
  <2>1. staged[h] # NoMsg => /\ staged[h] \notin merged
                             /\ welcome[staged[h]] \in {"none", "staged"}
    BY Attached, Zenon
  <2>2. KeepsStaged(h) /\ KeepsEntry(h)
    BY <1>1, <2>0, <2>1 DEF KeepsStaged, KeepsEntry, GroupOK, EntryOK
  <2>3. KeepsRows(h)
    BY <1>1, <1>2, RowsKept, Zenon
  <2> QED
    BY <2>2, <2>3, GroupFrame, Zenon
<1> QED
  BY <1>3, <1>4, <1>5, <1>6, <1>7, Zenon DEF Core

\* rollback_unstaged_pending.
LEMMA StagingFailsOK ==
  ASSUME Core, StagingFails
  PROVE  Core'
<1>p. PICK g, r : g = outbox.group /\ r = outbox.ref
  BY Zenon
<1>0. /\ Msg' = Msg /\ NoMsg' = NoMsg /\ NoWork' = NoWork /\ Shape /\ EagerOK /\ DriverInv
  BY Zenon DEF Core, Msg, F!Msg, NoMsg, F!NoMsg, NoWork
<1>1. /\ outbox # NoWork /\ outbox' = NoWork /\ F!StagingFails
      /\ RollbackPublish(r) /\ EngineClear(GroupForPending(r))
      /\ Replay(GroupForPending(r))
      /\ UNCHANGED <<live, minted, origin, removal, aborted, clash>>
  BY <1>p, Zenon DEF StagingFails, madeVars
<1>2. F!Next /\ phase = "idle" /\ UNCHANGED <<rows, next, phase, cur, relay>>
  BY <1>1, StagingFailsFacts, Zenon
<1>3. /\ g \in Group /\ g \in live /\ IsPublishing(g) /\ states[g].ref = r
      /\ staged[g] # NoMsg /\ PendingRows(g) = {} /\ (~Deferred => live = Group)
  BY <1>p, <1>1, OutboxFacts, GroupFacts, Zenon
<1>4. pending[r].group = g /\ pending[r].prior = tip[g]
  BY <1>3, Zenon DEF Core, GroupOK, EntryOK
<1>5. /\ states' = [states EXCEPT ![g] = Stable(tip[g])] /\ pending' = Without(r)
      /\ counter' = counter /\ EngineClear(g)
      /\ input' = input \cup ({g} \cap held)
  BY <1>1, <1>4, Zenon DEF RollbackPublish, GroupForPending, Replay
<1>6. /\ DiskShape' /\ MintedOK' /\ WelcomeTracksCommit' /\ StagedOK(g)'
      /\ staged'[g] = NoMsg /\ g \notin drift' /\ tip' = tip /\ merged' = merged
      /\ \A h \in Group : h # g => KeepsStaged(h)
  BY <1>1, <1>2, <1>3, <1>5, ClearOK, Zenon
<1>7. /\ RefsOK' /\ states' = [h \in Group |-> states'[h]] /\ states'[g] = Stable(tip[g])
      /\ \A h \in Group : h # g => states'[h] = states[h] /\ KeepsEntry(h)
  BY <1>1, <1>3, <1>5, ResolveFacts, Zenon
<1>8. DriverInv' /\ \A h : PendingRows(h)' = PendingRows(h)
  BY <1>0, <1>2, DriverStep, RowsKept, PendingRowsSame, Zenon
<1>9. Shape'
  BY <1>0, <1>1, <1>5, <1>6, <1>7, Zenon DEF Shape, DiskShape
<1>10. OutboxOK' /\ DriverOK'
  BY <1>0, <1>1, <1>2, Zenon DEF OutboxOK, DriverOK
<1>11. EagerOK'
  BY <1>0, <1>1, <1>2, <1>3, <1>8 DEF EagerOK
<1>12. MergedIsHeldByRelay'
  BY <1>2, <1>6, Zenon DEF MergedIsHeldByRelay, Core
<1>13. ASSUME NEW h \in Group PROVE GroupOK(h)'
  <2>1. CASE h # g
    <3>1. KeepsRows(h)
      BY <1>2, <1>5, <2>1, RowsKept, Zenon
    <3> QED
      BY <1>6, <1>7, <2>1, <3>1, GroupFrame, Zenon
  <2>2. CASE h = g
    <3>1. EntryOK(g)'
      BY <1>0, <1>1, <1>3, <1>6, <1>7 DEF EntryOK, IsStable, IsPublishing, Stable
    <3>2. RowsMatch(g)'
      BY <1>3, <1>8, Zenon DEF RowsMatch
    <3> QED
      BY <1>6, <2>2, <3>1, <3>2, Zenon DEF GroupOK
  <2> QED
    BY <2>1, <2>2, Zenon
<1> QED
  BY <1>6, <1>7, <1>8, <1>9, <1>10, <1>11, <1>12, <1>13, Zenon DEF Core

\* The row being driven is pending: it is the publication of its group.
LEMMA DrivenFacts ==
  ASSUME Core, phase = "resolve", copy.mls = "Pending", NEW g, g = rows[cur].group
  PROVE  /\ g \in Group /\ g \in live /\ cur \in Msg /\ copy = rows[cur]
         /\ copy \in F!FanoutType(Group)
         /\ IsPublishing(g) /\ staged[g] = cur /\ staged[g] # NoMsg
         /\ states[g].ref = copy.ref /\ copy.ref \in DOMAIN pending
         /\ pending[copy.ref].group = g /\ pending[copy.ref].prior = tip[g]
         /\ states[g].epoch = tip[g] + 1
         /\ g \notin input /\ PendingRows(g) = {cur}
         /\ outbox = NoWork /\ (~Deferred => live = Group)
<1>1. /\ cur \in Msg /\ rows[cur] # NoRow /\ copy = rows[cur] /\ copy \in F!FanoutType(Group)
  BY DriverFacts, Zenon DEF Core
<1>2. g \in Group /\ cur \in PendingRows(g)
  BY <1>1, Zenon DEF F!FanoutType, PendingRows, F!HasRow, Msg
<1>3. g \in live /\ outbox = NoWork /\ (~Deferred => live = Group)
  BY Zenon DEF Core, DriverOK
<1>4. GroupOK(g)
  BY <1>2, Zenon DEF Core
<1>5. staged[g] = cur /\ IsPublishing(g) /\ states[g].ref = copy.ref /\ g \notin input
  BY <1>1, <1>2, <1>3, <1>4, Zenon DEF GroupOK, RowsMatch
<1>6. staged[g] # NoMsg /\ PendingRows(g) = {cur}
  BY <1>1, <1>2, <1>5, GroupFacts
<1>7. /\ copy.ref \in DOMAIN pending /\ pending[copy.ref].group = g
      /\ pending[copy.ref].prior = tip[g] /\ states[g].epoch = tip[g] + 1
  BY <1>4, <1>5, <1>6, Zenon DEF GroupOK, EntryOK
<1> QED
  BY <1>1, <1>2, <1>3, <1>5, <1>6, <1>7, Zenon


\* The engine settles the publication of the driven row, and the row says so.
LEMMA ResolvedOK ==
  ASSUME Core, phase = "resolve", copy.mls = "Pending", NEW g, g = rows[cur].group,
         F!Next, NEW f, f.mls # "Pending", f.group = g,
         rows' = [rows EXCEPT ![cur] = f], next' = next, relay' = relay,
         phase' # "idle" => cur' = cur,
         UNCHANGED <<live, outbox, minted, origin, removal, aborted, counter>>,
         input' \subseteq input \cup {g},
         states' = [h \in Group |-> states'[h]],
         DiskShape', MintedOK', WelcomeTracksCommit', StagedOK(g)', EntryOK(g)', RefsOK',
         merged' \subseteq merged \cup {cur}, merged' # merged => relay[cur] # {},
         \A h \in Group : h # g => KeepsStaged(h) /\ KeepsEntry(h)
  PROVE  Core'
<1>0. Msg' = Msg /\ NoWork' = NoWork /\ Shape /\ EagerOK /\ DriverInv
  BY Zenon DEF Core, Msg, F!Msg, NoMsg, F!NoMsg, NoWork
<1>1. /\ g \in Group /\ g \in live /\ cur \in Msg
      /\ PendingRows(g) = {cur} /\ outbox = NoWork /\ (~Deferred => live = Group)
  BY DrivenFacts, Zenon
<1>2. /\ rows \in [Msg -> F!FanoutType(Group) \cup {NoRow}]
      /\ rows'[cur] = f /\ \A k \in Msg : k # cur => rows'[k] = rows[k]
  BY <1>0, <1>1, DriverFacts, Zenon
<1>3. \A h : PendingRows(h)' = PendingRows(h) \ {cur}
  BY <1>0, <1>1, <1>2, Zenon DEF PendingRows, F!HasRow, Msg
<1>4. \A h, k : k \in PendingRows(h)' => k \in PendingRows(h) /\ rows'[k] = rows[k]
  BY <1>2, <1>3, Zenon DEF PendingRows, Msg
<1>5. DriverInv'
  BY <1>0, DriverStep, Zenon
<1>6. Shape'
  BY <1>0, Zenon DEF Shape, DiskShape
<1>7. OutboxOK' /\ DriverOK'
  BY <1>0, <1>1, <1>2, Zenon DEF OutboxOK, DriverOK
<1>8. EagerOK'
  BY <1>0, <1>1, <1>4 DEF EagerOK
<1>9. MergedIsHeldByRelay'
  BY Zenon DEF MergedIsHeldByRelay, Core
<1>10. ASSUME NEW h \in Group PROVE GroupOK(h)'
  <2>1. CASE h # g
    <3>1. KeepsRows(h)
      BY <1>4, <2>1, Zenon DEF KeepsRows
    <3> QED
      BY <2>1, <3>1, GroupFrame, Zenon
  <2>2. CASE h = g
    <3>1. RowsMatch(g)'
      BY <1>1, <1>3, Zenon DEF RowsMatch
    <3> QED
      BY <2>2, <3>1, Zenon DEF GroupOK
  <2> QED
    BY <2>1, <2>2, Zenon
<1> QED
  BY <1>5, <1>6, <1>7, <1>8, <1>9, <1>10, Zenon DEF Core

\* A confirmed publication is merged.
LEMMA ConfirmOK ==
  ASSUME Core, ConfirmPublished \/ ConfirmThenSnapshotFails \/ ConfirmThenReplayFails
  PROVE  Core'
<1>p. PICK g, c : g = rows[cur].group /\ c = copy
  BY Zenon
<1> DEFINE f == F!MarkMlsConfirmed(c)
<1>1. /\ phase = "resolve" /\ F!MlsConfirmationRequired(c) /\ F!Next
      /\ rows' = [rows EXCEPT ![cur] = f] /\ next' = next /\ relay' = relay
      /\ phase' # "idle" => cur' = cur
  BY <1>p, Zenon DEF ConfirmPublished, ConfirmThenSnapshotFails, ConfirmThenReplayFails,
         F!ConfirmPublished, F!ConfirmThenFails, F!PutRow, F!EndDrive, F!network,
         F!Next, F!DriveStep
<1>2. c.mls = "Pending" /\ \E t \in Target : c.status[t] = "Accepted"
  BY <1>1, Zenon DEF F!MlsConfirmationRequired, F!AcceptedTargets
<1>3. /\ g \in Group /\ g \in live /\ cur \in Msg /\ c = rows[cur]
      /\ c \in F!FanoutType(Group) /\ IsPublishing(g) /\ staged[g] = cur /\ staged[g] # NoMsg
      /\ states[g].ref = c.ref /\ c.ref \in DOMAIN pending
      /\ pending[c.ref].group = g /\ states[g].epoch = tip[g] + 1 /\ g \notin input
  BY <1>p, <1>1, <1>2, DrivenFacts, Zenon
<1>4. f.mls # "Pending" /\ f.group = g
  BY <1>p, <1>3, Zenon DEF F!MarkMlsConfirmed, F!FanoutType
<1>5. relay[cur] # {}
  <2>1. rows[cur] # NoRow
    BY <1>3, NoRowAssumption, Zenon
  <2>2. \A t \in Target : rows[cur].status[t] = "Accepted" => t \in relay[cur]
    BY <1>3, <2>1, DriverFacts, Zenon DEF Core
  <2> QED
    BY <1>2, <1>3, <2>2, Zenon
<1>6. /\ EngineMerge(g) /\ UNCHANGED <<live, outbox, minted, origin, removal, aborted, counter>>
      /\ \/ states' = [states EXCEPT ![g] = Stable(states[g].epoch)] /\ pending' = Without(c.ref)
         \/ UNCHANGED <<states, pending, input>>
      /\ input' \subseteq input \cup {g}
  BY <1>p, <1>3, Zenon DEF ConfirmPublished, ConfirmThenSnapshotFails, ConfirmThenReplayFails,
         ConfirmPublish, GroupForPending, Replay, lifeVars, madeVars, emVars
<1> HIDE DEF f
<1>7. /\ DiskShape' /\ MintedOK' /\ WelcomeTracksCommit' /\ StagedOK(g)'
      /\ staged'[g] = NoMsg /\ g \notin drift' /\ tip'[g] = tip[g] + 1
      /\ merged' = merged \cup {staged[g]}
      /\ \A h \in Group : h # g => KeepsStaged(h)
  BY <1>1, <1>3, <1>6, MergeOK, Zenon
<1>8. NoMsg' = NoMsg
  BY Zenon DEF NoMsg, F!NoMsg
<1>9. /\ EntryOK(g)' /\ RefsOK' /\ states' = [h \in Group |-> states'[h]]
      /\ \A h \in Group : h # g => KeepsEntry(h)
  <2>1. CASE states' = [states EXCEPT ![g] = Stable(states[g].epoch)] /\ pending' = Without(c.ref)
    <3>0. PICK e : e = states[g].epoch
      BY Zenon
    <3>1. /\ RefsOK' /\ states' = [h \in Group |-> states'[h]] /\ states'[g] = Stable(e)
          /\ \A h \in Group : h # g => states'[h] = states[h] /\ KeepsEntry(h)
      BY <1>3, <1>6, <2>1, <3>0, ResolveFacts, Zenon
    <3>2. states'[g].name = "Stable" /\ states'[g].epoch = tip'[g]
      BY <1>3, <1>7, <3>0, <3>1 DEF Stable
    <3>3. g \in live' /\ g \notin drift' /\ staged'[g] = NoMsg'
      BY <1>3, <1>6, <1>7, <1>8, Zenon
    <3>4. EntryOK(g)'
      BY <3>2, <3>3, Zenon DEF EntryOK, IsStable, IsPublishing
    <3> QED
      BY <3>1, <3>4, Zenon
  <2>2. CASE UNCHANGED <<states, pending, input>>
    <3>1. EntryOK(g)'
      BY <1>3, <1>6, <1>7, <1>8, <2>2, Zenon DEF EntryOK, IsStable, IsPublishing
    <3>2. RefsOK' /\ states' = [h \in Group |-> states'[h]]
      BY <1>6, <2>2, Zenon DEF RefsOK, IsPublishing, Core, Shape
    <3>3. \A h \in Group : h # g => KeepsEntry(h)
      BY <1>6, <2>2, Zenon DEF KeepsEntry, Core, GroupOK, EntryOK
    <3> QED
      BY <3>1, <3>2, <3>3, Zenon
  <2> QED
    BY <1>6, <2>1, <2>2, Zenon
<1>10. merged' \subseteq merged \cup {cur} /\ (merged' # merged => relay[cur] # {})
  BY <1>3, <1>5, <1>7, Zenon
<1>11. copy.mls = "Pending" /\ \A h \in Group : h # g => KeepsStaged(h) /\ KeepsEntry(h)
  BY <1>p, <1>2, <1>7, <1>9, Zenon
<1> QED
  BY <1>p, <1>1, <1>4, <1>6, <1>7, <1>9, <1>10, <1>11, ResolvedOK, Zenon

\* A failed publication is rolled back.
LEMMA RollBackOK ==
  ASSUME Core, PublishFailed \/ PublishFailedThenReplayFails
  PROVE  Core'
<1>p. PICK g, c : g = rows[cur].group /\ c = copy
  BY Zenon
<1> DEFINE f == F!MarkMlsRolledBack(c)
<1>1. /\ phase = "resolve" /\ F!RollbackDue(c) /\ F!Next
      /\ rows' = [rows EXCEPT ![cur] = f] /\ next' = next /\ relay' = relay
      /\ phase' # "idle" => cur' = cur
  BY <1>p, Zenon DEF PublishFailed, PublishFailedThenReplayFails,
         F!PublishFailed, F!PublishFailedThenFails, F!PutRow, F!EndDrive, F!network,
         F!Next, F!DriveStep
<1>2. c.mls = "Pending"
  BY <1>1, Zenon DEF F!RollbackDue
<1>3. /\ g \in Group /\ g \in live /\ cur \in Msg /\ c = rows[cur]
      /\ c \in F!FanoutType(Group) /\ IsPublishing(g) /\ staged[g] = cur /\ staged[g] # NoMsg
      /\ states[g].ref = c.ref /\ c.ref \in DOMAIN pending
      /\ pending[c.ref].group = g /\ pending[c.ref].prior = tip[g] /\ g \notin input
  BY <1>p, <1>1, <1>2, DrivenFacts, Zenon
<1>4. f.mls # "Pending" /\ f.group = g
  BY <1>p, <1>3, Zenon DEF F!MarkMlsRolledBack, F!FanoutType
<1>6. /\ EngineClear(g) /\ UNCHANGED <<live, outbox, minted, origin, removal, aborted, counter>>
      /\ states' = [states EXCEPT ![g] = Stable(tip[g])] /\ pending' = Without(c.ref)
      /\ input' \subseteq input \cup {g}
  BY <1>p, <1>3, Zenon DEF PublishFailed, PublishFailedThenReplayFails,
         RollbackPublish, GroupForPending, Replay, lifeVars, madeVars, emVars
<1> HIDE DEF f
<1>7. /\ DiskShape' /\ MintedOK' /\ WelcomeTracksCommit' /\ StagedOK(g)'
      /\ staged'[g] = NoMsg /\ g \notin drift' /\ tip' = tip /\ merged' = merged
      /\ \A h \in Group : h # g => KeepsStaged(h)
  BY <1>1, <1>3, <1>6, ClearOK, Zenon
<1>8. NoMsg' = NoMsg
  BY Zenon DEF NoMsg, F!NoMsg
<1>9. PICK e : e = tip[g]
  BY Zenon
<1>10. /\ RefsOK' /\ states' = [h \in Group |-> states'[h]] /\ states'[g] = Stable(e)
       /\ \A h \in Group : h # g => states'[h] = states[h] /\ KeepsEntry(h)
  BY <1>3, <1>6, <1>9, ResolveFacts, Zenon
<1>11. EntryOK(g)'
  BY <1>3, <1>6, <1>7, <1>8, <1>9, <1>10, Zenon DEF EntryOK, IsStable, IsPublishing, Stable
<1>12. merged' \subseteq merged \cup {cur} /\ (merged' # merged => relay[cur] # {})
  BY <1>7, Zenon
<1>13. copy.mls = "Pending" /\ \A h \in Group : h # g => KeepsStaged(h) /\ KeepsEntry(h)
  BY <1>p, <1>2, <1>7, <1>10, Zenon
<1> QED
  BY <1>p, <1>1, <1>4, <1>6, <1>7, <1>10, <1>11, <1>12, <1>13, ResolvedOK, Zenon

-----------------------------------------------------------------------------
(* The invariant. *)

\* The first session.
LEMMA InitOK == Init => IInv
<1> SUFFICES ASSUME Init PROVE IInv
  BY Zenon
<1>1. DriverInv
  <2>1. F!Init
    BY Zenon DEF Init
  <2>2. TableInv
    BY <2>1, BoundsAssumption DEF F!Init, TableInv, Msg, F!Msg
  <2> QED
    BY <2>1, <2>2, Zenon DEF F!Init, DriverInv, CopyInv
<1>2. Msg = 1..MaxMsg /\ NoMsg = 0 /\ F!Msg = Msg
  BY Zenon DEF Msg, F!Msg, NoMsg, F!NoMsg
<1>3. /\ rows = [m \in Msg |-> NoRow] /\ next = 1 /\ phase = "idle"
      /\ states = [g \in Group |-> NoEntry] /\ counter = 0 /\ DOMAIN pending = {}
      /\ live = {} /\ outbox = NoWork /\ minted = 0 /\ removal = {} /\ clash = FALSE
      /\ origin = [m \in Msg |-> NoOrigin] /\ tip = [g \in Group |-> 0]
      /\ staged = [g \in Group |-> NoMsg]
      /\ record = [g \in Group |-> [epoch |-> 0, exact |-> TRUE]]
      /\ welcome = [m \in Msg |-> "none"]
      /\ merged = {} /\ input = {} /\ drift = {}
  BY <1>2, Zenon DEF Init, F!Init, EMInit
<1>4. Shape
  BY <1>2, <1>3, BoundsAssumption DEF Shape
<1>5. \A g : PendingRows(g) = {}
  BY <1>2, <1>3, Zenon DEF PendingRows, F!HasRow
<1>6. ASSUME NEW g \in Group PROVE GroupOK(g)
  <2>1. states[g] = NoEntry /\ staged[g] = NoMsg /\ tip[g] = 0
        /\ record[g] = [epoch |-> 0, exact |-> TRUE]
    BY <1>3, Zenon
  <2>2. EntryOK(g)
    BY <1>3, <2>1, Zenon DEF EntryOK, NoEntry, IsStable, IsPublishing
  <2>3. StagedOK(g)
    BY <2>1, Zenon DEF StagedOK
  <2>4. RowsMatch(g)
    BY <1>5, Zenon DEF RowsMatch
  <2> QED
    BY <2>2, <2>3, <2>4, Zenon DEF GroupOK
<1>7. RefsOK /\ OutboxOK /\ DriverOK /\ EagerOK
  BY <1>3, <1>5, Zenon DEF RefsOK, OutboxOK, DriverOK, EagerOK
<1>8. MintedOK
  BY <1>3 DEF MintedOK
<1>9. WelcomeTracksCommit /\ MergedIsHeldByRelay
  BY <1>3, Zenon DEF WelcomeTracksCommit, MergedIsHeldByRelay
<1> QED
  BY <1>1, <1>3, <1>4, <1>6, <1>7, <1>8, <1>9, Zenon DEF IInv, Core

\* In a state without a clash the engine knows the reference of every row it is
\* asked about.
LEMMA PendingIsKnown ==
  ASSUME Core, UnknownPending
  PROVE  FALSE
<1>1. phase = "resolve" /\ copy.mls = "Pending" /\ copy.ref \notin DOMAIN pending
  BY Zenon DEF UnknownPending, F!MlsConfirmationRequired, F!RollbackDue
<1>2. PICK g : g = rows[cur].group
  BY Zenon
<1> QED
  BY <1>1, <1>2, DrivenFacts, Zenon

\* A step from a state without a clash.
LEMMA StepOK ==
  ASSUME Core, clash = FALSE, Next
  PROVE  /\ clash' \in BOOLEAN
         /\ ~Deferred => ~clash'
         /\ ~clash' => Core'
<1>1. ASSUME NEW g \in Group, Hydrate(g)
      PROVE  /\ clash' \in BOOLEAN /\ (~Deferred => ~clash') /\ (~clash' => Core')
  <2>1. HydrationDue(g)
    BY <1>1, Zenon DEF Hydrate, HydratePending, HydrateStranded, HydrateOrphanedRemoval, HydrateStable
  <2>2. clash' \in BOOLEAN
    BY <2>1, Zenon DEF HydrationDue
  <2>3. ~Deferred => ~clash'
    BY <2>1, NoEagerClash, Zenon
  <2>4. ~clash' => Core'
    BY <1>1, HydratePendingOK, HydrateStrandedOK, HydrateKeepingOK, Zenon DEF Hydrate
  <2> QED
    BY <2>2, <2>3, <2>4, Zenon
<1>2. ASSUME NEW g \in Group,
             \/ \E removes, invites \in BOOLEAN : \/ SendCommit(g, removes, invites)
                                                  \/ SendCutShort(g, removes, invites)
             \/ AutoCommit(g) \/ AutoCommitFails(g)
             \/ SendFails(g) \/ SendRefused(g) \/ Ingest(g) \/ SettleInput(g)
             \/ AdoptPeerCommit(g) \/ HydrateStrandedTorn(g)
      PROVE  clash' = clash /\ Core'
  <2>1. Core'
    BY <1>2, SendCommitOK, SendCutShortOK, AutoCommitOK, AutoCommitFailsOK, SendFailsOK,
       SendRefusedOK, InputOK, AdoptPeerCommitOK, HydrateStrandedTornOK, Zenon
  <2>2. clash' = clash
    BY <1>2, Zenon DEF SendCommit, SendCutShort, AutoCommit, AutoCommitFails, SendFails, SendRefused,
                Ingest, SettleInput, AdoptPeerCommit, HydrateStrandedTorn, lifeVars, madeVars
  <2> QED
    BY <2>1, <2>2, Zenon
<1>3. ASSUME \/ StageOutbox \/ StagingFails \/ StagingAndUndoFail
             \/ Drive \/ ConfirmThenSnapshotFails \/ ConfirmThenReplayFails
             \/ PublishFailedThenReplayFails \/ CallFails
             \/ \E m \in Msg : Resume(m)
             \/ Crash \/ LateArrival
      PROVE  clash' = clash /\ Core'
  <2>1. Core'
    BY <1>3, StageOutboxOK, StagingFailsOK, StagingAndUndoFailOK, ConfirmOK, RollBackOK,
       PendingIsKnown, DriveAloneOK, CallFailsOK, ResumeOK, CrashOK, LateArrivalOK, Zenon DEF Drive
  <2>2. clash' = clash
    BY <1>3, Zenon DEF StageOutbox, StagingFails, StagingAndUndoFail, Drive, ConfirmPublished,
                PublishFailed, UnknownPending, DriveAlone, ConfirmThenSnapshotFails,
                ConfirmThenReplayFails, PublishFailedThenReplayFails, CallFails, Resume, Crash,
                LateArrival, lifeVars, madeVars
  <2> QED
    BY <2>1, <2>2, Zenon
<1> QED
  BY <1>1, <1>2, <1>3, Zenon DEF Next

\* Once a reference has clashed it stays on record.
LEMMA ClashStays ==
  ASSUME clash = TRUE, Next
  PROVE  clash' = TRUE
BY ZenonT(60) DEF Next, Hydrate, HydratePending, HydrateStranded, HydrateOrphanedRemoval, HydrateStable,
       HydrationDue, SendCommit, SendCutShort, AutoCommit, AutoCommitFails, SendFails, SendRefused,
       Ingest, SettleInput, AdoptPeerCommit, HydrateStrandedTorn, lifeVars, madeVars,
       StageOutbox, StagingFails, StagingAndUndoFail, Drive, ConfirmPublished,
       PublishFailed, UnknownPending, DriveAlone, ConfirmThenSnapshotFails,
       ConfirmThenReplayFails, PublishFailedThenReplayFails, CallFails, Resume, Crash, LateArrival

\* Nothing happens.
LEMMA StutterOK ==
  ASSUME Core, UNCHANGED vars
  PROVE  Core'
<1>1. /\ UNCHANGED fanoutVars /\ UNCHANGED <<emVars, engineVars, lifeVars>>
      /\ UNCHANGED <<rows, next, phase, cur, relay, live, outbox>>
  BY Zenon DEF vars, fanoutVars, lifeVars
<1>2. PendingSame /\ \A k \in Msg : relay[k] \subseteq relay'[k]
  BY <1>1, Zenon DEF PendingSame, IsPendingRow
<1>3. phase' # "idle" => /\ outbox = NoWork /\ rows'[cur'].group \in live
                         /\ ~Deferred => live = Group
  BY <1>1, Zenon DEF Core, DriverOK
<1> QED
  BY <1>1, <1>2, <1>3, QuietOK, Zenon

\* Every step keeps the invariant.
LEMMA NextOK == IInv /\ [Next]_vars => IInv'
<1> SUFFICES ASSUME IInv, [Next]_vars PROVE IInv'
  BY Zenon
<1>1. CASE clash = TRUE
  <2>1. Deferred
    BY <1>1, Zenon DEF IInv
  <2>2. clash' = TRUE
    BY <1>1, ClashStays, Zenon DEF vars, lifeVars, madeVars
  <2> QED
    BY <2>1, <2>2, Zenon DEF IInv
<1>2. CASE clash = FALSE
  <2>1. Core
    BY <1>2, Zenon DEF IInv
  <2>2. CASE Next
    BY <1>2, <2>1, <2>2, StepOK, Zenon DEF IInv
  <2>3. CASE UNCHANGED vars
    <3>1. clash' = clash
      BY <2>3, Zenon DEF vars, lifeVars, madeVars
    <3> QED
      BY <1>2, <2>1, <2>3, <3>1, StutterOK, Zenon DEF IInv
  <2> QED
    BY <2>2, <2>3, Zenon
<1> QED
  BY <1>1, <1>2, Zenon DEF IInv

-----------------------------------------------------------------------------
(* The theorems. *)

\* The inductive invariant holds in every reachable state.
THEOREM Invariance == Spec => []IInv
BY InitOK, NextOK, PTL DEF Spec

\* A commit of ours is merged into the MLS group only when a relay holds it,
\* through every crash, restart and failed call; only a lazily hydrated session
\* that restored a reference in use is exempt (confirm_published, hydration and
\* the reference allocator of epoch_manager.rs).
THEOREM MergeFollowsPublication == Spec => []MergedUnlessClash
<1>1. IInv => MergedUnlessClash
  BY BoundsAssumption, Zenon DEF IInv, Core, MergedUnlessClash
<1> QED
  BY <1>1, Invariance, PTL

\* A pending row of the outbound table, the commit attached to the MLS group
\* and the publication in memory are one obligation.
THEOREM RowsAreStagedCommits == Spec => []PendingRowIsStagedCommit
<1>1. IInv => PendingRowIsStagedCommit
  <2> SUFFICES ASSUME IInv, ~(Deferred /\ clash) PROVE
        \A g \in Group : \A m \in PendingRows(g) :
          staged[g] = m /\ (g \in live => IsPublishing(g) /\ states[g].ref = rows[m].ref)
    BY Zenon DEF PendingRowIsStagedCommit
  <2>1. Core
    BY BoundsAssumption, Zenon DEF IInv
  <2> QED
    BY <2>1, Zenon DEF Core, GroupOK, RowsMatch
<1> QED
  BY <1>1, Invariance, PTL

\* What the engine holds in memory, its record and its Welcomes agree with the
\* MLS group, as long as no restored reference met one in use.
Agreement ==
  /\ StableMatchesMls /\ StableRecordIsExact /\ PublicationIsTracked
  /\ PublicationHasNoInput /\ WelcomeTracksCommit

\* The stores agree in every state of the invariant.
LEMMA CoreAgrees == Core => Agreement
<1> SUFFICES ASSUME Core PROVE Agreement
  BY Zenon
<1>1. live \subseteq Group /\ WelcomeTracksCommit
  BY Zenon DEF Core, Shape
<1>2. \A g \in Group : EntryOK(g) /\ StagedOK(g)
  BY Zenon DEF Core, GroupOK
<1>3. StableMatchesMls
  BY <1>1, <1>2, Zenon DEF StableMatchesMls, EntryOK
<1>4. StableRecordIsExact
  <2> SUFFICES ASSUME NEW g \in live, IsStable(g), g \notin drift
               PROVE  record[g] = [epoch |-> tip[g], exact |-> TRUE]
    BY Zenon DEF StableRecordIsExact
  <2>1. staged[g] = NoMsg
    BY <1>1, <1>2, Zenon DEF EntryOK
  <2> QED
    BY <1>1, <1>2, <2>1, Zenon DEF StagedOK
<1>5. PublicationIsTracked /\ PublicationHasNoInput
  BY <1>1, <1>2, Zenon DEF PublicationIsTracked, PublicationHasNoInput, EntryOK
<1> QED
  BY <1>1, <1>3, <1>4, <1>5, Zenon DEF Agreement

\* Memory, record and Welcomes agree with the MLS group in every state in which
\* no restored reference has met one in use.
THEOREM EngineAgrees == Spec => [](~(Deferred /\ clash) => Agreement)
<1>1. IInv => (~(Deferred /\ clash) => Agreement)
  BY CoreAgrees, BoundsAssumption, Zenon DEF IInv
<1> QED
  BY <1>1, Invariance, PTL

\* A session that hydrates every group before it is handed out: a stable entry
\* has the epoch of the MLS group, and no commit attached but a stray removal
\* (hydrate_one_stored_group, do_confirm_published, do_publish_failed).
THEOREM EagerStableMatchesMls ==
  ASSUME ~Deferred
  PROVE  Spec => []StableMatchesMls
<1>1. IInv => StableMatchesMls
  BY CoreAgrees, Zenon DEF IInv, Agreement
<1> QED
  BY <1>1, Invariance, PTL

\* There, a stable group's record shows its MLS group unless a restart left the
\* projection of an unmerged commit behind.
THEOREM EagerRecordIsExact ==
  ASSUME ~Deferred
  PROVE  Spec => []StableRecordIsExact
<1>1. IInv => StableRecordIsExact
  BY CoreAgrees, Zenon DEF IInv, Agreement
<1> QED
  BY <1>1, Invariance, PTL

\* There, a Welcome is deliverable only when its own commit is merged, and
\* none stays staged behind a publication that is over.
THEOREM EagerWelcomeTracksCommit ==
  ASSUME ~Deferred
  PROVE  Spec => []WelcomeTracksCommit
<1>1. IInv => WelcomeTracksCommit
  BY CoreAgrees, Zenon DEF IInv, Agreement
<1> QED
  BY <1>1, Invariance, PTL

\* Every step of the lifecycle is a step of the fanout driver, or none of its
\* business, as long as the engine knows the references of the rows.
LEMMA StepRefines ==
  ASSUME Core, [Next]_vars
  PROVE  [F!Next]_(F!vars)
<1>0. UNCHANGED fanoutVars => UNCHANGED F!vars
  BY Zenon DEF fanoutVars, F!vars
<1>1. CASE UNCHANGED vars
  BY <1>0, <1>1, Zenon DEF vars
<1>2. ASSUME NEW g \in Group,
             \/ \E removes, invites \in BOOLEAN : \/ SendCommit(g, removes, invites)
                                                  \/ SendCutShort(g, removes, invites)
             \/ AutoCommit(g) \/ AutoCommitFails(g)
             \/ SendFails(g) \/ SendRefused(g) \/ Ingest(g) \/ SettleInput(g)
             \/ AdoptPeerCommit(g)
             \/ Hydrate(g) \/ HydrateStrandedTorn(g)
      PROVE  F!Next \/ UNCHANGED fanoutVars
  BY <1>2, Zenon DEF SendCommit, SendCutShort, AutoCommit, AutoCommitFails, SendFails, SendRefused,
              Ingest, SettleInput, AdoptPeerCommit, HydrateStrandedTorn, Hydrate,
              HydratePending, HydrateStranded, HydrateOrphanedRemoval, HydrateStable,
              HydrationDue, F!Next
<1>3. CASE StageOutbox
  <2>1. /\ F!StageFanout(outbox.msg, outbox.group, outbox.ref, FALSE, outbox.welcomes)
        /\ outbox # NoWork
    BY <1>3, Zenon DEF StageOutbox
  <2>2. /\ outbox.msg \in F!Msg /\ outbox.group \in Group /\ outbox.ref \in 0..MaxRef
        /\ outbox.welcomes \in BOOLEAN
    BY <2>1, Zenon DEF Core, OutboxOK, Shape, Msg
  <2> QED
    BY <2>1, <2>2, Zenon DEF F!Next, F!StageAny
<1>4. CASE Drive
  <2>1. CASE UnknownPending
    BY <2>1, PendingIsKnown, Zenon
  <2>2. CASE DriveAlone
    BY <2>2, Zenon DEF DriveAlone, F!Next, F!DriveStep
  <2>3. CASE ConfirmPublished \/ PublishFailed
    BY <2>3, Zenon DEF ConfirmPublished, PublishFailed, F!Next, F!DriveStep
  <2> QED
    BY <1>4, <2>1, <2>2, <2>3, Zenon DEF Drive
<1>5. CASE \/ StagingFails \/ StagingAndUndoFail
           \/ ConfirmThenSnapshotFails \/ ConfirmThenReplayFails
           \/ PublishFailedThenReplayFails \/ CallFails \/ Crash
  BY <1>5, Zenon DEF StagingFails, StagingAndUndoFail, ConfirmThenSnapshotFails,
              ConfirmThenReplayFails, PublishFailedThenReplayFails, CallFails, Crash, F!Next
<1>6. CASE \E m \in Msg : Resume(m)
  BY <1>6, Zenon DEF Resume, F!Next, Msg
<1>7. CASE LateArrival
  BY <1>7, Zenon DEF LateArrival, F!Next, Msg
<1> QED
  BY <1>0, <1>1, <1>2, <1>3, <1>4, <1>5, <1>6, <1>7, Zenon DEF Next

\* An eager session is a behaviour of the fanout driver, so what is proved of
\* FanoutDelivery holds of engine and driver together.
THEOREM Refinement ==
  ASSUME ~Deferred
  PROVE  Spec => RefinesFanoutDelivery
<1>1. Init => F!Init
  BY Zenon DEF Init
<1>2. IInv /\ [Next]_vars => [F!Next]_(F!vars)
  BY StepRefines, Zenon DEF IInv
<1> QED
  BY <1>1, <1>2, Invariance, PTL DEF Spec, RefinesFanoutDelivery, F!Spec

-----------------------------------------------------------------------------
(* What the driver calls confirmed, the engine has merged. *)

ConfirmedIsMerged == \A m \in Msg : fate[m] = "confirmed" => m \in merged

\* A step that confirms a row merges its commit.
LEMMA ConfirmedStep ==
  ASSUME Core, ConfirmedIsMerged, Next
  PROVE  ConfirmedIsMerged'
<1>0. Msg' = Msg
  BY Zenon DEF Msg, F!Msg
<1>1. CASE ConfirmPublished \/ ConfirmThenSnapshotFails \/ ConfirmThenReplayFails
  <2>1. PICK g, r : g = rows[cur].group /\ r = copy.ref
    BY Zenon
  <2>2. /\ phase = "resolve" /\ F!MlsConfirmationRequired(copy)
        /\ fate' = [fate EXCEPT ![cur] = "confirmed"]
        /\ EngineMerge(GroupForPending(r))
    BY <1>1, <2>1, Zenon DEF ConfirmPublished, ConfirmThenSnapshotFails, ConfirmThenReplayFails,
                F!ConfirmPublished, F!ConfirmThenFails
  <2>3. copy.mls = "Pending"
    BY <2>2, Zenon DEF F!MlsConfirmationRequired
  <2>4. staged[g] = cur /\ staged[g] # NoMsg /\ pending[r].group = g
    BY <2>1, <2>2, <2>3, DrivenFacts, Zenon
  <2>5. merged' = merged \cup {cur}
    BY <2>2, <2>4, Zenon DEF EngineMerge, GroupForPending
  <2>6. \A m \in Msg : m # cur => fate'[m] = fate[m] \/ fate'[m] # "confirmed"
    <3>1. fate \in [Msg -> {"none", "confirmed", "rolledback"}]
      BY Zenon DEF Core, DriverInv, TableInv
    <3> QED
      BY <2>2, <3>1, Zenon
  <2> QED
    BY <1>0, <2>5, <2>6, Zenon DEF ConfirmedIsMerged
<1>2. CASE PublishFailed \/ PublishFailedThenReplayFails
  <2>1. fate' = [fate EXCEPT ![cur] = "rolledback"] /\ merged' = merged
    BY <1>2, Zenon DEF PublishFailed, PublishFailedThenReplayFails, F!PublishFailed,
                F!PublishFailedThenFails, EngineClear
  <2>2. fate \in [Msg -> {"none", "confirmed", "rolledback"}]
    BY Zenon DEF Core, DriverInv, TableInv
  <2> QED
    BY <1>0, <2>1, <2>2, Zenon DEF ConfirmedIsMerged
<1>3. ASSUME NEW g \in Group,
             \/ \E removes, invites \in BOOLEAN : \/ SendCommit(g, removes, invites)
                                                  \/ SendCutShort(g, removes, invites)
             \/ AutoCommit(g) \/ AutoCommitFails(g)
             \/ SendFails(g) \/ SendRefused(g) \/ Ingest(g) \/ SettleInput(g)
             \/ AdoptPeerCommit(g)
             \/ Hydrate(g) \/ HydrateStrandedTorn(g)
      PROVE  fate' = fate /\ merged' = merged
  BY <1>3, Zenon DEF SendCommit, SendCutShort, AutoCommit, AutoCommitFails, SendFails, SendRefused,
              Ingest, SettleInput, AdoptPeerCommit, HydrateStrandedTorn, Hydrate,
              HydratePending, HydrateStranded, HydrateOrphanedRemoval, HydrateStable,
              HydrationDue, fanoutVars, engineVars, EngineClear, F!StagingFails, F!Crash, F!history
<1>4. CASE \/ StageOutbox \/ StagingFails \/ StagingAndUndoFail \/ CallFails \/ Crash
           \/ LateArrival \/ UnknownPending
  <2>1. fate' = fate /\ merged' = merged
    BY <1>4, Zenon DEF StageOutbox, StagingFails, StagingAndUndoFail, CallFails, Crash, LateArrival,
                UnknownPending, engineVars, EngineClear, F!StagingFails, F!CallFails, F!Crash,
                F!LateArrival, F!StageFanout, F!history
  <2> QED
    BY <1>0, <2>1, Zenon DEF ConfirmedIsMerged
<1>5. CASE DriveAlone
  <2>1. fate' = fate /\ merged' = merged
    BY <1>5, Zenon DEF DriveAlone, engineVars, F!NothingToResolve, F!PublishWelcomes,
                F!PutWelcomesReleased, F!NoWelcomes, F!StartAttempts, F!NothingDue,
                F!AnswerAccepted, F!AnswerFailed, F!PutResults, F!FinishDrive, F!history
  <2> QED
    BY <1>0, <2>1, Zenon DEF ConfirmedIsMerged
<1>6. CASE \E m \in Msg : Resume(m)
  <2>1. fate' = fate /\ merged' = merged
    BY <1>6, Zenon DEF Resume, engineVars, F!ResumeFanout, F!RetireFanout, F!history
  <2> QED
    BY <1>0, <2>1, Zenon DEF ConfirmedIsMerged
<1> QED
  BY <1>0, <1>1, <1>2, <1>3, <1>4, <1>5, <1>6, Zenon DEF Next, Drive, ConfirmedIsMerged

\* The driver publishes the Welcomes of merged commits only: what it confirmed
\* is what the engine merged (drive_outbound_fanout, do_confirm_published).
THEOREM EagerReleasedAreMerged ==
  ASSUME ~Deferred
  PROVE  Spec => []ReleasedWelcomesAreMerged
<1>1. Init => ConfirmedIsMerged
  BY Zenon DEF Init, F!Init, ConfirmedIsMerged, Msg
<1>2. IInv /\ ConfirmedIsMerged /\ [Next]_vars => ConfirmedIsMerged'
  <2> SUFFICES ASSUME IInv, ConfirmedIsMerged, [Next]_vars PROVE ConfirmedIsMerged'
    BY Zenon
  <2>1. CASE Next
    BY <2>1, ConfirmedStep, Zenon DEF IInv
  <2>2. CASE UNCHANGED vars
    BY <2>2, Zenon DEF vars, fanoutVars, engineVars, ConfirmedIsMerged, Msg, F!Msg
  <2> QED
    BY <2>1, <2>2, Zenon
<1>3. IInv /\ ConfirmedIsMerged => ReleasedWelcomesAreMerged
  <2> SUFFICES ASSUME IInv, ConfirmedIsMerged PROVE ReleasedWelcomesAreMerged
    BY Zenon
  <2>1. DriverInv
    BY Zenon DEF IInv, Core
  <2>2. released \subseteq Msg /\ \A m \in released : fate[m] = "confirmed"
    BY <2>1, Zenon DEF DriverInv, TableInv
  <2> QED
    BY <2>2, Zenon DEF ConfirmedIsMerged, ReleasedWelcomesAreMerged
<1> QED
  BY <1>1, <1>2, <1>3, Invariance, PTL DEF Spec

=============================================================================
