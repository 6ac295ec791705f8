------------------------- MODULE LifecycleEngineSteps -------------------------
(***************************************************************************)
(* The engine's own steps keep the invariant of LifecycleInvariant:        *)
(* building a commit, failing to, dying half-way, input from peers, and    *)
(* the merge and the clearing of a staged commit.                          *)
(***************************************************************************)
EXTENDS LifecycleInvariant

-----------------------------------------------------------------------------
(* Building a commit. *)

\* A group that may commit is stable, without an attached commit or pending row.
LEMMA SendFacts ==
  ASSUME Core, NEW g \in Group, MayCommit(g)
  PROVE  /\ phase = "idle" /\ outbox = NoWork /\ (Deferred \/ live = Group) /\ g \in live
         /\ IsStable(g) /\ g \notin input /\ staged[g] = NoMsg /\ PendingRows(g) = {}
         /\ minted \in Nat /\ minted + 1 \in Msg /\ minted + 1 # NoMsg
         /\ minted + 1 \notin merged \cup removal /\ welcome[minted + 1] = "none"
         /\ \A h \in Group : staged[h] # minted + 1
<1>0. Msg = 1..MaxMsg /\ NoMsg = 0
  BY DriverFacts, Zenon DEF Core
<1>1. /\ phase = "idle" /\ outbox = NoWork /\ (Deferred \/ live = Group) /\ g \in live
      /\ IsStable(g) /\ g \notin input /\ staged[g] = NoMsg /\ minted < MaxMsg
  BY Zenon DEF MayCommit, Ready, Preflight
<1>2. minted \in Nat /\ minted + 1 \in Msg /\ minted + 1 # NoMsg
  BY <1>0, <1>1, BoundsAssumption DEF Core, Shape
<1>3. minted + 1 \notin merged \cup removal /\ welcome[minted + 1] = "none"
  BY <1>2 DEF Core, MintedOK
<1>4. ASSUME NEW h \in Group PROVE staged[h] # minted + 1
  <2>1. staged[h] # NoMsg => staged[h] <= minted
    BY Zenon DEF Core, GroupOK, StagedOK
  <2> QED
    BY <1>0, <1>2, <2>1 DEF Core, Shape
<1> QED
  BY <1>1, <1>2, <1>3, <1>4, GroupFacts, Zenon

\* What staging a commit does to the stores.
LEMMA MakeCommitOK ==
  ASSUME Core, NEW g \in Group, MayCommit(g), NEW removes \in BOOLEAN, NEW invites \in BOOLEAN,
         ~(removes /\ invites), MakeCommit(g, minted + 1, removes, invites),
         UNCHANGED <<tip, merged, drift, aborted, next>>,
         \A h \in Group : h # g => record'[h] = record[h]
  PROVE  /\ staged' \in [Group -> Msg \cup {NoMsg}]
         /\ origin' = [m \in Msg |-> origin'[m]]
         /\ welcome' \in [Msg -> {"none", "staged", "sent", "failed"}]
         /\ minted' \in 0..MaxMsg /\ minted' = minted + 1
         /\ removal' \subseteq Msg /\ removal \subseteq removal'
         /\ staged'[g] = minted + 1 /\ StagedOK(g)'
         /\ \A h \in Group : h # g => KeepsStaged(h)
         /\ MintedOK' /\ WelcomeTracksCommit'
<1> DEFINE m == minted + 1
<1>0. Msg = 1..MaxMsg /\ NoMsg = 0 /\ NoMsg' = NoMsg /\ Msg' = Msg
  BY DriverFacts, Zenon DEF Core, Msg, F!Msg, NoMsg, F!NoMsg
<1>1. /\ m \in Msg /\ m # NoMsg /\ staged[g] = NoMsg /\ m \notin merged \cup removal
      /\ welcome[m] = "none" /\ minted \in Nat /\ \A h \in Group : staged[h] # m
  BY SendFacts, Zenon
<1>2. /\ staged \in [Group -> Msg \cup {NoMsg}]
      /\ origin = [k \in Msg |-> origin[k]]
      /\ welcome \in [Msg -> {"none", "staged", "sent", "failed"}]
      /\ removal \subseteq Msg
      /\ \A k \in Msg : k > minted => k \notin merged \cup removal /\ welcome[k] = "none"
      /\ \A k \in removal : welcome[k] = "none"
      /\ next <= minted + 1 /\ next \in 1..(MaxMsg + 1)
  BY DriverFacts, Zenon DEF Core, Shape, MintedOK
<1>3. /\ minted' = m
      /\ origin' = [origin EXCEPT ![m] = [group |-> g, epoch |-> tip[g]]]
      /\ staged' = [staged EXCEPT ![g] = m]
      /\ removal' = IF removes THEN removal \cup {m} ELSE removal
      /\ welcome' = IF invites THEN [welcome EXCEPT ![m] = "staged"] ELSE welcome
  BY Zenon DEF MakeCommit
<1>4. minted' \in 0..MaxMsg /\ minted' = minted + 1 /\ minted' \in Nat
  BY <1>0, <1>1, <1>3, BoundsAssumption
<1> HIDE DEF m
<1>5. staged' \in [Group -> Msg \cup {NoMsg}] /\ staged'[g] = m
  BY <1>1, <1>2, <1>3, Zenon
<1>6. origin' = [k \in Msg |-> origin'[k]]
  BY <1>1, <1>2, <1>3, Zenon
<1>7. welcome' \in [Msg -> {"none", "staged", "sent", "failed"}]
  BY <1>1, <1>2, <1>3, Zenon
<1>8. removal' \subseteq Msg /\ removal \subseteq removal'
  BY <1>1, <1>2, <1>3, Zenon
<1>9. welcome'[m] \in {"none", "staged"} /\ \A k \in Msg : k # m => welcome'[k] = welcome[k]
  BY <1>1, <1>2, <1>3, Zenon
<1>10. origin'[m] = [group |-> g, epoch |-> tip[g]] /\ \A k \in Msg : k # m => origin'[k] = origin[k]
  BY <1>1, <1>2, <1>3, Zenon
<1>11. StagedOK(g)'
  BY <1>0, <1>1, <1>3, <1>4, <1>5, <1>9, <1>10 DEF StagedOK
<1>12. ASSUME NEW h \in Group, h # g PROVE KeepsStaged(h)
  <2>1. staged[h] # NoMsg => /\ staged[h] \notin merged /\ staged[h] \in Msg
                             /\ welcome[staged[h]] \in {"none", "staged"} /\ staged[h] # m
    BY <1>1, Attached, Zenon
  <2>2. staged'[h] = staged[h]
    BY <1>2, <1>3, <1>12, Zenon
  <2> QED
    BY <1>1, <1>4, <1>9, <1>10, <1>12, <2>1, <2>2 DEF KeepsStaged
<1>13. MintedOK'
  <2>1. next' <= minted' + 1
    BY <1>0, <1>1, <1>2, <1>4, BoundsAssumption
  <2>2. ASSUME NEW k \in Msg, k > minted' PROVE k \notin merged' \cup removal' /\ welcome'[k] = "none"
    <3>1. k > minted /\ k # m
      BY <1>0, <1>1, <1>3, <1>4, <2>2
    <3> QED
      BY <1>2, <1>3, <1>9, <3>1, Zenon
  <2>3. ASSUME NEW k \in removal' PROVE welcome'[k] = "none"
    <3>1. CASE k = m
      BY <1>1, <1>3, <3>1, <2>3, Zenon
    <3>2. CASE k # m
      BY <1>2, <1>3, <1>9, <3>2, <2>3, Zenon
    <3> QED
      BY <3>1, <3>2, Zenon
  <2> QED
    BY <1>0, <2>1, <2>2, <2>3, Zenon DEF MintedOK
<1>14. WelcomeTracksCommit'
  <2> SUFFICES ASSUME NEW k \in Msg
               PROVE  /\ welcome'[k] = "sent" => k \in merged
                      /\ k \in merged => welcome'[k] \in {"none", "sent"}
                      /\ welcome'[k] = "staged" => k \in aborted \/ \E h \in Group : staged'[h] = k
    BY <1>0, Zenon DEF WelcomeTracksCommit
  <2>0. /\ welcome[k] = "sent" => k \in merged
        /\ k \in merged => welcome[k] \in {"none", "sent"}
        /\ welcome[k] = "staged" => k \in aborted \/ \E h \in Group : staged[h] = k
    BY Zenon DEF Core, WelcomeTracksCommit
  <2>1. CASE k = m
    BY <1>1, <1>5, <1>9, <2>1, Zenon
  <2>2. CASE k # m
    <3>1. \A h \in Group : staged[h] = k => staged'[h] = k
      BY <1>0, <1>1, <1>2, <1>3
    <3> QED
      BY <1>9, <2>0, <2>2, <3>1, Zenon
  <2> QED
    BY <2>1, <2>2, Zenon
<1> QED
  BY <1>4, <1>5, <1>6, <1>7, <1>8, <1>11, <1>12, <1>13, <1>14, Zenon DEF m


\* A publication that begins.
LEMMA TrackOK ==
  ASSUME Core, NEW g \in Group, MayCommit(g), NEW removes \in BOOLEAN, NEW invites \in BOOLEAN,
         ~(removes /\ invites), MakeCommit(g, minted + 1, removes, invites),
         TrackCommit(g, minted + 1, invites),
         UNCHANGED <<fanoutVars, live, aborted, clash, tip, merged, input, held, drift>>,
         record' \in [Group -> [epoch : Nat, exact : BOOLEAN]],
         \A h \in Group : h # g => record'[h] = record[h]
  PROVE  Core'
<1> DEFINE r == counter + 1
<1>0. Msg = 1..MaxMsg /\ NoMsg = 0 /\ NoMsg' = NoMsg /\ Msg' = Msg /\ NoWork' = NoWork
  BY DriverFacts, Zenon DEF Core, Msg, F!Msg, NoMsg, F!NoMsg, NoWork
<1>1. UNCHANGED <<rows, next, phase, cur, relay>> /\ UNCHANGED fanoutVars
  BY Zenon DEF fanoutVars
<1>2. /\ phase = "idle" /\ outbox = NoWork /\ (Deferred \/ live = Group) /\ g \in live
      /\ IsStable(g) /\ g \notin input /\ staged[g] = NoMsg /\ PendingRows(g) = {}
      /\ minted \in Nat /\ minted + 1 \in Msg /\ minted + 1 # NoMsg
  BY SendFacts, Zenon
<1>3. /\ staged' \in [Group -> Msg \cup {NoMsg}]
      /\ origin' = [m \in Msg |-> origin'[m]]
      /\ welcome' \in [Msg -> {"none", "staged", "sent", "failed"}]
      /\ minted' \in 0..MaxMsg /\ minted' = minted + 1
      /\ removal' \subseteq Msg /\ removal \subseteq removal'
      /\ staged'[g] = minted + 1 /\ StagedOK(g)'
      /\ \A h \in Group : h # g => KeepsStaged(h)
      /\ MintedOK' /\ WelcomeTracksCommit'
  BY <1>1, MakeCommitOK, Zenon
<1>4. /\ states' = [states EXCEPT ![g] = PendingPublish(tip[g] + 1, r)]
      /\ pending' = [k \in DOMAIN pending \cup {r} |->
                       IF k = r THEN [group |-> g, prior |-> tip[g]] ELSE pending[k]]
      /\ counter' = r /\ r <= MaxRef
      /\ outbox' = [msg |-> minted + 1, group |-> g, ref |-> r, welcomes |-> invites]
  BY Zenon DEF TrackCommit, BeginPending, With, NextPendingRef
<1>5. Shape /\ RefsOK /\ OutboxOK /\ DriverOK /\ EagerOK /\ MergedIsHeldByRelay /\ DriverInv /\ MintedOK
  BY Zenon DEF Core
<1>6. r \in 0..MaxRef /\ r \notin DOMAIN pending /\ counter \in Nat /\ counter < r
  BY <1>4, <1>5, BoundsAssumption DEF RefsOK, Shape
<1>7. states'[g] = PendingPublish(tip[g] + 1, r) /\ \A h \in Group : h # g => states'[h] = states[h]
  BY <1>4, <1>5, Zenon DEF Shape
<1>8. \A h : KeepsRows(h) /\ PendingRows(h)' = PendingRows(h)
  BY <1>1, RowsKept, PendingRowsSame, Zenon
<1> HIDE DEF r
<1>9. DriverInv'
  BY <1>1, <1>5, DriverStep, Zenon
<1>10. Shape'
  <2>1. states' = [h \in Group |-> states'[h]]
    BY <1>4, <1>5, Zenon DEF Shape
  <2>2. counter' \in Nat /\ tip' = tip /\ merged' = merged /\ live' = live
    BY <1>4, <1>6
  <2>3. tip \in [Group -> Nat] /\ merged \subseteq Msg /\ live \subseteq Group
    BY <1>5, Zenon DEF Shape
  <2> QED
    BY <1>0, <1>3, <2>1, <2>2, <2>3, Zenon DEF Shape
<1>11. ASSUME NEW h \in Group PROVE GroupOK(h)'
  <2>1. CASE h # g
    <3>1. IsPublishing(h) => states[h].ref \in DOMAIN pending
      BY Zenon DEF Core, GroupOK, EntryOK
    <3>2. KeepsEntry(h)
      BY <1>3, <1>4, <1>6, <1>7, <2>1, <3>1, Zenon DEF KeepsEntry
    <3> QED
      BY <1>3, <1>8, <2>1, <3>2, GroupFrame, Zenon
  <2>2. CASE h = g
    <3>1. EntryOK(g)'
      BY <1>0, <1>2, <1>3, <1>4, <1>7 DEF EntryOK, IsPublishing, IsStable, PendingPublish
    <3>2. RowsMatch(g)'
      BY <1>2, <1>8, Zenon DEF RowsMatch
    <3> QED
      BY <1>3, <2>2, <3>1, <3>2, Zenon DEF GroupOK
  <2> QED
    BY <2>1, <2>2, Zenon
<1>12. RefsOK'
  <2> SUFFICES ASSUME NEW k \in DOMAIN pending'
               PROVE  /\ k \in Nat /\ k <= counter' /\ pending'[k].group \in Group
                      /\ states'[pending'[k].group].name = "PendingPublish"
                      /\ states'[pending'[k].group].ref = k
    BY Zenon DEF RefsOK, IsPublishing
  <2>1. CASE k = r
    <3>1. pending'[k] = [group |-> g, prior |-> tip[g]] /\ k = counter' /\ k \in Nat
      BY <1>4, <1>6, <2>1
    <3>2. pending'[k].group = g
      BY <3>1
    <3>3. states'[g].name = "PendingPublish" /\ states'[g].ref = k
      BY <1>7, <2>1 DEF PendingPublish
    <3> QED
      BY <3>1, <3>2, <3>3
  <2>2. CASE k # r
    <3>1. k \in DOMAIN pending /\ pending'[k] = pending[k]
      BY <1>4, <2>2, Zenon
    <3>2. /\ k \in Nat /\ k <= counter /\ pending[k].group \in Group
          /\ IsPublishing(pending[k].group) /\ states[pending[k].group].ref = k
      BY <1>5, <3>1, Zenon DEF RefsOK
    <3>3. pending[k].group # g
      BY <1>2, <3>2, Zenon DEF IsPublishing, IsStable
    <3>4. states'[pending[k].group] = states[pending[k].group]
      BY <1>7, <3>2, <3>3, Zenon
    <3>5. k <= counter'
      BY <1>4, <1>6, <3>2
    <3> QED
      BY <3>1, <3>2, <3>4, <3>5, Zenon DEF IsPublishing
  <2> QED
    BY <2>1, <2>2, Zenon
<1>13. OutboxOK'
  <2>1. /\ outbox'.msg = minted + 1 /\ outbox'.group = g /\ outbox'.ref = r
        /\ outbox'.welcomes = invites
    BY <1>4, Zenon
  <2>2. next' <= minted + 1 /\ minted + 1 <= minted'
    BY <1>1, <1>2, <1>3, <1>5 DEF MintedOK
  <2> QED
    BY <1>0, <1>1, <1>2, <1>3, <1>6, <1>7, <2>1, <2>2
    DEF OutboxOK, IsPublishing, PendingPublish
<1>14. DriverOK'
  BY <1>0, <1>1, <1>2, Zenon DEF DriverOK
<1>15. EagerOK'
  BY <1>1, <1>2, <1>5, <1>8 DEF EagerOK
<1>16. MergedIsHeldByRelay'
  BY <1>1, <1>5, Zenon DEF MergedIsHeldByRelay
<1> QED
  BY <1>3, <1>9, <1>10, <1>11, <1>12, <1>13, <1>14, <1>15, <1>16, Zenon DEF Core

\* A commit of send.rs.
LEMMA SendCommitOK ==
  ASSUME Core, NEW g \in Group, NEW removes \in BOOLEAN, NEW invites \in BOOLEAN,
         SendCommit(g, removes, invites)
  PROVE  Core'
<1>0. record \in [Group -> [epoch : Nat, exact : BOOLEAN]]
  BY Zenon DEF Core, Shape
<1>1. record' = [record EXCEPT ![g].exact = FALSE]
  BY Zenon DEF SendCommit
<1>2. [record[g] EXCEPT !.exact = FALSE] \in [epoch : Nat, exact : BOOLEAN]
  BY <1>0, Zenon
<1>3. /\ record' \in [Group -> [epoch : Nat, exact : BOOLEAN]]
      /\ \A h \in Group : h # g => record'[h] = record[h]
  BY <1>0, <1>1, <1>2, Zenon
<1>4. /\ MayCommit(g) /\ ~(removes /\ invites)
      /\ MakeCommit(g, minted + 1, removes, invites) /\ TrackCommit(g, minted + 1, invites)
      /\ UNCHANGED <<fanoutVars, live, aborted, clash, tip, merged, input, held, drift>>
  BY Zenon DEF SendCommit
<1> QED
  BY <1>3, <1>4, TrackOK, Zenon

\* The SelfRemove auto-commit of ingest.rs.
LEMMA AutoCommitOK ==
  ASSUME Core, NEW g \in Group, AutoCommit(g)
  PROVE  Core'
<1>0. record \in [Group -> [epoch : Nat, exact : BOOLEAN]] /\ tip[g] + 1 \in Nat
  BY DEF Core, Shape
<1>1. record' = [record EXCEPT ![g] = [epoch |-> tip[g] + 1, exact |-> FALSE]]
  BY Zenon DEF AutoCommit
<1>3. /\ record' \in [Group -> [epoch : Nat, exact : BOOLEAN]]
      /\ \A h \in Group : h # g => record'[h] = record[h]
  BY <1>0, <1>1, Zenon
<1>4. /\ MayCommit(g) /\ ~(TRUE /\ FALSE)
      /\ MakeCommit(g, minted + 1, TRUE, FALSE) /\ TrackCommit(g, minted + 1, FALSE)
      /\ UNCHANGED <<fanoutVars, live, aborted, clash, tip, merged, input, held, drift>>
  BY Zenon DEF AutoCommit
<1> QED
  BY <1>3, <1>4, TrackOK, Zenon

-----------------------------------------------------------------------------
(* Process death. *)

\* The part of Shape that a process death leaves on disk.
DiskShape ==
  /\ staged \in [Group -> Msg \cup {NoMsg}] /\ tip \in [Group -> Nat]
  /\ record \in [Group -> [epoch : Nat, exact : BOOLEAN]]
  /\ origin = [m \in Msg |-> origin[m]]
  /\ welcome \in [Msg -> {"none", "staged", "sent", "failed"}]
  /\ minted \in 0..MaxMsg
  /\ removal \subseteq Msg /\ merged \subseteq Msg

\* A process death keeps what the disk says and forgets the rest.
LEMMA ResetOK ==
  ASSUME Core, F!Crash, EMReset, live' = {}, outbox' = NoWork,
         UNCHANGED <<merged, input>>, DiskShape',
         \A h \in Group : StagedOK(h)' /\ (PendingRows(h) # {} => staged'[h] = staged[h]),
         MintedOK', WelcomeTracksCommit'
  PROVE  Core'
<1>1. rows' = rows /\ next' = next /\ phase' = "idle" /\ relay' = relay
  BY Zenon DEF F!Crash, F!EndDrive, F!durable
<1>2. DriverInv'
  BY DriverStep, Zenon DEF Core, F!Next
<1>3. \A h : KeepsRows(h) /\ PendingRows(h)' = PendingRows(h)
  BY <1>1, RowsKept, PendingRowsSame, Zenon
<1>4. /\ states' = [h \in Group |-> NoEntry] /\ counter' = 0
      /\ pending' = [k \in {} |-> NoEntry]
  BY Zenon DEF EMReset
<1>5. DOMAIN pending' = {} /\ NoWork' = NoWork
  BY <1>4, Zenon DEF NoWork, NoMsg, F!NoMsg
<1>6. Shape'
  <2>1. states' = [h \in Group |-> states'[h]] /\ counter' \in Nat /\ live' \subseteq Group
    BY <1>4, Zenon
  <2> QED
    BY <2>1, Zenon DEF Shape, DiskShape
<1>7. ASSUME NEW h \in Group PROVE GroupOK(h)'
  BY <1>3, ResetFrame, Zenon
<1>8. RefsOK'
  BY <1>5, Zenon DEF RefsOK
<1>9. OutboxOK' /\ DriverOK'
  BY <1>1, <1>5, Zenon DEF OutboxOK, DriverOK
<1>10. EagerOK'
  BY <1>1, <1>3, <1>5 DEF EagerOK, Core
<1>11. MergedIsHeldByRelay'
  BY <1>1, Zenon DEF MergedIsHeldByRelay, Core
<1> QED
  BY <1>2, <1>6, <1>7, <1>8, <1>9, <1>10, <1>11, Zenon DEF Core

\* The process dies between two calls.
LEMMA CrashOK ==
  ASSUME Core, Crash
  PROVE  Core'
<1>1. /\ F!Crash /\ EMReset /\ live' = {} /\ outbox' = NoWork
      /\ UNCHANGED <<tip, staged, record, welcome, merged, input, held, drift>>
      /\ UNCHANGED <<minted, origin, removal, aborted, clash>>
  BY Zenon DEF Crash, engineVars, madeVars
<1>2. next' = next /\ Msg' = Msg /\ NoMsg' = NoMsg
  BY <1>1, Zenon DEF F!Crash, F!durable, Msg, F!Msg, NoMsg, F!NoMsg
<1>3. DiskShape'
  BY <1>1, <1>2, Zenon DEF DiskShape, Core, Shape
<1>4. ASSUME NEW h \in Group PROVE StagedOK(h)'
  BY <1>1, <1>2, Zenon DEF StagedOK, Core, GroupOK
<1>5. MintedOK' /\ WelcomeTracksCommit'
  BY <1>1, <1>2, Zenon DEF Core, MintedOK, WelcomeTracksCommit
<1> QED
  BY <1>1, <1>3, <1>4, <1>5, ResetOK, Zenon

\* The process dies inside a send.
LEMMA SendCutShortOK ==
  ASSUME Core, NEW g \in Group, NEW removes \in BOOLEAN, NEW invites \in BOOLEAN,
         SendCutShort(g, removes, invites)
  PROVE  Core'
<1>1. /\ MayCommit(g) /\ ~(removes /\ invites)
      /\ F!Crash /\ EMReset /\ live' = {} /\ outbox' = NoWork
      /\ MakeCommit(g, minted + 1, removes, invites)
      /\ UNCHANGED <<aborted, clash, tip, record, merged, input, held, drift>>
  BY Zenon DEF SendCutShort
<1>2. next' = next /\ Msg' = Msg /\ NoMsg' = NoMsg
  BY <1>1, Zenon DEF F!Crash, F!durable, Msg, F!Msg, NoMsg, F!NoMsg
<1>3. /\ staged' \in [Group -> Msg \cup {NoMsg}]
      /\ origin' = [m \in Msg |-> origin'[m]]
      /\ welcome' \in [Msg -> {"none", "staged", "sent", "failed"}]
      /\ minted' \in 0..MaxMsg
      /\ removal' \subseteq Msg
      /\ StagedOK(g)'
      /\ \A h \in Group : h # g => KeepsStaged(h)
      /\ MintedOK' /\ WelcomeTracksCommit'
  BY <1>1, <1>2, MakeCommitOK, Zenon
<1>4. DiskShape'
  BY <1>1, <1>2, <1>3, Zenon DEF DiskShape, Core, Shape
<1>5. Shape /\ (\A h \in Group : StagedOK(h)) /\ Msg = 1..MaxMsg /\ NoMsg = 0
  BY DriverFacts, Zenon DEF Core, GroupOK
<1>6. ASSUME NEW h \in Group
      PROVE  StagedOK(h)' /\ (PendingRows(h) # {} => staged'[h] = staged[h])
  <2>1. CASE h = g
    BY <1>1, <1>3, <2>1, SendFacts, Zenon
  <2>2. CASE h # g
    <3>1. KeepsStaged(h)
      BY <1>3, <2>2, Zenon
    <3> QED
      BY <1>5, <3>1, StagedFrame, Zenon DEF KeepsStaged
  <2> QED
    BY <2>1, <2>2, Zenon
<1> QED
  BY <1>1, <1>3, <1>4, <1>6, ResetOK, Zenon

\* The process dies while hydration clears a stranded commit.
LEMMA HydrateStrandedTornOK ==
  ASSUME Core, NEW g \in Group, HydrateStrandedTorn(g)
  PROVE  Core'
<1>1. /\ Stranded(g) /\ F!Crash /\ EMReset /\ live' = {} /\ outbox' = NoWork
      /\ SettleWelcomes(g, "failed")
      /\ staged' = [staged EXCEPT ![g] = NoMsg]
      /\ drift' = drift \cup {g}
      /\ UNCHANGED <<minted, origin, removal, aborted, clash, tip, record, merged, input, held>>
  BY Zenon DEF HydrateStrandedTorn, madeVars
<1>2. /\ next' = next /\ Msg' = Msg /\ NoMsg' = NoMsg /\ NoMsg \notin Msg
      /\ Msg = 1..MaxMsg /\ NoMsg = 0
  BY <1>1, DriverFacts, BoundsAssumption DEF F!Crash, F!durable, Msg, F!Msg, NoMsg, F!NoMsg, Core
<1>3. /\ welcome' \in [Msg -> {"none", "staged", "sent", "failed"}]
      /\ \A m \in Msg :
           /\ welcome[m] # "staged" => welcome'[m] = welcome[m]
           /\ welcome[m] = "staged" => welcome'[m] \in {"staged", "failed"}
      /\ staged[g] # NoMsg /\ welcome[staged[g]] = "staged" => welcome'[staged[g]] = "failed"
      /\ \A h \in Group : h # g /\ staged[h] # NoMsg =>
           welcome'[staged[h]] = welcome[staged[h]]
  BY <1>1, SettleFacts, Zenon
<1>4. Shape /\ MintedOK /\ WelcomeTracksCommit
  BY Zenon DEF Core
<1>5. staged'[g] = NoMsg /\ \A h \in Group : h # g => staged'[h] = staged[h]
  BY <1>1, <1>4, Zenon DEF Shape
<1>6. DiskShape'
  <2>1. staged' \in [Group -> Msg \cup {NoMsg}]
    BY <1>1, <1>4, Zenon DEF Shape
  <2> QED
    BY <1>1, <1>2, <1>3, <1>4, <2>1, Zenon DEF DiskShape, Shape
<1>7. ASSUME NEW h \in Group
      PROVE  StagedOK(h)' /\ (PendingRows(h) # {} => staged'[h] = staged[h])
  <2>1. CASE h = g
    BY <1>1, <1>2, <1>5, <2>1, Zenon DEF StagedOK, Stranded
  <2>2. CASE h # g
    <3>1. staged[h] # NoMsg => staged[h] \notin merged /\ welcome'[staged[h]] \in {"none", "staged"}
      BY <1>3, <2>2, Attached, Zenon
    <3>2. KeepsStaged(h)
      BY <1>1, <1>4, <1>5, <2>2, <3>1, BoundsAssumption DEF KeepsStaged, Shape
    <3>3. StagedOK(h)
      BY Zenon DEF Core, GroupOK
    <3> QED
      BY <1>2, <1>4, <1>5, <2>2, <3>2, <3>3, StagedFrame, Zenon
  <2> QED
    BY <2>1, <2>2, Zenon
<1>8. MintedOK'
  BY <1>1, <1>2, <1>3, <1>4, Zenon DEF MintedOK, Shape
<1>9. WelcomeTracksCommit'
  BY <1>1, <1>2, <1>3, <1>4, <1>5 DEF WelcomeTracksCommit
<1> QED
  BY <1>1, <1>6, <1>7, <1>8, <1>9, ResetOK, Zenon

-----------------------------------------------------------------------------
(* Steps of the engine between two drives. *)

\* The driver rests, the table and the references are kept, and no publication
\* of a group ends.
LEMMA LocalOK ==
  ASSUME Core, UNCHANGED <<rows, next, phase, cur, relay, merged, pending, outbox>>,
         F!Next \/ UNCHANGED fanoutVars, phase = "idle", outbox = NoWork,
         live \subseteq live', live' \subseteq Group,
         counter' \in Nat, counter <= counter', DiskShape',
         states' = [h \in Group |-> states'[h]],
         \A h \in Group : IsPublishing(h) => states'[h] = states[h],
         \A h \in Group : GroupOK(h)',
         MintedOK', WelcomeTracksCommit'
  PROVE  Core'
<1>1. DriverInv'
  BY DriverStep, Zenon DEF Core
<1>2. \A h : PendingRows(h)' = PendingRows(h)
  BY RowsKept, PendingRowsSame, Zenon
<1>3. Shape'
  BY Zenon DEF Shape, DiskShape
<1>4. RefsOK'
  <2>1. \A k \in DOMAIN pending : k \in Nat /\ k <= counter => k <= counter'
    BY DEF Core, Shape
  <2> QED
    BY <2>1, Zenon DEF Core, RefsOK, IsPublishing
<1>5. NoWork' = NoWork
  BY Zenon DEF NoWork, NoMsg, F!NoMsg
<1>6. OutboxOK' /\ DriverOK'
  BY <1>5, Zenon DEF OutboxOK, DriverOK
<1>7. EagerOK'
  <2>1. live' # Group => live # Group
    BY Zenon
  <2> QED
    BY <1>2, <2>1 DEF Core, EagerOK
<1>8. MergedIsHeldByRelay'
  BY Zenon DEF Core, MergedIsHeldByRelay
<1> QED
  BY <1>1, <1>3, <1>4, <1>6, <1>7, <1>8, Zenon DEF Core

\* A failed staging call changes only the driver's bound.
LEMMA StagingFailsFacts ==
  ASSUME F!StagingFails
  PROVE  F!Next /\ phase = "idle" /\ UNCHANGED <<rows, next, phase, cur, relay>>
BY Zenon DEF F!StagingFails, F!Next, F!durable, F!drive, F!network

\* An auto-commit fails and is cleaned up.
LEMMA AutoCommitFailsOK ==
  ASSUME Core, NEW g \in Group, AutoCommitFails(g)
  PROVE  Core'
<1>1. /\ MayCommit(g) /\ F!StagingFails /\ counter' = counter + 1
      /\ UNCHANGED <<states, pending>>
      /\ UNCHANGED <<tip, staged, record, welcome, merged, input, held, drift>>
      /\ UNCHANGED <<live, outbox, minted, origin, removal, aborted, clash>>
  BY Zenon DEF AutoCommitFails, engineVars, lifeVars, madeVars, NextPendingRef
<1>2. /\ F!Next /\ phase = "idle" /\ UNCHANGED <<rows, next, phase, cur, relay>>
      /\ outbox = NoWork
  BY <1>1, StagingFailsFacts, SendFacts, Zenon
<1>3. Shape /\ MintedOK /\ WelcomeTracksCommit /\ Msg' = Msg /\ NoMsg' = NoMsg
  BY Zenon DEF Core, Msg, F!Msg, NoMsg, F!NoMsg
<1>4. DiskShape' /\ MintedOK' /\ WelcomeTracksCommit'
  BY <1>1, <1>2, <1>3, Zenon DEF DiskShape, Shape, MintedOK, WelcomeTracksCommit
<1>5. counter' \in Nat /\ counter <= counter' /\ live \subseteq Group
  BY <1>1, <1>3 DEF Shape
<1>6. ASSUME NEW h \in Group PROVE GroupOK(h)'
  <2>1. KeepsStaged(h)
    <3>1. minted \in Nat
      BY <1>3, BoundsAssumption DEF Shape
    <3>2. staged[h] # NoMsg => /\ staged[h] \notin merged
                               /\ welcome[staged[h]] \in {"none", "staged"}
      BY Attached, Zenon
    <3> QED
      BY <1>1, <3>1, <3>2 DEF KeepsStaged
  <2>2. KeepsEntry(h)
    BY <1>1, Zenon DEF KeepsEntry, Core, GroupOK, EntryOK
  <2>3. KeepsRows(h)
    BY <1>1, <1>2, RowsKept, Zenon
  <2> QED
    BY <2>1, <2>2, <2>3, GroupFrame, Zenon
<1>7. states' = [h \in Group |-> states'[h]]
  BY <1>1, <1>3, Zenon DEF Shape
<1> QED
  BY <1>1, <1>2, <1>4, <1>5, <1>6, <1>7, LocalOK, Zenon

\* A send fails and is cleaned up.
LEMMA SendFailsOK ==
  ASSUME Core, NEW g \in Group, SendFails(g)
  PROVE  Core'
<1> DEFINE m == minted + 1
<1>1. /\ MayCommit(g) /\ F!StagingFails
      /\ minted' = m /\ aborted' = aborted \cup {m}
      /\ origin' = [origin EXCEPT ![m] = [group |-> g, epoch |-> tip[g]]]
      /\ welcome' = [welcome EXCEPT ![m] = "staged"]
      /\ UNCHANGED <<states, pending, counter>>
      /\ UNCHANGED <<live, outbox, removal, clash, tip, staged, record, merged, input, held, drift>>
  BY Zenon DEF SendFails, emVars
<1>2. /\ F!Next /\ phase = "idle" /\ UNCHANGED <<rows, next, phase, cur, relay>>
      /\ outbox = NoWork
  BY <1>1, StagingFailsFacts, SendFacts, Zenon
<1>3. /\ Shape /\ MintedOK /\ WelcomeTracksCommit /\ Msg' = Msg /\ NoMsg' = NoMsg
      /\ Msg = 1..MaxMsg /\ NoMsg = 0
  BY DriverFacts, Zenon DEF Core, Msg, F!Msg, NoMsg, F!NoMsg
<1>4. /\ m \in Msg /\ m \notin merged \cup removal /\ minted \in Nat
      /\ \A h \in Group : staged[h] # m
  BY <1>1, SendFacts, Zenon
<1>5. m \in 0..MaxMsg /\ m \in Nat /\ minted <= m /\ minted < m
  BY <1>3, <1>4, BoundsAssumption
<1>6. \A k \in Msg : k > m => k > minted /\ k # m
  BY <1>3, <1>4
<1>7. next <= m + 1
  BY <1>3, <1>4, <1>5, DriverFacts DEF MintedOK, Core
<1> HIDE DEF m
<1>8. /\ welcome' \in [Msg -> {"none", "staged", "sent", "failed"}]
      /\ welcome'[m] = "staged" /\ \A k \in Msg : k # m => welcome'[k] = welcome[k]
  BY <1>1, <1>3, <1>4, Zenon DEF Shape
<1>9. /\ origin' = [k \in Msg |-> origin'[k]]
      /\ \A k \in Msg : k # m => origin'[k] = origin[k]
  BY <1>1, <1>3, <1>4, Zenon DEF Shape
<1>10. DiskShape'
  BY <1>1, <1>3, <1>5, <1>8, <1>9, Zenon DEF DiskShape, Shape
<1>11. MintedOK'
  <2>1. \A k \in Msg : k > minted' => k \notin merged' \cup removal' /\ welcome'[k] = "none"
    BY <1>1, <1>3, <1>6, <1>8, Zenon DEF MintedOK
  <2>2. \A k \in removal' : welcome'[k] = "none"
    BY <1>1, <1>3, <1>4, <1>8, Zenon DEF MintedOK, Shape
  <2> QED
    BY <1>1, <1>2, <1>3, <1>7, <2>1, <2>2, Zenon DEF MintedOK
<1>12. WelcomeTracksCommit'
  BY <1>1, <1>3, <1>4, <1>8 DEF WelcomeTracksCommit
<1>13. ASSUME NEW h \in Group PROVE GroupOK(h)'
  <2>1. KeepsStaged(h)
    BY <1>1, <1>4, <1>5, <1>8, <1>9, Attached, Zenon DEF KeepsStaged
  <2>2. KeepsEntry(h)
    BY <1>1, Zenon DEF KeepsEntry, Core, GroupOK, EntryOK
  <2>3. KeepsRows(h)
    BY <1>1, <1>2, RowsKept, Zenon
  <2> QED
    BY <2>1, <2>2, <2>3, GroupFrame, Zenon
<1>14. states' = [h \in Group |-> states'[h]] /\ counter' \in Nat /\ counter <= counter' /\ live \subseteq Group
  BY <1>1, <1>3 DEF Shape
<1> QED
  BY <1>1, <1>2, <1>10, <1>11, <1>12, <1>13, <1>14, LocalOK, Zenon


\* The cleanup guard of a refused send clears a removal left attached.
LEMMA SendRefusedOK ==
  ASSUME Core, NEW g \in Group, SendRefused(g)
  PROVE  Core'
<1>1. /\ phase = "idle" /\ outbox = NoWork /\ g \in live /\ IsStable(g) /\ staged[g] # NoMsg
      /\ staged' = [staged EXCEPT ![g] = NoMsg]
      /\ UNCHANGED fanoutVars /\ UNCHANGED <<states, pending, counter>>
      /\ UNCHANGED <<live, outbox, minted, origin, removal, aborted, clash>>
      /\ UNCHANGED <<tip, record, welcome, merged, input, held, drift>>
  BY Zenon DEF SendRefused, Ready, Preflight, emVars, lifeVars, madeVars
<1>2. UNCHANGED <<rows, next, phase, cur, relay>>
  BY <1>1, Zenon DEF fanoutVars
<1>3. Shape /\ MintedOK /\ WelcomeTracksCommit /\ Msg' = Msg /\ NoMsg' = NoMsg
  BY Zenon DEF Core, Msg, F!Msg, NoMsg, F!NoMsg
<1>4. staged'[g] = NoMsg /\ \A h \in Group : h # g => staged'[h] = staged[h]
  BY <1>1, <1>3, Zenon DEF Shape
<1>5. staged[g] \in removal /\ g \in drift /\ EntryOK(g)
  BY <1>1, Zenon DEF Core, GroupOK, EntryOK
<1>6. welcome[staged[g]] = "none"
  BY <1>3, <1>5, Zenon DEF MintedOK
<1>7. DiskShape'
  <2>1. staged' \in [Group -> Msg \cup {NoMsg}]
    BY <1>1, <1>3, Zenon DEF Shape
  <2> QED
    BY <1>1, <1>3, <2>1, Zenon DEF DiskShape, Shape
<1>8. MintedOK' /\ WelcomeTracksCommit'
  <2>1. MintedOK'
    BY <1>1, <1>2, <1>3, Zenon DEF MintedOK
  <2>2. WelcomeTracksCommit'
    BY <1>1, <1>3, <1>4, <1>6 DEF WelcomeTracksCommit
  <2> QED
    BY <2>1, <2>2, Zenon
<1>9. \A h : KeepsRows(h)
  BY <1>1, <1>2, RowsKept, Zenon
<1>10. ASSUME NEW h \in Group PROVE GroupOK(h)'
  <2>1. CASE h # g
    <3>0. minted \in Nat /\ staged'[h] = staged[h]
      BY <1>3, <1>4, <2>1, BoundsAssumption DEF Shape
    <3>1. staged[h] # NoMsg => /\ staged[h] \notin merged
                               /\ welcome[staged[h]] \in {"none", "staged"}
      BY Attached, Zenon
    <3>2. KeepsStaged(h)
      BY <1>1, <3>0, <3>1 DEF KeepsStaged
    <3>3. KeepsEntry(h)
      BY <1>1, Zenon DEF KeepsEntry, Core, GroupOK, EntryOK
    <3> QED
      BY <1>9, <3>2, <3>3, GroupFrame, Zenon
  <2>2. CASE h = g
    <3>1. StagedOK(g)'
      BY <1>1, <1>3, <1>4, <1>5, Zenon DEF StagedOK
    <3>2. EntryOK(g)'
      BY <1>1, <1>3, <1>4, <1>5, Zenon DEF EntryOK, IsStable, IsPublishing
    <3>3. RowsMatch(g)'
      BY <1>1, <1>9, GroupFacts, Zenon DEF RowsMatch, KeepsRows
    <3> QED
      BY <2>2, <3>1, <3>2, <3>3, Zenon DEF GroupOK
  <2> QED
    BY <2>1, <2>2, Zenon
<1>11. states' = [h \in Group |-> states'[h]] /\ counter' \in Nat /\ counter <= counter' /\ live \subseteq Group
  BY <1>1, <1>3 DEF Shape
<1> QED
  BY <1>1, <1>2, <1>7, <1>8, <1>10, <1>11, LocalOK, Zenon

\* Input that arrives or is settled without a branch to adopt.
LEMMA InputOK ==
  ASSUME Core, NEW g \in Group, Ingest(g) \/ SettleInput(g)
  PROVE  Core'
<1>1. /\ phase = "idle" /\ outbox = NoWork /\ g \in live
      /\ UNCHANGED fanoutVars /\ UNCHANGED <<states, pending, counter>>
      /\ UNCHANGED <<live, outbox, minted, origin, removal, aborted, clash>>
      /\ UNCHANGED <<tip, staged, record, welcome, merged, drift>>
      /\ input' \subseteq input \cup {g}
      /\ g \in input' => ~IsPublishing(g)
  <2>1. CASE Ingest(g)
    <3>1. /\ phase = "idle" /\ outbox = NoWork /\ g \in live
          /\ UNCHANGED fanoutVars /\ UNCHANGED <<states, pending, counter>>
          /\ UNCHANGED <<live, outbox, minted, origin, removal, aborted, clash>>
          /\ UNCHANGED <<tip, staged, record, welcome, merged, drift>>
      BY <2>1, Zenon DEF Ingest, Ready, emVars, lifeVars, madeVars
    <3>2. CASE CanIngest(g)
      BY <2>1, <3>1, <3>2, Zenon DEF Ingest, CanIngest, IsPublishing
    <3>3. CASE ~CanIngest(g)
      BY <2>1, <3>1, <3>3, Zenon DEF Ingest, Core, GroupOK, EntryOK
    <3> QED
      BY <3>2, <3>3, Zenon
  <2>2. CASE SettleInput(g)
    BY <2>2, Zenon DEF SettleInput, Ready, emVars, lifeVars, madeVars
  <2> QED
    BY <2>1, <2>2, Zenon
<1>2. UNCHANGED <<rows, next, phase, cur, relay>>
  BY <1>1, Zenon DEF fanoutVars
<1>3. Shape /\ MintedOK /\ WelcomeTracksCommit /\ Msg' = Msg /\ NoMsg' = NoMsg
  BY Zenon DEF Core, Msg, F!Msg, NoMsg, F!NoMsg
<1>4. DiskShape' /\ MintedOK' /\ WelcomeTracksCommit'
  BY <1>1, <1>2, <1>3, Zenon DEF DiskShape, Shape, MintedOK, WelcomeTracksCommit
<1>5. ASSUME NEW h \in Group PROVE GroupOK(h)'
  <2>1. KeepsStaged(h)
    <3>1. minted \in Nat
      BY <1>3, BoundsAssumption DEF Shape
    <3>2. staged[h] # NoMsg => /\ staged[h] \notin merged
                               /\ welcome[staged[h]] \in {"none", "staged"}
      BY Attached, Zenon
    <3> QED
      BY <1>1, <3>1, <3>2 DEF KeepsStaged
  <2>2. KeepsEntry(h)
    BY <1>1, Zenon DEF KeepsEntry, Core, GroupOK, EntryOK
  <2>3. CASE h # g
    <3>1. KeepsRows(h)
      BY <1>1, <1>2, <2>3, RowsKept, Zenon
    <3> QED
      BY <2>1, <2>2, <3>1, GroupFrame, Zenon
  <2>4. CASE h = g
    <3>0. GroupOK(g)
      BY Zenon DEF Core
    <3>1. StagedOK(g)'
      BY <1>1, <1>3, <3>0, Zenon DEF StagedOK, GroupOK
    <3>2. EntryOK(g)'
      BY <1>1, <1>3, <3>0, Zenon DEF GroupOK, EntryOK, IsStable, IsPublishing
    <3>3. PendingRows(g)' = PendingRows(g) /\ \A m \in PendingRows(g) : rows'[m].ref = rows[m].ref
      BY <1>2, RowsKept, PendingRowsSame, Zenon
    <3>4. g \in input' => PendingRows(g) = {}
      BY <1>1, GroupFacts, Zenon DEF Core, GroupOK, RowsMatch
    <3>5. RowsMatch(g)'
      BY <1>1, <3>0, <3>3, <3>4, Zenon DEF RowsMatch, GroupOK, IsPublishing
    <3> QED
      BY <2>4, <3>1, <3>2, <3>5, Zenon DEF GroupOK
  <2> QED
    BY <2>3, <2>4, Zenon
<1>6. states' = [h \in Group |-> states'[h]] /\ counter' \in Nat /\ counter <= counter' /\ live \subseteq Group
  BY <1>1, <1>3 DEF Shape
<1> QED
  BY <1>1, <1>2, <1>4, <1>5, <1>6, LocalOK, Zenon


\* A peer's commit is adopted: an attached commit can only be a stray removal.
LEMMA AdoptPeerCommitOK ==
  ASSUME Core, NEW g \in Group, AdoptPeerCommit(g)
  PROVE  Core'
<1>1. /\ phase = "idle" /\ outbox = NoWork /\ g \in live /\ g \in input
      /\ input' = input \ {g}
      /\ tip' = [tip EXCEPT ![g] = @ + 1]
      /\ staged' = [staged EXCEPT ![g] = NoMsg]
      /\ record' = [record EXCEPT ![g] = [epoch |-> tip[g] + 1, exact |-> TRUE]]
      /\ drift' = drift \ {g}
      /\ SetStable(g, tip[g] + 1)
      /\ UNCHANGED fanoutVars
      /\ UNCHANGED <<live, outbox, minted, origin, removal, aborted, clash>>
      /\ UNCHANGED <<welcome, merged, held>>
  BY Zenon DEF AdoptPeerCommit, Ready, Mirror, lifeVars, madeVars
<1>2. UNCHANGED <<rows, next, phase, cur, relay>>
  BY <1>1, Zenon DEF fanoutVars
<1>3. Shape /\ MintedOK /\ WelcomeTracksCommit /\ Msg' = Msg /\ NoMsg' = NoMsg
  BY Zenon DEF Core, Msg, F!Msg, NoMsg, F!NoMsg
<1>4. IsStable(g) /\ ~IsPublishing(g)
  BY <1>1, Zenon DEF Core, GroupOK, EntryOK, IsStable, IsPublishing
<1>5. /\ states' = [states EXCEPT ![g] = Stable(tip[g] + 1)]
      /\ UNCHANGED <<pending, counter>>
  BY <1>1, <1>4, Zenon DEF SetStable
<1>6. /\ states'[g] = Stable(tip[g] + 1) /\ staged'[g] = NoMsg /\ tip'[g] = tip[g] + 1
      /\ record'[g] = [epoch |-> tip[g] + 1, exact |-> TRUE]
  BY <1>1, <1>3, <1>5, Zenon DEF Shape
<1>7. \A h \in Group : h # g =>
        /\ states'[h] = states[h] /\ staged'[h] = staged[h] /\ tip'[h] = tip[h]
        /\ record'[h] = record[h] /\ ((h \in drift') <=> (h \in drift))
  BY <1>1, <1>3, <1>5, Zenon DEF Shape
<1>8. staged[g] # NoMsg => welcome[staged[g]] = "none"
  <2>1. EntryOK(g)
    BY Zenon DEF Core, GroupOK
  <2> QED
    BY <1>3, <1>4, <2>1, Zenon DEF EntryOK, MintedOK
<1>9. DiskShape'
  <2>0. staged \in [Group -> Msg \cup {NoMsg}] /\ tip \in [Group -> Nat]
        /\ record \in [Group -> [epoch : Nat, exact : BOOLEAN]]
    BY <1>3, Zenon DEF Shape
  <2>1. staged' \in [Group -> Msg \cup {NoMsg}]
    BY <1>1, <2>0, Zenon
  <2>2. tip' \in [Group -> Nat] /\ tip[g] + 1 \in Nat
    BY <1>1, <2>0
  <2>3. record' \in [Group -> [epoch : Nat, exact : BOOLEAN]]
    BY <1>1, <2>0, <2>2, Zenon
  <2> QED
    BY <1>1, <1>3, <2>1, <2>2, <2>3, Zenon DEF DiskShape, Shape
<1>10. MintedOK'
  BY <1>1, <1>2, <1>3, Zenon DEF MintedOK
<1>11. WelcomeTracksCommit'
  <2>1. \A k \in Msg, h \in Group : welcome[k] = "staged" /\ staged[h] = k => staged'[h] = k
    BY <1>7, <1>8, GroupFacts
  <2> QED
    BY <1>1, <1>3, <2>1, Zenon DEF WelcomeTracksCommit
<1>12. ASSUME NEW h \in Group PROVE GroupOK(h)'
  <2>1. CASE h # g
    <3>0. minted \in Nat
      BY <1>3, BoundsAssumption DEF Shape
    <3>1. staged[h] # NoMsg => /\ staged[h] \notin merged
                               /\ welcome[staged[h]] \in {"none", "staged"}
      BY Attached, Zenon
    <3>2. KeepsStaged(h)
      BY <1>1, <1>7, <2>1, <3>0, <3>1 DEF KeepsStaged
    <3>3. IsPublishing(h) => states[h].ref \in DOMAIN pending
      BY Zenon DEF Core, GroupOK, EntryOK
    <3>4. KeepsEntry(h)
      BY <1>1, <1>5, <1>7, <2>1, <3>3, Zenon DEF KeepsEntry
    <3>5. KeepsRows(h)
      BY <1>1, <1>2, RowsKept, Zenon
    <3> QED
      BY <3>2, <3>4, <3>5, GroupFrame, Zenon
  <2>2. CASE h = g
    <3>1. StagedOK(g)'
      BY <1>3, <1>6, Zenon DEF StagedOK
    <3>2. EntryOK(g)'
      BY <1>1, <1>3, <1>6 DEF EntryOK, IsStable, IsPublishing, Stable
    <3>3. PendingRows(g)' = PendingRows(g)
      BY <1>2, RowsKept, PendingRowsSame, Zenon
    <3>4. RowsMatch(g)'
      BY <1>4, <3>3, GroupFacts DEF RowsMatch
    <3> QED
      BY <2>2, <3>1, <3>2, <3>4, Zenon DEF GroupOK
  <2> QED
    BY <2>1, <2>2, Zenon
<1>13. /\ states' = [h \in Group |-> states'[h]] /\ counter' \in Nat /\ counter <= counter'
       /\ live \subseteq Group
  <2>1. states = [h \in Group |-> states[h]] /\ counter \in Nat /\ live \subseteq Group
    BY <1>3, Zenon DEF Shape
  <2>2. states' = [h \in Group |-> states'[h]]
    BY <1>5, <2>1, Zenon
  <2> QED
    BY <1>5, <2>1, <2>2
<1>14. \A h \in Group : IsPublishing(h) => states'[h] = states[h]
  BY <1>4, <1>7, Zenon
<1> QED
  BY <1>1, <1>2, <1>5, <1>9, <1>10, <1>11, <1>12, <1>13, <1>14, LocalOK, Zenon

\* Dropping the attached commit: its Welcomes fail, the record is derived again.
LEMMA ClearOK ==
  ASSUME Core, NEW g \in Group, EngineClear(g),
         UNCHANGED <<minted, origin, removal, aborted, next>>
  PROVE  /\ DiskShape' /\ MintedOK' /\ WelcomeTracksCommit' /\ StagedOK(g)'
         /\ staged'[g] = NoMsg /\ g \notin drift' /\ tip' = tip /\ merged' = merged
         /\ \A h \in Group : h # g => KeepsStaged(h)
<1>1. /\ SettleWelcomes(g, "failed")
      /\ staged' = [staged EXCEPT ![g] = NoMsg]
      /\ record' = [record EXCEPT ![g] = [epoch |-> tip[g], exact |-> TRUE]]
      /\ drift' = drift \ {g}
      /\ UNCHANGED <<tip, merged>>
  BY Zenon DEF EngineClear, Mirror
<1>2. Shape /\ MintedOK /\ WelcomeTracksCommit /\ Msg' = Msg /\ NoMsg' = NoMsg
  BY Zenon DEF Core, Msg, F!Msg, NoMsg, F!NoMsg
<1>3. /\ welcome' \in [Msg -> {"none", "staged", "sent", "failed"}]
      /\ \A m \in Msg :
           /\ welcome[m] # "staged" => welcome'[m] = welcome[m]
           /\ welcome[m] = "staged" => welcome'[m] \in {"staged", "failed"}
      /\ staged[g] # NoMsg /\ welcome[staged[g]] = "staged" => welcome'[staged[g]] = "failed"
      /\ \A h \in Group : h # g /\ staged[h] # NoMsg =>
           welcome'[staged[h]] = welcome[staged[h]]
  BY <1>1, SettleFacts, Zenon
<1>4. /\ staged'[g] = NoMsg /\ record'[g] = [epoch |-> tip[g], exact |-> TRUE]
      /\ \A h \in Group : h # g => staged'[h] = staged[h] /\ record'[h] = record[h]
  BY <1>1, <1>2, Zenon DEF Shape
<1>5. DiskShape'
  <2>0. staged \in [Group -> Msg \cup {NoMsg}] /\ tip \in [Group -> Nat]
        /\ record \in [Group -> [epoch : Nat, exact : BOOLEAN]]
    BY <1>2, Zenon DEF Shape
  <2>1. staged' \in [Group -> Msg \cup {NoMsg}] /\ tip[g] \in Nat
    BY <1>1, <2>0, Zenon
  <2>2. record' \in [Group -> [epoch : Nat, exact : BOOLEAN]]
    BY <1>1, <2>0, <2>1, Zenon
  <2> QED
    BY <1>1, <1>2, <1>3, <2>1, <2>2, Zenon DEF DiskShape, Shape
<1>6. MintedOK'
  BY <1>1, <1>2, <1>3, Zenon DEF MintedOK, Shape
<1>7. WelcomeTracksCommit'
  BY <1>1, <1>2, <1>3, <1>4, GroupFacts DEF WelcomeTracksCommit
<1>8. StagedOK(g)'
  BY <1>1, <1>2, <1>4, Zenon DEF StagedOK
<1>9. ASSUME NEW h \in Group, h # g PROVE KeepsStaged(h)
  <2>1. staged[h] # NoMsg => /\ staged[h] \notin merged
                             /\ welcome'[staged[h]] \in {"none", "staged"}
    BY <1>3, <1>9, Attached, Zenon
  <2>2. minted \in Nat
    BY <1>2, BoundsAssumption DEF Shape
  <2> QED
    BY <1>1, <1>4, <1>9, <2>1, <2>2 DEF KeepsStaged
<1> QED
  BY <1>1, <1>4, <1>5, <1>6, <1>7, <1>8, <1>9, Zenon

\* Merging it: exactly its Welcomes become deliverable.
LEMMA MergeOK ==
  ASSUME Core, NEW g \in Group, staged[g] # NoMsg, EngineMerge(g),
         UNCHANGED <<minted, origin, removal, aborted, next>>
  PROVE  /\ DiskShape' /\ MintedOK' /\ WelcomeTracksCommit' /\ StagedOK(g)'
         /\ staged'[g] = NoMsg /\ g \notin drift' /\ tip'[g] = tip[g] + 1
         /\ merged' = merged \cup {staged[g]}
         /\ \A h \in Group : h # g => KeepsStaged(h)
<1>0. NoMsg' = NoMsg /\ Msg' = Msg /\ Shape /\ MintedOK /\ WelcomeTracksCommit
  BY Zenon DEF Core, Msg, F!Msg, NoMsg, F!NoMsg
<1>1. /\ SettleWelcomes(g, "sent")
      /\ tip' = [tip EXCEPT ![g] = @ + 1]
      /\ merged' = merged \cup {staged[g]}
      /\ staged' = [staged EXCEPT ![g] = NoMsg]
      /\ record' = [record EXCEPT ![g] = [epoch |-> tip'[g], exact |-> TRUE]]
      /\ drift' = drift \ {g}
  BY Zenon DEF EngineMerge, Mirror
<1>2. /\ staged[g] \in Msg /\ staged[g] <= minted /\ staged[g] \notin merged
      /\ welcome[staged[g]] \in {"none", "staged"}
  BY Attached, Zenon
<1>3. /\ welcome' \in [Msg -> {"none", "staged", "sent", "failed"}]
      /\ \A m \in Msg :
           /\ welcome[m] # "staged" => welcome'[m] = welcome[m]
           /\ welcome[m] = "staged" => \/ welcome'[m] \in {"staged", "failed"}
                                       \/ m = staged[g] /\ welcome'[m] = "sent"
      /\ welcome[staged[g]] = "staged" => welcome'[staged[g]] = "sent"
      /\ \A h \in Group : h # g /\ staged[h] # NoMsg =>
           welcome'[staged[h]] = welcome[staged[h]]
  BY <1>1, SettleFacts, Zenon
<1>4. /\ staged'[g] = NoMsg /\ tip'[g] = tip[g] + 1
      /\ record'[g] = [epoch |-> tip'[g], exact |-> TRUE]
      /\ \A h \in Group : h # g => /\ staged'[h] = staged[h] /\ record'[h] = record[h]
                                   /\ tip'[h] = tip[h]
  BY <1>0, <1>1, Zenon DEF Shape
<1>5. DiskShape'
  <2>0. staged \in [Group -> Msg \cup {NoMsg}] /\ tip \in [Group -> Nat]
        /\ record \in [Group -> [epoch : Nat, exact : BOOLEAN]]
    BY <1>0, Zenon DEF Shape
  <2>1. staged' \in [Group -> Msg \cup {NoMsg}] /\ tip' \in [Group -> Nat]
    BY <1>1, <2>0
  <2>2. record' \in [Group -> [epoch : Nat, exact : BOOLEAN]]
    BY <1>1, <2>0, <2>1, Zenon
  <2>3. merged' \subseteq Msg
    BY <1>0, <1>1, <1>2, Zenon DEF Shape
  <2> QED
    BY <1>0, <1>1, <1>3, <2>1, <2>2, <2>3, Zenon DEF DiskShape, Shape
<1>6. MintedOK'
  <2>1. \A k \in Msg : k > minted => k # staged[g]
    <3>1. minted \in Nat /\ Msg = 1..MaxMsg
      BY <1>0, DriverFacts, BoundsAssumption DEF Shape, Core
    <3> QED
      BY <1>2, <3>1
  <2>2. \A k \in removal : k \in Msg /\ welcome'[k] = "none"
    BY <1>0, <1>3, Zenon DEF MintedOK, Shape
  <2>3. \A k \in Msg : k > minted => k \notin merged' \cup removal /\ welcome'[k] = "none"
    BY <1>0, <1>1, <1>3, <2>1, Zenon DEF MintedOK
  <2> QED
    BY <1>0, <2>2, <2>3, Zenon DEF MintedOK
<1>7. WelcomeTracksCommit'
  <2> SUFFICES ASSUME NEW k \in Msg
               PROVE  /\ welcome'[k] = "sent" => k \in merged'
                      /\ k \in merged' => welcome'[k] \in {"none", "sent"}
                      /\ welcome'[k] = "staged" => k \in aborted \/ \E h \in Group : staged'[h] = k
    BY <1>0, Zenon DEF WelcomeTracksCommit
  <2>0. /\ welcome[k] = "sent" => k \in merged
        /\ k \in merged => welcome[k] \in {"none", "sent"}
        /\ welcome[k] = "staged" => k \in aborted \/ \E h \in Group : staged[h] = k
    BY <1>0, Zenon DEF WelcomeTracksCommit
  <2>1. CASE k = staged[g]
    BY <1>1, <1>2, <1>3, <2>1, Zenon
  <2>2. CASE k # staged[g]
    BY <1>1, <1>3, <1>4, <2>0, <2>2
  <2> QED
    BY <2>1, <2>2, Zenon
<1>8. StagedOK(g)'
  BY <1>0, <1>4, Zenon DEF StagedOK
<1>9. ASSUME NEW h \in Group, h # g PROVE KeepsStaged(h)
  <2>1. staged[h] # NoMsg => /\ staged[h] \notin merged /\ staged[h] # staged[g]
                             /\ welcome'[staged[h]] \in {"none", "staged"}
    BY <1>3, <1>9, Attached, GroupFacts, Zenon
  <2>2. minted \in Nat
    BY <1>0, BoundsAssumption DEF Shape
  <2> QED
    BY <1>1, <1>4, <1>9, <2>1, <2>2 DEF KeepsStaged
<1> QED
  BY <1>1, <1>4, <1>5, <1>6, <1>7, <1>8, <1>9, Zenon
=============================================================================
