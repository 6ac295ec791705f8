----------------------- MODULE DistributedConvergence -----------------------
(***************************************************************************)
(* Several members of one group send commits and application messages,     *)
(* receive them in any order, and resolve forks with convergence passes.   *)
(* A pass rewinds to a retained anchor, builds every branch it can replay, *)
(* picks one with BranchSelection and applies it (distributed_             *)
(* convergence.rs, openmls_projection.rs, canonicalization.rs).            *)
(*                                                                         *)
(* An MLS state is named by the commit that produced it; 0 is the state    *)
(* all members start in.  A message can be opened only with the secrets of *)
(* the state it was sent in.  Publication is one step here                 *)
(* (PublishLifecycle models it), as is a pass (ConvergencePass does).      *)
(***************************************************************************)
EXTENDS BranchSelection

CONSTANTS Member,        \* member ids, ordered as integers
          AppLimit,      \* app_message_past_epoch_limit
          MaxCommits,    \* bound on commits sent
          MaxApps        \* bound on application messages sent

ASSUME MembersAreOrdered == Member \subseteq Nat

VARIABLES msgs,     \* everything ever sent, in sending order
          row,      \* stored state of each message at each member
          live,     \* the MLS state each member is in
          anchor,   \* retained anchor snapshot per epoch
          halted    \* durable unrecoverable flag

vars == <<msgs, row, live, anchor, halted>>

MaxMsg == MaxCommits + MaxApps
State == 0..MaxMsg
NoState == MaxMsg + 1
Epochs == 0..MaxCommits

Sent == DOMAIN msgs
Commits == {i \in Sent : msgs[i].kind = "commit"}
Apps == {i \in Sent : msgs[i].kind = "app"}
EpochOf(s) == IF s = 0 THEN 0 ELSE msgs[s].epoch + 1

\* The states a state descends from, itself included.
History(s) ==
    LET Up[t \in State] == IF t = 0 THEN {0} ELSE {t} \cup Up[msgs[t].parent]
    IN Up[s]

---------------------------------------------------------------------------
(* Stored rows.  Created and Retryable are one state here: both open a     *)
(* pass and gate outbound work.                                            *)

GraphInput == {"sent", "created", "deferred", "processed"}
Unresolved == {"sent", "created", "deferred"}
RowState   == GraphInput \cup {"none", "peel", "invalid", "failed"}

Tip(m)     == EpochOf(live[m])
Floor(m)   == Minus(Tip(m), MaxRewind)
Ceiling(m) == Tip(m) + MaxRewind

\* The rows a pass is seeded with.
PassMembers(m) ==
    {i \in Sent : row[m][i] \in GraphInput /\ msgs[i].epoch \in Floor(m)..Ceiling(m)}

\* Two commits fork from one epoch below e.
ContestedBelow(m, e) ==
    \E i, j \in PassMembers(m) \cap Commits :
        i # j /\ msgs[i].epoch = msgs[j].epoch /\ msgs[i].epoch < e

\* ConvergenceInputContext: an application message matters only above a fork.
GatesOutbound(m, i) ==
    /\ row[m][i] = "created"
    /\ i \in PassMembers(m)
    /\ i \in Commits \/ ContestedBelow(m, msgs[i].epoch)

HasUnresolvedInput(m) == \E i \in Sent : GatesOutbound(m, i)

---------------------------------------------------------------------------
(* The candidate graph of a member: where replay starts, the state there,  *)
(* the commits tried, those without a verdict, and the retained apps.      *)

Graph(m) ==
    LET members    == PassMembers(m)
        unresolved == {i \in members \cap Commits : row[m][i] \in Unresolved}
        historical == {msgs[i].epoch : i \in unresolved} \cap 0..(Tip(m) - 1)
    IN IF historical = {}
       THEN [start |-> Tip(m), base |-> live[m], commits |-> unresolved,
             unresolved |-> unresolved, apps |-> members \cap Apps]
       ELSE [start |-> Min(historical), base |-> anchor[m][Min(historical)],
             commits |-> members \cap Commits,
             unresolved |-> unresolved, apps |-> members \cap Apps]

\* Every commit that was replayed (not restored) on the path is canonical.
PrefixCanonical(m, path) ==
    \A k \in DOMAIN path : msgs[path[k]].author = m \/ row[m][path[k]] = "processed"

\* The state a path of g leads to.
Ends(g, path) == IF path = << >> THEN g.base ELSE path[Len(path)]

\* A peer's commit replays only on the state it was made in.  MLS refuses this
\* device's own commits: they are restored from their checkpoint, for which only
\* the source epoch is compared.
Replays(m, g, path, c) ==
    IF msgs[c].author = m
    THEN /\ row[m][c] \in {"processed", "deferred"}
         /\ PrefixCanonical(m, path)
    ELSE msgs[c].parent = Ends(g, path)

Probed(g, path) == {c \in g.commits : msgs[c].epoch = g.start + Len(path)}

\* CandidateSearch: breadth first over the commits of each next epoch.
Paths(m, g) ==
    LET Level[n \in 0..MaxCommits] ==
          IF n = 0 THEN {<< >>}
          ELSE UNION {{Append(p, c) : c \in {d \in Probed(g, p) : Replays(m, g, p, d)}}
                        : p \in Level[n - 1]}
    IN UNION {Level[n] : n \in 0..MaxCommits}

Materialized(paths) == UNION {{p[k] : k \in DOMAIN p} : p \in paths}

Completed(paths) ==
    {p \in paths : p # << >> /\ \A q \in paths :
        ~(Len(q) = Len(p) + 1 /\ SubSeq(q, 1, Len(p)) = p)}

\* Tried on some path and never replayed.
Rejected(g, paths) == UNION {Probed(g, p) : p \in paths} \ Materialized(paths)

\* Whether an app was sent in a state the path passes through.
Decrypts(m, g, path, a) ==
    LET e == msgs[a].epoch
    IN IF e < g.start
       THEN msgs[a].author = m \/ msgs[a].parent \in History(g.base)
       ELSE /\ e <= g.start + Len(path)
            /\ msgs[a].parent = IF e = g.start THEN g.base ELSE path[e - g.start]

Expired(tip, a) == Minus(tip, msgs[a].epoch) > AppLimit

\* Mutant: a delivered app no longer counts as a witness.
WitnessesUndelivered(m, g, path, tip) ==
    {[epoch |-> msgs[a].epoch, sender |-> msgs[a].author] :
        a \in {b \in g.apps : /\ msgs[b].epoch > g.start /\ row[m][b] # "processed"
                              /\ Decrypts(m, g, path, b)
                              /\ ~Expired(tip, b)}}

Witnesses(m, g, path, tip) ==
    {[epoch |-> msgs[a].epoch, sender |-> msgs[a].author] :
        a \in {b \in g.apps : /\ msgs[b].epoch > g.start
                              /\ Decrypts(m, g, path, b)
                              /\ ~Expired(tip, b)}}

\* One priority class; the digest order of commits is their sending order.
Candidate(m, g, path) ==
    LET last == path[Len(path)]
        tip  == EpochOf(last)
    IN [id |-> path, fork |-> g.start, tip |-> tip, prio |-> 1,
        committer |-> msgs[last].author, digest |-> last,
        witnesses |-> Witnesses(m, g, path, tip)]

\* The paths that may win: max_by over candidates ordered by the hash of their
\* path takes any of those no other outranks.
Selections(m, g, paths) ==
    LET cands == {c \in {Candidate(m, g, p) : p \in Completed(paths)} : IsEligible(Tip(m), c)}
        best  == {c.id : c \in {d \in cands : \A o \in cands : ~Outranks(o, d)}}
    IN IF best = {} THEN {<< >>} ELSE best

---------------------------------------------------------------------------
(* Dispositions of a pass that selected the branch sel (empty: none).      *)

SelectedTip(m, sel) == IF sel = << >> THEN Tip(m) ELSE EpochOf(sel[Len(sel)])

\* Mutant: the commits of a losing branch get no verdict.
CommitDispositionOnBranch(m, g, paths, sel, i) ==
    IF i \in {sel[k] : k \in DOMAIN sel} THEN "processed"
    ELSE IF i \in Rejected(g, paths) THEN "invalid"
    ELSE IF i \in g.unresolved \ Materialized(paths) THEN "deferred"
    ELSE row[m][i]

CommitDisposition(m, g, paths, sel, i) ==
    LET accepted == {sel[k] : k \in DOMAIN sel}
        missing  == g.unresolved \ (Materialized(paths) \cup Rejected(g, paths))
    IN IF i \in accepted THEN "processed"
       ELSE IF sel # << >> /\ i \in Materialized(paths) THEN "deferred"
       ELSE IF i \in Rejected(g, paths) THEN "invalid"
       ELSE IF i \in missing THEN "deferred"
       ELSE IF sel # << >> /\ row[m][i] = "processed" /\ msgs[i].epoch >= g.start
            THEN "invalid"            \* emit_superseded_processed_commits
       ELSE row[m][i]

AppDisposition(m, g, paths, sel, a) ==
    LET on == {p \in Completed(paths) : Decrypts(m, g, p, a)}
    IN IF row[m][a] = "processed"
       THEN IF sel # << >> /\ on # {} /\ sel \notin on THEN "invalid" ELSE "processed"
       ELSE IF Expired(Tip(m), a) THEN "invalid"
       ELSE IF sel \in on THEN "processed"
       ELSE IF on = {} /\ msgs[a].epoch <= SelectedTip(m, sel) THEN "invalid"
       ELSE "deferred"

\* Deferred commits below the floor are retired when a pass is seeded.
Disposition(m, g, paths, sel, i) ==
    IF i \in g.apps THEN AppDisposition(m, g, paths, sel, i)
    ELSE IF i \in PassMembers(m) THEN CommitDisposition(m, g, paths, sel, i)
    ELSE IF i \in Commits /\ row[m][i] = "deferred" /\ msgs[i].epoch < Floor(m)
    THEN "invalid" ELSE row[m][i]

---------------------------------------------------------------------------
(* Applying the selected branch.                                           *)

\* Length of the leading run of accepted commits for which P holds from k on.
Leading(path, from, P(_)) ==
    CHOOSE n \in 0..(Len(path) - from) :
        /\ \A k \in 1..n : P(path[from + k])
        /\ n < Len(path) - from => ~P(path[from + n + 1])

\* Skipped: Processed commits below the live tip are the live chain.
AppliedPrefix(m, sel) ==
    Leading(sel, 0, LAMBDA c : row[m][c] = "processed" /\ msgs[c].epoch < Tip(m))

\* Mutant: own commits are replayed like a peer's.
OwnRunReplayed(m, sel) == 0

\* Then a run of own commits is realised by restoring the last one's checkpoint.
OwnRun(m, sel) ==
    Leading(sel, AppliedPrefix(m, sel), LAMBDA c : msgs[c].author = m)

Skipped(m, sel) == AppliedPrefix(m, sel) + OwnRun(m, sel)

\* The state the remaining commits are replayed on.
ApplyBase(m, sel) ==
    LET n == Skipped(m, sel)
    IN IF OwnRun(m, sel) > 0 THEN sel[n]
       ELSE IF n = Len(sel) \/ msgs[sel[n + 1]].epoch >= Tip(m) THEN live[m]
       ELSE anchor[m][msgs[sel[n + 1]].epoch]

Replayed(m, sel) == SubSeq(sel, Skipped(m, sel) + 1, Len(sel))

\* MLS accepts the replay: every commit is a peer's, made in the state before it.
ApplySucceeds(m, sel) ==
    LET rest == Replayed(m, sel)
    IN \A k \in DOMAIN rest :
          /\ msgs[rest[k]].author # m
          /\ msgs[rest[k]].parent = IF k = 1 THEN ApplyBase(m, sel) ELSE rest[k - 1]

ApplyResult(m, sel) ==
    LET rest == Replayed(m, sel)
    IN IF rest = << >> THEN ApplyBase(m, sel) ELSE rest[Len(rest)]

\* Mutant: the oldest epoch of the horizon is pruned too.
RetainOneLess(anch, s) ==
    [e \in Epochs |-> IF e = EpochOf(s) THEN s
                      ELSE IF e <= Minus(EpochOf(s), MaxRewind) THEN NoState
                      ELSE anch[e]]
\* retain_current_group_epoch_snapshot: replaces the epoch's snapshot and prunes
\* what fell out of the horizon.
Retain(anch, s) ==
    [e \in Epochs |-> IF e = EpochOf(s) THEN s
                      ELSE IF e < Minus(EpochOf(s), MaxRewind) THEN NoState
                      ELSE anch[e]]

\* The live tip is refreshed when replay starts there, each replayed commit
\* retains the state it leads to, and so does the apply itself.
AnchorsAfterApply(m, sel) ==
    LET rest  == Replayed(m, sel)
        first == IF rest # << >> /\ OwnRun(m, sel) = 0 /\ msgs[rest[1]].epoch = Tip(m)
                 THEN Retain(anchor[m], live[m]) ELSE anchor[m]
        After[k \in 0..Len(rest)] ==
            IF k = 0 THEN first ELSE Retain(After[k - 1], rest[k])
    IN Retain(After[Len(rest)], ApplyResult(m, sel))

---------------------------------------------------------------------------
(* Opening messages.                                                       *)

\* Retained anchors below the live epoch; the live state is tried before them.
AnchorContexts(m) == {anchor[m][e] : e \in 0..(Tip(m) - 1)} \ {NoState}

\* candidate_branch_peel: the tips of the candidate branches, if there are two.
BranchContexts(m) ==
    LET g    == Graph(m)
        tips == IF g.base = NoState THEN {} ELSE Completed(Paths(m, g))
    IN IF Cardinality(tips) < 2 THEN {} ELSE {p[Len(p)] : p \in tips}

\* What becomes of a message opened while the sweep holds the contexts branches.
Opened(m, i, branches) ==
    LET epoch == msgs[i].epoch
        foreign == msgs[i].parent # live[m] /\ msgs[i].parent \in branches
    IN IF foreign \/ (i \in Apps /\ branches # {}) THEN "created"
       ELSE IF i \in Commits
       THEN IF Minus(Tip(m), epoch) <= MaxRewind THEN "created" ELSE "failed"
       ELSE IF epoch > Tip(m) THEN "created"
       ELSE IF Minus(Tip(m), epoch) > AppLimit THEN "failed"
       ELSE IF msgs[i].parent \in History(live[m]) THEN "processed"
       ELSE "created"

Openable(m, i, branches) ==
    msgs[i].parent \in {live[m]} \cup AnchorContexts(m) \cup branches

AwaitsPeel(m) == {i \in Sent : row[m][i] = "peel"}

SweepDue(m) ==
    /\ AwaitsPeel(m) # {}
    /\ LET branches == BranchContexts(m) IN \E i \in AwaitsPeel(m) : Openable(m, i, branches)

\* The advance before a send found nothing left to do.
Settled(m) == ~halted[m] /\ ~HasUnresolvedInput(m) /\ ~SweepDue(m)

---------------------------------------------------------------------------
Init ==
    /\ msgs = << >>
    /\ row = [m \in Member |-> [i \in 1..MaxMsg |-> "none"]]
    /\ live = [m \in Member |-> 0]
    /\ anchor = [m \in Member |-> [e \in Epochs |-> IF e = 0 THEN 0 ELSE NoState]]
    /\ halted = [m \in Member |-> FALSE]

Message(kind, m) ==
    [kind |-> kind, parent |-> live[m], epoch |-> Tip(m), author |-> m]

\* Confirmed at once: merged, stamped with its checkpoint, both epochs retained.
SendCommit(m) ==
    LET new == Len(msgs) + 1
    IN /\ Cardinality(Commits) < MaxCommits
       /\ Settled(m)
       /\ msgs' = Append(msgs, Message("commit", m))
       /\ row' = [row EXCEPT ![m][new] = "processed"]
       /\ live' = [live EXCEPT ![m] = new]
       /\ anchor' = [anchor EXCEPT ![m] =
             [e \in Epochs |->
                IF e = Tip(m) + 1 THEN new ELSE IF e = Tip(m) THEN live[m]
                ELSE IF e < Minus(Tip(m) + 1, MaxRewind) THEN NoState ELSE anchor[m][e]]]
       /\ UNCHANGED halted

SendApp(m) ==
    /\ Cardinality(Apps) < MaxApps
    /\ Settled(m)
    /\ msgs' = Append(msgs, Message("app", m))
    /\ row' = [row EXCEPT ![m][Len(msgs) + 1] = "sent"]
    /\ UNCHANGED <<live, anchor, halted>>

\* First delivery.  Live ingest has no branch contexts.
Ingest(m, i) ==
    /\ row[m][i] = "none"
    /\ ~halted[m]
    /\ row' = [row EXCEPT ![m][i] =
                  IF Openable(m, i, {}) THEN Opened(m, i, {}) ELSE "peel"]
    /\ UNCHANGED <<msgs, live, anchor, halted>>

\* The deferred-peel sweep over all rows that can be opened by now.
Sweep(m) ==
    LET branches == BranchContexts(m)
    IN /\ ~halted[m]
       /\ ~HasUnresolvedInput(m)
       /\ SweepDue(m)
       /\ row' = [row EXCEPT ![m] = [i \in 1..MaxMsg |->
                     IF i \in AwaitsPeel(m) /\ Openable(m, i, branches)
                     THEN Opened(m, i, branches) ELSE row[m][i]]]
       /\ UNCHANGED <<msgs, live, anchor, halted>>

\* A whole pass over the rows retained so far.  Without the anchor to rewind to
\* the group is marked durably unrecoverable and nothing else changes.
Converge(m) ==
    LET g == Graph(m)
        paths == Paths(m, g)
    IN /\ ~halted[m]
       /\ HasUnresolvedInput(m)
       /\ halted' = [halted EXCEPT ![m] = (g.base = NoState)]
       /\ IF g.base = NoState THEN UNCHANGED <<row, live, anchor>>
          ELSE \E sel \in Selections(m, g, paths) :
               /\ sel # << >> => ApplySucceeds(m, sel)
               /\ row' = [row EXCEPT ![m] = [i \in 1..MaxMsg |->
                     IF i \in Sent THEN Disposition(m, g, paths, sel, i) ELSE row[m][i]]]
               /\ live' = IF sel = << >> THEN live
                          ELSE [live EXCEPT ![m] = ApplyResult(m, sel)]
               /\ anchor' = IF sel = << >> THEN anchor
                            ELSE [anchor EXCEPT ![m] = AnchorsAfterApply(m, sel)]
       /\ UNCHANGED msgs

Next ==
    \E m \in Member :
        \/ SendCommit(m)
        \/ SendApp(m)
        \/ \E i \in Sent : Ingest(m, i)
        \/ Sweep(m)
        \/ Converge(m)

Spec == Init /\ [][Next]_vars

\* A drain resolves a group's unresolved input, then sweeps what awaits peeling.
Fairness == \A m \in Member : WF_vars(Converge(m)) /\ WF_vars(Sweep(m))

FairSpec == Spec /\ Fairness

---------------------------------------------------------------------------
(* Properties.                                                             *)

\* Messages, rows, live states, anchors and flags have their types.
TypeOK ==
    /\ \A i \in Sent : msgs[i] \in [kind : {"commit", "app"}, parent : State,
                                    epoch : Epochs, author : Member]
    /\ row \in [Member -> [1..MaxMsg -> RowState]]
    /\ live \in [Member -> State]
    /\ anchor \in [Member -> [Epochs -> State \cup {NoState}]]
    /\ halted \in [Member -> BOOLEAN]

\* Every member has received everything and has nothing left to resolve.
AtRest ==
    \A m \in Member : Settled(m) /\ \A i \in Sent : row[m][i] # "none"

AllOpened == \A m \in Member, i \in Sent : row[m][i] # "peel"

\* The Processed commits of a member are the commits its live state descends from.
RowsFollowLive ==
    \A m \in Member : {i \in Commits : row[m][i] = "processed"} = History(live[m]) \ {0}

SameState == \A m, n \in Member : live[m] = live[n]

\* Convergence of the group: members that received the same messages, in whatever
\* order and with whatever passes in between, and that could open all of them,
\* rest in the same MLS state.  The members whose rows no longer describe their
\* live chain (ProcessedIsLiveChain below) are the only exception.
AgreementAtRest == AtRest /\ AllOpened /\ RowsFollowLive => SameState

\* The anchor a pass has to rewind to is never missing: every advance retains its
\* epochs and pruning stays behind the rewind horizon, also after the tip moved
\* back to a shorter branch.
AnchorForEveryFork == \A m \in Member : ~halted[m]

\* Whatever branch a pass selects can be applied, and leads to the tip it was
\* selected for: the shortcuts of the apply step (skip what is applied, restore
\* the last own checkpoint, replay the rest on an anchor) agree with the search.
SelectionIsRealised ==
    \A m \in Member : (HasUnresolvedInput(m) /\ Graph(m).base # NoState) =>
        LET g == Graph(m)
        IN \A sel \in Selections(m, g, Paths(m, g)) \ {<< >>} :
              ApplySucceeds(m, sel) /\ ApplyResult(m, sel) = sel[Len(sel)]

\* Unresolved input does not stay unresolved while drains go on.
UnresolvedInputIsResolved ==
    \A m \in Member : HasUnresolvedInput(m) ~> ~HasUnresolvedInput(m)

Unreceived(m) == {i \in 1..MaxMsg : row[m][i] = "none"}

\* A pass leaves nothing behind that gates outbound work: every row it was opened
\* for gets a verdict, so that one pass is enough to release the group's sends.
PassResolvesInput ==
    [][\A m \in Member :
          (HasUnresolvedInput(m) /\ row'[m] # row[m] /\ Unreceived(m)' = Unreceived(m))
             => ~HasUnresolvedInput(m)']_vars

\* already_applied_commit_prefix: Processed means applied on this device's
\* canonical chain.  Violated: an own commit is restored from its checkpoint
\* wherever its epoch fits, so a path may name a commit its tip never followed.
ProcessedIsLiveChain == RowsFollowLive

\* process_openmls_messages_inner: every resulting epoch of an adopted branch is
\* retained, for input that forks from inside it.  Violated: a run of own commits
\* restored in one step leaves the rival's snapshots at the epochs it crossed.
AnchorsAreLiveChain ==
    \A m \in Member : \A e \in Floor(m)..Tip(m) : anchor[m][e] \in History(live[m])

\* seed_stored_openmls_graph_inputs: selection may not depend on arrival order.
\* Violated: an application message sent inside a losing branch, not at its tip,
\* cannot be opened there, and its witness is missing where it arrived late.
AgreementWithUnopened == AtRest /\ RowsFollowLive => SameState
=============================================================================
