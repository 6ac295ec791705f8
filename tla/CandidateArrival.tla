-------------------------- MODULE CandidateArrival --------------------------
(***************************************************************************)
(* The selector of BranchSelection fed with candidates in every order of   *)
(* arrival.  A state is the vector of candidates the engine has built so   *)
(* far; selection and its audit trace are evaluated in every state.        *)
(***************************************************************************)
EXTENDS BranchSelection

CONSTANTS Epoch,           \* epochs of forks and tips
          Priority,        \* 0 privileged, 1 ordinary
          Committer,       \* committer ids, ordered as integers
          Sender,          \* senders of application messages
          CurrentTip,      \* the tip the device is on
          MaxCandidates    \* bound on the vector

VARIABLE candidates

Witness == [epoch : Epoch, sender : Sender]

\* A branch has at least one commit.  Witnesses lie above the fork and not
\* above the tip (attach_app_witnesses admits no others).
Branches ==
    {c \in [fork : Epoch, tip : Epoch, prio : Priority, committer : Committer,
            witnesses : SUBSET Witness] :
        /\ c.tip > c.fork
        /\ \A w \in c.witnesses : w.epoch > c.fork /\ w.epoch <= c.tip}

\* Digest and branch id of distinct branches differ, whatever their order.
WithDigest(b, d) ==
    [id |-> d, fork |-> b.fork, tip |-> b.tip, prio |-> b.prio,
     committer |-> b.committer, digest |-> d, witnesses |-> b.witnesses]

ArrivedIds == {candidates[i].id : i \in DOMAIN candidates}

Init == candidates = << >>

Arrive ==
    /\ Len(candidates) < MaxCandidates
    /\ \E b \in Branches, d \in 1..MaxCandidates :
          /\ d \notin ArrivedIds
          /\ candidates' = Append(candidates, WithDigest(b, d))

Next == Arrive

Spec == Init /\ [][Next]_candidates

---------------------------------------------------------------------------
TypeOK ==
    /\ Len(candidates) <= MaxCandidates
    /\ \A i \in DOMAIN candidates :
          candidates[i].tip \in Epoch /\ candidates[i].id \in 1..MaxCandidates

Reversed == [i \in DOMAIN candidates |-> candidates[Len(candidates) + 1 - i]]

ById(i, j) == candidates[i].id < candidates[j].id

\* The vector ordered by branch id, as the audit trace orders it.
Ordered ==
    [k \in DOMAIN candidates |->
        candidates[CHOOSE i \in DOMAIN candidates :
                     Cardinality({j \in DOMAIN candidates : ById(j, i)}) = k - 1]]

Winner == SelectCanonicalBranch(CurrentTip, candidates)

\* select_canonical_branch is a function of the candidate set: the order in
\* which branches were found decides nothing, and the winner outranks every
\* other eligible branch.
SelectionIgnoresOrder ==
    LET winner == Winner
    IN /\ winner = SelectCanonicalBranch(CurrentTip, Reversed)
       /\ winner = SelectCanonicalBranch(CurrentTip, Ordered)
       /\ \A i \in DOMAIN candidates :
             (IsEligible(CurrentTip, candidates[i]) /\ candidates[i].id # winner.id)
                => Outranks(winner, candidates[i])

\* Application traffic cannot lift a branch over one whose commits lead by more
\* than the override depth, and never over the rewind horizon: whatever the
\* witnesses, the winner is at most OverrideDepth commits shorter than any
\* eligible branch (ConvergencePolicy::validate, convergence.rs 42-72).
WitnessesCannotOutweighCommits ==
    LET winner == Winner
    IN \A i \in DOMAIN candidates :
          IsEligible(CurrentTip, candidates[i]) =>
             /\ winner # NoBranch
             /\ ValidDepth(winner) + OverrideDepth >= ValidDepth(candidates[i])
             /\ ValidDepth(winner) + MaxRewind >= ValidDepth(candidates[i])

\* The audit trace names the rule that decided: the trace's runner-up loses to
\* the winner exactly at the decisive rule (build_rule_trace).
TraceNamesTheDecision ==
    LET winner == Winner
        other  == RunnerUp(CurrentTip, Ordered, winner)
        rule   == DecisiveRule(winner, other)
    IN (winner # NoBranch /\ other # NoBranch) =>
          /\ rule # 0
          /\ Score(winner)[rule] > Score(other)[rule]
          /\ \A i \in DOMAIN candidates :
                (IsEligible(CurrentTip, candidates[i]) /\ candidates[i].id # winner.id)
                   => ~Outranks(candidates[i], other)
=============================================================================
