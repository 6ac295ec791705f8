-------------------------- MODULE BranchSelection --------------------------
(***************************************************************************)
(* How the engine ranks candidate branches and picks the canonical one     *)
(* (crates/cgka-engine/src/convergence.rs).  These are pure operators over *)
(* candidates; CandidateArrival feeds them candidates in every order, and  *)
(* DistributedConvergence uses them on branches built from messages.       *)
(***************************************************************************)
EXTENDS Integers, FiniteSets, Sequences, FiniteSetsExt

CONSTANTS MaxRewind,       \* max_rewind_commits
          QuorumSenders,   \* witness_quorum_senders_per_epoch
          QuorumEpochs,    \* witness_quorum_epochs
          OverrideDepth    \* max_witness_override_depth

\* What ConvergencePolicy::validate admits.
ASSUME PolicyIsValid ==
    /\ {MaxRewind, QuorumSenders, QuorumEpochs, OverrideDepth} \subseteq Nat
    /\ OverrideDepth <= MaxRewind

\* u64::saturating_sub
Minus(a, b) == IF a >= b THEN a - b ELSE 0

---------------------------------------------------------------------------
(* A candidate is a record with the fields id, fork, tip (epochs), prio    *)
(* (0 privileged, 1 ordinary), committer, digest (of the tip commit) and   *)
(* witnesses, a set of [epoch, sender].                                    *)

WitnessEpochs(W) == {w.epoch : w \in W}

SendersAt(W, e) == {w.sender : w \in {x \in W : x.epoch = e}}

QuorumMet(W) ==
    /\ QuorumSenders > 0
    /\ QuorumEpochs > 0
    /\ Cardinality({e \in WitnessEpochs(W) :
                      Cardinality(SendersAt(W, e)) >= QuorumSenders}) >= QuorumEpochs

WitnessScore(W) ==
    MapThenSumSet(LAMBDA e : Min({Cardinality(SendersAt(W, e)), QuorumSenders}),
                  WitnessEpochs(W))

ValidDepth(c) == Minus(c.tip, c.fork)

DepthBoost(c) == IF QuorumMet(c.witnesses) THEN OverrideDepth ELSE 0

EffectiveDepth(c) == ValidDepth(c) + DepthBoost(c)

\* Mutant: the digest is not compared.
ScoreWithoutDigest(c) ==
    << EffectiveDepth(c),
       IF QuorumMet(c.witnesses) THEN 1 ELSE 0,
       WitnessScore(c.witnesses),
       -c.prio, -c.committer, 0 >>

\* Mutant: witnesses are compared before the depth.
ScoreWitnessesFirst(c) ==
    << WitnessScore(c.witnesses), EffectiveDepth(c),
       IF QuorumMet(c.witnesses) THEN 1 ELSE 0,
       -c.prio, -c.committer, -c.digest >>

\* The rules of compare_scores in their order; in each the larger value wins.
\* The last three favour the smaller value, hence the sign.
Score(c) ==
    << EffectiveDepth(c),
       IF QuorumMet(c.witnesses) THEN 1 ELSE 0,
       WitnessScore(c.witnesses),
       -c.prio, -c.committer, -c.digest >>

Greater(s, t) ==
    \E k \in 1..6 : s[k] > t[k] /\ \A j \in 1..(k - 1) : s[j] = t[j]

Outranks(a, b) == Greater(Score(a), Score(b))

IsEligible(tip, c) == Minus(tip, c.fork) <= MaxRewind

NoBranch == [id |-> 0]

\* Iterator::max_by: of equal maxima the last one.
MaxByScore(cs) ==
    LET score == [i \in DOMAIN cs |-> Score(cs[i])]
    IN IF cs = << >> THEN NoBranch
       ELSE cs[CHOOSE i \in DOMAIN cs : \A j \in DOMAIN cs :
                 /\ ~Greater(score[j], score[i])
                 /\ j > i => Greater(score[i], score[j])]

SelectCanonicalBranch(tip, cs) ==
    MaxByScore(SelectSeq(cs, LAMBDA c : IsEligible(tip, c)))

\* The runner-up of the audit trace: the best eligible candidate but the winner.
RunnerUp(tip, ordered, winner) ==
    MaxByScore(SelectSeq(ordered, LAMBDA c : IsEligible(tip, c) /\ c.id # winner.id))

\* build_rule_trace: the first rule in which winner and runner-up differ; 0 if
\* there is none.
DecisiveRule(winner, other) ==
    LET Differ == {k \in 1..6 : Score(winner)[k] # Score(other)[k]}
    IN IF Differ = {} THEN 0 ELSE Min(Differ)
=============================================================================
