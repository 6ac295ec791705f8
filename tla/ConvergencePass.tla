-------------------------- MODULE ConvergencePass --------------------------
(***************************************************************************)
(* The durable convergence pass of one group (distributed_convergence.rs,  *)
(* convergence_input.rs): retained input opens a pass, later input joins   *)
(* it until a cutoff on two clocks, the frozen batch is resolved and       *)
(* applied, and the completed pass reserves one attempt for a queued       *)
(* administrative commit (message_processor/mod.rs).  Which branch wins is *)
(* left open here; DistributedConvergence decides it.                      *)
(*                                                                         *)
(* Times are kept relative to now: q and a are what is left until the      *)
(* quiescence and the absolute deadline on the process clock, wq and wa on *)
(* the wall clock, and age is the wall time since the pass was opened.     *)
(***************************************************************************)
EXTENDS Integers, FiniteSets

CONSTANTS Input,         \* commits and application messages
          App,           \* the application messages among them
          Own,           \* the commits this device may publish
          Src,           \* Src[i]: the epoch an input was sent in
          MaxRewind,     \* max_rewind_commits
          Quiescence,    \* settlement_quiescence_ms, in ticks
          MaxPass,       \* max_convergence_pass_ms, in ticks
          MaxLag,        \* bound: ticks a due cutoff may be overdue
          MaxRestarts,   \* bound on process deaths
          WallSteps,     \* the wall clock adjustments considered, in ticks
          MaxSteps,      \* bound on their number
          MaxFailures    \* bound on failed publications

ASSUME PolicyAssumption ==
    /\ Quiescence \in Nat \ {0} /\ MaxPass \in Nat /\ Quiescence <= MaxPass
    /\ MaxRewind \in Nat /\ WallSteps \subseteq Int
    /\ {MaxLag, MaxRestarts, MaxSteps, MaxFailures} \subseteq Nat
    /\ App \subseteq Input /\ Own \subseteq Input \ App
    /\ Src \in [Input -> Nat] /\ "none" \notin Input

VARIABLES rows,       \* state of each retained input (durable)
          tip,        \* epoch of the group (durable)
          owner,      \* local publication in flight, if any (durable)
          pass,       \* the DurableConvergencePass record
          admin,      \* an administrative intent is queued (durable)
          halted,     \* the group is Unrecoverable (durable)
          used,       \* how much of each bound is used
          times,      \* history: what an outside clock saw of this pass
          waited      \* history: passes completed before the queued
                      \* intent's next attempt

vars == <<rows, tip, owner, pass, admin, halted, used, times, waited>>

Commit == Input \ App
Peer == Input \ Own
NoOwner == [commit |-> "none", queued |-> FALSE]
NoPass == [phase |-> "none", base |-> 0, members |-> {}, q |-> 0, a |-> 0,
           wq |-> 0, wa |-> 0, age |-> 0, fresh |-> TRUE, slot |-> FALSE,
           cause |-> "none"]

Active(p) == p.phase \in {"collecting", "frozen", "resolving"}
Stable == owner = NoOwner /\ ~halted
Floor(base) == IF base > MaxRewind THEN base - MaxRewind ELSE 0
Window(base) == {i \in Input : Src[i] \in Floor(base)..(base + MaxRewind)}
GraphInput(r) == {i \in Input : r[i] \in {"created", "applied", "parked"}}

\* An application message matters only above competing commits.
ContestedBelow(S, e) ==
    \E c, d \in S \cap Commit : c # d /\ Src[c] = Src[d] /\ Src[c] < e

\* opens_pass and gates_outbound agree on the row states modelled here.
Opens(r, S, i) ==
    r[i] = "created" /\ (i \in Commit \/ ContestedBelow(S, Src[i]))

PassGatesOutbound(p) ==
    Active(p) /\ \E i \in p.members :
                    i \in Commit \/ ContestedBelow(p.members, Src[i])

HasUnresolvedInput(r) ==
    \/ PassGatesOutbound(pass)
    \/ \E i \in GraphInput(r) \cap Window(tip) :
          Opens(r, GraphInput(r) \cap Window(tip), i)

-----------------------------------------------------------------------------
Pos(x) == IF x > 0 THEN x ELSE 0
Cutoff(p) == IF p.q < p.a THEN p.q ELSE p.a

\* Mutant: the rebase starts both windows anew.
NormalizeAnew(p) ==
    IF p.phase # "collecting" \/ p.fresh THEN p
    ELSE [p EXCEPT !.fresh = TRUE, !.q = Quiescence, !.a = MaxPass]

\* The process clock does not survive a restart: the deadlines are taken from
\* the wall clock, and are due at once if that was set back before the opening.
Normalize(p) ==
    IF p.phase # "collecting" \/ p.fresh THEN p
    ELSE [p EXCEPT !.fresh = TRUE,
                   !.q = IF p.age < 0 THEN 0 ELSE Pos(p.wq),
                   !.a = IF p.age < 0 THEN 0 ELSE Pos(p.wa)]

Freeze(p) ==
    [NoPass EXCEPT !.phase = "frozen", !.base = p.base, !.members = p.members,
                   !.cause = IF p.age < 0 THEN "clock"
                             ELSE IF p.a <= p.q THEN "absolute"
                             ELSE "quiescence"]

\* The one-attempt reservation of a completed pass.
HeldByReservation(p) == p.phase = "completed" /\ p.slot /\ admin

\* Losing commits that no rewind can reach any more are retired when a pass
\* is seeded.
Seeds == ~HeldByReservation(pass) /\ ~(Active(pass) /\ pass.base = tip) /\ Stable
Retired(r) ==
    [i \in Input |->
        IF r[i] = "parked" /\ i \in Commit /\ Src[i] < Floor(tip) THEN "gone"
        ELSE r[i]]
RowsAfterLoad(r) == IF Seeds THEN Retired(r) ELSE r

Opened(r) ==
    LET seed == GraphInput(r) \cap Window(tip)
    IN IF Stable /\ \E i \in seed : Opens(r, seed, i)
       THEN [NoPass EXCEPT !.phase = "collecting", !.base = tip,
                           !.members = seed, !.q = Quiescence, !.a = MaxPass,
                           !.wq = Quiescence, !.wa = MaxPass]
       ELSE IF Active(pass) THEN NoPass ELSE [pass EXCEPT !.slot = FALSE]

\* load_or_open_convergence_pass over the rows r.
Load(r) ==
    IF HeldByReservation(pass) THEN pass
    ELSE IF Active(pass) /\ pass.base = tip THEN Normalize(pass)
    ELSE Opened(RowsAfterLoad(r))

\* admit_stored_message_to_convergence_pass: too late input freezes the pass it
\* missed; input that can change the outcome restarts the quiescence window.
Relevant(p, i) == i \in Commit \/ ContestedBelow(p.members, Src[i])
Admits(p, i) ==
    /\ p.phase = "collecting" /\ i \notin p.members
    /\ Cutoff(p) > 0 /\ i \in Window(p.base)
\* Mutant: the durable wall deadline does not follow the quiescence restart.
AdmitOnProcessClock(p, i) ==
    IF p.phase # "collecting" \/ i \in p.members THEN p
    ELSE IF Cutoff(p) <= 0 THEN Freeze(p)
    ELSE IF ~Admits(p, i) THEN p
    ELSE IF Relevant(p, i) THEN [p EXCEPT !.members = @ \cup {i}, !.q = Quiescence]
         ELSE [p EXCEPT !.members = @ \cup {i}]
\* Mutant: input joins a pass that is already frozen.
AdmitToFrozen(p, i) ==
    IF Active(p) /\ i \in Window(p.base) THEN [p EXCEPT !.members = @ \cup {i}]
    ELSE p
Admit(p, i) ==
    IF p.phase # "collecting" \/ i \in p.members THEN p
    ELSE IF Cutoff(p) <= 0 THEN Freeze(p)
    ELSE IF ~Admits(p, i) THEN p
    ELSE IF Relevant(p, i)
         THEN [p EXCEPT !.members = @ \cup {i}, !.q = Quiescence, !.wq = Quiescence]
         ELSE [p EXCEPT !.members = @ \cup {i}]

-----------------------------------------------------------------------------
NoTimes == [real |-> 0, quiet |-> 0, back |-> 0, ahead |-> 0]
IsNew(p) == Active(p) /\ ~(Active(pass) /\ pass.base = tip)

Init ==
    /\ rows = [i \in Input |-> "none"]
    /\ tip = 0 /\ owner = NoOwner /\ pass = NoPass
    /\ admin = FALSE /\ halted = FALSE
    /\ used = [restarts |-> 0, steps |-> 0, failures |-> 0]
    /\ times = NoTimes /\ waited = 0

\* Where ingest hands input to convergence: every commit no older than the
\* rewind horizon, application messages from the future or read under a rival
\* branch.
EntersConvergence(i) ==
    IF i \in Commit THEN Src[i] >= Floor(tip)
    ELSE Src[i] > tip \/ \E c \in Commit : rows[c] \in {"created", "parked"}

\* buffer_openmls_convergence_message_with_time: the row and its membership are
\* one transaction.  A local publication retains the row without admitting it.
Ingest(i) ==
    /\ rows[i] = "none" /\ ~halted /\ EntersConvergence(i)
    /\ LET r == [rows EXCEPT ![i] = "created"]
           p == Load(r)
       IN IF Stable
          THEN /\ rows' = RowsAfterLoad(r)
               /\ pass' = Admit(p, i)
               /\ times' = IF IsNew(p) THEN NoTimes
                           ELSE IF Admits(p, i) /\ Relevant(p, i)
                           THEN [times EXCEPT !.quiet = 0] ELSE times
          ELSE rows' = r /\ UNCHANGED <<pass, times>>
    /\ UNCHANGED <<tip, owner, admin, halted, used, waited>>

\* The collecting part of converge_stored_openmls_messages_with_deadline, and
\* prepare_convergence_cutoff_delay_ms when nothing is due.
Polled(r) ==
    LET p == Load(r)
    IN IF p.phase = "collecting" /\ Cutoff(p) <= 0 THEN Freeze(p) ELSE p

Converge ==
    /\ ~halted
    /\ pass' = Polled(rows) /\ rows' = RowsAfterLoad(rows)
    /\ times' = IF IsNew(Load(rows)) THEN NoTimes ELSE times
    /\ UNCHANGED <<tip, owner, admin, halted, used, waited>>

Resolve ==
    /\ ~halted /\ pass.phase = "frozen" /\ pass.base = tip
    /\ pass' = [pass EXCEPT !.phase = "resolving"]
    /\ UNCHANGED <<rows, tip, owner, admin, halted, used, times, waited>>

\* The verdicts a pass may reach: one applied commit per epoch, all of them
\* below the resulting tip, which follows the last commit of the branch.
Verdicts ==
    {r \in [pass.members -> {"applied", "parked", "gone"}] :
        \A c, d \in pass.members \cap Commit :
            c # d /\ r[c] = "applied" /\ r[d] = "applied" => Src[c] # Src[d]}
Judged(r) == [i \in Input |-> IF i \in pass.members THEN r[i] ELSE rows[i]]
ResultingTip(r) ==
    LET ends == {Src[c] + 1 : c \in {d \in pass.members \cap Commit : r[d] = "applied"}}
    IN IF ends = {} THEN tip ELSE CHOOSE e \in ends : \A f \in ends : f <= e

\* Apply, verdicts and the completed pass are one transaction.
PassEnds ==
    /\ ~halted /\ pass.phase = "resolving" /\ pass.base = tip
    /\ pass' = [NoPass EXCEPT !.phase = "completed", !.slot = TRUE]
Complete ==
    /\ PassEnds
    /\ \E r \in Verdicts : rows' = Judged(r) /\ tip' = ResultingTip(r)
    /\ waited' = IF admin THEN waited + 1 ELSE 0
    /\ UNCHANGED <<owner, admin, halted, used, times>>

\* A missing anchor or checkpoint halts the group and leaves the pass active.
Halt ==
    /\ ~halted /\ pass.phase = "resolving" /\ pass.base = tip
    /\ halted' = TRUE
    /\ UNCHANGED <<rows, tip, owner, pass, admin, used, times, waited>>

\* drain_canonical_applications: outside a pass, application messages the tip
\* has reached are judged alone; parked ones wait while a rival commit is parked.
DrainApplication(i) ==
    /\ i \in App /\ Src[i] <= tip /\ Stable
    /\ ~Active(pass) /\ ~HasUnresolvedInput(rows)
    /\ \/ rows[i] = "created"
       \/ rows[i] = "parked" /\ \A c \in Commit : rows[c] # "parked"
    /\ \E v \in {"applied", "gone"} : rows' = [rows EXCEPT ![i] = v]
    /\ UNCHANGED <<tip, owner, pass, admin, halted, used, times, waited>>

-----------------------------------------------------------------------------
Stage(c, queued) ==
    /\ c \in Own /\ Src[c] = tip /\ rows[c] = "none"
    /\ owner' = [commit |-> c, queued |-> queued]

\* Mutant: an open pass does not gate a local send.
SettledRegardless(p) == TRUE
\* advance_convergence_inputs: settled when nothing is unresolved, or when a
\* completed pass still holds its reservation.
Settled(p) == ~HasUnresolvedInput(rows) \/ HeldByReservation(p)

\* do_send of an administrative commit: published at once, or queued behind the
\* pass that the call itself may have opened.
Send(c) ==
    /\ Stable
    /\ IF Settled(pass)
       THEN Stage(c, FALSE) /\ UNCHANGED <<rows, pass, admin, times, waited>>
       ELSE /\ ~admin /\ admin' = TRUE /\ waited' = 0
            /\ pass' = Polled(rows) /\ rows' = RowsAfterLoad(rows)
            /\ times' = IF IsNew(Load(rows)) THEN NoTimes ELSE times
            /\ UNCHANGED owner
    /\ UNCHANGED <<tip, halted, used>>

\* Mutant: a failed attempt keeps its reservation.
ConsumedNever(p) == p
\* converge_and_drain_with_deadline for the queued intent: an attempt spends the
\* reservation whether it succeeds or not.
Consumed(p) == [p EXCEPT !.slot = FALSE]
Drain(c) ==
    /\ Stable /\ admin /\ Settled(pass)
    /\ Stage(c, TRUE)
    /\ pass' = Consumed(pass) /\ waited' = 0
    /\ UNCHANGED <<rows, tip, admin, halted, used, times>>

DrainFails ==
    /\ Stable /\ HeldByReservation(pass)
    /\ pass' = Consumed(pass) /\ waited' = 0
    /\ UNCHANGED <<rows, tip, owner, admin, halted, used, times>>

\* A reservation nobody queued for is spent by the drain.
DrainDormant ==
    /\ Stable /\ ~admin /\ pass.slot /\ ~HasUnresolvedInput(rows)
    /\ pass' = Consumed(pass)
    /\ UNCHANGED <<rows, tip, owner, admin, halted, used, times, waited>>

\* do_confirm_published merges the commit and deletes the intent it came from;
\* do_publish_failed leaves the intent queued.
Confirm ==
    /\ owner # NoOwner
    /\ rows' = [rows EXCEPT ![owner.commit] = "applied"]
    /\ tip' = tip + 1 /\ owner' = NoOwner
    /\ admin' = (admin /\ ~owner.queued)
    /\ UNCHANGED <<pass, halted, used, times, waited>>

PublishFails ==
    /\ owner # NoOwner /\ used.failures < MaxFailures
    /\ used' = [used EXCEPT !.failures = @ + 1]
    /\ owner' = NoOwner
    /\ UNCHANGED <<rows, tip, pass, admin, halted, times, waited>>

-----------------------------------------------------------------------------
Tick ==
    /\ pass.phase = "collecting"
    /\ IF pass.fresh THEN Cutoff(pass) > -MaxLag ELSE pass.wa > -MaxLag
    /\ pass' = [pass EXCEPT !.q = IF pass.fresh THEN @ - 1 ELSE 0,
                            !.a = IF pass.fresh THEN @ - 1 ELSE 0,
                            !.wq = @ - 1, !.wa = @ - 1, !.age = @ + 1]
    /\ times' = [times EXCEPT !.real = @ + 1, !.quiet = @ + 1]
    /\ UNCHANGED <<rows, tip, owner, admin, halted, used, waited>>

StepWall(d) ==
    /\ pass.phase = "collecting" /\ used.steps < MaxSteps
    /\ used' = [used EXCEPT !.steps = @ + 1]
    /\ pass' = [pass EXCEPT !.wq = @ - d, !.wa = @ - d, !.age = @ + d]
    /\ times' = [times EXCEPT !.back = @ + Pos(-d), !.ahead = @ + Pos(d)]
    /\ UNCHANGED <<rows, tip, owner, admin, halted, waited>>

\* Mutant: the reservation does not survive a restart.
RestartLosesSlot ==
    /\ used.restarts < MaxRestarts
    /\ used' = [used EXCEPT !.restarts = @ + 1]
    /\ pass' = IF pass.phase = "collecting"
               THEN [pass EXCEPT !.fresh = FALSE, !.q = 0, !.a = 0]
               ELSE [pass EXCEPT !.slot = FALSE]
    /\ UNCHANGED <<rows, tip, owner, admin, halted, times, waited>>

\* Everything is durable but the process clock.
Restart ==
    /\ used.restarts < MaxRestarts
    /\ used' = [used EXCEPT !.restarts = @ + 1]
    /\ pass' = IF pass.phase = "collecting"
               THEN [pass EXCEPT !.fresh = FALSE, !.q = 0, !.a = 0] ELSE pass
    /\ UNCHANGED <<rows, tip, owner, admin, halted, times, waited>>

Next ==
    \/ \E i \in Peer : Ingest(i)
    \/ Converge \/ Resolve \/ Complete \/ Halt
    \/ \E i \in App : DrainApplication(i)
    \/ \E c \in Own : Send(c) \/ Drain(c)
    \/ DrainFails \/ DrainDormant \/ Confirm \/ PublishFails
    \/ Tick \/ \E d \in WallSteps : StepWall(d)
    \/ Restart

Spec == Init /\ [][Next]_vars

\* Time passes, the scheduler polls and drains, a call it makes returns (only
\* Complete is a PassEnds step), and a publication ends.
Fairness ==
    /\ WF_vars(Tick) /\ WF_vars(Converge) /\ WF_vars(Resolve)
    /\ WF_pass(PassEnds) /\ WF_vars(DrainFails \/ \E c \in Own : Drain(c))
    /\ WF_vars(Confirm)
FairSpec == Spec /\ Fairness
-----------------------------------------------------------------------------
RowState == {"none", "created", "applied", "parked", "gone"}

PassRecord ==
    [phase : {"none", "collecting", "frozen", "resolving", "completed"},
     base : Nat, members : SUBSET Input, q : Int, a : Int, wq : Int, wa : Int,
     age : Int, fresh : BOOLEAN, slot : BOOLEAN,
     cause : {"none", "quiescence", "absolute", "clock"}]

TypeOK ==
    /\ rows \in [Input -> RowState] /\ tip \in Nat
    /\ owner \in [commit : Own \cup {"none"}, queued : BOOLEAN]
    /\ pass \in PassRecord
    /\ admin \in BOOLEAN /\ halted \in BOOLEAN
    /\ used \in [restarts : 0..MaxRestarts, steps : 0..MaxSteps,
                 failures : 0..MaxFailures]
    /\ times \in [real : Nat, quiet : Nat, back : Nat, ahead : Nat]
    /\ waited \in Nat

\* The comment on discard_stale_convergence_pass: the tip does not move
\* underneath an open pass, because an open pass gates every local publication
\* and inbound commits only enter the pass.
ActivePassOwnsTip == Active(pass) => owner = NoOwner /\ pass.base = tip

\* However often the process restarts and the wall clock is adjusted, what is
\* left to wait never carries a pass beyond its maximal residence, except by
\* the time the wall clock was set back.
ResidenceIsBounded ==
    pass.phase = "collecting" =>
        LET left == IF pass.fresh THEN pass.a ELSE pass.wa
        IN left > 0 => times.real + left <= MaxPass + times.back

\* A batch is not closed early: the group was quiet for the whole window since
\* the last input that mattered, or the pass was at its maximal residence; the
\* recorded cause says which.  Only a wall clock set forward shortens the wait,
\* and only one set back may be recorded as a discontinuity.
CutoffIsEarned ==
    pass.phase \in {"frozen", "resolving"} /\ times.back = 0 =>
        IF pass.cause = "absolute" THEN times.real + times.ahead >= MaxPass
        ELSE pass.cause = "quiescence" /\ times.quiet + times.ahead >= Quiescence

\* AdminReservation: after a completed pass the next one does not open before a
\* queued administrative intent had its attempt, whatever restarts and sends
\* come between.
AttemptBeforeNextPass == waited <= 1

\* A pass implements batch adjudication: the batch is what is frozen, and the
\* verdicts of a completed pass are those of the whole batch.
Batch == INSTANCE BatchAdjudication WITH
    Input <- Peer,
    arrived <- {i \in Peer : rows[i] # "none"},
    batch <- IF pass.phase \in {"frozen", "resolving"} THEN pass.members \cap Peer
             ELSE {},
    judged <- {i \in Peer : rows[i] \notin {"none", "created"}}
RefinesBatchAdjudication == Batch!Spec

\* Every commit a rewind can still reach gets its verdict, unless the group is
\* halted: no sequence of sends, reservations, restarts and late arrivals keeps
\* a pass from ending or the next one from opening.
CommitIsJudged ==
    \A i \in Commit \cap Peer :
        (rows[i] = "created" /\ i \in Window(tip)) ~>
            (rows[i] # "created" \/ i \notin Window(tip) \/ halted)
=============================================================================
