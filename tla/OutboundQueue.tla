--------------------------- MODULE OutboundQueue ---------------------------
(***************************************************************************)
(* Application messages retained while a group cannot send, and how they   *)
(* get out: the durable queue and its drain (message_processor/mod.rs,     *)
(* publish.rs), the account runtime that publishes what a drain            *)
(* regenerates through durable frozen fanouts (marmot-account runtime.rs), *)
(* and the worker that decides when to drain (account_worker.rs, sync.rs). *)
(*                                                                         *)
(* A message is regenerated as an artifact <<i, n>>: its n-th encryption.  *)
(***************************************************************************)
EXTENDS Integers, Sequences, FiniteSets, FiniteSetsExt, SequencesExt

CONSTANTS Intent,        \* messages, numbered in the order they are sent
          LevelDriven,   \* whether the host asks for remaining work after a
                         \* pass, or only reacts to scheduling edges
          MaxDeferrals,  \* bound on first attempts no relay has answered
          MaxHolds,      \* bound on the times the group cannot send
          MaxRestarts,   \* bound on process deaths
          MaxFailures    \* bound on failed calls

ASSUME BoundsAssumption ==
    /\ Intent \subseteq Nat /\ LevelDriven \in BOOLEAN
    /\ {MaxDeferrals, MaxHolds, MaxRestarts, MaxFailures} \subseteq Nat

VARIABLES hold,     \* what keeps the group from sending: a pass, a publication
          queue,    \* queued_outbound_intents rows (durable)
          flight,   \* messages with an association to an artifact
          fan,      \* frozen fanouts with outstanding targets (durable)
          acked,    \* artifacts whose fanout records an acceptance (durable)
          work,     \* artifacts drained and not yet handed to a fanout
          pc,       \* where the host is in a pass
          edge,     \* pending_convergence_groups holds the group
          armed,    \* the worker has a deadline for the group
          copies,   \* history: artifacts made of each message
          sent,     \* history: artifacts some relay took
          failed,   \* history: messages every target refused
          left      \* what is left of each bound

vars == <<hold, queue, flight, fan, acked, work, pc, edge, armed, copies, sent,
          failed, left>>
engine == <<queue, flight, edge>>
past == <<copies, sent, failed>>

New == {i \in Intent : copies[i] = 0 /\ i \notin queue \cup failed}
Sent(i) == \E a \in sent : a[1] = i
Spend(what) ==
    left[what] > 0 /\ left' = [left EXCEPT ![what] = @ - 1]

Init ==
    /\ hold = "none" /\ queue = {} /\ flight = {} /\ fan = << >> /\ acked = {}
    /\ work = << >> /\ pc = "idle" /\ edge = FALSE /\ armed = FALSE
    /\ copies = [i \in Intent |-> 0] /\ sent = {} /\ failed = {}
    /\ left = [holds |-> MaxHolds, restarts |-> MaxRestarts,
               failures |-> MaxFailures, deferrals |-> MaxDeferrals]
-----------------------------------------------------------------------------
\* A convergence pass or a publication of this device begins.  The buffered
\* input arms the worker; a publication does not.
Hold(why) ==
    /\ hold = "none" /\ Spend("holds")
    /\ hold' = why
    /\ armed' = (armed \/ why = "pass")
    /\ UNCHANGED <<engine, fan, acked, work, pc, past>>

\* Mutant: the end of a hold leaves the drain to the edge of the queueing.
RearmedByQueueing == edge

\* schedule_drain_for_retained_outbound_intents
Rearmed == edge \/ queue # {}

\* The pass completes, or the publication is confirmed or rolled back.
Release ==
    /\ hold # "none" /\ hold' = "none"
    /\ edge' = Rearmed
    /\ UNCHANGED <<queue, flight, fan, acked, work, pc, armed, past, left>>

\* queue_outbound_intent arms the drain of a Stable group only.
Queue(i) ==
    /\ i \in New /\ i = Min(New) /\ hold # "none"
    /\ queue' = queue \cup {i}
    /\ edge' = (edge \/ hold = "pass")
    /\ UNCHANGED <<hold, flight, fan, acked, work, pc, armed, past, left>>

\* collect_effects hands the edge to the host, which arms the group from the
\* engine's state (convergence_schedule_state) or unconditionally.
WorkRemains == hold # "none" \/ fan # << >> \/ queue # {}
TakeEdge ==
    /\ edge /\ edge' = FALSE
    /\ armed' = (armed \/ ~LevelDriven \/ WorkRemains)
    /\ UNCHANGED <<hold, queue, flight, fan, acked, work, pc, past, left>>

\* The worker's timer: one pass over the group.
Wake ==
    /\ pc = "idle" /\ armed
    /\ armed' = FALSE /\ pc' = "resume"
    /\ UNCHANGED <<hold, engine, fan, acked, work, past, left>>

Done ==
    /\ pc = "done" /\ pc' = "idle"
    /\ armed' = (armed \/ (LevelDriven /\ WorkRemains))
    /\ UNCHANGED <<hold, engine, fan, acked, work, past, left>>

\* A call of the pass fails: the worker retries the group after a delay, and
\* what the pass held in memory is gone.
Abandon == pc' = "idle" /\ armed' = TRUE /\ work' = << >>
-----------------------------------------------------------------------------
\* drive_outbound_fanout for artifact a: it may reach a relay unreported; the
\* answers may leave targets outstanding, which schedules the group, and may
\* include an acceptance.
Drive(a, reached, accepted, outstanding) ==
    /\ accepted => reached
    /\ sent' = IF reached THEN sent \cup {a} ELSE sent
    /\ acked' = IF accepted THEN acked \cup {a} ELSE acked
    /\ fan' = IF outstanding THEN fan ELSE Remove(fan, a)
Reschedule(outstanding) == armed' = (armed \/ outstanding)
Driving == pc \in {"resume", "attempt"} /\ fan # << >>
Driven == IF pc = "resume" THEN fan[1] ELSE fan[Len(fan)]
Accepted(a, accepted) == accepted \/ a \in acked

\* resume_outbound_fanouts_for_group: oldest first, and one that is still
\* outstanding keeps newer ones and the drain waiting.
Resume(reached, accepted, outstanding) ==
    /\ pc = "resume" /\ Driving
    /\ Drive(Driven, reached, accepted, outstanding)
    /\ pc' = IF outstanding THEN "done" ELSE "resume"
    /\ failed' = IF outstanding \/ Accepted(Driven, accepted) THEN failed
                 ELSE failed \cup {Driven[1]}
    /\ Reschedule(outstanding)
    /\ UNCHANGED <<hold, engine, work, copies, left>>

\* Mutant: the drain does not wait for frozen fanouts.
UnblockedAlways == TRUE

\* advance_convergence drains behind the frozen fanouts of the group only.
Unblocked == fan = << >>

\* converge_and_drain_with_deadline: everything queued and not in flight is
\* regenerated; the association marks it as the host's.
Regenerated(S) == SetToSortSeq({<<i, copies[i] + 1>> : i \in S},
                               LAMBDA a, b : a[1] < b[1])
Takes == queue \ flight
Prepared(S) == [i \in Intent |-> IF i \in S THEN copies[i] + 1 ELSE copies[i]]
Drain ==
    /\ pc = "resume" /\ Unblocked
    /\ IF hold # "none" THEN UNCHANGED <<work, flight, copies>>
       ELSE /\ work' = Regenerated(Takes)
            /\ flight' = flight \cup Takes
            /\ copies' = Prepared(Takes)
    /\ pc' = "publish"
    /\ UNCHANGED <<hold, queue, fan, acked, edge, armed, sent, failed, left>>

\* A later preparation fails: the call returns the error and drops what it had
\* prepared.
DrainFails(k) ==
    /\ pc = "resume" /\ Unblocked /\ hold = "none"
    /\ k \in Takes /\ Spend("failures")
    /\ LET kept == {i \in Takes : i < k}
       IN /\ flight' = flight \cup kept
          /\ copies' = Prepared(kept)
    /\ Abandon
    /\ UNCHANGED <<hold, queue, fan, acked, edge, sent, failed>>

\* publish_one: the fanout is durable before the first attempt.
Stage ==
    /\ pc = "publish" /\ work # << >>
    /\ fan' = Append(fan, work[1])
    /\ work' = Tail(work) /\ pc' = "attempt"
    /\ UNCHANGED <<hold, engine, acked, armed, past, left>>

\* The fanout row cannot be stored, or a call fails while a fanout is driven:
\* publish_queue returns the error.
PublishFails ==
    /\ \/ pc = "publish" /\ work # << >> /\ UNCHANGED sent
       \/ Driving /\ sent' \in {sent, sent \cup {Driven}}
    /\ Spend("failures") /\ Abandon
    /\ UNCHANGED <<hold, engine, fan, acked, copies, failed>>

\* No route: nothing is frozen and the message is re-armed.
Unrouted ==
    /\ pc = "publish" /\ work # << >> /\ Spend("failures")
    /\ flight' = flight \ {work[1][1]} /\ edge' = TRUE
    /\ work' = Tail(work)
    /\ UNCHANGED <<hold, queue, fan, acked, pc, armed, past>>

\* Mutant: a retry takes the row with it.
RetryDropsRow(i) == queue' = queue \ {i} /\ flight' = flight \ {i} /\ edge' = TRUE

\* confirm_regenerated_queued_intent and retry_regenerated_queued_intent
Confirm(i) == queue' = queue \ {i} /\ flight' = flight \ {i} /\ UNCHANGED edge
Retry(i) == flight' = flight \ {i} /\ edge' = TRUE /\ UNCHANGED queue

\* resolve_regenerated_queued_intent: an acceptance, or the refusal of every
\* target, ends the queued message, unless its row cannot be deleted.
Resolve(i, accepted, outstanding) ==
    \/ (accepted \/ ~outstanding) /\ Confirm(i) /\ UNCHANGED left
    \/ (accepted \/ ~outstanding) /\ Retry(i) /\ Spend("failures")
    \/ ~accepted /\ outstanding /\ Retry(i) /\ Spend("deferrals")

Publish(reached, accepted, outstanding) ==
    /\ pc = "attempt" /\ Driving
    /\ Drive(Driven, reached, accepted, outstanding)
    /\ Resolve(Driven[1], accepted, outstanding)
    /\ failed' = IF accepted \/ outstanding THEN failed ELSE failed \cup {Driven[1]}
    /\ pc' = "publish"
    /\ Reschedule(outstanding)
    /\ UNCHANGED <<hold, work, copies>>

Published ==
    /\ pc = "publish" /\ work = << >> /\ pc' = "done"
    /\ UNCHANGED <<hold, engine, fan, acked, work, armed, past, left>>

\* The process dies, possibly between what a drive stored and the resolution of
\* the queued message.  Hydration re-arms a group with work; the worker resumes
\* fanouts.
Restart ==
    /\ Spend("restarts")
    /\ \/ UNCHANGED <<fan, acked, sent>>
       \/ pc = "attempt" /\ \E reached, accepted, outstanding \in BOOLEAN :
                                Drive(Driven, reached, accepted, outstanding)
    /\ flight' = {} /\ work' = << >> /\ pc' = "idle"
    /\ edge' = (queue # {} \/ hold = "pass") /\ armed' = (fan # << >>)
    /\ UNCHANGED <<hold, queue, copies, failed>>

Attempt ==
    \E reached, accepted, outstanding \in BOOLEAN :
        Resume(reached, accepted, outstanding) \/ Publish(reached, accepted, outstanding)

Next ==
    \/ \E why \in {"pass", "publication"} : Hold(why)
    \/ Release
    \/ \E i \in Intent : Queue(i) \/ DrainFails(i)
    \/ TakeEdge \/ Wake \/ Drain \/ Stage \/ PublishFails \/ Unrouted
    \/ Attempt \/ Published \/ Done \/ Restart

Spec == Init /\ [][Next]_vars

\* The worker runs, holds end, and targets answer for good at some point.
Host == Wake \/ Drain \/ Stage \/ Attempt \/ Published \/ Done
Answered ==
    \E reached \in BOOLEAN :
        \/ Resume(reached, reached, FALSE)
        \/ Publish(reached, reached, FALSE)
FairSpec ==
    Spec /\ WF_vars(Host) /\ WF_vars(TakeEdge) /\ SF_vars(Release) /\ SF_vars(Answered)
-----------------------------------------------------------------------------
MaxCopies == 1 + MaxDeferrals + MaxRestarts + MaxFailures
Artifact == Intent \X (1..MaxCopies)

TypeOK ==
    /\ hold \in {"none", "pass", "publication"}
    /\ queue \subseteq Intent /\ flight \subseteq Intent
    /\ fan \in Seq(Artifact) /\ work \in Seq(Artifact)
    /\ acked \subseteq Artifact /\ sent \subseteq Artifact /\ failed \subseteq Intent
    /\ pc \in {"idle", "resume", "publish", "attempt", "done"}
    /\ edge \in BOOLEAN /\ armed \in BOOLEAN
    /\ copies \in [Intent -> 0..MaxCopies]
    /\ left \in [holds : 0..MaxHolds, restarts : 0..MaxRestarts,
                 failures : 0..MaxFailures, deferrals : 0..MaxDeferrals]

\* A message taken from the user is never lost: it stays queued until a relay
\* took it or every target refused it, through crashes and failed calls at any
\* point of the drain.
MessageIsNotLost ==
    \A i \in Intent \ New : i \in queue \/ Sent(i) \/ i \in failed

\* The barrier in advance_convergence: a message is not encrypted again while a
\* frozen fanout still carries an earlier encryption of it.
OneLiveArtifact ==
    \A i \in Intent :
        Cardinality({k \in DOMAIN (fan \o work) : (fan \o work)[k][1] = i}) <= 1

Held(i) == \E k \in DOMAIN (work \o fan) : (work \o fan)[k][1] = i

\* converge_and_drain_with_deadline: a message in flight is the host's
\* obligation, so the host holds an artifact of it.  Violated: a drain that fails
\* part-way drops what it regenerated and leaves it marked in flight.
InFlightIsHeld == \A i \in flight : Held(i)

\* Every queued message gets out: whoever consumes a scheduling edge without
\* releasing the queue, another edge or the host's own question follows.  Only a
\* message that a failed drain left in flight (InFlightIsHeld) may stay.
QueuedIsReleased ==
    \A i \in Intent : i \in queue ~> (i \notin queue \/ (i \in flight /\ ~Held(i)))

\* converge_and_drain_with_deadline: re-preparing a message would publish it
\* twice (mdk#1472).
PublishedOnce ==
    \A i \in Intent : Cardinality({a \in sent : a[1] = i}) <= 1
=============================================================================
