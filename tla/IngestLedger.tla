----------------------------- MODULE IngestLedger -----------------------------
(***************************************************************************)
(* The ledger of raw transport messages ("wrappers") of one group: how an  *)
(* arriving wrapper is opened, retained unopened, deferred or refused, and *)
(* how the replay after a publication or a join and the deferred-peel      *)
(* sweep bring retained wrappers back (message_processor/ingest.rs,        *)
(* store.rs, mod.rs).                                                      *)
(*                                                                         *)
(* A wrapper carries a content; several wrappers may carry the same one.   *)
(* A content opens from epoch Opens[c] on.  What convergence decides about *)
(* contents is in DistributedConvergence and ConvergencePass; here the     *)
(* buffered contents settle together, and one of the current epoch, if     *)
(* any, advances the group or removes this device from it.                 *)
(***************************************************************************)
EXTENDS Naturals, Sequences, FiniteSets, SequencesExt

CONSTANTS
  Wrapper,      \* transport message ids
  Content,      \* MLS messages
  Of,           \* the content each wrapper carries
  Opens,        \* the epoch whose secrets open a content
  Removing,     \* contents whose commit removes this device
  Bad,          \* wrappers no context can validate: malformed or unsigned
  Cap,          \* MAX_PEEL_DEFERRED_ROWS_PER_GROUP
  Ring,         \* MAX_RETAINED_ROWS_PER_REMOVED_GROUP
  Batch,        \* MAX_DEFERRED_ROWS_PER_SWEEP
  Budget,       \* deferred_peel_retry_budget
  MaxEpoch,     \* bound on epochs
  MaxCrashes,   \* bound on process deaths
  MaxFailures   \* bound on failed storage or peeler calls

ASSUME LedgerConstants ==
  /\ Of \in [Wrapper -> Content] /\ Opens \in [Content -> 0 .. MaxEpoch]
  /\ Removing \subseteq Content /\ Bad \subseteq Wrapper
  /\ {Cap, Ring, Batch, Budget} \subseteq Nat \ {0}
  /\ {MaxEpoch, MaxCrashes, MaxFailures} \subseteq Nat

VARIABLES
  row,       \* durable state of each wrapper's row, "none" when it has none
  order,     \* wrappers with a row, in insert order
  last,      \* last_context_fingerprint of a deferred row
  tries,     \* live_context_attempts of a deferred row
  content,   \* durable record of each content
  marker,    \* processed transport ids
  barrier,   \* a deferred-peel generation is stored
  epoch,     \* epoch of the group
  member,    \* this device's membership: what MLS and the record say
  mode,      \* state of the group in the epoch manager, or quarantined
  slots,     \* volatile: rows charged against Cap
  seen,      \* volatile: seen_message_ids
  job,       \* volatile: the loop in progress and the rows it still has to visit
  crashes, failures,
  cut,       \* history: retained rows were left behind by a replay cut short
  retired    \* history: rows failed because the group became terminal

durable == <<row, order, last, tries, content, marker, barrier, epoch, member>>
volatile == <<mode, slots, seen, job>>
vars == <<durable, volatile, crashes, failures, cut, retired>>

Awaiting == {"retryable", "deferred"}
NoFingerprint == <<>>
Idle == [kind |-> "idle", todo |-> <<>>]

In(state) == {w \in Wrapper : row[w] = state}
Buffered == {c \in Content : content[c] = "buffered"}
(* Mutant: the replay lists only deferred rows. *)
RetainedDeferred == SelectSeq(order, LAMBDA w : row[w] = "deferred")
Retained == SelectSeq(order, LAMBDA w : row[w] \in Awaiting)

(* The peel context of the sweep: the epoch, and the candidate graph, which
   every recorded content deepens.                                        *)
Fingerprint(s) == <<s.epoch, Cardinality({c \in Content : s.content[c] # "none"})>>

-----------------------------------------------------------------------------
(***************************************************************************)
(* Operators on the state an ingest call may change.  out is its outcome.  *)
(***************************************************************************)
Here == [row |-> row, order |-> order, last |-> last, tries |-> tries,
         content |-> content, marker |-> marker, barrier |-> barrier,
         epoch |-> epoch, member |-> member, slots |-> slots,
         retired |-> retired, out |-> "none"]

Become(s) ==
  /\ row' = s.row /\ order' = s.order /\ last' = s.last /\ tries' = s.tries
  /\ content' = s.content /\ marker' = s.marker /\ barrier' = s.barrier
  /\ epoch' = s.epoch /\ member' = s.member /\ slots' = s.slots
  /\ retired' = s.retired

Says(s, out) == [s EXCEPT !.out = out]

(* put_message: an existing row keeps its place in insert order. *)
Put(s, w, state) ==
  [s EXCEPT !.row[w] = state,
            !.order = IF w \in ToSet(@) THEN @ ELSE Append(@, w)]

(* release_message_for_replay: the bytes go, without a verdict. *)
Release(s, w) ==
  [s EXCEPT !.row[w] = "none", !.last[w] = NoFingerprint, !.tries[w] = 0,
            !.order = SelectSeq(@, LAMBDA v : v # w), !.slots = @ \ {w}]

(* mark_raw_transport_message_*_if_awaiting_retry, which also returns the
   slot of a deferred row.                                               *)
Retire(s, w, state) ==
  IF s.row[w] \in Awaiting
  THEN [s EXCEPT !.row[w] = state, !.slots = @ \ {w}] ELSE s

(* The backlog of a copy that became terminal fails, and the generation
   goes with it.                                                       *)
RetireBacklog(s) ==
  LET D == {w \in Wrapper : s.row[w] = "deferred"} IN
  [s EXCEPT !.row = [w \in Wrapper |-> IF w \in D THEN "failed" ELSE @[w]],
            !.slots = @ \ D, !.retired = @ \cup D, !.barrier = FALSE]

(* Convergence over the buffered contents, held back by the barrier.  At
   most one content of the current epoch is adopted; one that removes this
   device leaves it inactive in the MLS group.                            *)
Converged(s) ==
  LET B    == {c \in Content : s.content[c] = "buffered"}
      Now  == {c \in B : Opens[c] = s.epoch}
      done == [s EXCEPT !.content =
                 [c \in Content |-> IF c \in B THEN "settled" ELSE @[c]]] IN
  IF s.barrier \/ B = {} THEN {s}
  ELSE IF Now = {} \/ s.epoch = MaxEpoch THEN {done}
  ELSE {[done EXCEPT !.epoch = @ + 1,
                     !.member = IF c \in Removing THEN "inactive" ELSE @] : c \in Now}

(* The record of a group this device is no longer in is marked, and the
   backlog retired.                                                      *)
MarkRemoved(s) ==
  IF s.member = "inactive" THEN RetireBacklog([s EXCEPT !.member = "removed"]) ELSE s

Settle(s) == {MarkRemoved(t) : t \in Converged(s)}

(* A live or replayed open drains at once, though the pass it opens may
   still be collecting; a sweep leaves the drain to its end.            *)
Drained(s, sweeping) == IF sweeping THEN {s} ELSE {s} \cup Settle(s)

Open(s, w, sweeping) ==
  LET c == Of[w]
      t == Retire([s EXCEPT !.marker = @ \cup {w}], w, "processed") IN
  IF s.content[c] # "none" THEN {Says(t, "duplicate")}
  ELSE {Says(u, "buffered") :
          u \in Drained([t EXCEPT !.content[c] = "buffered"], sweeping)}

(* has_peel_deferred_capacity charges a row that is already retained
   nothing.                                                          *)
Defer(s, w) ==
  IF w \in s.slots \/ Cardinality(s.slots) < Cap
  THEN [Put(s, w, "deferred") EXCEPT !.slots = @ \cup {w}, !.out = "deferred"]
  ELSE Says(s, "refused")

(* Terminal verdicts of a wrapper nothing can validate: dropped and
   remembered by the process, or recorded as failed.                 *)
Reject(s, w) ==
  LET t == Retire(s, w, "failed") IN
  {Says(t, "rejected"), Says(Put(t, w, "failed"), "stale")}

Peel(s, w, sweeping) ==
  IF w \in Bad THEN Reject(s, w)
  ELSE IF Opens[Of[w]] <= s.epoch THEN Open(s, w, sweeping)
  ELSE {Defer(s, w)}

(* retain_transport_message_refused_while_removed: write once; a full ring
   releases its oldest row first, or, when that fails, refuses.           *)
RawRetryable(s) == SelectSeq(s.order, LAMBDA v : s.row[v] = "retryable")
RetainRemoved(s, w) ==
  IF s.row[w] # "none" THEN {Says(s, "removed")}
  ELSE IF Len(RawRetryable(s)) < Ring
  THEN {Says(Put(s, w, "retryable"), "removed")}
  ELSE {Says(Put(Release(s, Head(RawRetryable(s))), w, "retryable"), "removed")}
         \cup IF failures < MaxFailures THEN {Says(s, "unretained")} ELSE {}

(* The gates of ingest_group_message_from_sweep, in their order. *)
Ingest(w, sweeping) ==
  LET s == Here IN
  CASE member = "none" -> {Says(s, "unknown")}
    [] member = "removed" -> RetainRemoved(s, w)
    [] member \in {"active", "inactive"} /\ mode = "quarantined" -> {Defer(s, w)}
    [] member = "inactive" /\ mode # "quarantined" ->
         RetainRemoved(MarkRemoved(s), w)
    [] member = "active" /\ mode \in {"publishing", "halted"} ->
         {Says(IF row[w] \in Awaiting THEN s ELSE Put(s, w, "retryable"), "kept")}
    [] member = "active" /\ mode = "stable" -> Peel(s, w, sweeping)

-----------------------------------------------------------------------------
(***************************************************************************)
(* A wrapper arrives: do_ingest.  Recorded ids and ids in the seen cache   *)
(* are answered without any change.                                        *)
(***************************************************************************)
Recorded(w) == w \in marker \/ row[w] \in {"retryable", "processed", "failed"}
Unpersisted == {"unknown", "refused", "unretained"}

Deliver(w) ==
  /\ job = Idle /\ ~Recorded(w) /\ w \notin seen
  /\ \E s \in Ingest(w, FALSE) :
       /\ Become(s)
       /\ seen' = IF s.out \notin Unpersisted /\ s.row[w] \notin Awaiting
                  THEN seen \cup {w} ELSE seen
       /\ failures' = failures + (IF s.out = "unretained" THEN 1 ELSE 0)
  /\ UNCHANGED <<mode, job, crashes, cut>>

-----------------------------------------------------------------------------
(***************************************************************************)
(* replay_buffered_messages: after a publication resolved and after a      *)
(* join.  The list of rows is read once, at the start.                     *)
(***************************************************************************)
ReplayOf(rows) == [kind |-> "replay", todo |-> rows]

(* Mutant: every answer but a buffered or deferred one retires the row. *)
AfterReplayRetires(s, w, wasDeferred) ==
  IF s.out \in {"kept", "deferred", "unknown", "buffered"} THEN s
  ELSE [Retire(s, w, "processed") EXCEPT !.slots = @ \ {w}]

(* What the loop does to the row after ingest answered. *)
AfterReplay(s, w, wasDeferred) ==
  CASE s.out \in {"kept", "deferred", "unknown", "buffered"} ->
         IF wasDeferred /\ s.row[w] # "deferred"
         THEN [s EXCEPT !.slots = @ \ {w}] ELSE s
    [] s.out \in {"refused", "removed", "unretained"} -> s
    [] s.out \in {"duplicate", "rejected", "stale"} ->
         LET t == Retire(s, w, "processed") IN
         IF wasDeferred THEN [t EXCEPT !.slots = @ \ {w}] ELSE t

ReplayRow ==
  /\ job.kind = "replay" /\ job.todo # <<>>
  /\ LET w == Head(job.todo) IN
     \E s \in Ingest(w, FALSE) :
       /\ Become(AfterReplay(s, w, row[w] = "deferred"))
       /\ job' = IF s.out = "removed" THEN ReplayOf(<<>>) ELSE ReplayOf(Tail(job.todo))
       /\ seen' = IF s.out = "rejected" THEN seen \cup {w} ELSE seen
       /\ cut' = (cut \/ s.out = "refused")
  /\ UNCHANGED <<mode, crashes, failures>>

(* Mutant: the row keeps its slot. *)
ErrRowLeaks(w, sweeping) == {[Here EXCEPT !.row[w] = "retryable"]}

(* Any other error stops the loop, before the wrapper is opened or after its
   content is recorded; the row goes back to retryable and gives its slot
   up.                                                                     *)
ErrRow(w, sweeping) ==
  {[s EXCEPT !.row[w] = "retryable", !.slots = @ \ {w}] :
     s \in {Here} \cup {t \in Ingest(w, sweeping) : t.out = "buffered"}}

ReplayFails ==
  /\ job.kind = "replay" /\ job.todo # <<>> /\ failures < MaxFailures
  /\ \E s \in ErrRow(Head(job.todo), FALSE) : Become(s)
  /\ job' = Idle /\ failures' = failures + 1 /\ cut' = TRUE
  /\ UNCHANGED <<mode, seen, crashes>>

ReplayEnd ==
  /\ job.kind = "replay" /\ job.todo = <<>>
  /\ job' = Idle
  /\ UNCHANGED <<durable, mode, slots, seen, crashes, failures, cut, retired>>

-----------------------------------------------------------------------------
(***************************************************************************)
(* advance_convergence_inputs and its deferred-peel sweep.                 *)
(***************************************************************************)
Sweepable == job = Idle /\ member = "active" /\ mode = "stable"

(* Mutant: the gate refuses and retires nothing. *)
AdvanceRemovedIdle == FALSE /\ UNCHANGED vars

(* A terminal copy: the gate only retires what a crash left behind. *)
AdvanceRemoved ==
  /\ job = Idle /\ member = "removed" /\ mode \notin {"quarantined", "halted"}
  /\ Become(RetireBacklog(Here))
  /\ UNCHANGED <<mode, seen, job, crashes, failures, cut>>

(* Rows past their residence deadline go first, and end the slice. *)
Expire ==
  /\ Sweepable
  /\ \E w \in In("deferred") : Become(Release(Here, w))
  /\ UNCHANGED <<mode, seen, job, crashes, failures, cut>>

Unattempted == SelectSeq(order, LAMBDA w :
                 row[w] = "deferred" /\ last[w] # Fingerprint(Here))

(* Some row has not met the current context: the barrier goes up and a slice
   of them is visited.                                                     *)
SweepBegin ==
  /\ Sweepable /\ Unattempted # <<>>
  /\ barrier' = TRUE
  /\ job' = [kind |-> "sweep",
             todo |-> SubSeq(Unattempted, 1,
                             IF Len(Unattempted) < Batch THEN Len(Unattempted) ELSE Batch)]
  /\ UNCHANGED <<row, order, last, tries, content, marker, epoch, member, mode,
                 slots, seen, crashes, failures, cut, retired>>

(* Every row has met it: a generation left over is closed, and the rows it
   recovered converge.                                                     *)
CloseGeneration(s) == {[s EXCEPT !.barrier = FALSE]} \cup Settle([s EXCEPT !.barrier = FALSE])
(* Mutant: a generation without rows is not closed. *)
SweepNothingWithRows ==
  /\ Sweepable /\ Unattempted = <<>> /\ barrier /\ In("deferred") # {}
  /\ \E s \in CloseGeneration(Here) : Become(s)
  /\ UNCHANGED <<mode, seen, job, crashes, failures, cut>>
SweepNothing ==
  /\ Sweepable /\ Unattempted = <<>> /\ barrier
  /\ \E s \in CloseGeneration(Here) : Become(s)
  /\ UNCHANGED <<mode, seen, job, crashes, failures, cut>>

(* A context the row did not open under costs it one attempt, if its live
   part is new to the row.                                               *)
Unproductive(s, w) ==
  [s EXCEPT !.last[w] = Fingerprint(Here),
            !.tries[w] = IF last[w] # NoFingerprint /\ last[w][1] = epoch THEN @ ELSE @ + 1]

SweepRow ==
  /\ job.kind = "sweep" /\ job.todo # <<>>
  /\ LET w == Head(job.todo) IN
     IF tries[w] >= Budget
     THEN Become(Release(Here, w)) /\ UNCHANGED seen
     ELSE \E s \in Ingest(w, TRUE) :
            /\ Become(IF s.row[w] = "deferred" THEN Unproductive(s, w) ELSE s)
            /\ seen' = IF s.out = "rejected" THEN seen \cup {w} ELSE seen
  /\ job' = [job EXCEPT !.todo = Tail(@)]
  /\ UNCHANGED <<mode, crashes, failures, cut>>

SweepFails ==
  /\ job.kind = "sweep" /\ job.todo # <<>> /\ failures < MaxFailures
  /\ \E s \in ErrRow(Head(job.todo), TRUE) : Become(s)
  /\ job' = Idle /\ failures' = failures + 1 /\ cut' = TRUE
  /\ UNCHANGED <<mode, seen, crashes>>

(* Mutant: every slice closes the generation. *)
SweepEndEarly ==
  /\ job.kind = "sweep" /\ job.todo = <<>>
  /\ \E s \in CloseGeneration(Here) : Become(s)
  /\ job' = Idle
  /\ UNCHANGED <<mode, seen, crashes, failures, cut>>

(* The slice ends.  The generation is complete when no deferred row remains
   that has not met the final context.                                     *)
SweepEnd ==
  /\ job.kind = "sweep" /\ job.todo = <<>>
  /\ \E s \in IF Unattempted = <<>> THEN CloseGeneration(Here) ELSE {Here} : Become(s)
  /\ job' = Idle
  /\ UNCHANGED <<mode, seen, crashes, failures, cut>>

(* A later advance: the pass over the buffered contents completes ... *)
Converge ==
  /\ Sweepable /\ ~barrier /\ Buffered # {}
  /\ \E s \in Settle(Here) : Become(s)
  /\ UNCHANGED <<mode, seen, job, crashes, failures, cut>>

(* ... or finds its base lost, which halts the group. *)
Halt ==
  /\ Sweepable /\ ~barrier /\ Buffered # {}
  /\ mode' = "halted"
  /\ UNCHANGED <<durable, slots, seen, job, crashes, failures, cut, retired>>

-----------------------------------------------------------------------------
(***************************************************************************)
(* Publications, joins and restarts around the ledger.                     *)
(***************************************************************************)
BeginPublish ==
  /\ Sweepable /\ Buffered = {}
  /\ mode' = "publishing"
  /\ UNCHANGED <<durable, slots, seen, job, crashes, failures, cut, retired>>

(* do_confirm_published advances the epoch, do_publish_failed does not; both
   end by replaying, in the Stable state they have just set.               *)
ResolvePublish ==
  /\ job = Idle /\ mode = "publishing"
  /\ mode' = "stable" /\ epoch' \in {epoch} \cup ({epoch + 1} \cap 0 .. MaxEpoch)
  /\ job' = ReplayOf(Retained) /\ cut' = FALSE
  /\ UNCHANGED <<row, order, last, tries, content, marker, barrier, member,
                 slots, seen, crashes, failures, retired>>

(* A Welcome installs a copy where there is none, or replaces one that is
   removed, halted or quarantined.  What the old copy held unsettled below
   the new epoch is superseded.                                           *)
Join ==
  /\ job = Idle /\ mode # "publishing"
  /\ member # "active" \/ mode # "stable"
  /\ \E e \in (IF member = "none" THEN 0 ELSE epoch + 1) .. MaxEpoch :
       /\ epoch' = e
       /\ content' = [c \in Content |->
            IF content[c] = "buffered" /\ Opens[c] < e THEN "settled" ELSE content[c]]
  /\ member' = "active" /\ mode' = "stable" /\ barrier' = FALSE
  /\ job' = ReplayOf(Retained) /\ cut' = FALSE
  /\ UNCHANGED <<row, order, last, tries, marker, slots, seen, crashes, failures,
                 retired>>

RecoverQuarantine ==
  /\ job = Idle /\ mode = "quarantined"
  /\ mode' = "stable"
  /\ UNCHANGED <<durable, slots, seen, job, crashes, failures, cut, retired>>

(* A restart forgets the caches and the loop in progress.  The slots are
   counted from the rows when they are next needed; no row changes before,
   so counting them here is the same.  Hydration may quarantine a copy.   *)
Reopen(s) ==
  /\ Become([s EXCEPT !.slots = {w \in Wrapper : s.row[w] = "deferred"}])
  /\ mode' \in {mode} \cup (IF mode = "stable" THEN {"quarantined"} ELSE {})
  /\ seen' = {} /\ job' = Idle /\ crashes' = crashes + 1
  /\ cut' = (cut \/ (job.kind = "replay" /\ job.todo # <<>>))
  /\ UNCHANGED failures

Crash == crashes < MaxCrashes /\ member # "none" /\ Reopen(Here)

(* A crash inside the step that removes this device: before its marker is
   written, or between the marker and the retirement of the backlog.      *)
Unpurged(s) == [s EXCEPT !.member = "removed"]
CrashWhileRemoved ==
  /\ crashes < MaxCrashes /\ Sweepable /\ ~barrier
  /\ \E s \in Converged(Here) :
       /\ s.member = "inactive"
       /\ \/ Reopen(s)
          \/ Reopen(Unpurged(s))

Init ==
  /\ row = [w \in Wrapper |-> "none"] /\ order = <<>>
  /\ last = [w \in Wrapper |-> NoFingerprint] /\ tries = [w \in Wrapper |-> 0]
  /\ content = [c \in Content |-> "none"] /\ marker = {} /\ barrier = FALSE
  /\ epoch = 0 /\ member = "none" /\ mode = "stable"
  /\ slots = {} /\ seen = {} /\ job = Idle
  /\ crashes = 0 /\ failures = 0 /\ cut = FALSE /\ retired = {}

Next ==
  \/ \E w \in Wrapper : Deliver(w)
  \/ ReplayRow \/ ReplayFails \/ ReplayEnd
  \/ AdvanceRemoved \/ Expire \/ SweepBegin \/ SweepNothing \/ SweepRow
  \/ SweepFails \/ SweepEnd \/ Converge \/ Halt
  \/ BeginPublish \/ ResolvePublish \/ Join \/ RecoverQuarantine
  \/ Crash \/ CrashWhileRemoved

Spec == Init /\ [][Next]_vars

(* The worker serves a due group between other calls, one at a time, so a
   step it keeps finding possible is taken; a loop once begun is awaited.  *)
Fairness ==
  /\ WF_vars(ReplayRow) /\ WF_vars(ReplayEnd) /\ WF_vars(SweepRow) /\ WF_vars(SweepEnd)
  /\ SF_vars(SweepBegin) /\ SF_vars(SweepNothing) /\ SF_vars(Converge)
  /\ SF_vars(AdvanceRemoved)

FairSpec == Spec /\ Fairness

-----------------------------------------------------------------------------
TypeOK ==
  /\ row \in [Wrapper -> {"none", "processed", "failed"} \cup Awaiting]
  /\ ToSet(order) = {w \in Wrapper : row[w] # "none"}
  /\ Len(order) = Cardinality(ToSet(order))
  /\ tries \in [Wrapper -> 0 .. Budget]
  /\ content \in [Content -> {"none", "buffered", "settled"}]
  /\ marker \subseteq Wrapper /\ slots \subseteq Wrapper /\ seen \subseteq Wrapper
  /\ barrier \in BOOLEAN /\ cut \in BOOLEAN /\ epoch \in 0 .. MaxEpoch
  /\ member \in {"none", "active", "inactive", "removed"}
  /\ mode \in {"stable", "publishing", "halted", "quarantined"}
  /\ job.kind \in {"idle", "replay", "sweep"} /\ ToSet(job.todo) \subseteq Wrapper
  /\ crashes \in 0 .. MaxCrashes /\ failures \in 0 .. MaxFailures

(* A wrapper that no context opened is never answered as a duplicate: either
   its bytes are retained for a later attempt, or a redelivery is processed.
   This is what the arms Removed, ResourceRefused and Buffered of
   replay_buffered_messages and reingest_deferred_peel_row, and the ids kept
   out of the seen cache, are for.  The one exception is the backlog of a
   copy that became terminal (retire_deferred_peel_rows_for_terminal_group),
   a loss the code accepts.                                                *)
Answered(w) == w \in seen \/ (Recorded(w) /\ row[w] # "retryable")
UnopenedIsRecoverable ==
  \A w \in Wrapper \ (Bad \cup retired) :
    Answered(w) => content[Of[w]] # "none"

(* The in-memory cap holds exactly the deferred rows, after every call and
   after every row of a loop, whichever of the many sites moved the row; so
   the cap bounds the rows and no slot leaks (note_peel_deferred_row_retired). *)
SlotsAreDeferredRows ==
  slots = In("deferred") /\ Cardinality(slots) <= Cap

(* Input retained because the group could not take it is replayed once the
   group is Stable again.  It stays behind only when a replay was cut short
   by an error or a restart, when a sweep's error put it there, or when
   replay found no room to defer it.                                       *)
RetainedInputIsReplayed ==
  job = Idle /\ mode = "stable" /\ member = "active" /\ ~cut => In("retryable") = {}

(* A removed copy retains no more than its ring, or than it already held:
   traffic arriving for a group this device left does not grow the ledger
   (make_room_in_the_removed_ring).                                       *)
RingIsBounded ==
  [][member = "removed" /\ member' = "removed" /\ job = Idle =>
       LET n == Cardinality(In("retryable")) IN
       Cardinality(In("retryable"))' <= (IF n > Ring THEN n ELSE Ring)]_vars

(* Content recovered by a sweep is not adjudicated before every deferred row
   met the context that sweep ended with: while the generation is open, the
   epoch advances only by a publication or a join.                         *)
GenerationIsAdjudicatedWhole ==
  [][\A c \in Content :
       content[c] = "buffered" /\ content'[c] = "settled" /\ member' = "active" =>
         ~barrier \/ job'.kind = "replay" \/ Unattempted = <<>>]_vars

(* The barrier of a generation comes down: content buffered behind it is
   settled, provided the group keeps becoming free for an advance.         *)
BufferedIsSettled ==
  []<>Sweepable => \A c \in Content : content[c] = "buffered" ~> content[c] = "settled"

(* The gate of prepare_convergence_input_advance returns the backlog that a
   crash between the removed marker and its purge left behind.             *)
RemovedBacklogIsReturned ==
  []<>(job = Idle /\ mode # "quarantined") =>
    (member = "removed" ~> (In("deferred") = {} \/ member # "removed"))

=============================================================================
