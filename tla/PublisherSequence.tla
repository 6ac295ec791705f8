-------------------------- MODULE PublisherSequence --------------------------
(***************************************************************************)
(* The durable sequence numbers of encrypted preview streams.  A record is *)
(* sealed under a key and a nonce that depend only on the stream's start   *)
(* context and on the record's number, so a number must never carry two    *)
(* records.  A publisher therefore loads the context's row, reserves a run *)
(* of numbers in one transaction, writes the records and then confirms     *)
(* (transport-quic-stream/src/publisher_sequence.rs and its callers,       *)
(* storage-sqlite/src/agent_stream_sequences.rs).                          *)
(*                                                                         *)
(* A transcript is the sequence of the reservations its records belong to: *)
(* as long as hashes do not collide, equal hashes mean equal sequences.    *)
(***************************************************************************)
EXTENDS Naturals, Sequences, FiniteSets

CONSTANTS
  Context,        \* key contexts: group, stream, epoch, sender, start event
  Publisher,      \* tasks that publish, of one process or of several
  MaxContexts,    \* MAX_AGENT_STREAM_PUBLISHER_CONTEXTS
  MaxSeq,         \* largest number the table holds (i64::MAX)
  MaxBatch,       \* bound on the records of one reservation
  MaxTokens,      \* bound on reservation attempts
  MaxCrashes      \* bound on process deaths

ASSUME SequenceBounds ==
  /\ MaxContexts \in Nat /\ MaxSeq \in Nat /\ MaxBatch \in Nat
  /\ MaxTokens \in Nat /\ MaxCrashes \in Nat

VARIABLES
  row,      \* durable: the row of each context
  job,      \* volatile: what each publisher is doing
  tokens,   \* tokens drawn so far; random tokens are taken to be distinct
  wire,     \* history: records handed to the network
  crashes

vars == <<row, job, tokens, wire, crashes>>

NoRow == [kind |-> "none"]
NoToken == 0
Idle == [pc |-> "idle"]

(* What load() yields for a context without a row. *)
Fresh == [next |-> 1, hash |-> <<>>, chunks |-> 0]
Snapshot(r) == IF r = NoRow THEN Fresh
               ELSE [next |-> r.next, hash |-> r.hash, chunks |-> r.chunks]
Ambiguous(r) == r # NoRow /\ (r.token # NoToken \/ r.disabled)

(* The transcript after n more records under the reservation t. *)
Extended(hash, n, t) ==
  [i \in 1 .. Len(hash) + n |-> IF i <= Len(hash) THEN hash[i] ELSE t]

Init ==
  /\ row = [c \in Context |-> NoRow] /\ job = [p \in Publisher |-> Idle]
  /\ tokens = 0 /\ wire = {} /\ crashes = 0

(***************************************************************************)
(* The first half of reserve_publisher_records: the row is read, refused   *)
(* when its continuity is in doubt, and the records are numbered.          *)
(***************************************************************************)
Load(p, c, n) ==
  /\ job[p] = Idle /\ tokens < MaxTokens /\ ~Ambiguous(row[c])
  /\ tokens' = tokens + 1
  /\ job' = [job EXCEPT ![p] = [pc |-> "loaded", ctx |-> c, count |-> n,
                                snap |-> Snapshot(row[c]), token |-> tokens + 1]]
  /\ UNCHANGED <<row, wire, crashes>>

(* Mutant: a reservation in doubt is given up for the next one. *)
DisableReleases(p) ==
  /\ job[p].pc = "loaded" /\ Ambiguous(row[job[p].ctx])
  /\ row' = [row EXCEPT ![job[p].ctx].token = NoToken]
  /\ job' = [job EXCEPT ![p] = Idle]
  /\ UNCHANGED <<tokens, wire, crashes>>

(* The transaction of reserve(): a row in doubt is disabled for good. *)
Disable(p) ==
  /\ job[p].pc = "loaded" /\ Ambiguous(row[job[p].ctx])
  /\ row' = [row EXCEPT ![job[p].ctx].disabled = TRUE]
  /\ job' = [job EXCEPT ![p] = Idle]
  /\ UNCHANGED <<tokens, wire, crashes>>

(* What reserve() compares before it takes the numbers. *)
Current(p) ==
  LET j == job[p] IN
  LET r == row[j.ctx] IN
  /\ r = NoRow => Cardinality({c \in Context : row[c] # NoRow}) < MaxContexts
  /\ Snapshot(r).hash = j.snap.hash /\ Snapshot(r).chunks = j.snap.chunks
  /\ Snapshot(r).next + j.count <= MaxSeq

(* Mutant: the numbers are taken without a mark. *)
ReserveUnmarked(p) ==
  /\ job[p].pc = "loaded" /\ ~Ambiguous(row[job[p].ctx]) /\ Current(p)
  /\ LET j == job[p] IN
     /\ row' = [row EXCEPT ![j.ctx] =
                  [kind |-> "row", next |-> Snapshot(@).next + j.count,
                   hash |-> Extended(j.snap.hash, j.count, j.token),
                   chunks |-> j.snap.chunks + j.count,
                   token |-> NoToken, disabled |-> FALSE]]
     /\ job' = [job EXCEPT ![p] = [pc |-> "writing", ctx |-> j.ctx, token |-> j.token,
                                   at |-> j.snap.next, upto |-> j.snap.next + j.count]]
  /\ UNCHANGED <<tokens, wire, crashes>>

(* Mutant: the number advances by one, whatever the batch. *)
ReserveOne(p) ==
  /\ job[p].pc = "loaded" /\ ~Ambiguous(row[job[p].ctx]) /\ Current(p)
  /\ LET j == job[p] IN
     /\ row' = [row EXCEPT ![j.ctx] =
                  [kind |-> "row", next |-> Snapshot(@).next + 1,
                   hash |-> Extended(j.snap.hash, j.count, j.token),
                   chunks |-> j.snap.chunks + j.count,
                   token |-> j.token, disabled |-> FALSE]]
     /\ job' = [job EXCEPT ![p] = [pc |-> "writing", ctx |-> j.ctx, token |-> j.token,
                                   at |-> j.snap.next, upto |-> j.snap.next + j.count]]
  /\ UNCHANGED <<tokens, wire, crashes>>

Reserve(p) ==
  /\ job[p].pc = "loaded" /\ ~Ambiguous(row[job[p].ctx]) /\ Current(p)
  /\ LET j == job[p] IN
     /\ row' = [row EXCEPT ![j.ctx] =
                  [kind |-> "row", next |-> Snapshot(@).next + j.count,
                   hash |-> Extended(j.snap.hash, j.count, j.token),
                   chunks |-> j.snap.chunks + j.count,
                   token |-> j.token, disabled |-> FALSE]]
     /\ job' = [job EXCEPT ![p] = [pc |-> "writing", ctx |-> j.ctx, token |-> j.token,
                                   at |-> j.snap.next, upto |-> j.snap.next + j.count]]
  /\ UNCHANGED <<tokens, wire, crashes>>

(* Every other outcome of reserve() rolls its transaction back. *)
ReserveFails(p) ==
  /\ job[p].pc = "loaded"
  /\ job' = [job EXCEPT ![p] = Idle]
  /\ UNCHANGED <<row, tokens, wire, crashes>>

(* encrypt_record and the write of one record, numbered when it was reserved *)
WriteRecord(p) ==
  /\ job[p].pc = "writing" /\ job[p].at < job[p].upto
  /\ wire' = wire \cup {[ctx |-> job[p].ctx, seq |-> job[p].at, by |-> job[p].token]}
  /\ job' = [job EXCEPT ![p].at = @ + 1]
  /\ UNCHANGED <<row, tokens, crashes>>

(* A failed write or a failed confirmation leaves the reservation behind. *)
Abandon(p) ==
  /\ job[p].pc = "writing"
  /\ job' = [job EXCEPT ![p] = Idle]
  /\ UNCHANGED <<row, tokens, wire, crashes>>

(* confirm(): clears the token, if it is still this one and the row is not
   disabled; any other answer is an error that changes nothing.           *)
Confirm(p) ==
  /\ job[p].pc = "writing" /\ job[p].at = job[p].upto
  /\ row' = [row EXCEPT ![job[p].ctx] =
               IF @.token = job[p].token /\ ~@.disabled
               THEN [@ EXCEPT !.token = NoToken] ELSE @]
  /\ job' = [job EXCEPT ![p] = Idle]
  /\ UNCHANGED <<tokens, wire, crashes>>

(* The process dies: reservations stay, nobody will confirm them. *)
Crash ==
  /\ crashes < MaxCrashes /\ crashes' = crashes + 1
  /\ job' = [p \in Publisher |-> Idle]
  /\ UNCHANGED <<row, tokens, wire>>

Next ==
  \/ \E p \in Publisher :
       \/ \E c \in Context, n \in 1 .. MaxBatch : Load(p, c, n)
       \/ Disable(p) \/ Reserve(p) \/ ReserveFails(p)
       \/ WriteRecord(p) \/ Abandon(p) \/ Confirm(p)
  \/ Crash

Spec == Init /\ [][Next]_vars

-----------------------------------------------------------------------------
RowType ==
  {NoRow} \cup [kind : {"row"}, next : Nat, hash : Seq(Nat), chunks : Nat,
                token : Nat, disabled : BOOLEAN]
SnapType == [next : Nat, hash : Seq(Nat), chunks : Nat]
JobType ==
  {Idle}
    \cup [pc : {"loaded"}, ctx : Context, count : 1 .. MaxBatch, snap : SnapType,
          token : Nat \ {0}]
    \cup [pc : {"writing"}, ctx : Context, token : Nat \ {0}, at : Nat, upto : Nat]

TypeOK ==
  /\ row \in [Context -> RowType]
  /\ job \in [Publisher -> JobType]
  /\ tokens \in Nat /\ crashes \in Nat
  /\ wire \subseteq [ctx : Context, seq : Nat, by : Nat]

(* A record number of a context is used for one record only, whoever
   publishes, however the calls interleave and wherever they die: the nonce
   of derive_record_nonce is a function of the number.                     *)
NumberIsUsedOnce ==
  \A r, s \in wire : r.ctx = s.ctx /\ r.seq = s.seq => r.by = s.by

(* A row whose continuity is not in doubt has a transcript of exactly the
   records that went out, so the hash and the count that a later final
   message carries are those of the stream its readers saw.               *)
TranscriptIsTheStream ==
  \A c \in Context :
    row[c] # NoRow /\ ~Ambiguous(row[c]) =>
      {r \in wire : r.ctx = c} =
        {[ctx |-> c, seq |-> i, by |-> row[c].hash[i]] : i \in 1 .. row[c].chunks}

(* A row in doubt fails closed: its numbers never move again, and the doubt
   is resolved only by the publisher that reserved.                        *)
DoubtFailsClosed ==
  [][\A c \in Context :
       Ambiguous(row[c]) =>
         /\ row'[c].next = row[c].next /\ row'[c].hash = row[c].hash
         /\ ~Ambiguous(row'[c]) =>
              ~row[c].disabled /\ \E p \in Publisher :
                job[p].pc = "writing" /\ job[p].token = row[c].token]_vars

=============================================================================
