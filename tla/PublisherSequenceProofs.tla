----------------------- MODULE PublisherSequenceProofs ------------------------
(***************************************************************************)
(* Proofs about PublisherSequence for any number of contexts and           *)
(* publishers and for all bounds.                                          *)
(***************************************************************************)
EXTENDS PublisherSequence, TLAPS

(* The record a row's transcript names at i. *)
Rec(c, i) == [ctx |-> c, seq |-> i, by |-> row[c].hash[i]]

(* A row counts its transcript, its next number follows it, and its tokens
   were drawn.                                                             *)
RowOK(c) ==
  row[c] # NoRow =>
    /\ Len(row[c].hash) = row[c].chunks /\ row[c].next = row[c].chunks + 1
    /\ row[c].token <= tokens
    /\ \A i \in 1 .. row[c].chunks : row[c].hash[i] <= tokens

(* A record on the wire is the one its row's transcript names. *)
WireOK ==
  \A r \in wire : /\ row[r.ctx] # NoRow /\ r.seq \in 1 .. row[r.ctx].chunks
                  /\ r.by = row[r.ctx].hash[r.seq]

(* A loaded job holds a consistent snapshot and a token nobody has used. *)
LoadedOK(p) ==
  job[p].pc = "loaded" =>
    /\ job[p].snap.next = job[p].snap.chunks + 1
    /\ Len(job[p].snap.hash) = job[p].snap.chunks
    /\ \A i \in 1 .. job[p].snap.chunks : job[p].snap.hash[i] <= tokens
    /\ job[p].token <= tokens
    /\ \A c \in Context : row[c] # NoRow =>
         /\ row[c].token # job[p].token
         /\ \A i \in 1 .. row[c].chunks : row[c].hash[i] # job[p].token

(* A writing job owns the numbers it has still to write, and has written the
   others of its reservation.                                              *)
WritingOK(p) ==
  job[p].pc = "writing" =>
    /\ row[job[p].ctx] # NoRow /\ job[p].token <= tokens
    /\ 1 <= job[p].at /\ job[p].at <= job[p].upto
    /\ job[p].upto <= row[job[p].ctx].chunks + 1
    /\ \A i \in 1 .. row[job[p].ctx].chunks :
         /\ i \in job[p].at .. (job[p].upto - 1) => row[job[p].ctx].hash[i] = job[p].token
         /\ row[job[p].ctx].hash[i] = job[p].token =>
              i < job[p].upto /\ (i < job[p].at => Rec(job[p].ctx, i) \in wire)

TokensApart ==
  \A p, q \in Publisher :
    p # q /\ job[p] # Idle /\ job[q] # Idle => job[p].token # job[q].token

(* What a transcript names and nobody sent belongs to the open reservation. *)
SentOrOpen(c) ==
  row[c] # NoRow /\ ~row[c].disabled =>
    \A i \in 1 .. row[c].chunks :
      Rec(c, i) \in wire \/ (row[c].token # NoToken /\ row[c].hash[i] = row[c].token)

IInv ==
  /\ TypeOK
  /\ \A c \in Context : RowOK(c) /\ SentOrOpen(c)
  /\ WireOK
  /\ \A p \in Publisher : LoadedOK(p) /\ WritingOK(p)
  /\ TokensApart

-----------------------------------------------------------------------------
LoadedType ==
  [pc : {"loaded"}, ctx : Context, count : 1 .. MaxBatch, snap : SnapType,
   token : Nat \ {0}]
WritingType ==
  [pc : {"writing"}, ctx : Context, token : Nat \ {0}, at : Nat, upto : Nat]
StoredType ==
  [kind : {"row"}, next : Nat, hash : Seq(Nat), chunks : Nat, token : Nat,
   disabled : BOOLEAN]

(* What the program counter and the presence of a row say of a value's shape. *)
LEMMA Shapes ==
  ASSUME TypeOK
  PROVE  /\ \A p \in Publisher : job[p].pc = "loaded" => job[p] \in LoadedType
         /\ \A p \in Publisher : job[p].pc = "writing" => job[p] \in WritingType
         /\ \A p \in Publisher : job[p] # Idle => job[p].pc \in {"loaded", "writing"}
         /\ \A c \in Context : row[c] # NoRow => row[c] \in StoredType
  BY DEF TypeOK, JobType, LoadedType, WritingType, StoredType, RowType, Idle, NoRow

(* A function on 1 .. m is a sequence of length m. *)
LEMMA FunctionIsSeq ==
  ASSUME NEW m \in Nat, NEW f \in [1 .. m -> Nat]
  PROVE  f \in Seq(Nat) /\ Len(f) = m
  OBVIOUS

(* Extending a transcript keeps what it had and appends n entries. *)
LEMMA ExtendedProps ==
  ASSUME NEW h \in Seq(Nat), NEW n \in Nat, NEW t \in Nat
  PROVE  /\ Extended(h, n, t) \in Seq(Nat)
         /\ Len(Extended(h, n, t)) = Len(h) + n
         /\ \A i \in 1 .. Len(h) : Extended(h, n, t)[i] = h[i]
         /\ \A i \in (Len(h) + 1) .. (Len(h) + n) : Extended(h, n, t)[i] = t
<1>1. Len(h) \in Nat /\ \A i \in 1 .. Len(h) : h[i] \in Nat
  OBVIOUS
<1>2. Extended(h, n, t) \in [1 .. (Len(h) + n) -> Nat]
  BY <1>1 DEF Extended
<1>3. Extended(h, n, t) \in Seq(Nat) /\ Len(Extended(h, n, t)) = Len(h) + n
  <2>1. Len(h) + n \in Nat
    BY <1>1
  <2> QED
    BY <1>2, <2>1, FunctionIsSeq
<1> QED
  BY <1>1, <1>3 DEF Extended

\* No row and no job yet.
LEMMA InitIInv == Init => IInv
<1> SUFFICES ASSUME Init PROVE IInv
  OBVIOUS
<1>1. TypeOK
  BY DEF Init, TypeOK, RowType, JobType
<1>2. \A c \in Context : RowOK(c) /\ SentOrOpen(c)
  BY DEF Init, RowOK, SentOrOpen
<1>3. WireOK /\ TokensApart
  BY DEF Init, WireOK, TokensApart
<1>4. \A p \in Publisher : LoadedOK(p) /\ WritingOK(p)
  BY DEF Init, Idle, LoadedOK, WritingOK
<1> QED
  BY <1>1, <1>2, <1>3, <1>4 DEF IInv

(* Giving a job up leaves rows and wire alone. *)
LEMMA ForgetJobs ==
  ASSUME IInv, UNCHANGED <<row, wire, tokens>>, crashes' \in Nat,
         job' \in [Publisher -> JobType],
         \A p \in Publisher : job'[p] = job[p] \/ job'[p] = Idle
  PROVE  IInv'
<1>1. TypeOK'
  BY DEF IInv, TypeOK
<1>2. \A c \in Context : RowOK(c)' /\ SentOrOpen(c)'
  BY DEF IInv, RowOK, SentOrOpen, Rec
<1>3. WireOK'
  BY DEF IInv, WireOK
<1>4. TokensApart'
  BY DEF IInv, TokensApart
<1>5. \A p \in Publisher : LoadedOK(p)'
  BY DEF IInv, LoadedOK, Idle
<1>6. \A p \in Publisher : WritingOK(p)'
  BY DEF IInv, WritingOK, Rec, Idle
<1> QED
  BY <1>1, <1>2, <1>3, <1>4, <1>5, <1>6 DEF IInv

\* A publisher takes a snapshot of the row, with a token nobody holds.
LEMMA LoadStep ==
  ASSUME IInv, NEW p \in Publisher, NEW c \in Context, NEW n \in 1 .. MaxBatch,
         Load(p, c, n)
  PROVE  IInv'
<1> DEFINE j == [pc |-> "loaded", ctx |-> c, count |-> n,
                 snap |-> Snapshot(row[c]), token |-> tokens + 1]
<1>1. TypeOK /\ row' = row /\ wire' = wire /\ crashes' = crashes
        /\ tokens' = tokens + 1 /\ tokens \in Nat
  BY DEF IInv, Load, TypeOK
<1>2. /\ Snapshot(row[c]) \in SnapType
      /\ Snapshot(row[c]).next = Snapshot(row[c]).chunks + 1
      /\ Len(Snapshot(row[c]).hash) = Snapshot(row[c]).chunks
      /\ \A i \in 1 .. Snapshot(row[c]).chunks : Snapshot(row[c]).hash[i] <= tokens
  <2>1. CASE row[c] = NoRow
    BY <2>1 DEF Snapshot, Fresh, SnapType
  <2>2. CASE row[c] # NoRow
    <3>1. row[c] \in StoredType
      BY <1>1, <2>2, Shapes
    <3>2. Snapshot(row[c]) = [next |-> row[c].next, hash |-> row[c].hash, chunks |-> row[c].chunks]
      BY <2>2 DEF Snapshot
    <3> QED
      BY <2>2, <3>1, <3>2 DEF IInv, RowOK, SnapType, StoredType
  <2> QED
    BY <2>1, <2>2
<1>3. j \in LoadedType
  BY <1>1, <1>2 DEF LoadedType
<1>4. job' = [job EXCEPT ![p] = j] /\ job[p] = Idle
  BY DEF Load
<1> HIDE DEF j
<1>5. TypeOK'
  <2>1. j \in JobType
    BY <1>3 DEF LoadedType, JobType
  <2> QED
    BY <1>1, <1>4, <2>1 DEF TypeOK
<1>6. \A d \in Context : RowOK(d)' /\ SentOrOpen(d)'
  <2> SUFFICES ASSUME NEW d \in Context PROVE RowOK(d)' /\ SentOrOpen(d)'
    OBVIOUS
  <2>1. SentOrOpen(d)'
    BY <1>1 DEF IInv, SentOrOpen, Rec
  <2>2. row[d] # NoRow => row[d] \in StoredType
    BY <1>1, Shapes
  <2>3. row[d] # NoRow => row[d].token \in Nat /\ \A i \in 1 .. row[d].chunks : row[d].hash[i] \in Nat
    BY <2>2 DEF IInv, RowOK, StoredType
  <2>4. RowOK(d)'
    BY <1>1, <2>3 DEF IInv, RowOK
  <2> QED
    BY <2>1, <2>4
<1>7. WireOK'
  BY <1>1 DEF IInv, WireOK
<1>8. \A q \in Publisher : LoadedOK(q)'
  <2> SUFFICES ASSUME NEW q \in Publisher, job'[q].pc = "loaded" PROVE LoadedOK(q)'
    BY DEF LoadedOK
  <2>1. CASE q = p
    <3>1. job'[q] = j /\ j.snap = Snapshot(row[c]) /\ j.token = tokens + 1
      BY <1>1, <1>4, <2>1 DEF TypeOK, j
    <3>2. \A d \in Context : row[d] # NoRow =>
            /\ row[d].token # tokens + 1
            /\ \A i \in 1 .. row[d].chunks : row[d].hash[i] # tokens + 1
      <4> SUFFICES ASSUME NEW d \in Context, row[d] # NoRow
                   PROVE /\ row[d].token # tokens + 1
                         /\ \A i \in 1 .. row[d].chunks : row[d].hash[i] # tokens + 1
        OBVIOUS
      <4>1. row[d].token <= tokens /\ \A i \in 1 .. row[d].chunks : row[d].hash[i] <= tokens
        BY DEF IInv, RowOK
      <4> QED
        BY <4>1, <1>1
    <3>3. \A i \in 1 .. j.snap.chunks : j.snap.hash[i] \in Nat
      BY <1>2, <3>1 DEF SnapType
    <3> QED
      BY <1>1, <1>2, <3>1, <3>2, <3>3 DEF LoadedOK
  <2>2. CASE q # p
    <3>1. job'[q] = job[q]
      BY <1>1, <1>4, <2>2 DEF TypeOK
    <3>2. job[q] \in LoadedType
      BY <1>1, <3>1, Shapes
    <3>3. \A i \in 1 .. job[q].snap.chunks : job[q].snap.hash[i] \in Nat
      BY <3>1, <3>2 DEF LoadedType, SnapType, IInv, LoadedOK
    <3> QED
      BY <1>1, <3>1, <3>2, <3>3 DEF IInv, LoadedOK, LoadedType
  <2> QED
    BY <2>1, <2>2
<1>9. \A q \in Publisher : WritingOK(q)'
  <2> SUFFICES ASSUME NEW q \in Publisher, job'[q].pc = "writing" PROVE WritingOK(q)'
    BY DEF WritingOK
  <2>1. q # p
    BY <1>1, <1>3, <1>4 DEF TypeOK, LoadedType
  <2>2. job'[q] = job[q]
    BY <1>1, <1>4, <2>1 DEF TypeOK
  <2>3. job[q] \in WritingType
    BY <1>1, <2>2, Shapes
  <2> QED
    BY <1>1, <2>2, <2>3 DEF IInv, WritingOK, Rec, WritingType
<1>10. TokensApart'
  <2> SUFFICES ASSUME NEW q \in Publisher, q # p, job[q] # Idle
               PROVE  job[q].token # tokens + 1
    BY <1>1, <1>4 DEF TokensApart, IInv, TypeOK, j
  <2>1. job[q].token <= tokens
    BY <1>1, Shapes DEF IInv, LoadedOK, WritingOK
  <2> QED
    BY <1>1, <2>1
<1> QED
  BY <1>5, <1>6, <1>7, <1>8, <1>9, <1>10 DEF IInv

(* A step that only marks rows, or clears the token of a row whose records
   were all sent, and leaves no new job.                                   *)
LEMMA MarkRows ==
  ASSUME IInv, UNCHANGED <<wire, tokens, crashes>>,
         job' \in [Publisher -> JobType],
         \A q \in Publisher : job'[q] = job[q] \/ job'[q] = Idle,
         row' \in [Context -> RowType],
         \A c \in Context : row'[c] = row[c] \/
           /\ row[c] # NoRow /\ row'[c] # NoRow
           /\ row'[c].next = row[c].next /\ row'[c].hash = row[c].hash
           /\ row'[c].chunks = row[c].chunks
           /\ row'[c].token \in {row[c].token, NoToken},
         \A c \in Context : SentOrOpen(c)'
  PROVE  IInv'
<1>1. TypeOK'
  BY DEF IInv, TypeOK
<1>2. \A c \in Context : RowOK(c)'
  BY DEF IInv, RowOK, TypeOK, NoToken
<1>3. WireOK'
  BY DEF IInv, WireOK, TypeOK
<1>4. TokensApart'
  BY DEF IInv, TokensApart
<1>5. \A q \in Publisher : LoadedOK(q)'
  <2> SUFFICES ASSUME NEW q \in Publisher, job'[q].pc = "loaded" PROVE LoadedOK(q)'
    BY DEF LoadedOK
  <2>1. job'[q] = job[q]
    BY DEF Idle
  <2>2. job[q].token \in Nat \ {0}
    BY <2>1, Shapes DEF IInv, LoadedType
  <2> QED
    BY <2>1, <2>2 DEF IInv, LoadedOK, NoToken
<1>6. \A q \in Publisher : WritingOK(q)'
  <2> SUFFICES ASSUME NEW q \in Publisher, job'[q].pc = "writing" PROVE WritingOK(q)'
    BY DEF WritingOK
  <2>1. job'[q] = job[q]
    BY DEF Idle
  <2>2. job[q] \in WritingType
    BY <2>1, Shapes DEF IInv
  <2>3. job[q].ctx \in Context
    BY <2>2 DEF WritingType
  <2> QED
    BY <2>1, <2>3 DEF IInv, WritingOK, Rec
<1> QED
  BY <1>1, <1>2, <1>3, <1>4, <1>5, <1>6 DEF IInv

\* A context in doubt is disabled for good.
LEMMA DisableStep ==
  ASSUME IInv, NEW p \in Publisher, Disable(p)
  PROVE  IInv'
<1> DEFINE c == job[p].ctx
<1>1. TypeOK /\ job[p] \in LoadedType /\ row[c] # NoRow
  BY Shapes DEF IInv, Disable, Ambiguous
<1>2. c \in Context /\ row[c] \in StoredType
  BY <1>1, Shapes DEF LoadedType
<1> HIDE DEF c
<1>3. row' = [row EXCEPT ![c] = [row[c] EXCEPT !.disabled = TRUE]]
  BY DEF Disable, c
<1>4. [row[c] EXCEPT !.disabled = TRUE] \in StoredType
  BY <1>2 DEF StoredType
<1>5. row' \in [Context -> RowType]
  BY <1>1, <1>2, <1>3, <1>4 DEF TypeOK, RowType, StoredType
<1>6. job' \in [Publisher -> JobType] /\ \A q \in Publisher : job'[q] = job[q] \/ job'[q] = Idle
  BY <1>1 DEF Disable, TypeOK, JobType
<1>7. /\ row'[c] # NoRow /\ row'[c].next = row[c].next /\ row'[c].hash = row[c].hash
      /\ row'[c].chunks = row[c].chunks /\ row'[c].token = row[c].token
      /\ row'[c].disabled = TRUE
  BY <1>1, <1>2, <1>3, <1>4 DEF TypeOK, StoredType, NoRow
<1>8. \A d \in Context : d # c => row'[d] = row[d]
  BY <1>1, <1>2, <1>3 DEF TypeOK
<1>9. \A d \in Context : SentOrOpen(d)'
  <2> SUFFICES ASSUME NEW d \in Context PROVE SentOrOpen(d)'
    OBVIOUS
  <2>1. CASE d = c
    BY <1>7, <2>1 DEF SentOrOpen
  <2>2. CASE d # c
    BY <1>8, <2>2 DEF SentOrOpen, IInv, Rec, Disable
  <2> QED
    BY <2>1, <2>2
<1>10. UNCHANGED <<wire, tokens, crashes>>
  BY DEF Disable
<1> QED
  BY <1>1, <1>5, <1>6, <1>7, <1>8, <1>9, <1>10, MarkRows

\* The publisher that holds the token confirms what it wrote.
LEMMA ConfirmStep ==
  ASSUME IInv, NEW p \in Publisher, Confirm(p)
  PROVE  IInv'
<1> DEFINE c == job[p].ctx
<1>1. TypeOK /\ job[p] \in WritingType /\ row[c] # NoRow /\ job[p].at = job[p].upto
  BY Shapes DEF IInv, Confirm, WritingOK
<1>2. c \in Context /\ row[c] \in StoredType
  BY <1>1, Shapes DEF WritingType
<1>3. job' \in [Publisher -> JobType] /\ \A q \in Publisher : job'[q] = job[q] \/ job'[q] = Idle
  BY <1>1 DEF Confirm, TypeOK, JobType
<1>4. UNCHANGED <<wire, tokens, crashes>>
  BY DEF Confirm
<1>5. CASE ~(row[c].token = job[p].token /\ ~row[c].disabled)
  <2>1. row' = row
    BY <1>1, <1>2, <1>5 DEF Confirm, TypeOK
  <2> QED
    BY <1>1, <1>3, <1>4, <2>1, ForgetJobs DEF TypeOK
<1>6. CASE row[c].token = job[p].token /\ ~row[c].disabled
  <2>1. row' = [row EXCEPT ![c] = [row[c] EXCEPT !.token = NoToken]]
    BY <1>6 DEF Confirm
  <2>2. [row[c] EXCEPT !.token = NoToken] \in StoredType
    BY <1>2 DEF StoredType, NoToken
  <2>3. row' \in [Context -> RowType]
    BY <1>1, <1>2, <2>1, <2>2 DEF TypeOK, RowType, StoredType
  <2>4. /\ row'[c] # NoRow /\ row'[c].next = row[c].next /\ row'[c].hash = row[c].hash
        /\ row'[c].chunks = row[c].chunks /\ row'[c].token = NoToken
    BY <1>1, <1>2, <2>1, <2>2 DEF TypeOK, StoredType, NoRow
  <2>5. \A d \in Context : d # c => row'[d] = row[d]
    BY <1>1, <1>2, <2>1 DEF TypeOK
  <2>6. \A d \in Context : SentOrOpen(d)'
    <3> SUFFICES ASSUME NEW d \in Context PROVE SentOrOpen(d)'
      OBVIOUS
    <3>1. CASE d = c
      <4>1. \A i \in 1 .. row[c].chunks : Rec(c, i) \in wire
        <5> SUFFICES ASSUME NEW i \in 1 .. row[c].chunks PROVE Rec(c, i) \in wire
          OBVIOUS
        <5>1. Rec(c, i) \in wire \/ row[c].hash[i] = job[p].token
          BY <1>1, <1>2, <1>6 DEF IInv, SentOrOpen
        <5>2. row[c].hash[i] = job[p].token => Rec(c, i) \in wire
          BY <1>1 DEF IInv, WritingOK, Confirm
        <5> QED
          BY <5>1, <5>2
      <4> QED
        BY <1>4, <2>4, <3>1, <4>1 DEF SentOrOpen, Rec
    <3>2. CASE d # c
      BY <1>4, <2>5, <3>2 DEF SentOrOpen, IInv, Rec
    <3> QED
      BY <3>1, <3>2
  <2> QED
    BY <1>1, <1>3, <1>4, <2>3, <2>4, <2>5, <2>6, MarkRows
<1> QED
  BY <1>5, <1>6

\* One record of an open reservation goes out.
LEMMA WriteStep ==
  ASSUME IInv, NEW p \in Publisher, WriteRecord(p)
  PROVE  IInv'
<1> DEFINE c == job[p].ctx
           a == job[p].at
           r == [ctx |-> c, seq |-> a, by |-> job[p].token]
<1>1. /\ TypeOK /\ job[p] \in WritingType /\ row[c] # NoRow /\ a < job[p].upto
      /\ job[p].pc = "writing" /\ job[p] # Idle /\ WritingOK(p)
  BY Shapes DEF IInv, WriteRecord, WritingOK, Idle
<1>2. c \in Context /\ row[c] \in StoredType /\ a \in Nat /\ job[p].upto \in Nat
  BY <1>1, Shapes DEF WritingType
<1>3. /\ UNCHANGED <<row, tokens, crashes>> /\ wire' = wire \cup {r}
      /\ job' = [job EXCEPT ![p] = [job[p] EXCEPT !.at = a + 1]]
  BY DEF WriteRecord
<1>4. a \in 1 .. row[c].chunks /\ row[c].hash[a] = job[p].token
  <2>1. 1 <= a /\ job[p].upto <= row[c].chunks + 1 /\ row[c].chunks \in Nat
    BY <1>1, <1>2 DEF WritingOK, StoredType
  <2>2. a \in 1 .. row[c].chunks /\ a \in a .. (job[p].upto - 1)
    BY <1>1, <1>2, <2>1
  <2> QED
    BY <1>1, <2>2 DEF WritingOK
<1>5. r = Rec(c, a)
  BY <1>4 DEF Rec
<1>6. [job[p] EXCEPT !.at = a + 1] \in WritingType
  BY <1>1, <1>2 DEF WritingType
<1>7. TypeOK'
  <2>1. r \in [ctx : Context, seq : Nat, by : Nat]
    BY <1>1, <1>2 DEF WritingType
  <2>2. [job[p] EXCEPT !.at = a + 1] \in JobType
    BY <1>6 DEF WritingType, JobType
  <2>3. job' \in [Publisher -> JobType]
    BY <1>1, <1>3, <2>2 DEF TypeOK
  <2> QED
    BY <1>1, <1>3, <2>1, <2>3 DEF TypeOK
<1> HIDE DEF r
<1>8. \A d \in Context : RowOK(d)' /\ SentOrOpen(d)'
  BY <1>3 DEF IInv, RowOK, SentOrOpen, Rec
<1>9. WireOK'
  BY <1>1, <1>3, <1>4 DEF IInv, WireOK, r
<1>10. \A q \in Publisher : q # p => job'[q] = job[q]
  BY <1>1, <1>3 DEF TypeOK
<1>11. /\ job'[p].pc = "writing" /\ job'[p].ctx = c /\ job'[p].token = job[p].token
       /\ job'[p].at = a + 1 /\ job'[p].upto = job[p].upto
  BY <1>1, <1>3, <1>6 DEF TypeOK, WritingType
<1>12. \A q \in Publisher : LoadedOK(q)'
  BY <1>3, <1>10, <1>11 DEF IInv, LoadedOK
<1>13. \A q \in Publisher : WritingOK(q)'
  <2> SUFFICES ASSUME NEW q \in Publisher, job'[q].pc = "writing" PROVE WritingOK(q)'
    BY DEF WritingOK
  <2>1. CASE q # p
    BY <1>3, <1>10, <2>1 DEF IInv, WritingOK, Rec
  <2>2. CASE q = p
    <3>1. /\ row[c] # NoRow /\ job[p].token <= tokens /\ 1 <= a /\ a <= job[p].upto
          /\ job[p].upto <= row[c].chunks + 1
          /\ \A i \in 1 .. row[c].chunks :
               /\ i \in a .. (job[p].upto - 1) => row[c].hash[i] = job[p].token
               /\ row[c].hash[i] = job[p].token =>
                    i < job[p].upto /\ (i < a => Rec(c, i) \in wire)
      BY <1>1 DEF WritingOK
    <3>2. \A i \in 1 .. row[c].chunks :
            /\ i \in (a + 1) .. (job[p].upto - 1) => row[c].hash[i] = job[p].token
            /\ row[c].hash[i] = job[p].token =>
                 i < job[p].upto /\ (i < a + 1 => Rec(c, i) \in wire')
      <4> SUFFICES ASSUME NEW i \in 1 .. row[c].chunks
                   PROVE  /\ i \in (a + 1) .. (job[p].upto - 1) => row[c].hash[i] = job[p].token
                          /\ row[c].hash[i] = job[p].token =>
                               i < job[p].upto /\ (i < a + 1 => Rec(c, i) \in wire')
        OBVIOUS
      <4>1. i \in Nat
        BY <1>2 DEF StoredType
      <4>2. i < a + 1 => i < a \/ i = a
        BY <1>2, <4>1
      <4>3. i = a => Rec(c, i) \in wire'
        BY <1>3, <1>5
      <4>4. i \in (a + 1) .. (job[p].upto - 1) => i \in a .. (job[p].upto - 1)
        BY <1>2, <4>1
      <4> QED
        BY <1>3, <3>1, <4>2, <4>3, <4>4
    <3>3. 1 <= a + 1 /\ a + 1 <= job[p].upto
      BY <1>1, <1>2, <3>1
    <3> QED
      BY <1>3, <1>11, <2>2, <3>1, <3>2, <3>3, SMTT(60) DEF WritingOK, Rec
  <2> QED
    BY <2>1, <2>2
<1>14. TokensApart'
  <2>1. \A q \in Publisher : job'[q] # Idle => job[q] # Idle /\ job'[q].token = job[q].token
    BY <1>1, <1>10, <1>11
  <2> QED
    BY <2>1 DEF IInv, TokensApart
<1> QED
  BY <1>7, <1>8, <1>9, <1>12, <1>13, <1>14 DEF IInv

(* The heart of the matter: the numbers a reservation takes are above every
   number any row, record or job of the context refers to.                 *)
LEMMA ReserveStep ==
  ASSUME IInv, NEW p \in Publisher, Reserve(p)
  PROVE  IInv'
<1> DEFINE j == job[p]
           c == job[p].ctx
           n == job[p].count
           t == job[p].token
           k == job[p].snap.chunks
           h == job[p].snap.hash
           g == Extended(h, n, t)
           new == [kind |-> "row", next |-> Snapshot(row[c]).next + n, hash |-> g,
                   chunks |-> k + n, token |-> t, disabled |-> FALSE]
           w == [pc |-> "writing", ctx |-> c, token |-> t, at |-> job[p].snap.next,
                 upto |-> job[p].snap.next + n]
<1>1. TypeOK /\ job[p] \in LoadedType /\ LoadedOK(p) /\ job[p].pc = "loaded"
  BY Shapes DEF IInv, Reserve
<1>2. /\ c \in Context /\ n \in Nat \ {0} /\ t \in Nat \ {0} /\ k \in Nat
      /\ h \in Seq(Nat) /\ job[p].snap.next \in Nat
  BY <1>1, SequenceBounds DEF LoadedType, SnapType
<1>3. /\ job[p].snap.next = k + 1 /\ Len(h) = k /\ t <= tokens
      /\ \A i \in 1 .. k : h[i] <= tokens
      /\ \A d \in Context : row[d] # NoRow =>
           /\ row[d].token # t
           /\ \A i \in 1 .. row[d].chunks : row[d].hash[i] # t
  BY <1>1 DEF LoadedOK
<1>4. /\ g \in Seq(Nat) /\ Len(g) = k + n
      /\ \A i \in 1 .. k : g[i] = h[i]
      /\ \A i \in (k + 1) .. (k + n) : g[i] = t
  <2> HIDE DEF h, n, t, k
  <2>1. h \in Seq(Nat) /\ n \in Nat /\ t \in Nat
    BY <1>2
  <2>2. /\ Extended(h, n, t) \in Seq(Nat)
        /\ Len(Extended(h, n, t)) = Len(h) + n
        /\ \A i \in 1 .. Len(h) : Extended(h, n, t)[i] = h[i]
        /\ \A i \in (Len(h) + 1) .. (Len(h) + n) : Extended(h, n, t)[i] = t
    BY <2>1, ExtendedProps
  <2> QED
    BY <1>3, <2>2
<1>5. /\ UNCHANGED <<tokens, wire, crashes>>
      /\ row' = [row EXCEPT ![c] = new] /\ job' = [job EXCEPT ![p] = w]
      /\ Snapshot(row[c]).hash = h /\ Snapshot(row[c]).chunks = k
      /\ ~Ambiguous(row[c])
  BY DEF Reserve, Current
<1> HIDE DEF g
(* The row is as the snapshot says. *)
<1>6. /\ Snapshot(row[c]).next = k + 1
      /\ row[c] # NoRow => /\ row[c] \in StoredType /\ row[c].hash = h
                           /\ row[c].chunks = k /\ row[c].token = NoToken
                           /\ ~row[c].disabled
      /\ row[c] = NoRow => k = 0
  <2>1. CASE row[c] = NoRow
    BY <1>5, <2>1 DEF Snapshot, Fresh
  <2>2. CASE row[c] # NoRow
    <3>1. row[c] \in StoredType /\ RowOK(c)
      BY <1>1, <1>2, <2>2, Shapes DEF IInv
    <3>2. Snapshot(row[c]) = [next |-> row[c].next, hash |-> row[c].hash, chunks |-> row[c].chunks]
      BY <2>2 DEF Snapshot
    <3> QED
      BY <1>5, <2>2, <3>1, <3>2, SMTT(60) DEF RowOK, Ambiguous
  <2> QED
    BY <2>1, <2>2
<1>7. new \in StoredType /\ w \in WritingType
  <2>1. Snapshot(row[c]).next + n \in Nat /\ k + n \in Nat /\ job[p].snap.next + n \in Nat
    <3> HIDE DEF c, k, n
    <3>1. n \in Nat /\ k \in Nat /\ job[p].snap.next \in Nat /\ Snapshot(row[c]).next = k + 1
      BY <1>2, <1>6
    <3> QED
      BY <3>1
  <2>2. t \in Nat /\ g \in Seq(Nat)
    BY <1>2, <1>4
  <2>3. new \in StoredType
    BY <2>1, <2>2 DEF StoredType
  <2>4. w \in WritingType
    BY <1>2, <2>1 DEF WritingType
  <2> QED
    BY <2>3, <2>4
<1>8. /\ row'[c] = new /\ \A d \in Context : d # c => row'[d] = row[d]
      /\ job'[p] = w /\ \A q \in Publisher : q # p => job'[q] = job[q]
  BY <1>1, <1>2, <1>5 DEF TypeOK
<1>9. TypeOK'
  <2>1. new \in RowType /\ w \in JobType
    BY <1>7 DEF RowType, JobType, StoredType, WritingType
  <2> QED
    BY <1>1, <1>2, <1>5, <2>1 DEF TypeOK
<1>10. /\ row'[c] # NoRow /\ row'[c].next = k + 1 + n /\ row'[c].hash = g
       /\ row'[c].chunks = k + n /\ row'[c].token = t /\ row'[c].disabled = FALSE
  BY <1>6, <1>8, SMTT(60) DEF NoRow
<1>11. /\ job'[p].pc = "writing" /\ job'[p].ctx = c /\ job'[p].token = t
       /\ job'[p].at = k + 1 /\ job'[p].upto = k + 1 + n
  BY <1>3, <1>8, SMTT(60)
<1> HIDE DEF new, w
<1>same. tokens' = tokens /\ wire' = wire
  BY <1>5
<1>12. \A d \in Context : RowOK(d)'
  <2> SUFFICES ASSUME NEW d \in Context PROVE RowOK(d)'
    OBVIOUS
  <2>1. CASE d # c
    BY <1>same, <1>8, <2>1 DEF IInv, RowOK
  <2>2. CASE d = c
    <3>1. \A i \in 1 .. (k + n) : g[i] <= tokens
      <4> SUFFICES ASSUME NEW i \in 1 .. (k + n) PROVE g[i] <= tokens
        OBVIOUS
      <4>1. i \in 1 .. k \/ i \in (k + 1) .. (k + n)
        BY <1>2
      <4> QED
        BY <1>3, <1>4, <4>1
    <3>2. k + 1 + n = (k + n) + 1
      <4> HIDE DEF k, n
      <4> QED
        BY <1>2
    <3> QED
      BY <1>3, <1>4, <1>same, <1>10, <2>2, <3>1, <3>2 DEF RowOK
  <2> QED
    BY <2>1, <2>2
<1>13. \A d \in Context : SentOrOpen(d)'
  <2> SUFFICES ASSUME NEW d \in Context PROVE SentOrOpen(d)'
    OBVIOUS
  <2>1. CASE d # c
    BY <1>same, <1>8, <2>1 DEF IInv, SentOrOpen, Rec
  <2>2. CASE d = c
    <3> SUFFICES ASSUME NEW i \in 1 .. (k + n)
                 PROVE  [ctx |-> c, seq |-> i, by |-> g[i]] \in wire \/ (t # NoToken /\ g[i] = t)
      BY <1>same, <1>10, <2>2 DEF SentOrOpen, Rec
    <3>1. CASE i \in 1 .. k
      <4>1. row[c] # NoRow
        BY <1>2, <1>6, <3>1
      <4>2. Rec(c, i) \in wire
        BY <1>2, <1>6, <3>1, <4>1 DEF IInv, SentOrOpen
      <4> QED
        BY <1>4, <1>6, <3>1, <4>1, <4>2 DEF Rec
    <3>2. CASE i \in (k + 1) .. (k + n)
      BY <1>2, <1>4, <3>2 DEF NoToken
    <3> QED
      BY <1>2, <3>1, <3>2
  <2> QED
    BY <2>1, <2>2
<1>14. WireOK'
  <2> SUFFICES ASSUME NEW r \in wire
               PROVE  /\ row'[r.ctx] # NoRow /\ r.seq \in 1 .. row'[r.ctx].chunks
                      /\ r.by = row'[r.ctx].hash[r.seq]
    BY <1>same DEF WireOK
  <2>1. r.ctx \in Context
    BY <1>1 DEF TypeOK
  <2>2. /\ row[r.ctx] # NoRow /\ r.seq \in 1 .. row[r.ctx].chunks
        /\ r.by = row[r.ctx].hash[r.seq]
    BY DEF IInv, WireOK
  <2>3. CASE r.ctx # c
    BY <1>8, <2>1, <2>2, <2>3
  <2>4. CASE r.ctx = c
    <3>1. r.seq \in 1 .. k /\ r.by = h[r.seq]
      BY <1>6, <2>2, <2>4
    <3>2. r.seq \in 1 .. (k + n)
      BY <1>2, <3>1
    <3> QED
      BY <1>4, <1>10, <2>4, <3>1, <3>2
  <2> QED
    BY <2>3, <2>4
<1>15. \A q \in Publisher : q # p /\ job[q] # Idle => job[q].token # t
  <2>1. job[p] # Idle
    BY <1>1 DEF Idle
  <2> QED
    BY <2>1 DEF IInv, TokensApart
<1>16. \A q \in Publisher : LoadedOK(q)'
  <2> SUFFICES ASSUME NEW q \in Publisher, job'[q].pc = "loaded" PROVE LoadedOK(q)'
    BY DEF LoadedOK
  <2>1. q # p /\ job'[q] = job[q]
    BY <1>8, <1>11
  <2>2. job[q].token # t /\ LoadedOK(q) /\ job[q].pc = "loaded"
    BY <1>15, <2>1 DEF IInv, Idle
  <2>3. \A d \in Context : row'[d] # NoRow =>
          /\ row'[d].token # job[q].token
          /\ \A i \in 1 .. row'[d].chunks : row'[d].hash[i] # job[q].token
    <3> SUFFICES ASSUME NEW d \in Context, row'[d] # NoRow
                 PROVE  /\ row'[d].token # job[q].token
                        /\ \A i \in 1 .. row'[d].chunks : row'[d].hash[i] # job[q].token
      OBVIOUS
    <3>1. CASE d # c
      BY <1>8, <2>2, <3>1 DEF LoadedOK
    <3>2. CASE d = c
      <4> SUFFICES ASSUME NEW i \in 1 .. (k + n) PROVE g[i] # job[q].token
        BY <1>10, <2>2, <3>2
      <4>1. CASE i \in 1 .. k
        <5>1. row[c] # NoRow
          BY <1>2, <1>6, <4>1
        <5>2. row[c].hash[i] # job[q].token
          BY <1>2, <1>6, <2>2, <4>1, <5>1 DEF LoadedOK
        <5> QED
          BY <1>4, <1>6, <4>1, <5>1, <5>2
      <4>2. CASE i \in (k + 1) .. (k + n)
        BY <1>4, <2>2, <4>2
      <4> QED
        BY <1>2, <4>1, <4>2
    <3> QED
      BY <3>1, <3>2
  <2> QED
    BY <1>same, <2>1, <2>2, <2>3 DEF LoadedOK
<1>17. \A q \in Publisher : WritingOK(q)'
  <2> SUFFICES ASSUME NEW q \in Publisher, job'[q].pc = "writing" PROVE WritingOK(q)'
    BY DEF WritingOK
  <2>1. CASE q = p
    <3>1. \A i \in 1 .. (k + n) :
            /\ i \in (k + 1) .. ((k + 1 + n) - 1) => g[i] = t
            /\ g[i] = t => i < k + 1 + n /\ ~(i < k + 1)
      <4> SUFFICES ASSUME NEW i \in 1 .. (k + n)
                   PROVE  /\ i \in (k + 1) .. ((k + 1 + n) - 1) => g[i] = t
                          /\ g[i] = t => i < k + 1 + n /\ ~(i < k + 1)
        OBVIOUS
      <4>1. i \in (k + 1) .. ((k + 1 + n) - 1) => i \in (k + 1) .. (k + n)
        BY <1>2
      <4>2. i < k + 1 + n /\ (i < k + 1 => i \in 1 .. k)
        BY <1>2
      <4>3. i \in 1 .. k => g[i] # t
        <5> SUFFICES ASSUME i \in 1 .. k PROVE g[i] # t
          OBVIOUS
        <5>1. row[c] # NoRow
          BY <1>2, <1>6
        <5>2. row[c].hash[i] # t
          BY <1>2, <1>3, <1>6, <5>1
        <5> QED
          BY <1>4, <1>6, <5>1, <5>2
      <4> QED
        BY <1>4, <4>1, <4>2, <4>3
    <3>2. 1 <= k + 1 /\ k + 1 <= k + 1 + n /\ k + 1 + n <= (k + n) + 1
      BY <1>2
    <3> QED
      BY <1>3, <1>same, <1>10, <1>11, <2>1, <3>1, <3>2, SMTT(60) DEF WritingOK
  <2>2. CASE q # p
    <3>1. job'[q] = job[q] /\ job[q].pc = "writing"
      BY <1>8, <2>2
    <3>2. job[q] \in WritingType /\ WritingOK(q) /\ job[q].token # t
      BY <1>1, <1>15, <2>2, <3>1, Shapes DEF IInv, Idle
    <3>3. job[q].ctx \in Context /\ job[q].at \in Nat /\ job[q].upto \in Nat
      BY <3>2 DEF WritingType
    <3>4. CASE job[q].ctx # c
      <4>1. row'[job'[q].ctx] = row[job[q].ctx]
        BY <1>8, <3>1, <3>3, <3>4
      <4> QED
        BY <1>same, <3>1, <3>2, <4>1 DEF WritingOK, Rec
    <3>5. CASE job[q].ctx = c
      <4>1. /\ row[c] # NoRow /\ job[q].token <= tokens
            /\ 1 <= job[q].at /\ job[q].at <= job[q].upto /\ job[q].upto <= k + 1
            /\ \A i \in 1 .. k :
                 /\ i \in job[q].at .. (job[q].upto - 1) => h[i] = job[q].token
                 /\ h[i] = job[q].token =>
                      /\ i < job[q].upto
                      /\ i < job[q].at => [ctx |-> c, seq |-> i, by |-> h[i]] \in wire
        BY <1>6, <3>1, <3>2, <3>5 DEF WritingOK, Rec
      <4>2. \A i \in 1 .. (k + n) :
              /\ i \in job[q].at .. (job[q].upto - 1) => g[i] = job[q].token
              /\ g[i] = job[q].token =>
                   /\ i < job[q].upto
                   /\ i < job[q].at => [ctx |-> c, seq |-> i, by |-> g[i]] \in wire
        <5> SUFFICES ASSUME NEW i \in 1 .. (k + n)
                     PROVE  /\ i \in job[q].at .. (job[q].upto - 1) => g[i] = job[q].token
                            /\ g[i] = job[q].token =>
                                 /\ i < job[q].upto
                                 /\ i < job[q].at => [ctx |-> c, seq |-> i, by |-> g[i]] \in wire
          OBVIOUS
        <5>1. CASE i \in 1 .. k
          BY <1>4, <4>1, <5>1
        <5>2. CASE i \in (k + 1) .. (k + n)
          <6>1. i \notin job[q].at .. (job[q].upto - 1)
            BY <1>2, <3>3, <4>1, <5>2
          <6>2. g[i] # job[q].token
            BY <1>4, <3>2, <5>2
          <6> QED
            BY <6>1, <6>2
        <5> QED
          BY <1>2, <5>1, <5>2, SMTT(60)
      <4>3. job[q].upto <= (k + n) + 1
        BY <1>2, <3>3, <4>1, SMTT(60)
      <4>4. /\ row'[job'[q].ctx] # NoRow /\ row'[job'[q].ctx].chunks = k + n
            /\ row'[job'[q].ctx].hash = g /\ job'[q].ctx = c
        BY <1>10, <3>1, <3>5
      <4> HIDE DEF c, k, n, h
      <4> QED
        BY <1>same, <3>1, <4>1, <4>2, <4>3, <4>4 DEF WritingOK, Rec
    <3> QED
      BY <3>4, <3>5
  <2> QED
    BY <2>1, <2>2
<1>18. TokensApart'
  BY <1>8, <1>11, <1>15 DEF IInv, TokensApart
<1> QED
  BY <1>9, <1>12, <1>13, <1>14, <1>16, <1>17, <1>18 DEF IInv

\* Every step keeps the invariant.
LEMMA NextIInv == IInv /\ [Next]_vars => IInv'
<1> SUFFICES ASSUME IInv, [Next]_vars PROVE IInv'
  OBVIOUS
<1>1. /\ crashes \in Nat /\ job \in [Publisher -> JobType] /\ Idle \in JobType
  BY DEF IInv, TypeOK, JobType
<1>2. ASSUME NEW p \in Publisher, ReserveFails(p) \/ Abandon(p) PROVE IInv'
  <2>1. /\ UNCHANGED <<row, wire, tokens, crashes>> /\ job' = [job EXCEPT ![p] = Idle]
    BY <1>2 DEF ReserveFails, Abandon
  <2>2. /\ job' \in [Publisher -> JobType]
        /\ \A q \in Publisher : job'[q] = job[q] \/ job'[q] = Idle
    BY <1>1, <2>1
  <2> QED
    BY <1>1, <2>1, <2>2, ForgetJobs
<1>3. CASE Crash
  <2>1. /\ UNCHANGED <<row, wire, tokens>> /\ crashes' \in Nat
        /\ job' = [p \in Publisher |-> Idle]
    BY <1>1, <1>3 DEF Crash
  <2>2. /\ job' \in [Publisher -> JobType]
        /\ \A q \in Publisher : job'[q] = job[q] \/ job'[q] = Idle
    BY <1>1, <2>1
  <2> QED
    BY <2>1, <2>2, ForgetJobs
<1>4. CASE UNCHANGED vars
  <2>1. UNCHANGED <<row, wire, tokens, crashes, job>>
    BY <1>4 DEF vars
  <2> QED
    BY <1>1, <2>1, ForgetJobs
<1> QED
  BY <1>2, <1>3, <1>4, LoadStep, DisableStep, ReserveStep, WriteStep, ConfirmStep DEF Next

(* The inductive invariant holds of every behaviour. *)
THEOREM Inductive == Spec => []IInv
  BY InitIInv, NextIInv, PTL DEF Spec

(* Rows, jobs and records stay well typed, whatever the publishers do. *)
THEOREM SequenceTypeCorrect == Spec => []TypeOK
<1>1. IInv => TypeOK
  BY DEF IInv
<1> QED
  BY <1>1, Inductive, PTL

(* No record number of a context is used twice: a record on the wire is the
   one the row names at that number, and the row only grows.               *)
THEOREM NumbersUsedOnce == Spec => []NumberIsUsedOnce
<1>1. IInv => NumberIsUsedOnce
  BY DEF IInv, WireOK, NumberIsUsedOnce
<1> QED
  BY <1>1, Inductive, PTL

(* A row without an open reservation names exactly the records sent. *)
THEOREM TranscriptExact == Spec => []TranscriptIsTheStream
<1>1. IInv => TranscriptIsTheStream
  <2> SUFFICES ASSUME IInv, NEW c \in Context, row[c] # NoRow, ~Ambiguous(row[c])
               PROVE  {r \in wire : r.ctx = c} =
                        {[ctx |-> c, seq |-> i, by |-> row[c].hash[i]] : i \in 1 .. row[c].chunks}
    BY DEF TranscriptIsTheStream
  <2>1. row[c].token = NoToken /\ ~row[c].disabled
    BY DEF Ambiguous
  <2>2. \A i \in 1 .. row[c].chunks : [ctx |-> c, seq |-> i, by |-> row[c].hash[i]] \in wire
    BY <2>1 DEF IInv, SentOrOpen, Rec
  <2>3. ASSUME NEW r \in wire, r.ctx = c
        PROVE  \E i \in 1 .. row[c].chunks : r = [ctx |-> c, seq |-> i, by |-> row[c].hash[i]]
    <3>1. r \in [ctx : Context, seq : Nat, by : Nat]
      BY DEF IInv, TypeOK
    <3>2. r = [ctx |-> r.ctx, seq |-> r.seq, by |-> r.by]
      BY <3>1
    <3>3. r.seq \in 1 .. row[c].chunks /\ r.by = row[c].hash[r.seq]
      BY <2>3 DEF IInv, WireOK
    <3> QED
      BY <2>3, <3>2, <3>3
  <2> QED
    BY <2>2, <2>3
<1> QED
  BY <1>1, Inductive, PTL

(* A row in doubt keeps its number and transcript for good, and only the
   publisher whose token it holds can clear the doubt.                     *)
THEOREM DoubtIsClosed == Spec => DoubtFailsClosed
<1> DEFINE Closed ==
      \A c \in Context :
        Ambiguous(row[c]) =>
          /\ row'[c].next = row[c].next /\ row'[c].hash = row[c].hash
          /\ ~Ambiguous(row'[c]) =>
               ~row[c].disabled /\ \E p \in Publisher :
                 job[p].pc = "writing" /\ job[p].token = row[c].token
<1>1. IInv /\ [Next]_vars => [Closed]_vars
  <2> SUFFICES ASSUME IInv, Next, NEW c \in Context, Ambiguous(row[c])
               PROVE  /\ row'[c].next = row[c].next /\ row'[c].hash = row[c].hash
                      /\ ~Ambiguous(row'[c]) =>
                           ~row[c].disabled /\ \E p \in Publisher :
                             job[p].pc = "writing" /\ job[p].token = row[c].token
    OBVIOUS
  <2>1. TypeOK /\ row[c] # NoRow /\ row[c] \in StoredType
    BY Shapes DEF IInv, Ambiguous
  <2>2. CASE row' = row
    BY <2>2
  <2>3. ASSUME NEW p \in Publisher, Disable(p) PROVE /\ row'[c].next = row[c].next
                                                     /\ row'[c].hash = row[c].hash
                                                     /\ Ambiguous(row'[c])
    <3>1. CASE job[p].ctx # c
      BY <2>1, <2>3, <3>1 DEF Disable, TypeOK
    <3>2. CASE job[p].ctx = c
      <4>1. row'[c] = [row[c] EXCEPT !.disabled = TRUE]
        BY <2>1, <2>3, <3>2 DEF Disable, TypeOK
      <4>2. /\ row'[c].kind = "row" /\ row'[c].disabled = TRUE
            /\ row'[c].next = row[c].next /\ row'[c].hash = row[c].hash
        BY <2>1, <4>1 DEF StoredType
      <4>3. row'[c] # NoRow
        BY <4>2 DEF NoRow
      <4> QED
        BY <4>2, <4>3 DEF Ambiguous
    <3> QED
      BY <3>1, <3>2
  <2>4. ASSUME NEW p \in Publisher, Reserve(p) PROVE row'[c] = row[c]
    <3>1. job[p].ctx # c
      BY <2>4 DEF Reserve
    <3> QED
      BY <2>1, <2>4, <3>1 DEF Reserve, TypeOK
  <2>5. ASSUME NEW p \in Publisher, Confirm(p)
        PROVE  /\ row'[c].next = row[c].next /\ row'[c].hash = row[c].hash
               /\ ~Ambiguous(row'[c]) =>
                    ~row[c].disabled /\ job[p].pc = "writing" /\ job[p].token = row[c].token
    <3>1. CASE row'[c] = row[c]
      BY <3>1
    <3>2. CASE row'[c] # row[c]
      <4>1. /\ job[p].ctx = c /\ row[c].token = job[p].token /\ ~row[c].disabled
            /\ row'[c] = [row[c] EXCEPT !.token = NoToken] /\ job[p].pc = "writing"
        BY <2>1, <2>5, <3>2 DEF Confirm, TypeOK
      <4>2. row'[c].next = row[c].next /\ row'[c].hash = row[c].hash
        BY <2>1, <4>1 DEF StoredType
      <4> QED
        BY <4>1, <4>2
    <3> QED
      BY <3>1, <3>2
  <2>6. \/ row' = row
        \/ \E p \in Publisher : Disable(p) \/ Reserve(p) \/ Confirm(p)
    BY DEF Next, Load, ReserveFails, WriteRecord, Abandon, Crash
  <2> QED
    BY <2>2, <2>3, <2>4, <2>5, <2>6
<1> QED
  BY <1>1, Inductive, PTL DEF Spec, DoubtFailsClosed

=============================================================================
