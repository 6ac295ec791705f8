---------------------------- MODULE BrokerSteps ----------------------------
(***************************************************************************)
(* The inductive invariant of the broker, and that every step keeps it,    *)
(* for any number of keys, publish and subscribe streams and for every     *)
(* queue depth, backlog and lifetime.  Nothing here depends on how many    *)
(* bytes a room counts.                                                    *)
(*                                                                         *)
(* BrokerRoomsProofs draws the conclusions.  It also proves ChoicesOK,     *)
(* which needs the theory of finite sets and which the steps take as a     *)
(* hypothesis.                                                             *)
(***************************************************************************)
EXTENDS BrokerRooms, Integers, TLAPS

-----------------------------------------------------------------------------
(* The inductive invariant.  It is stated of a table of rooms rs, since most *)
(* operations purge the table before they act on it.                       *)

RecordType == [n : Nat, b : Nat, age : Nat]

\* A log holds the last records of its key, in order.
LogOK(log, c) ==
  /\ log \in Seq(RecordType) /\ Len(log) <= c
  /\ \A i \in 1 .. Len(log) : log[i].n = c - Len(log) + i
  /\ ReplayTtl = 0 => log = <<>>

RoomRecord(B) ==
  [subs : SUBSET Sub, log : Seq(RecordType), bytes : B, notify : Nat, fin : Nat, act : Nat]

\* A finished room has no live subscriber.
RoomOK(r, c) ==
  /\ r \in RoomRecord({r.bytes}) /\ LogOK(r.log, c)
  /\ Finished(r) => r.subs = {}

PubType ==
  [pc : {"new", "checking", "arming", "waiting", "unmet", "publishing", "finishing", "ended"},
   key : Key, notify : Nat, aged : BOOLEAN]

SubType ==
  [pc : {"new", "sending", "resetting", "finishing", "clean", "reset", "refused"},
   key : Key, todo : Seq(Nat), q : Seq(Nat), got : Seq(Nat), from : Nat, upto : Nat,
   end : {"open", "lagged", "closed", "left"}]

\* The number after the last one a stream u has been given.
After(u) == u.from + Len(u.got) + Len(u.todo) + Len(u.q)

\* What was written, what is in hand and what is queued are one run.
RunOK(u) ==
  /\ \A i \in 1 .. Len(u.got) : u.got[i] = u.from + i - 1
  /\ \A i \in 1 .. Len(u.todo) : u.todo[i] = u.from + Len(u.got) + i - 1
  /\ \A i \in 1 .. Len(u.q) : u.q[i] = u.from + Len(u.got) + Len(u.todo) + i - 1

\* A subscribe stream on its own.
StreamOK(u) ==
  /\ u \in SubType /\ u.from >= 1 /\ RunOK(u)
  /\ u.end = "closed" /\ u.pc # "reset" => After(u) = u.upto + 1
  /\ u.pc \in {"finishing", "clean"} => u.todo = <<>> /\ u.q = <<>>
  /\ u.pc = "finishing" => u.end # "open"

Live(u) == u.pc \in {"sending", "resetting"} /\ u.end = "open"

\* A live stream is in its room, and has been given all that was published.
PresentOK(rs, s) ==
  Live(sub[s]) =>
    /\ sub[s].key \in DOMAIN rs /\ s \in rs[sub[s].key].subs
    /\ After(sub[s]) = count[sub[s].key] + 1

\* Only live streams of its key are in a room.
MembersOK(rs, k) == \A s \in rs[k].subs : sub[s].key = k /\ Live(sub[s])

\* Only the room of key k and publishers of k that wait hold Notify object id.
OwnNotify(rs, k, id) ==
  /\ \A l \in DOMAIN rs : rs[l].notify = id => l = k
  /\ \A q \in Pub : Awaiting(q) /\ pub[q].notify = id => pub[q].key = k

\* Rooms and waiting publishers of different keys hold different ones.
NotifyOK(rs) ==
  /\ \A k \in DOMAIN rs : OwnNotify(rs, k, rs[k].notify)
  /\ \A p \in Pub : Awaiting(p) => OwnNotify(rs, pub[p].key, pub[p].notify)

\* p may still wait for the first subscriber of its key, and no other publisher
\* of the key has begun.
Solo(p) ==
  /\ pub[p].pc \in {"new", "checking", "arming", "waiting"}
  /\ \A q \in Pub \ {p} : pub[q].key # pub[p].key \/ pub[q].pc = "new"

\* Then nothing has been published, and no subscriber has left.
QuietOK(p) ==
  /\ count[pub[p].key] = 0
  /\ \A s \in Sub : sub[s].key = pub[p].key =>
       sub[s].pc \in {"new", "refused"} \/ (sub[s].pc = "sending" /\ sub[s].end = "open")

\* The room outlives the wait, and whoever subscribed has woken the publisher
\* or left it a permit.
WaitOK(rs, p) ==
  LET k == pub[p].key IN
  /\ k \in DOMAIN rs =>
       /\ ~Finished(rs[k])
       /\ rs[k].subs = {} => pub[p].pc # "new" /\ rs[k].act <= IF pub[p].aged THEN 1 ELSE 0
  /\ Awaiting(p) => k \in DOMAIN rs /\ rs[k].notify = pub[p].notify
  /\ pub[p].pc = "arming" /\ rs[k].subs # {} => pub[p].notify \in permits
  /\ pub[p].pc = "waiting" => rs[k].subs = {}

StreamsOK ==
  /\ pub \in [Pub -> PubType] /\ count \in [Key -> Nat]
  /\ sub \in [Sub -> SubType] /\ \A s \in Sub : StreamOK(sub[s])

TableOK(rs) ==
  /\ DOMAIN rs \subseteq Key
  /\ \A k \in DOMAIN rs : RoomOK(rs[k], count[k]) /\ MembersOK(rs, k)
  /\ \A s \in Sub : PresentOK(rs, s)

SoloOK(rs) == \A p \in Pub : Solo(p) => QuietOK(p) /\ WaitOK(rs, p)

Good(rs) == StreamsOK /\ TableOK(rs) /\ NotifyOK(rs) /\ SoloOK(rs)

IInv ==
  /\ broker = [rooms |-> broker.rooms, total |-> broker.total]
  /\ Good(broker.rooms)

\* What the model's least elements are: the two loops over a log pop a prefix
\* of it, and a new Notify object is one that nobody holds.
ChoicesOK ==
  /\ \A log : Len(log) \in Nat => Expired(log) \in 0 .. Len(log)
  /\ \A log, total : Len(log) \in Nat => Overflow(log, total) \in 0 .. Len(log)
  /\ \A b : DOMAIN b.rooms \subseteq Key /\ pub \in [Pub -> PubType] =>
       /\ FreshNotify(b) \in Nat
       /\ \A k \in DOMAIN b.rooms : b.rooms[k].notify # FreshNotify(b)
       /\ \A p \in Pub : Awaiting(p) => pub[p].notify # FreshNotify(b)

-----------------------------------------------------------------------------
(* Logs and rooms. *)

\* purge_expired_backlog pops a prefix of the log.
LEMMA ExpiredIsPrefix ==
  ASSUME ChoicesOK, NEW log, Len(log) \in Nat
  PROVE  Expired(log) \in 0 .. Len(log)
BY Zenon DEF ChoicesOK

\* So does the loop of publish() that keeps the limits.
LEMMA OverflowIsPrefix ==
  ASSUME ChoicesOK, NEW log, NEW total, Len(log) \in Nat
  PROVE  Overflow(log, total) \in 0 .. Len(log)
BY Zenon DEF ChoicesOK

\* A log is a sequence.
LEMMA LogLength ==
  ASSUME NEW c, NEW log, LogOK(log, c)
  PROVE  log \in Seq(RecordType) /\ Len(log) \in Nat
BY DEF LogOK

\* What is left when a prefix is popped.
LEMMA SuffixOK ==
  ASSUME NEW c \in Nat, NEW log, LogOK(log, c), NEW d \in 0 .. Len(log)
  PROVE  LogOK(SubSeq(log, d + 1, Len(log)), c)
<1> DEFINE rest == SubSeq(log, d + 1, Len(log))
<1>1. log \in Seq(RecordType) /\ Len(log) \in Nat /\ d \in Nat
  BY DEF LogOK
<1>2. /\ rest \in Seq(RecordType) /\ Len(rest) = Len(log) - d
      /\ \A i \in 1 .. Len(log) - d : rest[i] = log[d + i]
  BY <1>1
<1>3. Len(log) <= c /\ (\A i \in 1 .. Len(log) : log[i].n = c - Len(log) + i)
      /\ (ReplayTtl = 0 => log = <<>>)
  BY Zenon DEF LogOK
<1> HIDE DEF rest
<1>4. ASSUME NEW i \in 1 .. Len(rest)
      PROVE  rest[i].n = c - Len(rest) + i
  <2>1. i \in 1 .. Len(log) - d /\ d + i \in 1 .. Len(log)
    BY <1>1, <1>2
  <2>2. log[d + i].n = c - Len(log) + (d + i)
    BY <1>3, <2>1, Zenon
  <2>3. rest[i] = log[d + i]
    BY <1>2, <2>1, Zenon
  <2>4. c - Len(log) + (d + i) = c - Len(rest) + i
    BY <1>1, <1>2, <2>1
  <2> QED
    BY <2>2, <2>3, <2>4, Zenon
<1>5. ReplayTtl = 0 => rest = <<>>
  BY <1>1, <1>2, <1>3
<1>6. Len(rest) <= c
  BY <1>1, <1>2, <1>3
<1>7. LogOK(rest, c)
  BY <1>2, <1>4, <1>5, <1>6, Zenon DEF LogOK
<1> QED
  BY <1>7, Zenon DEF rest

\* A record appended.
LEMMA LogAppend ==
  ASSUME NEW c \in Nat, NEW log, LogOK(log, c), ReplayTtl # 0,
         NEW rec \in RecordType, rec.n = c + 1
  PROVE  LogOK(Append(log, rec), c + 1)
<1> DEFINE new == Append(log, rec)
           m == Len(log)
<1>1. log \in Seq(RecordType) /\ m \in Nat
  BY LogLength, Zenon
<1>2. /\ new \in Seq(RecordType) /\ Len(new) = m + 1
      /\ \A i \in 1 .. m : new[i] = log[i]
      /\ new[m + 1] = rec
  BY <1>1
<1>3. m <= c /\ \A i \in 1 .. m : log[i].n = c - m + i
  BY Zenon DEF LogOK
<1> HIDE DEF new, m
<1>4. \A i \in 1 .. m + 1 : new[i].n = c + 1 - (m + 1) + i
  <2> TAKE i \in 1 .. m + 1
  <2>1. CASE i \in 1 .. m
    <3>1. log[i].n = c - m + i
      BY <1>3, <2>1
    <3> QED
      BY <1>1, <1>2, <2>1, <3>1
  <2>2. CASE i = m + 1
    <3>1. c + 1 - (m + 1) + i = c + 1
      BY <1>1, <2>2
    <3> QED
      BY <1>2, <2>2, <3>1, Zenon
  <2> QED
    BY <1>1, <2>1, <2>2
<1>5. m + 1 <= c + 1
  BY <1>1, <1>3
<1>6. LogOK(new, c + 1)
  BY <1>2, <1>4, <1>5 DEF LogOK
<1> QED
  BY <1>6, Zenon DEF new

\* Two rooms that differ in their backlog only.
SameRoom(r, t) ==
  r.subs = t.subs /\ r.notify = t.notify /\ r.fin = t.fin /\ r.act = t.act

\* t is room r with another backlog.
Rewritten(t, r, log, v) == t = [r EXCEPT !.log = log, !.bytes = v]

\* A change of the backlog of a room.
LEMMA BacklogChange ==
  ASSUME NEW c, NEW e, NEW r, RoomOK(r, c), NEW log, LogOK(log, e), NEW v,
         NEW t, Rewritten(t, r, log, v)
  PROVE  RoomOK(t, e) /\ SameRoom(t, r) /\ t.log = log
<1>1. log \in Seq(RecordType) /\ r \in RoomRecord({r.bytes})
  BY Zenon DEF LogOK, RoomOK
<1>2. /\ t \in RoomRecord({v}) /\ t.log = log /\ t.bytes = v
      /\ t.subs = r.subs /\ t.notify = r.notify /\ t.fin = r.fin /\ t.act = r.act
  BY <1>1, Zenon DEF Rewritten, RoomRecord
<1> QED
  BY <1>2, Zenon DEF SameRoom, RoomOK, Finished

\* A purged backlog is as good, and the room is the same.
LEMMA PurgedBacklog ==
  ASSUME ChoicesOK, NEW c \in Nat, NEW r, RoomOK(r, c)
  PROVE  RoomOK(PurgeBacklog(r), c) /\ SameRoom(PurgeBacklog(r), r)
<1> DEFINE d == Expired(r.log)
<1>1. LogOK(r.log, c) /\ Len(r.log) \in Nat
  BY LogLength, Zenon DEF RoomOK
<1>2. d \in 0 .. Len(r.log)
  BY <1>1, ExpiredIsPrefix
<1>3. LogOK(SubSeq(r.log, d + 1, Len(r.log)), c)
  <2> HIDE DEF d
  <2> QED
    BY <1>1, <1>2, SuffixOK
<1> DEFINE log == SubSeq(r.log, d + 1, Len(r.log))
           v == SaturatingSub(r.bytes, Size(SubSeq(r.log, 1, d)))
<1>4. LogOK(log, c) /\ Rewritten(PurgeBacklog(r), r, log, v)
  BY <1>3, Zenon DEF PurgeBacklog, Rewritten
<1> HIDE DEF d, log, v
<1> QED
  BY <1>4, BacklogChange, Zenon

\* purge_expired_rooms drops rooms without subscribers only, and finished ones
\* at the end of their time.
LEMMA PurgedRooms ==
  ASSUME ChoicesOK, NEW b, NEW c,
         \A k \in DOMAIN b.rooms : c[k] \in Nat /\ RoomOK(b.rooms[k], c[k])
  PROVE  LET rs == PurgeRooms(b).rooms IN
         /\ DOMAIN rs \subseteq DOMAIN b.rooms
         /\ \A k \in DOMAIN rs : RoomOK(rs[k], c[k]) /\ SameRoom(rs[k], b.rooms[k])
         /\ \A k \in DOMAIN b.rooms \ DOMAIN rs : ~Retained(b.rooms[k])
         /\ \A k \in DOMAIN rs : Retained(b.rooms[k])
<1> DEFINE keep == {k \in DOMAIN b.rooms : Retained(b.rooms[k])}
<1>1. PurgeRooms(b).rooms = [k \in keep |-> PurgeBacklog(b.rooms[k])]
  BY Zenon DEF PurgeRooms
<1>2. \A k \in DOMAIN b.rooms : /\ RoomOK(PurgeBacklog(b.rooms[k]), c[k])
                                /\ SameRoom(PurgeBacklog(b.rooms[k]), b.rooms[k])
  BY PurgedBacklog, Zenon
<1> QED
  BY <1>1, <1>2, Zenon

\* A room that is not retained has no subscriber.
LEMMA DroppedIsEmpty ==
  ASSUME NEW c, NEW r, RoomOK(r, c), ~Retained(r)
  PROVE  r.subs = {}
BY Zenon DEF Retained, RoomOK

\* publish() stores the record at the end of the log.
LEMMA Appended ==
  ASSUME ChoicesOK, NEW c \in Nat, NEW r, RoomOK(r, c), NEW total, NEW b \in Sizes,
         NEW t, t = Append1(r, total, c + 1, b).room
  PROVE  RoomOK(t, c + 1) /\ SameRoom(t, r)
<1>1. CASE ReplayTtl = 0
  <2>1. t = r /\ r.log = <<>>
    BY <1>1, Zenon DEF Append1, RoomOK, LogOK
  <2>2. LogOK(r.log, c + 1)
    BY <2>1 DEF LogOK
  <2> QED
    BY <2>1, <2>2, Zenon DEF RoomOK, SameRoom
<1>2. CASE ReplayTtl # 0
  <2> DEFINE p == PurgeBacklog(r)
             rec == [n |-> c + 1, b |-> b, age |-> 0]
             log == Append(p.log, rec)
             tot == SaturatingSub(total, Freed(r)) + b
             d == Overflow(log, tot)
             rest == SubSeq(log, d + 1, Len(log))
             v == SaturatingSub(p.bytes + b, Size(SubSeq(log, 1, d)))
  <2>1. Rewritten(t, p, rest, v)
    BY <1>2, Zenon DEF Append1, Rewritten
  <2>2. RoomOK(p, c) /\ SameRoom(p, r)
    BY PurgedBacklog, Zenon
  <2>3. LogOK(p.log, c)
    BY <2>2, Zenon DEF RoomOK
  <2>4. rec \in RecordType /\ rec.n = c + 1
    BY BrokerBounds DEF RecordType
  <2>5. LogOK(log, c + 1)
    <3> HIDE DEF p, rec
    <3> QED
      BY <1>2, <2>3, <2>4, LogAppend, Zenon
  <2>6. d \in 0 .. Len(log)
    <3> HIDE DEF log, tot
    <3> QED
      BY <2>5, LogLength, OverflowIsPrefix, Zenon
  <2>7. LogOK(rest, c + 1)
    <3> HIDE DEF log, d
    <3> QED
      BY <2>5, <2>6, SuffixOK
  <2> DEFINE e == c + 1
  <2> HIDE DEF p, rest, v
  <2>8. RoomOK(t, e) /\ SameRoom(t, p)
    <3> LogOK(rest, e)
      BY <2>7
    <3> HIDE DEF e
    <3> QED
      BY <2>1, <2>2, BacklogChange
  <2> QED
    BY <2>2, <2>8, Zenon DEF SameRoom
<1> QED
  BY <1>1, <1>2, Zenon

\* Time passes for a room: it stays finished, or unfinished.
LEMMA AgedRoomOK ==
  ASSUME NEW c \in Nat, NEW r, RoomOK(r, c)
  PROVE  LET t == AgedRoom(r) IN
         /\ RoomOK(t, c) /\ t.subs = r.subs /\ t.notify = r.notify
         /\ Finished(t) <=> Finished(r)
         /\ t.act <= r.act + 1
<1> DEFINE t == AgedRoom(r)
           log == [i \in DOMAIN r.log |-> AgedEntry(r.log[i])]
<1>1. /\ LogOK(r.log, c) /\ r \in RoomRecord({r.bytes})
      /\ Finished(r) => r.subs = {}
      /\ r.fin \in Nat /\ r.act \in Nat
  BY Zenon DEF RoomOK, RoomRecord
<1>2. r.log \in Seq(RecordType) /\ Len(r.log) \in Nat
  BY <1>1, LogLength, Zenon
<1>3. LogOK(log, c)
  <2> DEFINE old == r.log
             m == Len(old)
  <2> HIDE DEF old
  <2>1. old \in Seq(RecordType) /\ m \in Nat /\ DOMAIN old = 1 .. m
    BY <1>2 DEF old
  <2>2. \A i \in 1 .. m : old[i] \in RecordType
    BY <2>1
  <2>3. \A x \in RecordType : AgedEntry(x) \in RecordType /\ AgedEntry(x).n = x.n
    BY BrokerBounds DEF RecordType, Older, AgedEntry
  <2>4. log = [i \in 1 .. m |-> AgedEntry(old[i])]
    BY <2>1 DEF old
  <2> DEFINE new == [i \in 1 .. m |-> AgedEntry(old[i])]
  <2>5. \A i \in 1 .. m : new[i] \in RecordType /\ new[i].n = old[i].n
    BY <2>2, <2>3, Zenon
  <2>6. new \in Seq(RecordType) /\ Len(new) = m
    <3> DOMAIN new = 1 .. m
      OBVIOUS
    <3> new = [i \in 1 .. m |-> new[i]]
      OBVIOUS
    <3> HIDE DEF new, m
    <3> QED
      BY <2>1, <2>5
  <2>7. LogOK(old, c)
    BY <1>1 DEF old
  <2> HIDE DEF new
  <2>8. ReplayTtl = 0 => new = <<>>
    <3>1. ReplayTtl = 0 => Len(new) = 0
      BY <2>6, <2>7 DEF LogOK
    <3> QED
      BY <2>6, <3>1
  <2>9. LogOK(new, c)
    BY <2>1, <2>5, <2>6, <2>7, <2>8 DEF LogOK
  <2> QED
    BY <2>4, <2>9, Zenon DEF new
<1>4. /\ Older(r.fin, RoomTtl) \in Nat /\ Older(r.act, RoomTtl) \in Nat
      /\ Older(r.fin, RoomTtl) # Never <=> r.fin # Never
      /\ Older(r.act, RoomTtl) <= r.act + 1
  BY <1>1, BrokerBounds DEF Older, Never
<1>5. log \in Seq(RecordType)
  BY <1>3, LogLength, Zenon
<1>6. /\ t \in RoomRecord({t.bytes}) /\ t.log = log /\ t.subs = r.subs /\ t.notify = r.notify
      /\ t.fin = Older(r.fin, RoomTtl) /\ t.act = Older(r.act, RoomTtl)
  <2> DEFINE a == Older(r.fin, RoomTtl)
             w == Older(r.act, RoomTtl)
  <2>1. t = [r EXCEPT !.log = log, !.fin = a, !.act = w]
    BY Zenon DEF AgedRoom
  <2>2. a \in Nat /\ w \in Nat
    BY <1>4
  <2> HIDE DEF t, log, a, w
  <2>3. t \in RoomRecord({r.bytes}) /\ t.bytes = r.bytes
    BY <1>1, <1>5, <2>1, <2>2, Zenon DEF RoomRecord
  <2>4. t.log = log /\ t.subs = r.subs /\ t.notify = r.notify /\ t.fin = a /\ t.act = w
    BY <1>1, <1>5, <2>1, <2>2, Zenon DEF RoomRecord
  <2> QED
    BY <2>3, <2>4, Zenon DEF a, w
<1> HIDE DEF t, log
<1>7. RoomOK(t, c) /\ (Finished(t) <=> Finished(r))
  BY <1>1, <1>3, <1>4, <1>6, Zenon DEF RoomOK, Finished
<1> QED
  BY <1>4, <1>6, <1>7, Zenon DEF t

\* A new room.
LEMMA NewRoomOK ==
  ASSUME NEW c \in Nat, NEW id \in Nat
  PROVE  /\ RoomOK(NewRoom(id), c) /\ NewRoom(id).subs = {} /\ NewRoom(id).notify = id
         /\ ~Finished(NewRoom(id)) /\ NewRoom(id).act = 0
<1>1. LogOK(<<>>, c)
  BY DEF LogOK
<1>2. Never \in Nat
  BY BrokerBounds DEF Never
<1> QED
  BY <1>1, <1>2 DEF RoomOK, NewRoom, RoomRecord, Finished

\* There is always a Notify object nobody holds.
LEMMA FreshNotifyIsFree ==
  ASSUME ChoicesOK, NEW b, DOMAIN b.rooms \subseteq Key, pub \in [Pub -> PubType]
  PROVE  /\ FreshNotify(b) \in Nat
         /\ \A k \in DOMAIN b.rooms : b.rooms[k].notify # FreshNotify(b)
         /\ \A p \in Pub : Awaiting(p) => pub[p].notify # FreshNotify(b)
BY Zenon DEF ChoicesOK

-----------------------------------------------------------------------------
(* The purge, and operations on one key. *)

\* The table after purge_expired_rooms is as good: no subscriber loses its room
\* and no publisher that waits alone does.
LEMMA PurgeGood ==
  ASSUME ChoicesOK, IInv
  PROVE  /\ Good(PurgeRooms(broker).rooms)
         /\ \A k \in DOMAIN PurgeRooms(broker).rooms :
              k \in DOMAIN broker.rooms /\ SameRoom(PurgeRooms(broker).rooms[k], broker.rooms[k])
         /\ \A k \in DOMAIN broker.rooms : Retained(broker.rooms[k]) =>
              k \in DOMAIN PurgeRooms(broker).rooms
<1> DEFINE rs == broker.rooms
           ps == PurgeRooms(broker).rooms
<1>1. Good(rs)
  BY Zenon DEF IInv
<1>2. \A k \in DOMAIN rs : count[k] \in Nat /\ RoomOK(rs[k], count[k])
  BY <1>1 DEF Good, StreamsOK, TableOK
<1>3. /\ DOMAIN ps \subseteq DOMAIN rs
      /\ \A k \in DOMAIN ps : RoomOK(ps[k], count[k]) /\ SameRoom(ps[k], rs[k])
      /\ \A k \in DOMAIN rs \ DOMAIN ps : ~Retained(rs[k])
  <2> HIDE <1>1
  <2> QED
    BY <1>2, PurgedRooms, Zenon
<1>4. \A k \in DOMAIN rs \ DOMAIN ps : rs[k].subs = {}
  BY <1>2, <1>3, DroppedIsEmpty, Zenon
<1> HIDE DEF rs, ps
<1>5. \A k \in DOMAIN ps : /\ k \in DOMAIN rs /\ ps[k].subs = rs[k].subs
                           /\ ps[k].notify = rs[k].notify /\ ps[k].act = rs[k].act
                           /\ (Finished(ps[k]) <=> Finished(rs[k]))
  BY <1>3, Zenon DEF SameRoom, Finished
<1>6. TableOK(ps)
  <2>1. TableOK(rs)
    BY <1>1, Zenon DEF Good
  <2>2. ASSUME NEW s \in Sub PROVE PresentOK(ps, s)
    <3>1. PresentOK(rs, s)
      BY <2>1, Zenon DEF TableOK
    <3> QED
      BY <1>4, <1>5, <3>1, Zenon DEF PresentOK
  <2>3. ASSUME NEW k \in DOMAIN ps PROVE MembersOK(ps, k)
    <3>1. MembersOK(rs, k)
      BY <1>5, <2>1, Zenon DEF TableOK
    <3> QED
      BY <1>5, <3>1, Zenon DEF MembersOK
  <2> QED
    BY <1>3, <2>1, <2>2, <2>3, Zenon DEF TableOK
<1>7. NotifyOK(ps)
  <2>1. NotifyOK(rs)
    BY <1>1, Zenon DEF Good
  <2>2. \A k, id : OwnNotify(rs, k, id) => OwnNotify(ps, k, id)
    BY <1>5, Zenon DEF OwnNotify
  <2>3. \A k \in DOMAIN ps : OwnNotify(rs, k, ps[k].notify)
    BY <1>5, <2>1, Zenon DEF NotifyOK
  <2> QED
    BY <2>1, <2>2, <2>3, Zenon DEF NotifyOK
<1>8. ASSUME NEW p \in Pub, Solo(p) PROVE QuietOK(p) /\ WaitOK(ps, p)
  <2> DEFINE k == pub[p].key
  <2>1. QuietOK(p) /\ WaitOK(rs, p)
    BY <1>1, <1>8, Zenon DEF Good, SoloOK
  <2>2. Awaiting(p) => k \in DOMAIN ps
    <3> SUFFICES ASSUME Awaiting(p), k \notin DOMAIN ps PROVE FALSE
      BY Zenon
    <3>1. k \in DOMAIN rs /\ ~Retained(rs[k])
      BY <1>3, <2>1, Zenon DEF WaitOK
    <3>2. ~Finished(rs[k]) /\ rs[k].subs = {} /\ rs[k].act <= IF pub[p].aged THEN 1 ELSE 0
      BY <1>4, <2>1, <3>1, Zenon DEF WaitOK
    <3>3. ~(rs[k].act < RoomTtl)
      BY <3>1, <3>2, Zenon DEF Retained
    <3>4. rs[k].act \in Nat
      BY <1>2, <3>1, Zenon DEF RoomOK, RoomRecord
    <3> QED
      BY <3>2, <3>3, <3>4, BrokerBounds
  <2>3. WaitOK(ps, p)
    BY <1>5, <2>1, <2>2, Zenon DEF WaitOK, Awaiting
  <2> QED
    BY <2>1, <2>3, Zenon
<1>9. StreamsOK
  BY <1>1, Zenon DEF Good
<1>10. Good(ps)
  BY <1>6, <1>7, <1>8, <1>9, Zenon DEF Good, SoloOK
<1>11. \A k \in DOMAIN rs : Retained(rs[k]) => k \in DOMAIN ps
  BY <1>3, Zenon
<1> QED
  BY <1>3, <1>5, <1>10, <1>11, Zenon DEF rs, ps

\* The step leaves rooms, streams and publishers of other keys than k alone;
\* rs is the table it acts on.
Local(k, rs) ==
  /\ broker' = [rooms |-> broker'.rooms, total |-> broker'.total]
  /\ \A l : l # k => (l \in DOMAIN broker'.rooms <=> l \in DOMAIN rs)
  /\ \A l \in DOMAIN rs : l # k => broker'.rooms[l] = rs[l]
  /\ \A l \in Key : l # k => count'[l] = count[l]
  /\ \A s \in Sub : sub'[s].key = sub[s].key /\ (sub[s].key # k => sub'[s] = sub[s])
  /\ \A q \in Pub : pub'[q].key = pub[q].key /\ (pub[q].key # k => pub'[q] = pub[q])
  /\ \A q \in Pub : pub[q].key # k /\ Awaiting(q) /\ pub[q].notify \in permits =>
                      pub[q].notify \in permits'

\* After a step on key k, the invariant has to be shown for k only.
LEMMA LocalStep ==
  ASSUME NEW k \in Key, NEW rs, Good(rs), Local(k, rs), StreamsOK',
         k \in DOMAIN broker'.rooms =>
           /\ RoomOK(broker'.rooms[k], count'[k]) /\ MembersOK(broker.rooms, k)'
           /\ OwnNotify(rs, k, broker'.rooms[k].notify),
         \A s \in Sub : sub[s].key = k => PresentOK(broker.rooms, s)',
         \A p \in Pub : pub[p].key = k /\ Awaiting(p)' => OwnNotify(rs, k, pub'[p].notify),
         \A p \in Pub : pub[p].key = k /\ Solo(p)' => QuietOK(p)' /\ WaitOK(broker.rooms, p)'
  PROVE  IInv'
<1> DEFINE ts == broker'.rooms
<1>1. /\ \A l : l # k => (l \in DOMAIN ts <=> l \in DOMAIN rs)
      /\ \A l \in DOMAIN rs : l # k => ts[l] = rs[l]
  BY Zenon DEF Local
<1>2. \A s \in Sub : sub'[s].key = sub[s].key /\ (sub[s].key # k => sub'[s] = sub[s])
  BY Zenon DEF Local
<1>3. \A q \in Pub : pub'[q].key = pub[q].key /\ (pub[q].key # k => pub'[q] = pub[q])
  BY Zenon DEF Local
<1>4. /\ \A l \in Key : l # k => count'[l] = count[l]
      /\ \A q \in Pub : pub[q].key # k /\ Awaiting(q) /\ pub[q].notify \in permits =>
                          pub[q].notify \in permits'
  BY Zenon DEF Local
<1>5. TableOK(rs) /\ NotifyOK(rs) /\ SoloOK(rs)
  BY Zenon DEF Good
<1>6. \A q \in Pub : pub[q].key # k => (Awaiting(q)' <=> Awaiting(q)) /\ pub'[q] = pub[q]
  BY <1>3, Zenon DEF Awaiting
<1>7. TableOK(broker.rooms)'
  <2>1. DOMAIN ts \subseteq Key
    BY <1>1, <1>5, Zenon DEF TableOK
  <2>2. ASSUME NEW l \in DOMAIN ts, l # k
        PROVE  RoomOK(ts[l], count'[l]) /\ MembersOK(broker.rooms, l)'
    <3>1. l \in DOMAIN rs /\ ts[l] = rs[l] /\ l \in Key
      BY <1>1, <2>1, <2>2, Zenon
    <3>2. RoomOK(rs[l], count[l]) /\ MembersOK(rs, l) /\ count'[l] = count[l]
      BY <1>4, <1>5, <2>2, <3>1, Zenon DEF TableOK
    <3>3. rs[l].subs \subseteq Sub
      BY <3>2, Zenon DEF RoomOK, RoomRecord
    <3>4. \A s \in rs[l].subs : sub'[s] = sub[s]
      BY <1>2, <2>2, <3>2, <3>3, Zenon DEF MembersOK
    <3>5. MembersOK(broker.rooms, l)'
      BY <3>1, <3>2, <3>4, Zenon DEF MembersOK, Live
    <3> QED
      BY <3>1, <3>2, <3>5, Zenon
  <2>3. ASSUME NEW s \in Sub, sub[s].key # k PROVE PresentOK(broker.rooms, s)'
    <3>1. PresentOK(rs, s) /\ sub'[s] = sub[s]
      BY <1>2, <1>5, <2>3, Zenon DEF TableOK
    <3>2. sub[s].key \in DOMAIN rs => count'[sub[s].key] = count[sub[s].key]
      BY <1>4, <1>5, <2>3, Zenon DEF TableOK
    <3> QED
      BY <1>1, <2>3, <3>1, <3>2, Zenon DEF PresentOK, Live, After
  <2> QED
    BY <2>1, <2>2, <2>3, Zenon DEF TableOK, RoomOK, Finished, LogOK
<1>8. NotifyOK(broker.rooms)'
  <2>1. \A id : OwnNotify(rs, k, id) => OwnNotify(broker.rooms, k, id)'
    BY <1>1, <1>3, <1>6, Zenon DEF OwnNotify
  <2>2. ASSUME NEW l, l # k, NEW id, OwnNotify(rs, l, id),
               \/ l \in DOMAIN rs /\ rs[l].notify = id
               \/ \E q \in Pub : Awaiting(q) /\ pub[q].notify = id /\ pub[q].key = l
        PROVE  OwnNotify(broker.rooms, l, id)'
    <3>1. ~OwnNotify(rs, k, id)
      BY <2>2, Zenon DEF OwnNotify
    <3>2. ASSUME NEW m \in DOMAIN ts, ts[m].notify = id PROVE m = l
      BY <1>1, <2>2, <3>1, <3>2, Zenon DEF OwnNotify
    <3>3. ASSUME NEW q \in Pub, Awaiting(q)', pub'[q].notify = id PROVE pub'[q].key = l
      BY <1>3, <1>6, <2>2, <3>1, <3>3, Zenon DEF OwnNotify
    <3> QED
      BY <3>2, <3>3, Zenon DEF OwnNotify
  <2>3. ASSUME NEW l \in DOMAIN ts PROVE OwnNotify(broker.rooms, l, broker.rooms[l].notify)'
    <3>1. CASE l = k
      BY <2>1, <3>1, Zenon
    <3>2. CASE l # k
      <4>1. l \in DOMAIN rs /\ ts[l] = rs[l] /\ OwnNotify(rs, l, rs[l].notify)
        BY <1>1, <1>5, <3>2, Zenon DEF NotifyOK
      <4> QED
        BY <2>2, <3>2, <4>1, Zenon
    <3> QED
      BY <3>1, <3>2, Zenon
  <2>4. ASSUME NEW p \in Pub, Awaiting(p)'
        PROVE  OwnNotify(broker.rooms, pub[p].key, pub[p].notify)'
    <3>1. CASE pub[p].key = k
      BY <1>3, <2>1, <2>4, <3>1, Zenon
    <3>2. CASE pub[p].key # k
      <4>1. Awaiting(p) /\ pub'[p] = pub[p] /\ OwnNotify(rs, pub[p].key, pub[p].notify)
        BY <1>5, <1>6, <2>4, <3>2, Zenon DEF NotifyOK
      <4> QED
        BY <2>2, <3>2, <4>1, Zenon
    <3> QED
      BY <3>1, <3>2, Zenon
  <2> QED
    BY <2>3, <2>4, Zenon DEF NotifyOK
<1>9. ASSUME NEW p \in Pub, pub[p].key # k, Solo(p)'
      PROVE  QuietOK(p)' /\ WaitOK(broker.rooms, p)'
  <2>1. pub'[p] = pub[p] /\ (Awaiting(p)' <=> Awaiting(p))
    BY <1>6, <1>9, Zenon
  <2>2. Solo(p)
    BY <1>3, <1>9, <2>1, Zenon DEF Solo
  <2>3. QuietOK(p) /\ WaitOK(rs, p)
    BY <1>5, <2>2, Zenon DEF SoloOK
  <2>4. pub[p].key \in Key
    BY DEF Good, StreamsOK, PubType
  <2>5. QuietOK(p)'
    <3>1. count'[pub[p].key] = 0
      BY <1>4, <1>9, <2>3, <2>4, Zenon DEF QuietOK
    <3>2. ASSUME NEW s \in Sub, sub'[s].key = pub[p].key
          PROVE  sub'[s].pc \in {"new", "refused"} \/ (sub'[s].pc = "sending" /\ sub'[s].end = "open")
      <4>1. sub[s].key = pub[p].key /\ sub'[s] = sub[s]
        BY <1>2, <1>9, <3>2, Zenon
      <4> QED
        BY <2>3, <4>1, Zenon DEF QuietOK
    <3> QED
      BY <2>1, <3>1, <3>2, Zenon DEF QuietOK
  <2>6. WaitOK(broker.rooms, p)'
    BY <1>1, <1>4, <1>9, <2>1, <2>3, Zenon DEF WaitOK, Awaiting, Finished
  <2> QED
    BY <2>5, <2>6, Zenon
<1>10. SoloOK(broker.rooms)'
  BY <1>9, Zenon DEF SoloOK
<1>11. broker' = [rooms |-> broker'.rooms, total |-> broker'.total]
  BY Zenon DEF Local
<1> QED
  BY <1>7, <1>8, <1>10, <1>11, Zenon DEF IInv, Good

-----------------------------------------------------------------------------
(* Subscribe streams. *)

\* A subscriber of a key on which nothing was published has nothing to do.
LEMMA QuietStream ==
  ASSUME NEW rs, Good(rs), NEW p \in Pub, Solo(p), NEW s \in Sub, sub[s].key = pub[p].key
  PROVE  /\ sub[s].pc \in {"new", "refused"} \/ (sub[s].pc = "sending" /\ sub[s].end = "open")
         /\ sub[s].pc = "sending" => sub[s].todo = <<>> /\ sub[s].q = <<>>
<1>1. QuietOK(p) /\ PresentOK(rs, s) /\ StreamOK(sub[s])
  BY Zenon DEF Good, SoloOK, TableOK, StreamsOK
<1>2. sub[s].pc \in {"new", "refused"} \/ (sub[s].pc = "sending" /\ sub[s].end = "open")
  BY <1>1, Zenon DEF QuietOK
<1>3. ASSUME sub[s].pc = "sending" PROVE sub[s].todo = <<>> /\ sub[s].q = <<>>
  <2>1. After(sub[s]) = 1 /\ sub[s].from >= 1
    BY <1>1, <1>2, <1>3 DEF QuietOK, PresentOK, Live, StreamOK
  <2>2. /\ sub[s].todo \in Seq(Nat) /\ sub[s].q \in Seq(Nat) /\ sub[s].got \in Seq(Nat)
        /\ sub[s].from \in Nat
    BY <1>1, Zenon DEF StreamOK, SubType
  <2> DEFINE a == sub[s].todo
             b == sub[s].q
             g == sub[s].got
             f == sub[s].from
  <2>3. a \in Seq(Nat) /\ b \in Seq(Nat) /\ g \in Seq(Nat) /\ f \in Nat
    BY <2>2, Zenon
  <2>4. f + Len(g) + Len(a) + Len(b) = 1 /\ f >= 1
    BY <2>1, Zenon DEF After
  <2> HIDE DEF a, b, g, f
  <2>5. Len(a) \in Nat /\ Len(b) \in Nat /\ Len(g) \in Nat
    BY <2>3
  <2>6. Len(a) = 0 /\ Len(b) = 0
    BY <2>3, <2>4, <2>5
  <2>7. a = <<>> /\ b = <<>>
    BY <2>3, <2>6
  <2> QED
    BY <2>7, Zenon DEF a, b
<1> QED
  BY <1>2, <1>3, Zenon

\* A stream that serves what it was given.
LEMMA ServeStep ==
  ASSUME IInv, NEW s \in Sub, sub[s].pc = "sending", NEW u, StreamOK(u),
         u.key = sub[s].key, u.end = sub[s].end, After(u) = After(sub[s]),
         u.pc \in {"sending", "resetting", "finishing"},
         sub' = [sub EXCEPT ![s] = u], UNCHANGED <<broker, pub, permits, timers, count>>,
         sub[s].todo # <<>> \/ sub[s].q # <<>> \/ sub[s].end # "open"
  PROVE  IInv'
<1>1. PICK rs : /\ rs = broker.rooms /\ Good(rs)
                /\ broker = [rooms |-> broker.rooms, total |-> broker.total]
  BY Zenon DEF IInv
<1>2. pub \in [Pub -> PubType] /\ count \in [Key -> Nat] /\ sub \in [Sub -> SubType]
  BY <1>1, Zenon DEF Good, StreamsOK
<1>0. PICK k \in Key : k = sub[s].key
  BY <1>2 DEF SubType
<1>3. sub'[s] = u /\ \A x \in Sub : x # s => sub'[x] = sub[x]
  BY <1>2, Zenon
<1>4. u \in SubType
  BY Zenon DEF StreamOK
<1>5. /\ broker' = broker /\ pub' = pub /\ permits' = permits /\ count' = count
      /\ broker'.rooms = rs
  BY <1>1, Zenon
<1>6. Local(k, rs)
  BY <1>0, <1>1, <1>3, <1>5, Zenon DEF Local
<1>7. StreamsOK'
  <2>1. sub' \in [Sub -> SubType]
    BY <1>2, <1>4, Zenon
  <2>2. \A x \in Sub : StreamOK(sub[x])
    BY <1>1, Zenon DEF Good, StreamsOK
  <2>3. \A x \in Sub : StreamOK(sub'[x])
    BY <1>3, <2>2, Zenon
  <2> QED
    BY <1>2, <1>5, <2>1, <2>3, Zenon DEF StreamsOK
<1>8. ASSUME k \in DOMAIN broker'.rooms
      PROVE  /\ RoomOK(broker'.rooms[k], count'[k]) /\ MembersOK(broker.rooms, k)'
             /\ OwnNotify(rs, k, broker'.rooms[k].notify)
  <2>1. RoomOK(rs[k], count[k]) /\ MembersOK(rs, k) /\ OwnNotify(rs, k, rs[k].notify)
    BY <1>1, <1>5, <1>8, Zenon DEF Good, TableOK, NotifyOK
  <2>2. rs[k].subs \subseteq Sub
    BY <2>1, Zenon DEF RoomOK, RoomRecord
  <2>3. u.end = "open" => Live(u)
    BY Zenon DEF Live, StreamOK
  <2>4. ASSUME NEW x \in rs[k].subs PROVE sub'[x].key = k /\ Live(sub'[x])
    <3>1. sub[x].key = k /\ Live(sub[x]) /\ x \in Sub
      BY <2>1, <2>2, Zenon DEF MembersOK
    <3>2. x = s => sub'[x].key = k /\ Live(sub'[x])
      BY <1>0, <1>3, <2>3, <3>1, Zenon DEF Live
    <3> QED
      BY <1>3, <3>1, <3>2, Zenon
  <2>5. MembersOK(broker.rooms, k)'
    BY <1>5, <2>4, Zenon DEF MembersOK, Live
  <2> QED
    BY <1>5, <2>1, <2>5, Zenon
<1>9. ASSUME NEW x \in Sub PROVE PresentOK(broker.rooms, x)'
  <2>1. PresentOK(rs, x)
    BY <1>1, Zenon DEF Good, TableOK
  <2> QED
    BY <1>3, <1>5, <2>1, Zenon DEF PresentOK, Live, After
<1>10. ASSUME NEW p \in Pub, pub[p].key = k, Awaiting(p)' PROVE OwnNotify(rs, k, pub'[p].notify)
  BY <1>1, <1>5, <1>10, Zenon DEF Good, NotifyOK, Awaiting
<1>11. ASSUME NEW p \in Pub, pub[p].key = k, Solo(p)' PROVE FALSE
  <2>1. Solo(p)
    BY <1>5, <1>11, Zenon DEF Solo
  <2> QED
    BY <1>0, <1>1, <1>11, <2>1, QuietStream, Zenon
<1>12. \A x \in Sub : sub[x].key = k => PresentOK(broker.rooms, x)'
  BY <1>9, Zenon
<1>13. \A p \in Pub : pub[p].key = k /\ Awaiting(p)' => OwnNotify(rs, k, pub'[p].notify)
  BY <1>10, Zenon
<1>14. \A p \in Pub : pub[p].key = k /\ Solo(p)' => QuietOK(p)' /\ WaitOK(broker.rooms, p)'
  BY <1>11, Zenon
<1> QED
  BY <1>1, <1>4, <1>6, <1>7, <1>8, <1>12, <1>13, <1>14, LocalStep, Zenon

\* The fields of a stream.
LEMMA StreamFields ==
  ASSUME NEW u, StreamOK(u)
  PROVE  /\ u \in SubType /\ u.todo \in Seq(Nat) /\ u.q \in Seq(Nat) /\ u.got \in Seq(Nat)
         /\ u.from \in Nat /\ u.upto \in Nat /\ u.key \in Key
         /\ Len(u.todo) \in Nat /\ Len(u.q) \in Nat /\ Len(u.got) \in Nat
<1>1. /\ u \in SubType /\ u.todo \in Seq(Nat) /\ u.q \in Seq(Nat) /\ u.got \in Seq(Nat)
      /\ u.from \in Nat /\ u.upto \in Nat /\ u.key \in Key
  BY Zenon DEF StreamOK, SubType
<1> QED
  BY <1>1

\* rx.recv() moves the oldest queued record into the hand.
LEMMA RecvStream ==
  ASSUME NEW u, StreamOK(u), u.todo = <<>>, u.q # <<>>, u.pc = "sending",
         NEW t, t = [u EXCEPT !.todo = <<Head(u.q)>>, !.q = Tail(u.q)]
  PROVE  StreamOK(t) /\ t.key = u.key /\ t.end = u.end /\ t.pc = u.pc /\ After(t) = After(u)
<1> DEFINE a == <<Head(u.q)>>
           b == Tail(u.q)
<1>1. /\ u \in SubType /\ u.q \in Seq(Nat) /\ u.got \in Seq(Nat)
      /\ u.from \in Nat /\ Len(u.q) \in Nat /\ Len(u.got) \in Nat
  BY StreamFields, Zenon
<1>2. /\ a \in Seq(Nat) /\ b \in Seq(Nat) /\ Len(a) = 1 /\ Len(b) = Len(u.q) - 1
      /\ a[1] = u.q[1] /\ Len(u.q) >= 1
      /\ \A i \in 1 .. Len(u.q) - 1 : b[i] = u.q[i + 1]
  <2> DEFINE q == u.q
  <2> q \in Seq(Nat) /\ q # <<>>
    BY <1>1
  <2> HIDE DEF q
  <2>1. Head(q) \in Nat /\ Len(q) >= 1 /\ Tail(q) \in Seq(Nat) /\ Len(Tail(q)) = Len(q) - 1
    OBVIOUS
  <2>2. \A i \in 1 .. Len(q) - 1 : Tail(q)[i] = q[i + 1]
    OBVIOUS
  <2>3. Head(q) = q[1]
    OBVIOUS
  <2> QED
    BY <2>1, <2>2, <2>3 DEF q
<1> HIDE DEF a, b
<1>3. /\ t \in SubType /\ t.todo = a /\ t.q = b /\ t.got = u.got /\ t.from = u.from
      /\ t.upto = u.upto /\ t.key = u.key /\ t.end = u.end /\ t.pc = u.pc
  <2>1. t = [u EXCEPT !.todo = a, !.q = b]
    BY Zenon DEF a, b
  <2> HIDE DEF StreamOK
  <2> QED
    BY <1>1, <1>2, <2>1, Zenon DEF SubType
<1>4. Len(u.todo) = 0
  OBVIOUS
<1>5. After(t) = After(u)
  <2>1. After(t) = u.from + Len(u.got) + 1 + (Len(u.q) - 1)
    BY <1>2, <1>3, Zenon DEF After
  <2>2. After(u) = u.from + Len(u.got) + 0 + Len(u.q)
    BY <1>4, Zenon DEF After
  <2> DEFINE f == u.from
             g == Len(u.got)
             q == Len(u.q)
  <2>3. f \in Nat /\ g \in Nat /\ q \in Nat
    BY <1>1, Zenon
  <2> HIDE DEF f, g, q
  <2>4. f + g + 1 + (q - 1) = f + g + 0 + q
    BY <2>3
  <2> QED
    BY <2>1, <2>2, <2>4, Zenon DEF f, g, q
<1>6. RunOK(t)
  <2>1. RunOK(u)
    BY Zenon DEF StreamOK
  <2> DEFINE g == u.got
             f == u.from
             q == u.q
  <2>2. /\ \A i \in 1 .. Len(g) : g[i] = f + i - 1
        /\ \A i \in 1 .. Len(q) : q[i] = f + Len(g) + 0 + i - 1
    BY <1>4, <2>1, Zenon DEF RunOK
  <2>3. f \in Nat /\ Len(g) \in Nat /\ Len(q) \in Nat /\ Len(q) >= 1
    BY <1>1, <1>2, Zenon
  <2>4. /\ a[1] = q[1] /\ Len(a) = 1 /\ Len(b) = Len(q) - 1
        /\ \A i \in 1 .. Len(q) - 1 : b[i] = q[i + 1]
    BY <1>2, Zenon
  <2> HIDE DEF g, f, q
  <2>5. \A i \in 1 .. Len(a) : a[i] = f + Len(g) + i - 1
    BY <2>2, <2>3, <2>4
  <2>6. \A i \in 1 .. Len(b) : b[i] = f + Len(g) + Len(a) + i - 1
    <3> TAKE i \in 1 .. Len(b)
    <3>1. i + 1 \in 1 .. Len(q) /\ i \in 1 .. Len(q) - 1
      BY <2>3, <2>4
    <3>2. q[i + 1] = f + Len(g) + 0 + (i + 1) - 1
      BY <2>2, <3>1
    <3> QED
      BY <2>3, <2>4, <3>1, <3>2
  <2> QED
    BY <1>3, <2>2, <2>5, <2>6, Zenon DEF RunOK, g, f, q
<1> QED
  BY <1>3, <1>5, <1>6, Zenon DEF StreamOK

\* A written record has been handed on.
LEMMA WrittenStream ==
  ASSUME NEW u, StreamOK(u), u.todo # <<>>, u.pc = "sending",
         NEW t, t = [u EXCEPT !.got = Append(u.got, Head(u.todo)), !.todo = Tail(u.todo)]
  PROVE  StreamOK(t) /\ t.key = u.key /\ t.end = u.end /\ t.pc = u.pc /\ After(t) = After(u)
<1> DEFINE a == Append(u.got, Head(u.todo))
           b == Tail(u.todo)
           f == u.from
           g == u.got
           h == u.todo
           q == u.q
<1>1. u \in SubType /\ f \in Nat /\ g \in Seq(Nat) /\ h \in Seq(Nat) /\ q \in Seq(Nat)
  BY StreamFields, Zenon
<1>2. /\ \A i \in 1 .. Len(g) : g[i] = f + i - 1
      /\ \A i \in 1 .. Len(h) : h[i] = f + Len(g) + i - 1
      /\ \A i \in 1 .. Len(q) : q[i] = f + Len(g) + Len(h) + i - 1
  BY Zenon DEF StreamOK, RunOK
<1>3. After(u) = f + Len(g) + Len(h) + Len(q)
  BY Zenon DEF After
<1>4. h # <<>> /\ a = Append(g, Head(h)) /\ b = Tail(h)
  OBVIOUS
<1> HIDE DEF a, b, g, h, q, f
<1>5. /\ a \in Seq(Nat) /\ b \in Seq(Nat) /\ Len(a) = Len(g) + 1 /\ Len(b) = Len(h) - 1
      /\ Len(g) \in Nat /\ Len(h) \in Nat /\ Len(q) \in Nat /\ Len(h) >= 1
  BY <1>1, <1>4
<1>6. /\ \A i \in 1 .. Len(g) : a[i] = g[i]
      /\ a[Len(g) + 1] = h[1]
      /\ \A i \in 1 .. Len(h) - 1 : b[i] = h[i + 1]
  BY <1>1, <1>4
<1>7. \A i \in 1 .. Len(a) : a[i] = f + i - 1
  <2> TAKE i \in 1 .. Len(a)
  <2>1. CASE i \in 1 .. Len(g)
    BY <1>2, <1>6, <2>1, Zenon
  <2>2. CASE i = Len(g) + 1
    <3>1. h[1] = f + Len(g) + 1 - 1
      BY <1>2, <1>5
    <3> QED
      BY <1>1, <1>5, <1>6, <2>2, <3>1
  <2> QED
    BY <1>5, <2>1, <2>2
<1>8. \A i \in 1 .. Len(b) : b[i] = f + Len(a) + i - 1
  <2> TAKE i \in 1 .. Len(b)
  <2>1. i + 1 \in 1 .. Len(h) /\ i \in 1 .. Len(h) - 1
    BY <1>5
  <2>2. h[i + 1] = f + Len(g) + (i + 1) - 1
    BY <1>2, <2>1, Zenon
  <2>3. \A n \in Nat : f + n + (i + 1) - 1 = f + (n + 1) + i - 1
    BY <1>1, <1>5
  <2>4. f + Len(g) + (i + 1) - 1 = f + Len(a) + i - 1
    BY <1>5, <2>3, Zenon
  <2> QED
    BY <1>6, <2>1, <2>2, <2>4, Zenon
<1>9. /\ f + Len(a) + Len(b) + Len(q) = f + Len(g) + Len(h) + Len(q)
      /\ f + Len(a) + Len(b) = f + Len(g) + Len(h)
  <2>1. \A x, y, z \in Nat : /\ f + (x + 1) + (y - 1) + z = f + x + y + z
                             /\ f + (x + 1) + (y - 1) = f + x + y
    BY <1>1
  <2>2. Len(g) \in Nat /\ Len(h) \in Nat /\ Len(q) \in Nat
    BY <1>5, Zenon
  <2>3. /\ f + (Len(g) + 1) + (Len(h) - 1) + Len(q) = f + Len(g) + Len(h) + Len(q)
        /\ f + (Len(g) + 1) + (Len(h) - 1) = f + Len(g) + Len(h)
    BY <2>1, <2>2, Zenon
  <2>4. Len(a) = Len(g) + 1 /\ Len(b) = Len(h) - 1
    BY <1>5, Zenon
  <2> QED
    BY <2>3, <2>4, Zenon
<1>10. \A i \in 1 .. Len(q) : q[i] = f + Len(a) + Len(b) + i - 1
  BY <1>2, <1>9
<1>11. /\ t \in SubType /\ t.got = a /\ t.todo = b /\ t.q = q /\ t.from = f
       /\ t.upto = u.upto /\ t.key = u.key /\ t.end = u.end /\ t.pc = u.pc
  <2>1. t = [u EXCEPT !.got = a, !.todo = b]
    BY Zenon DEF a, b
  <2> QED
    BY <1>1, <1>5, <2>1, Zenon DEF SubType, q, f
<1>12. After(t) = After(u)
  BY <1>3, <1>9, <1>11, Zenon DEF After
<1>13. RunOK(t)
  BY <1>7, <1>8, <1>10, <1>11, Zenon DEF RunOK
<1>14. t.from >= 1 /\ (t.end = "closed" /\ t.pc # "reset" => After(t) = t.upto + 1)
  BY <1>11, <1>12, Zenon DEF StreamOK, f
<1> QED
  BY <1>11, <1>12, <1>13, <1>14, Zenon DEF StreamOK

\* A stream that changes its place only.
Moved(t, u, pc) == t = [u EXCEPT !.pc = pc]

\* A handler goes on to reset or to finish its stream.
LEMMA MovedStream ==
  ASSUME NEW u, StreamOK(u), NEW pc \in {"resetting", "finishing"}, u.pc = "sending",
         pc = "finishing" => u.todo = <<>> /\ u.q = <<>> /\ u.end # "open",
         NEW t, Moved(t, u, pc)
  PROVE  StreamOK(t) /\ t.key = u.key /\ t.end = u.end /\ t.pc = pc /\ After(t) = After(u)
<1>1. u \in SubType
  BY Zenon DEF StreamOK
<1>2. /\ t \in SubType /\ t.got = u.got /\ t.todo = u.todo /\ t.q = u.q /\ t.from = u.from
      /\ t.upto = u.upto /\ t.key = u.key /\ t.end = u.end /\ t.pc = pc
  BY <1>1, Zenon DEF SubType, Moved
<1>3. After(t) = After(u)
  BY <1>2, Zenon DEF After
<1> QED
  BY <1>2, <1>3, Zenon DEF StreamOK, RunOK

\* A stream handler writes, fails to write, takes the next record or meets the end.
LEMMA ServesOK ==
  ASSUME IInv, NEW s \in Sub, Recv(s) \/ WriteFrame(s) \/ WriteFails(s) \/ EndOfQueue(s)
  PROVE  IInv'
<1>1. StreamOK(sub[s]) /\ sub \in [Sub -> SubType]
  BY Zenon DEF IInv, Good, StreamsOK
<1>2. CASE Recv(s)
  <2>1. PICK u : u = [sub[s] EXCEPT !.todo = <<Head(sub[s].q)>>, !.q = Tail(sub[s].q)]
    BY Zenon
  <2>2. sub' = [sub EXCEPT ![s] = u]
    BY <1>1, <1>2, <2>1, Zenon DEF Recv
  <2>3. /\ sub[s].pc = "sending" /\ sub[s].todo = <<>> /\ sub[s].q # <<>>
        /\ UNCHANGED <<broker, pub, permits, timers, count>>
    BY <1>2, Zenon DEF Recv
  <2>4. /\ StreamOK(u) /\ u.key = sub[s].key /\ u.end = sub[s].end /\ u.pc = "sending"
        /\ After(u) = After(sub[s])
    BY <1>1, <2>1, <2>3, RecvStream, Zenon
  <2> QED
    BY <2>2, <2>3, <2>4, ServeStep, Zenon
<1>3. CASE WriteFrame(s)
  <2>1. PICK u : u = [sub[s] EXCEPT !.got = Append(sub[s].got, Head(sub[s].todo)),
                                    !.todo = Tail(sub[s].todo)]
    BY Zenon
  <2>2. sub' = [sub EXCEPT ![s] = u]
    BY <1>1, <1>3, <2>1, Zenon DEF WriteFrame
  <2>3. /\ sub[s].pc = "sending" /\ sub[s].todo # <<>>
        /\ UNCHANGED <<broker, pub, permits, timers, count>>
    BY <1>3, Zenon DEF WriteFrame
  <2>4. /\ StreamOK(u) /\ u.key = sub[s].key /\ u.end = sub[s].end /\ u.pc = "sending"
        /\ After(u) = After(sub[s])
    BY <1>1, <2>1, <2>3, WrittenStream, Zenon
  <2> QED
    BY <2>2, <2>3, <2>4, ServeStep, Zenon
<1>4. CASE WriteFails(s)
  <2>1. PICK u : u = [sub[s] EXCEPT !.pc = "resetting"] /\ Moved(u, sub[s], "resetting")
    BY Zenon DEF Moved
  <2>2. sub' = [sub EXCEPT ![s] = u]
    BY <1>1, <1>4, <2>1, Zenon DEF WriteFails
  <2>3. /\ sub[s].pc = "sending" /\ sub[s].todo # <<>>
        /\ UNCHANGED <<broker, pub, permits, timers, count>>
    BY <1>4, Zenon DEF WriteFails
  <2>4. /\ StreamOK(u) /\ u.key = sub[s].key /\ u.end = sub[s].end /\ u.pc = "resetting"
        /\ After(u) = After(sub[s])
    <3>1. "resetting" \in {"resetting", "finishing"} /\ "resetting" # "finishing"
      OBVIOUS
    <3>2. Moved(u, sub[s], "resetting")
      BY <2>1, Zenon
    <3> QED
      BY <1>1, <2>3, <3>1, <3>2, MovedStream, Zenon
  <2> QED
    BY <2>2, <2>3, <2>4, ServeStep, Zenon
<1>5. CASE EndOfQueue(s)
  <2>1. PICK u : u = [sub[s] EXCEPT !.pc = "finishing"] /\ Moved(u, sub[s], "finishing")
    BY Zenon DEF Moved
  <2>2. sub' = [sub EXCEPT ![s] = u]
    BY <1>1, <1>5, <2>1, Zenon DEF EndOfQueue
  <2>3. /\ sub[s].pc = "sending" /\ sub[s].todo = <<>> /\ sub[s].q = <<>> /\ sub[s].end # "open"
        /\ UNCHANGED <<broker, pub, permits, timers, count>>
    BY <1>5, Zenon DEF EndOfQueue
  <2>4. /\ StreamOK(u) /\ u.key = sub[s].key /\ u.end = sub[s].end /\ u.pc = "finishing"
        /\ After(u) = After(sub[s])
    <3>1. "finishing" \in {"resetting", "finishing"}
      OBVIOUS
    <3>2. Moved(u, sub[s], "finishing")
      BY <2>1, Zenon
    <3> QED
      BY <1>1, <2>3, <3>1, <3>2, MovedStream, Zenon
  <2> QED
    BY <2>2, <2>3, <2>4, ServeStep, Zenon
<1> QED
  BY <1>2, <1>3, <1>4, <1>5, Zenon

\* The table ts is rs with another room of key k, or none.
Elsewhere(k, rs, ts) ==
  /\ \A l : l # k => (l \in DOMAIN ts <=> l \in DOMAIN rs)
  /\ \A l \in DOMAIN rs : l # k => ts[l] = rs[l]

\* Broker state a has room r for key k, or none; the rest of the table is b's.
Has(k, b, a, r) ==
  /\ a = [rooms |-> a.rooms, total |-> a.total] /\ Elsewhere(k, b.rooms, a.rooms)
  /\ k \in DOMAIN a.rooms /\ a.rooms[k] = r
Lacks(k, b, a) ==
  /\ a = [rooms |-> a.rooms, total |-> a.total] /\ Elsewhere(k, b.rooms, a.rooms)
  /\ k \notin DOMAIN a.rooms

\* rooms.insert
LEMMA PutRoomTable ==
  ASSUME NEW b, NEW k, NEW r, NEW total
  PROVE  Has(k, b, PutRoom(b, k, r, total), r)
<1> DEFINE ts == [x \in DOMAIN b.rooms \cup {k} |-> IF x = k THEN r ELSE b.rooms[x]]
           a == PutRoom(b, k, r, total)
<1>1. a = [rooms |-> ts, total |-> total]
  BY Zenon DEF PutRoom
<1>2. Elsewhere(k, b.rooms, ts) /\ k \in DOMAIN ts /\ ts[k] = r
  BY Zenon DEF Elsewhere
<1> HIDE DEF a, ts
<1>3. a.rooms = ts /\ a.total = total
  BY <1>1
<1>4. Has(k, b, a, r)
  BY <1>1, <1>2, <1>3, Zenon DEF Has
<1> QED
  BY <1>4, Zenon DEF a

\* rooms.remove
LEMMA RemoveRoomTable ==
  ASSUME NEW b, b = [rooms |-> b.rooms, total |-> b.total], NEW k
  PROVE  Lacks(k, b, RemoveRoom(b, k))
<1> DEFINE a == RemoveRoom(b, k)
<1>1. CASE k \notin DOMAIN b.rooms
  <2>1. a = b
    BY <1>1, Zenon DEF RemoveRoom
  <2>2. Elsewhere(k, b.rooms, b.rooms)
    BY Zenon DEF Elsewhere
  <2> QED
    BY <1>1, <2>1, <2>2, Zenon DEF Lacks
<1>2. CASE k \in DOMAIN b.rooms
  <2> DEFINE ts == [x \in DOMAIN b.rooms \ {k} |-> b.rooms[x]]
             v == SaturatingSub(b.total, b.rooms[k].bytes)
  <2>1. a = [rooms |-> ts, total |-> v]
    BY <1>2, Zenon DEF RemoveRoom, Restrict
  <2>2. Elsewhere(k, b.rooms, ts) /\ k \notin DOMAIN ts
    BY Zenon DEF Elsewhere
  <2> HIDE DEF a, ts, v
  <2>3. a.rooms = ts /\ a.total = v
    BY <2>1
  <2>4. Lacks(k, b, a)
    BY <2>1, <2>2, <2>3, Zenon DEF Lacks
  <2> QED
    BY <2>4, Zenon DEF a
<1> QED
  BY <1>1, <1>2, Zenon

\* What the purge returns is a broker state.
LEMMA PurgeRecord ==
  ASSUME NEW b
  PROVE  PurgeRooms(b) = [rooms |-> PurgeRooms(b).rooms, total |-> PurgeRooms(b).total]
<1>1. \A x, y : LET a == [rooms |-> x, total |-> y] IN a = [rooms |-> a.rooms, total |-> a.total]
  OBVIOUS
<1>2. \E x, y : PurgeRooms(b) = [rooms |-> x, total |-> y]
  BY Zenon DEF PurgeRooms
<1> QED
  BY <1>1, <1>2, Zenon

\* A stream whose handler has unsubscribed.
LEMMA LeftStream ==
  ASSUME NEW u, StreamOK(u), u.pc \in {"resetting", "finishing"},
         NEW t, t = [u EXCEPT !.pc = IF u.pc = "finishing" THEN "clean" ELSE "reset",
                              !.end = IF u.end = "open" THEN "left" ELSE u.end,
                              !.q = <<>>]
  PROVE  StreamOK(t) /\ t.key = u.key /\ ~Live(t)
<1> DEFINE pc == IF u.pc = "finishing" THEN "clean" ELSE "reset"
           end == IF u.end = "open" THEN "left" ELSE u.end
<1>1. u \in SubType
  BY Zenon DEF StreamOK
<1>2. /\ pc \in {"clean", "reset"} /\ (pc = "clean" => u.pc = "finishing")
      /\ end \in {"open", "lagged", "closed", "left"} /\ (end = "closed" => u.end = "closed")
  BY <1>1 DEF SubType
<1>3. t = [u EXCEPT !.pc = pc, !.end = end, !.q = <<>>]
  BY Zenon
<1> HIDE DEF pc, end
<1>4. <<>> \in Seq(Nat) /\ Len(<<>>) = 0 /\ 1 .. 0 = {}
  OBVIOUS
<1>5. /\ t \in SubType /\ t.got = u.got /\ t.todo = u.todo /\ t.q = <<>> /\ t.from = u.from
      /\ t.upto = u.upto /\ t.key = u.key /\ t.end = end /\ t.pc = pc
  <2>1. pc \in {"new", "sending", "resetting", "finishing", "clean", "reset", "refused"}
    BY <1>2
  <2> QED
    BY <1>1, <1>2, <1>3, <1>4, <2>1, Zenon DEF SubType
<1>6. RunOK(t)
  BY <1>4, <1>5, Zenon DEF StreamOK, RunOK
<1>7. pc = "clean" => u.todo = <<>> /\ u.q = <<>> /\ u.pc # "reset"
  BY <1>2, Zenon DEF StreamOK
<1>8. pc = "clean" => After(t) = After(u)
  BY <1>5, <1>7, Zenon DEF After
<1>9. t.end = "closed" /\ t.pc # "reset" => After(t) = t.upto + 1
  BY <1>2, <1>5, <1>7, <1>8, Zenon DEF StreamOK
<1>10. t.pc \notin {"sending", "resetting", "finishing"}
  BY <1>2, <1>5
<1> QED
  BY <1>2, <1>5, <1>6, <1>7, <1>9, <1>10, Zenon DEF StreamOK, Live

\* One stream changes, publishers and counts keep their types.
LEMMA OneStream ==
  ASSUME StreamsOK, NEW s \in Sub, NEW u, StreamOK(u), sub' = [sub EXCEPT ![s] = u],
         pub' \in [Pub -> PubType], count' \in [Key -> Nat]
  PROVE  StreamsOK' /\ sub'[s] = u /\ \A x \in Sub : x # s => sub'[x] = sub[x]
<1>1. sub \in [Sub -> SubType] /\ (\A x \in Sub : StreamOK(sub[x])) /\ u \in SubType
  BY Zenon DEF StreamsOK, StreamOK
<1>2. sub'[s] = u /\ \A x \in Sub : x # s => sub'[x] = sub[x]
  BY <1>1, Zenon
<1>3. sub' \in [Sub -> SubType]
  BY <1>1, Zenon
<1>4. \A x \in Sub : StreamOK(sub'[x])
  BY <1>1, <1>2, Zenon
<1> QED
  BY <1>2, <1>3, <1>4, Zenon DEF StreamsOK

\* t is room r with other subscribers S and activity w.
Attended(t, r, S, w) == t = [r EXCEPT !.subs = S, !.act = w]

\* Then these are its fields.
AttendedAs(t, r, S, w) ==
  /\ t.subs = S /\ t.act = w /\ t.notify = r.notify /\ t.fin = r.fin /\ t.log = r.log
  /\ Finished(t) <=> Finished(r)

\* A change of the subscribers of a room.
LEMMA AttendedFields ==
  ASSUME NEW c, NEW r, RoomOK(r, c), NEW S, NEW w, NEW t, Attended(t, r, S, w)
  PROVE  AttendedAs(t, r, S, w)
<1>1. r \in RoomRecord({r.bytes})
  BY Zenon DEF RoomOK
<1> QED
  BY <1>1, Zenon DEF Attended, AttendedAs, RoomRecord, Finished

\* A room whose subscribers change is as good as before.
LEMMA AttendedRoom ==
  ASSUME NEW c, NEW r, RoomOK(r, c), NEW S, NEW w, NEW t, Attended(t, r, S, w),
         S \subseteq Sub, w \in Nat, Finished(r) => S = {}
  PROVE  RoomOK(t, c)
<1>1. r \in RoomRecord({r.bytes}) /\ LogOK(r.log, c)
  BY Zenon DEF RoomOK
<1>2. t \in RoomRecord({r.bytes}) /\ t.bytes = r.bytes
  BY <1>1, Zenon DEF Attended, RoomRecord
<1>3. AttendedAs(t, r, S, w)
  BY AttendedFields, Zenon
<1> QED
  BY <1>1, <1>2, <1>3, Zenon DEF RoomOK, Finished, AttendedAs

\* unsubscribe(): the stream leaves its room, and the room goes with the last.
LEMMA UnsubscribeOK ==
  ASSUME ChoicesOK, IInv, NEW s \in Sub, Unsubscribe(s)
  PROVE  IInv'
<1>1. PICK b : b = PurgeRooms(broker)
  BY Zenon
<1>2. Good(b.rooms) /\ b = [rooms |-> b.rooms, total |-> b.total]
  BY <1>1, PurgeGood, PurgeRecord, Zenon
<1>3. StreamsOK /\ TableOK(b.rooms) /\ NotifyOK(b.rooms)
  BY <1>2, Zenon DEF Good
<1>4. pub \in [Pub -> PubType] /\ count \in [Key -> Nat] /\ sub \in [Sub -> SubType]
  BY <1>3, Zenon DEF StreamsOK
<1>5. PICK k \in Key : k = sub[s].key
  BY <1>4 DEF SubType
<1>6. PICK u : u = [sub[s] EXCEPT !.pc = IF sub[s].pc = "finishing" THEN "clean" ELSE "reset",
                                  !.end = IF sub[s].end = "open" THEN "left" ELSE sub[s].end,
                                  !.q = <<>>]
  BY Zenon
<1>7. sub' = [sub EXCEPT ![s] = u]
  BY <1>4, <1>6, Zenon DEF Unsubscribe
<1>8. /\ sub[s].pc \in {"resetting", "finishing"} /\ pub' = pub /\ permits' = permits
      /\ count' = count
  BY Zenon DEF Unsubscribe
<1>9. StreamOK(u) /\ u.key = k /\ ~Live(u)
  BY <1>3, <1>5, <1>6, <1>8, LeftStream, Zenon DEF StreamsOK
<1>10. StreamsOK' /\ sub'[s] = u /\ \A x \in Sub : x # s => sub'[x] = sub[x]
  BY <1>3, <1>4, <1>7, <1>8, <1>9, OneStream, Zenon
<1> DEFINE r0 == b.rooms[k]
           w == IF Finished(r0) THEN r0.act ELSE 0
           S == r0.subs \ {s}
<1>11. PICK r : Attended(r, r0, S, w)
  BY Zenon DEF Attended
<1>12. broker' = IF k \notin DOMAIN b.rooms THEN b
                 ELSE IF Unused(r) THEN RemoveRoom(b, k) ELSE PutRoom(b, k, r, b.total)
  BY <1>1, <1>5, <1>11, Zenon DEF Unsubscribe, Attended
<1>13. k \in DOMAIN b.rooms =>
         /\ RoomOK(r0, count[k]) /\ MembersOK(b.rooms, k) /\ RoomOK(r, count[k])
         /\ r.subs = S /\ r.notify = r0.notify
  <2> SUFFICES ASSUME k \in DOMAIN b.rooms
               PROVE  /\ RoomOK(r0, count[k]) /\ MembersOK(b.rooms, k) /\ RoomOK(r, count[k])
                      /\ r.subs = S /\ r.notify = r0.notify
    BY Zenon
  <2>1. RoomOK(r0, count[k]) /\ MembersOK(b.rooms, k)
    BY <1>3, Zenon DEF TableOK
  <2>2. r0.subs \subseteq Sub /\ r0.act \in Nat /\ (Finished(r0) => r0.subs = {})
    BY <2>1, Zenon DEF RoomOK, RoomRecord
  <2>3. S \subseteq Sub /\ w \in Nat /\ (Finished(r0) => S = {})
    BY <2>2
  <2> HIDE DEF r0, w, S
  <2>4. RoomOK(r, count[k])
    BY <1>11, <2>1, <2>3, AttendedRoom, Zenon
  <2>5. AttendedAs(r, r0, S, w)
    BY <1>11, <2>1, AttendedFields, Zenon
  <2> QED
    BY <2>1, <2>4, <2>5, Zenon DEF AttendedAs
<1> HIDE DEF w
<1>14. /\ broker' = [rooms |-> broker'.rooms, total |-> broker'.total]
       /\ Elsewhere(k, b.rooms, broker'.rooms)
       /\ k \in DOMAIN broker'.rooms => k \in DOMAIN b.rooms /\ broker'.rooms[k] = r
       /\ k \in DOMAIN b.rooms /\ k \notin DOMAIN broker'.rooms => r.subs = {}
  <2>1. CASE k \notin DOMAIN b.rooms
    <3>1. broker' = b
      BY <1>12, <2>1, Zenon
    <3> QED
      BY <1>2, <2>1, <3>1, Zenon DEF Elsewhere
  <2>2. CASE k \in DOMAIN b.rooms /\ Unused(r)
    <3>1. broker' = RemoveRoom(b, k) /\ r.subs = {}
      BY <1>12, <2>2, Zenon DEF Unused
    <3>2. Lacks(k, b, broker')
      BY <1>2, <3>1, RemoveRoomTable, Zenon
    <3> QED
      BY <3>1, <3>2, Zenon DEF Lacks
  <2>3. CASE k \in DOMAIN b.rooms /\ ~Unused(r)
    <3>1. broker' = PutRoom(b, k, r, b.total)
      BY <1>12, <2>3, Zenon
    <3>2. Has(k, b, broker', r)
      BY <3>1, PutRoomTable, Zenon
    <3> QED
      BY <2>3, <3>2, Zenon DEF Has
  <2> QED
    BY <2>1, <2>2, <2>3, Zenon
<1>15. Local(k, b.rooms)
  BY <1>5, <1>8, <1>9, <1>10, <1>14, Zenon DEF Local, Elsewhere
<1>16. ASSUME k \in DOMAIN broker'.rooms
       PROVE  /\ RoomOK(broker'.rooms[k], count'[k]) /\ MembersOK(broker.rooms, k)'
              /\ OwnNotify(b.rooms, k, broker'.rooms[k].notify)
  <2>1. broker'.rooms[k] = r /\ r.subs = r0.subs \ {s} /\ r.notify = r0.notify
    BY <1>13, <1>14, <1>16, Zenon
  <2>2. \A x \in r0.subs : sub[x].key = k /\ Live(sub[x]) /\ x \in Sub
    BY <1>13, <1>14, <1>16, Zenon DEF MembersOK, RoomOK, RoomRecord
  <2>3. MembersOK(broker.rooms, k)'
    BY <1>10, <2>1, <2>2, Zenon DEF MembersOK, Live
  <2>4. OwnNotify(b.rooms, k, r.notify)
    BY <1>3, <1>14, <1>16, <2>1, Zenon DEF NotifyOK
  <2> QED
    BY <1>8, <1>13, <1>14, <1>16, <2>3, <2>4, Zenon
<1>17. ASSUME NEW x \in Sub, sub[x].key = k PROVE PresentOK(broker.rooms, x)'
  <2>1. PresentOK(b.rooms, x)
    BY <1>3, Zenon DEF TableOK
  <2>2. CASE x = s
    BY <1>9, <1>10, <2>2, Zenon DEF PresentOK, Live
  <2>3. CASE x # s
    <3>1. sub'[x] = sub[x]
      BY <1>10, <2>3, Zenon
    <3>2. Live(sub[x]) => k \in DOMAIN b.rooms /\ x \in S /\ After(sub[x]) = count[k] + 1
      BY <1>17, <2>1, <2>3, Zenon DEF PresentOK
    <3>3. Live(sub[x]) => k \in DOMAIN broker'.rooms /\ x \in broker'.rooms[k].subs
      BY <1>13, <1>14, <3>2, Zenon
    <3> QED
      BY <1>8, <1>17, <3>1, <3>2, <3>3, Zenon DEF PresentOK, Live, After
  <2> QED
    BY <2>2, <2>3, Zenon
<1>18. \A x \in Sub : sub[x].key = k => PresentOK(broker.rooms, x)'
  BY <1>17, Zenon
<1>19. \A p \in Pub : pub[p].key = k /\ Awaiting(p)' => OwnNotify(b.rooms, k, pub'[p].notify)
  BY <1>3, <1>8, Zenon DEF NotifyOK, Awaiting
<1>20. ASSUME NEW p \in Pub, pub[p].key = k, Solo(p)' PROVE FALSE
  <2>1. Solo(p)
    BY <1>8, <1>20, Zenon DEF Solo
  <2>2. sub[s].pc \in {"new", "refused", "sending"}
    BY <1>2, <1>5, <1>20, <2>1, QuietStream, Zenon
  <2> QED
    BY <1>8, <2>2
<1>21. \A p \in Pub : pub[p].key = k /\ Solo(p)' => QuietOK(p)' /\ WaitOK(broker.rooms, p)'
  BY <1>20, Zenon
<1> QED
  BY <1>2, <1>10, <1>15, <1>16, <1>18, <1>19, <1>21, LocalStep, Zenon

\* The snapshot of a log, as a stream sees it.
Snapshot(u, k, log, c, end) ==
  u = [pc |-> "sending", key |-> k, todo |-> Numbers(log), q |-> <<>>, got |-> <<>>,
       from |-> c + 1 - Len(log), upto |-> c, end |-> end]

\* A stream that has just subscribed.
LEMMA NewStream ==
  ASSUME NEW u, NEW k \in Key, NEW log, NEW c \in Nat, LogOK(log, c),
         NEW end \in {"open", "closed"}, Snapshot(u, k, log, c, end)
  PROVE  StreamOK(u) /\ u.key = k /\ After(u) = c + 1 /\ u.end = end /\ u.pc = "sending"
<1> DEFINE a == Numbers(log)
           m == Len(log)
           f == c + 1 - m
<1>1. log \in Seq(RecordType) /\ m \in Nat /\ DOMAIN log = 1 .. m
  BY LogLength
<1>2. m <= c /\ \A i \in 1 .. m : log[i].n = c - m + i
  BY Zenon DEF LogOK
<1>3. a \in Seq(Nat) /\ Len(a) = m /\ \A i \in 1 .. m : a[i] = log[i].n
  <2>1. \A i \in 1 .. m : log[i] \in RecordType
    BY <1>1
  <2>2. \A i \in 1 .. m : log[i].n \in Nat
    BY <2>1, Zenon DEF RecordType
  <2>3. a = [i \in 1 .. m |-> log[i].n]
    BY <1>1, Zenon DEF Numbers
  <2> HIDE DEF m, a
  <2> QED
    BY <1>1, <2>2, <2>3
<1> HIDE DEF a, m
<1>4. f \in Nat /\ f >= 1 /\ f + 0 + m + 0 = c + 1
  BY <1>1, <1>2
<1>5. \A i \in 1 .. m : a[i] = f + 0 + i - 1
  BY <1>1, <1>2, <1>3
<1>6. u = [pc |-> "sending", key |-> k, todo |-> a, q |-> <<>>, got |-> <<>>,
           from |-> f, upto |-> c, end |-> end]
  BY Zenon DEF Snapshot, a, m
<1> HIDE DEF f
<1>7. <<>> \in Seq(Nat) /\ Len(<<>>) = 0 /\ 1 .. 0 = {}
  OBVIOUS
<1>8. /\ u.pc = "sending" /\ u.key = k /\ u.todo = a /\ u.q = <<>> /\ u.got = <<>>
      /\ u.from = f /\ u.upto = c /\ u.end = end
  BY <1>6
<1>9. u \in SubType
  BY <1>3, <1>4, <1>6, <1>7 DEF SubType
<1>10. After(u) = c + 1
  BY <1>3, <1>4, <1>7, <1>8, Zenon DEF After
<1>11. RunOK(u)
  BY <1>3, <1>5, <1>7, <1>8, Zenon DEF RunOK
<1>12. u.pc \notin {"finishing", "clean"}
  BY <1>8
<1> QED
  BY <1>4, <1>8, <1>9, <1>10, <1>11, <1>12, Zenon DEF StreamOK

\* The room an operation finds or creates.
EntryOf(b, k, e) ==
  /\ RoomOK(e, count[k]) /\ OwnNotify(b.rooms, k, e.notify)
  /\ k \in DOMAIN b.rooms => e = b.rooms[k]
  /\ k \notin DOMAIN b.rooms => e = NewRoom(FreshNotify(b)) /\ e.subs = {} /\ ~Finished(e) /\ e.act = 0

\* Nobody holds the fresh object, and it takes no permit from anyone who waits.
LEMMA FreshFacts ==
  ASSUME ChoicesOK, NEW b, Good(b.rooms)
  PROVE  /\ FreshNotify(b) \in Nat /\ \A k : OwnNotify(b.rooms, k, FreshNotify(b))
         /\ \A q \in Pub : Awaiting(q) => pub[q].notify # FreshNotify(b)
<1>1. DOMAIN b.rooms \subseteq Key /\ pub \in [Pub -> PubType]
  BY Zenon DEF Good, TableOK, StreamsOK
<1> QED
  BY <1>1, FreshNotifyIsFree, Zenon DEF OwnNotify

\* rooms.entry(key).or_default()
LEMMA EntryFacts ==
  ASSUME ChoicesOK, NEW b, Good(b.rooms), NEW k \in Key
  PROVE  EntryOf(b, k, Entry(b, k))
<1>1. CASE k \in DOMAIN b.rooms
  <2>1. Entry(b, k) = b.rooms[k]
    BY <1>1, Zenon DEF Entry
  <2>2. RoomOK(b.rooms[k], count[k]) /\ OwnNotify(b.rooms, k, b.rooms[k].notify)
    BY <1>1, Zenon DEF Good, TableOK, NotifyOK
  <2> QED
    BY <1>1, <2>1, <2>2, Zenon DEF EntryOf
<1>2. CASE k \notin DOMAIN b.rooms
  <2>1. Entry(b, k) = NewRoom(FreshNotify(b))
    BY <1>2, Zenon DEF Entry
  <2>2. count[k] \in Nat
    BY DEF Good, StreamsOK
  <2>3. FreshNotify(b) \in Nat /\ OwnNotify(b.rooms, k, FreshNotify(b))
    BY FreshFacts, Zenon
  <2>4. /\ RoomOK(NewRoom(FreshNotify(b)), count[k]) /\ NewRoom(FreshNotify(b)).subs = {}
        /\ NewRoom(FreshNotify(b)).notify = FreshNotify(b)
        /\ ~Finished(NewRoom(FreshNotify(b))) /\ NewRoom(FreshNotify(b)).act = 0
    BY <2>2, <2>3, NewRoomOK, Zenon
  <2> QED
    BY <1>2, <2>1, <2>3, <2>4, Zenon DEF EntryOf
<1> QED
  BY <1>1, <1>2, Zenon

\* subscribe() refuses a stream when there are too many rooms.
LEMMA RefusedOK ==
  ASSUME NEW b, Good(b.rooms), b = [rooms |-> b.rooms, total |-> b.total],
         NEW s \in Sub, sub[s].pc = "new", NEW u, Moved(u, sub[s], "refused"),
         sub' = [sub EXCEPT ![s] = u],
         broker' = b, pub' = pub, permits' = permits, count' = count
  PROVE  IInv'
<1>1. StreamsOK /\ TableOK(b.rooms) /\ NotifyOK(b.rooms) /\ SoloOK(b.rooms)
  BY Zenon DEF Good
<1>2. pub \in [Pub -> PubType] /\ count \in [Key -> Nat] /\ sub[s] \in SubType /\ StreamOK(sub[s])
  BY <1>1, Zenon DEF StreamsOK, StreamOK
<1>3. PICK k \in Key : k = sub[s].key
  BY <1>2 DEF SubType
<1>4. /\ u \in SubType /\ u.got = sub[s].got /\ u.todo = sub[s].todo /\ u.q = sub[s].q
      /\ u.from = sub[s].from /\ u.upto = sub[s].upto /\ u.key = k /\ u.end = sub[s].end
      /\ u.pc = "refused"
  BY <1>2, <1>3, Zenon DEF SubType, Moved
<1>5. After(u) = After(sub[s])
  BY <1>4, Zenon DEF After
<1>6. u.pc \notin {"finishing", "clean", "sending", "resetting"} /\ sub[s].pc # "reset"
  BY <1>4
<1>7. StreamOK(u) /\ ~Live(u)
  BY <1>2, <1>4, <1>5, <1>6, Zenon DEF StreamOK, RunOK, Live
<1>8. StreamsOK' /\ sub'[s] = u /\ \A x \in Sub : x # s => sub'[x] = sub[x]
  BY <1>1, <1>2, <1>7, OneStream, Zenon
<1>9. ~Live(sub[s])
  BY DEF Live
<1>10. Local(k, b.rooms)
  BY <1>3, <1>4, <1>8, Zenon DEF Local
<1>11. ASSUME k \in DOMAIN b.rooms
       PROVE  /\ RoomOK(broker'.rooms[k], count'[k]) /\ MembersOK(broker.rooms, k)'
              /\ OwnNotify(b.rooms, k, broker'.rooms[k].notify)
  <2>1. RoomOK(b.rooms[k], count[k]) /\ MembersOK(b.rooms, k)
    BY <1>1, <1>11, Zenon DEF TableOK
  <2>2. \A x \in b.rooms[k].subs : x \in Sub /\ sub[x].key = k /\ Live(sub[x]) /\ x # s
    BY <1>9, <2>1, Zenon DEF MembersOK, RoomOK, RoomRecord
  <2>3. MembersOK(broker.rooms, k)'
    BY <1>8, <2>2, Zenon DEF MembersOK, Live
  <2> QED
    BY <1>1, <1>11, <2>1, <2>3, Zenon DEF NotifyOK
<1>12. \A x \in Sub : sub[x].key = k => PresentOK(broker.rooms, x)'
  BY <1>1, <1>7, <1>8, Zenon DEF TableOK, PresentOK, Live, After
<1>13. \A p \in Pub : pub[p].key = k /\ Awaiting(p)' => OwnNotify(b.rooms, k, pub'[p].notify)
  BY <1>1, Zenon DEF NotifyOK, Awaiting
<1>14. ASSUME NEW p \in Pub, pub[p].key = k, Solo(p)'
       PROVE  QuietOK(p)' /\ WaitOK(broker.rooms, p)'
  <2>1. Solo(p)
    BY <1>14, Zenon DEF Solo
  <2>2. QuietOK(p) /\ WaitOK(b.rooms, p)
    BY <1>1, <2>1, Zenon DEF SoloOK
  <2>3. u.pc \in {"new", "refused"}
    BY <1>4
  <2>4. QuietOK(p)'
    BY <1>8, <2>2, <2>3, Zenon DEF QuietOK
  <2>5. WaitOK(broker.rooms, p)'
    BY <2>2, Zenon DEF WaitOK, Awaiting
  <2> QED
    BY <2>4, <2>5, Zenon
<1> QED
  BY <1>8, <1>10, <1>11, <1>12, <1>13, <1>14, LocalStep, Zenon

\* A finished room serves its backlog only.
LEMMA ReplayOK ==
  ASSUME NEW b, Good(b.rooms), NEW s \in Sub, sub[s].pc = "new", NEW k \in Key, k = sub[s].key,
         k \in DOMAIN b.rooms, NEW r, RoomOK(r, count[k]), SameRoom(r, b.rooms[k]), Finished(r),
         NEW u, Snapshot(u, k, r.log, count[k], "closed"), sub' = [sub EXCEPT ![s] = u],
         Has(k, b, broker', r), pub' = pub, permits' = permits, count' = count
  PROVE  IInv'
<1>1. StreamsOK /\ TableOK(b.rooms) /\ NotifyOK(b.rooms) /\ SoloOK(b.rooms)
  BY Zenon DEF Good
<1>2. pub \in [Pub -> PubType] /\ count \in [Key -> Nat] /\ count[k] \in Nat
  BY <1>1 DEF StreamsOK
<1>3. LogOK(r.log, count[k]) /\ r.subs = {} /\ r.notify = b.rooms[k].notify
  BY Zenon DEF RoomOK, SameRoom
<1>4. StreamOK(u) /\ u.key = k /\ u.end = "closed"
  <2>1. "closed" \in {"open", "closed"}
    OBVIOUS
  <2> QED
    BY <1>2, <1>3, <2>1, NewStream, Zenon
<1>5. ~Live(u)
  BY <1>4 DEF Live
<1>6. StreamsOK' /\ sub'[s] = u /\ \A x \in Sub : x # s => sub'[x] = sub[x]
  BY <1>1, <1>2, <1>4, OneStream, Zenon
<1>7. /\ broker' = [rooms |-> broker'.rooms, total |-> broker'.total]
      /\ Elsewhere(k, b.rooms, broker'.rooms) /\ k \in DOMAIN broker'.rooms
      /\ broker'.rooms[k] = r
  BY Zenon DEF Has
<1>8. Local(k, b.rooms)
  BY <1>4, <1>6, <1>7, Zenon DEF Local, Elsewhere
<1>9. /\ RoomOK(broker'.rooms[k], count'[k]) /\ MembersOK(broker.rooms, k)'
      /\ OwnNotify(b.rooms, k, broker'.rooms[k].notify)
  BY <1>1, <1>3, <1>7, Zenon DEF MembersOK, NotifyOK
<1>10. b.rooms[k].subs = {} /\ Finished(b.rooms[k])
  BY <1>3, Zenon DEF SameRoom, Finished
<1>11. \A x \in Sub : sub[x].key = k => PresentOK(broker.rooms, x)'
  <2>1. \A x \in Sub : sub[x].key = k => ~Live(sub[x])
    BY <1>1, <1>10, Zenon DEF TableOK, PresentOK
  <2> QED
    BY <1>5, <1>6, <2>1, Zenon DEF PresentOK, Live
<1>12. \A p \in Pub : pub[p].key = k /\ Awaiting(p)' => OwnNotify(b.rooms, k, pub'[p].notify)
  BY <1>1, Zenon DEF NotifyOK, Awaiting
<1>13. ASSUME NEW p \in Pub, pub[p].key = k, Solo(p)' PROVE FALSE
  <2>1. Solo(p)
    BY <1>13, Zenon DEF Solo
  <2> QED
    BY <1>1, <1>10, <1>13, <2>1, Zenon DEF SoloOK, WaitOK
<1>14. \A p \in Pub : pub[p].key = k /\ Solo(p)' => QuietOK(p)' /\ WaitOK(broker.rooms, p)'
  BY <1>13, Zenon
<1> QED
  BY <1>6, <1>8, <1>9, <1>11, <1>12, <1>14, LocalStep, Zenon

\* notify_waiters moves the publishers that wait on id back to their check.
LEMMA WokenFields ==
  ASSUME pub \in [Pub -> PubType], NEW id, pub' = Woken(id)
  PROVE  /\ pub' \in [Pub -> PubType]
         /\ \A p \in Pub : /\ pub'[p].key = pub[p].key /\ pub'[p].notify = pub[p].notify
                           /\ pub'[p].aged = pub[p].aged
         /\ \A p \in Pub : ~(pub[p].pc = "waiting" /\ pub[p].notify = id) => pub'[p] = pub[p]
         /\ \A p \in Pub : pub[p].pc = "waiting" /\ pub[p].notify = id => pub'[p].pc = "checking"
<1>1. \A p \in Pub : pub[p] \in PubType
  OBVIOUS
<1>2. pub' = [p \in Pub |-> IF pub[p].pc = "waiting" /\ pub[p].notify = id
                            THEN [pub[p] EXCEPT !.pc = "checking"] ELSE pub[p]]
  BY Zenon DEF Woken
<1>3. ASSUME NEW p \in Pub
      PROVE  /\ pub'[p] \in PubType /\ pub'[p].key = pub[p].key
             /\ pub'[p].notify = pub[p].notify /\ pub'[p].aged = pub[p].aged
             /\ ~(pub[p].pc = "waiting" /\ pub[p].notify = id) => pub'[p] = pub[p]
             /\ pub[p].pc = "waiting" /\ pub[p].notify = id => pub'[p].pc = "checking"
  <2>1. CASE pub[p].pc = "waiting" /\ pub[p].notify = id
    <3>1. pub'[p] = [pub[p] EXCEPT !.pc = "checking"]
      BY <1>2, <2>1, Zenon
    <3>2. pub[p] \in PubType
      BY <1>1, Zenon
    <3>3. PICK v : v = pub[p]
      BY Zenon
    <3>4. PICK w : w = pub'[p]
      BY Zenon
    <3>5. v \in PubType /\ w = [v EXCEPT !.pc = "checking"]
      BY <3>1, <3>2, <3>3, <3>4, Zenon
    <3>6. w \in PubType /\ w.key = v.key /\ w.notify = v.notify /\ w.aged = v.aged /\ w.pc = "checking"
      BY <3>5 DEF PubType
    <3> QED
      BY <2>1, <3>3, <3>4, <3>6, Zenon
  <2>2. CASE ~(pub[p].pc = "waiting" /\ pub[p].notify = id)
    <3>1. pub'[p] = pub[p]
      BY <1>2, <2>2, Zenon
    <3> QED
      BY <1>1, <2>2, <3>1, Zenon
  <2> QED
    BY <2>1, <2>2, Zenon
<1>4. DOMAIN pub' = Pub /\ pub' = [p \in Pub |-> pub'[p]]
  BY <1>2
<1>5. pub' \in [Pub -> PubType]
  BY <1>3, <1>4, Zenon
<1> QED
  BY <1>3, <1>5, Zenon

\* The permits of those who wait survive the creation of a room.
LEMMA PermitsKept ==
  ASSUME ChoicesOK, NEW b, Good(b.rooms), NEW k
  PROVE  \A q \in Pub : Awaiting(q) /\ pub[q].notify \in permits => pub[q].notify \in PermitsFor(b, k)
BY FreshFacts, Zenon DEF PermitsFor

\* subscribe() to a room that is not finished: the stream joins it, and wakes
\* whoever waits.
LEMMA JoinOK ==
  ASSUME ChoicesOK, NEW b, Good(b.rooms), NEW s \in Sub, sub[s].pc = "new", NEW k \in Key, k = sub[s].key,
         NEW e, EntryOf(b, k, e), NEW r, RoomOK(r, count[k]), SameRoom(r, e), ~Finished(r),
         NEW t, Attended(t, r, r.subs \cup {s}, 0),
         NEW u, Snapshot(u, k, r.log, count[k], "open"), sub' = [sub EXCEPT ![s] = u],
         Has(k, b, broker', t), pub' = Woken(r.notify),
         permits' = PermitsFor(b, k) \cup {r.notify}, count' = count
  PROVE  IInv'
<1>1. StreamsOK /\ TableOK(b.rooms) /\ NotifyOK(b.rooms) /\ SoloOK(b.rooms)
  BY Zenon DEF Good
<1>2. pub \in [Pub -> PubType] /\ count \in [Key -> Nat] /\ count[k] \in Nat
  BY <1>1 DEF StreamsOK
<1>3. LogOK(r.log, count[k]) /\ r.subs \subseteq Sub
  BY Zenon DEF RoomOK, RoomRecord
<1>4. StreamOK(u) /\ u.key = k /\ u.end = "open" /\ u.pc = "sending" /\ After(u) = count[k] + 1
  <2>1. "open" \in {"open", "closed"}
    OBVIOUS
  <2> QED
    BY <1>2, <1>3, <2>1, NewStream, Zenon
<1>5. /\ pub' \in [Pub -> PubType]
      /\ \A p \in Pub : /\ pub'[p].key = pub[p].key /\ pub'[p].notify = pub[p].notify
                        /\ pub'[p].aged = pub[p].aged
      /\ \A p \in Pub : ~(pub[p].pc = "waiting" /\ pub[p].notify = r.notify) => pub'[p] = pub[p]
      /\ \A p \in Pub : pub[p].pc = "waiting" /\ pub[p].notify = r.notify => pub'[p].pc = "checking"
  <2> DEFINE id == r.notify
  <2>1. pub' = Woken(id)
    BY Zenon
  <2> HIDE DEF id
  <2>2. /\ pub' \in [Pub -> PubType]
        /\ \A p \in Pub : /\ pub'[p].key = pub[p].key /\ pub'[p].notify = pub[p].notify
                          /\ pub'[p].aged = pub[p].aged
        /\ \A p \in Pub : ~(pub[p].pc = "waiting" /\ pub[p].notify = id) => pub'[p] = pub[p]
        /\ \A p \in Pub : pub[p].pc = "waiting" /\ pub[p].notify = id => pub'[p].pc = "checking"
    BY <1>2, <2>1, WokenFields, Zenon
  <2> QED
    BY <2>2, Zenon DEF id
<1>6. StreamsOK' /\ sub'[s] = u /\ \A x \in Sub : x # s => sub'[x] = sub[x]
  BY <1>1, <1>2, <1>4, <1>5, OneStream, Zenon
<1>7. /\ broker' = [rooms |-> broker'.rooms, total |-> broker'.total]
      /\ Elsewhere(k, b.rooms, broker'.rooms) /\ k \in DOMAIN broker'.rooms
      /\ broker'.rooms[k] = t
  BY Zenon DEF Has
<1>8. OwnNotify(b.rooms, k, r.notify)
  BY Zenon DEF EntryOf, SameRoom
<1>9. /\ t.subs = r.subs \cup {s} /\ t.notify = r.notify /\ ~Finished(t) /\ RoomOK(t, count[k])
  <2> DEFINE S == r.subs \cup {s}
  <2>1. S \subseteq Sub /\ 0 \in Nat /\ Attended(t, r, S, 0)
    BY <1>3
  <2> HIDE DEF S
  <2>2. AttendedAs(t, r, S, 0)
    BY <2>1, AttendedFields, Zenon
  <2>3. RoomOK(t, count[k])
    BY <2>1, AttendedRoom, Zenon
  <2> QED
    BY <2>2, <2>3, Zenon DEF AttendedAs, S
<1>10. \A q \in Pub : pub[q].key # k => pub'[q] = pub[q]
  BY <1>5, <1>8, Zenon DEF OwnNotify, Awaiting
<1>11. Local(k, b.rooms)
  <2>1. \A q \in Pub : Awaiting(q) /\ pub[q].notify \in permits => pub[q].notify \in permits'
    BY PermitsKept, Zenon
  <2> QED
    BY <1>4, <1>5, <1>6, <1>7, <1>10, <2>1, Zenon DEF Local, Elsewhere
<1>12. k \in DOMAIN b.rooms => r.subs = b.rooms[k].subs /\ r.notify = b.rooms[k].notify
  BY Zenon DEF EntryOf, SameRoom
<1>13. k \notin DOMAIN b.rooms => r.subs = {}
  BY Zenon DEF EntryOf, SameRoom
<1>14. \A x \in r.subs : x \in Sub /\ sub[x].key = k /\ Live(sub[x]) /\ x # s
  <2>1. ~Live(sub[s])
    BY DEF Live
  <2> QED
    BY <1>1, <1>3, <1>12, <1>13, <2>1, Zenon DEF TableOK, MembersOK
<1>15. Live(u)
  BY <1>4 DEF Live
<1>16. /\ RoomOK(broker'.rooms[k], count'[k]) /\ MembersOK(broker.rooms, k)'
       /\ OwnNotify(b.rooms, k, broker'.rooms[k].notify)
  <2>1. MembersOK(broker.rooms, k)'
    <3>1. \A x \in r.subs : sub'[x] = sub[x]
      BY <1>6, <1>14, Zenon
    <3>2. \A x \in r.subs \cup {s} : sub'[x].key = k /\ Live(sub'[x])
      BY <1>4, <1>6, <1>14, <1>15, <3>1, Zenon
    <3> QED
      BY <1>7, <1>9, <3>2, Zenon DEF MembersOK, Live
  <2> QED
    BY <1>7, <1>8, <1>9, <2>1, Zenon
<1>17. ASSUME NEW x \in Sub, sub[x].key = k PROVE PresentOK(broker.rooms, x)'
  <2>1. CASE x = s
    BY <1>4, <1>6, <1>7, <1>9, <2>1, Zenon DEF PresentOK, After
  <2>2. CASE x # s
    <3>1. PresentOK(b.rooms, x)
      BY <1>1, Zenon DEF TableOK
    <3>2. sub'[x] = sub[x]
      BY <1>6, <2>2, Zenon
    <3>3. Live(sub[x]) => k \in DOMAIN broker'.rooms /\ x \in broker'.rooms[k].subs
                          /\ After(sub[x]) = count[k] + 1
      BY <1>7, <1>9, <1>12, <1>17, <3>1, Zenon DEF PresentOK
    <3> QED
      BY <1>17, <3>2, <3>3, Zenon DEF PresentOK, Live, After
  <2> QED
    BY <2>1, <2>2, Zenon
<1>18. \A p \in Pub : Awaiting(p)' => Awaiting(p)
  BY <1>5 DEF Awaiting
<1>19. \A p \in Pub : pub[p].key = k /\ Awaiting(p)' => OwnNotify(b.rooms, k, pub'[p].notify)
  BY <1>1, <1>5, <1>18, Zenon DEF NotifyOK
<1>20. ASSUME NEW p \in Pub, pub[p].key = k, Solo(p)'
       PROVE  QuietOK(p)' /\ WaitOK(broker.rooms, p)'
  <2>1. Solo(p)
    BY <1>5, <1>20 DEF Solo
  <2>2. QuietOK(p) /\ WaitOK(b.rooms, p)
    BY <1>1, <2>1, Zenon DEF SoloOK
  <2>3. QuietOK(p)'
    <3>1. pub'[p].key = pub[p].key
      BY <1>5, Zenon
    <3>2. \A x \in Sub : sub'[x].key = k => sub'[x].pc \in {"new", "refused"}
                           \/ (sub'[x].pc = "sending" /\ sub'[x].end = "open")
      BY <1>4, <1>6, <1>20, <2>2, Zenon DEF QuietOK
    <3> QED
      BY <1>20, <2>2, <3>1, <3>2, Zenon DEF QuietOK
  <2>4. Awaiting(p) => pub[p].notify = r.notify
    BY <1>12, <1>20, <2>2, Zenon DEF WaitOK
  <2>5. Awaiting(p)' => pub'[p].notify = t.notify /\ pub'[p].notify \in permits'
    BY <1>5, <1>9, <1>18, <2>4, Zenon
  <2>6. pub'[p].pc # "waiting"
    BY <1>5, <2>4 DEF Awaiting
  <2>7. t.subs # {} /\ pub'[p].key = k
    BY <1>5, <1>9, <1>20, Zenon
  <2>8. pub'[p].pc = "arming" => Awaiting(p)'
    BY Zenon DEF Awaiting
  <2>9. WaitOK(broker.rooms, p)'
    BY <1>7, <1>9, <2>5, <2>6, <2>7, <2>8, Zenon DEF WaitOK
  <2> QED
    BY <2>3, <2>9, Zenon
<1> QED
  BY <1>6, <1>11, <1>16, <1>17, <1>19, <1>20, LocalStep, Zenon

\* subscribe(): refused, served from a finished room, or joined to a live one.
LEMMA SubscribeOK ==
  ASSUME ChoicesOK, IInv, NEW s \in Sub, Subscribe(s)
  PROVE  IInv'
<1>1. PICK b : b = PurgeRooms(broker)
  BY Zenon
<1>2. Good(b.rooms) /\ b = [rooms |-> b.rooms, total |-> b.total]
  BY <1>1, PurgeGood, PurgeRecord, Zenon
<1>3. sub \in [Sub -> SubType] /\ count \in [Key -> Nat]
  BY <1>2, Zenon DEF Good, StreamsOK
<1>4. PICK k \in Key : k = sub[s].key
  BY <1>3 DEF SubType
<1>5. PICK e : e = Entry(b, k)
  BY Zenon
<1>6. PICK r : r = PurgeBacklog(e)
  BY Zenon
<1>7. EntryOf(b, k, e) /\ RoomOK(e, count[k]) /\ count[k] \in Nat
  BY <1>2, <1>3, <1>5, EntryFacts DEF EntryOf
<1>8. RoomOK(r, count[k]) /\ SameRoom(r, e)
  BY <1>6, <1>7, PurgedBacklog, Zenon
<1>9. sub[s].pc = "new" /\ count' = count
  BY Zenon DEF Subscribe
<1>10. CASE Full(b, k)
  <2>1. PICK u : u = [sub[s] EXCEPT !.pc = "refused"] /\ Moved(u, sub[s], "refused")
    BY Zenon DEF Moved
  <2>2. /\ broker' = b /\ sub' = [sub EXCEPT ![s].pc = "refused"]
        /\ pub' = pub /\ permits' = permits
    BY <1>1, <1>4, <1>10, Zenon DEF Subscribe
  <2>3. sub' = [sub EXCEPT ![s] = u]
    <3>1. u = [sub[s] EXCEPT !.pc = "refused"] /\ sub' = [sub EXCEPT ![s].pc = "refused"]
      BY <2>1, <2>2, Zenon
    <3> QED
      BY <1>3, <3>1
  <2>4. Moved(u, sub[s], "refused") /\ broker' = b /\ pub' = pub /\ permits' = permits
    BY <2>1, <2>2, Zenon
  <2> QED
    BY <1>2, <1>9, <2>3, <2>4, RefusedOK, Zenon
<1>11. CASE ~Full(b, k) /\ Finished(r)
  <2>1. PICK u : Snapshot(u, k, r.log, count[k], "closed")
    BY Zenon DEF Snapshot
  <2>2. /\ broker' = PutRoom(b, k, r, SaturatingSub(b.total, Freed(e)))
        /\ sub' = [sub EXCEPT ![s] = u] /\ pub' = pub /\ permits' = permits
    BY <1>1, <1>4, <1>5, <1>6, <1>11, <2>1, Zenon DEF Subscribe, Snapshot
  <2>3. Has(k, b, broker', r)
    BY <2>2, PutRoomTable, Zenon
  <2>4. k \in DOMAIN b.rooms /\ SameRoom(r, b.rooms[k])
    BY <1>7, <1>8, <1>11, Zenon DEF EntryOf, SameRoom, Finished
  <2> QED
    BY <1>2, <1>4, <1>8, <1>9, <1>11, <2>1, <2>2, <2>3, <2>4, ReplayOK, Zenon
<1>12. CASE ~Full(b, k) /\ ~Finished(r)
  <2>1. PICK u : Snapshot(u, k, r.log, count[k], "open")
    BY Zenon DEF Snapshot
  <2>2. PICK t : Attended(t, r, r.subs \cup {s}, 0)
    BY Zenon DEF Attended
  <2>3. t = [r EXCEPT !.act = 0, !.subs = r.subs \cup {s}]
    <3>1. r \in RoomRecord({r.bytes})
      BY <1>8, Zenon DEF RoomOK
    <3> QED
      BY <2>2, <3>1, Zenon DEF Attended, RoomRecord
  <2>4. /\ broker' = PutRoom(b, k, t, SaturatingSub(b.total, Freed(e)))
        /\ sub' = [sub EXCEPT ![s] = u] /\ pub' = Woken(r.notify)
        /\ permits' = NotifyOne(PermitsFor(b, k), r.notify)
    BY <1>1, <1>4, <1>5, <1>6, <1>12, <2>1, <2>3, Zenon DEF Subscribe, Snapshot
  <2>5. Has(k, b, broker', t) /\ permits' = PermitsFor(b, k) \cup {r.notify}
    BY <2>4, PutRoomTable, Zenon DEF NotifyOne
  <2> QED
    BY <1>2, <1>4, <1>7, <1>8, <1>9, <1>12, <2>1, <2>2, <2>4, <2>5, JoinOK, Zenon
<1> QED
  BY <1>10, <1>11, <1>12, Zenon

-----------------------------------------------------------------------------
(* Publish streams. *)

\* A publisher whose wait is over moves to w.
Leaves(p, w) ==
  w \in {"unmet", "publishing", "finishing", "ended"} /\ pub' = [pub EXCEPT ![p].pc = w]

\* Then nobody waits alone on its key.
LEMMA LeavesFields ==
  ASSUME pub \in [Pub -> PubType], NEW p \in Pub, NEW w, Leaves(p, w)
  PROVE  /\ pub' \in [Pub -> PubType]
         /\ \A q \in Pub : pub'[q].key = pub[q].key /\ (q # p => pub'[q] = pub[q])
         /\ \A q \in Pub : Awaiting(q)' => Awaiting(q) /\ pub'[q] = pub[q]
         /\ \A q \in Pub : pub[q].key = pub[p].key => ~Solo(q)'
<1>1. PICK v : v = [pub[p] EXCEPT !.pc = w]
  BY Zenon
<1>2. pub' = [pub EXCEPT ![p] = v] /\ pub[p] \in PubType
  BY <1>1, Zenon DEF Leaves
<1>3. w \in {"unmet", "publishing", "finishing", "ended"}
  BY Zenon DEF Leaves
<1>4. v \in PubType /\ v.key = pub[p].key /\ v.pc = w
  <2>1. PICK a : a = pub[p]
    BY Zenon
  <2>2. a \in PubType /\ v = [a EXCEPT !.pc = w]
    BY <1>1, <1>2, <2>1, Zenon
  <2>3. v \in PubType /\ v.key = a.key /\ v.pc = w
    BY <1>3, <2>2 DEF PubType
  <2> QED
    BY <2>1, <2>3, Zenon
<1>5. pub' \in [Pub -> PubType] /\ pub'[p] = v /\ \A q \in Pub : q # p => pub'[q] = pub[q]
  BY <1>2, <1>4, Zenon
<1>6. \A q \in Pub : pub'[q].key = pub[q].key
  BY <1>4, <1>5, Zenon
<1>7. w \notin {"new", "checking", "arming", "waiting"} /\ w # "new" /\ w \notin {"arming", "waiting"}
  BY <1>3
<1>8. ASSUME NEW q \in Pub, Awaiting(q)' PROVE Awaiting(q) /\ pub'[q] = pub[q]
  <2>1. q # p
    BY <1>4, <1>5, <1>7, <1>8, Zenon DEF Awaiting
  <2> QED
    BY <1>5, <1>8, <2>1, Zenon DEF Awaiting
<1>9. ASSUME NEW q \in Pub, pub[q].key = pub[p].key PROVE ~Solo(q)'
  <2>1. CASE q = p
    BY <1>4, <1>5, <1>7, <2>1, Zenon DEF Solo
  <2>2. CASE q # p
    BY <1>4, <1>5, <1>6, <1>7, <1>9, <2>2, Zenon DEF Solo
  <2> QED
    BY <2>1, <2>2, Zenon
<1> QED
  BY <1>5, <1>6, <1>8, <1>9, Zenon

\* A publisher leaves its wait, and the step touches the room and the streams of
\* its key only.
LEMMA LeaveStep ==
  ASSUME NEW k \in Key, NEW rs, Good(rs), NEW p \in Pub, pub[p].key = k, NEW w, Leaves(p, w),
         broker' = [rooms |-> broker'.rooms, total |-> broker'.total],
         Elsewhere(k, rs, broker'.rooms), permits' = permits, count' = count,
         sub' \in [Sub -> SubType],
         \A x \in Sub : /\ StreamOK(sub'[x]) /\ sub'[x].key = sub[x].key
                        /\ sub[x].key # k => sub'[x] = sub[x],
         k \in DOMAIN broker'.rooms =>
           /\ RoomOK(broker'.rooms[k], count'[k]) /\ MembersOK(broker.rooms, k)'
           /\ OwnNotify(rs, k, broker'.rooms[k].notify),
         \A x \in Sub : sub[x].key = k => PresentOK(broker.rooms, x)'
  PROVE  IInv'
<1>1. StreamsOK /\ NotifyOK(rs) /\ pub \in [Pub -> PubType]
  BY Zenon DEF Good, StreamsOK
<1>2. /\ pub' \in [Pub -> PubType]
      /\ \A q \in Pub : pub'[q].key = pub[q].key /\ (q # p => pub'[q] = pub[q])
      /\ \A q \in Pub : Awaiting(q)' => Awaiting(q) /\ pub'[q] = pub[q]
      /\ \A q \in Pub : pub[q].key = k => ~Solo(q)'
  BY <1>1, LeavesFields, Zenon
<1>3. StreamsOK'
  BY <1>1, <1>2, Zenon DEF StreamsOK
<1>4. \A q \in Pub : pub[q].key # k => pub'[q] = pub[q]
  BY <1>2, Zenon
<1>5. Local(k, rs)
  BY <1>2, <1>4, Zenon DEF Local, Elsewhere
<1>6. \A q \in Pub : pub[q].key = k /\ Awaiting(q)' => OwnNotify(rs, k, pub'[q].notify)
  BY <1>1, <1>2, Zenon DEF NotifyOK
<1>7. \A q \in Pub : pub[q].key = k /\ Solo(q)' => QuietOK(q)' /\ WaitOK(broker.rooms, q)'
  BY <1>2, Zenon
<1> QED
  BY <1>3, <1>5, <1>6, <1>7, LocalStep, Zenon

\* A publisher leaves its wait, and at most a room without subscribers goes.
LEMMA LeaveQuietly ==
  ASSUME NEW k \in Key, NEW rs, Good(rs), NEW p \in Pub, pub[p].key = k, NEW w, Leaves(p, w),
         broker' = [rooms |-> broker'.rooms, total |-> broker'.total],
         Elsewhere(k, rs, broker'.rooms),
         k \in DOMAIN broker'.rooms => k \in DOMAIN rs /\ broker'.rooms[k] = rs[k],
         k \in DOMAIN rs /\ k \notin DOMAIN broker'.rooms => rs[k].subs = {},
         permits' = permits, count' = count, sub' = sub
  PROVE  IInv'
<1>1. StreamsOK /\ TableOK(rs) /\ NotifyOK(rs)
  BY Zenon DEF Good
<1>2. /\ sub' \in [Sub -> SubType]
      /\ \A x \in Sub : /\ StreamOK(sub'[x]) /\ sub'[x].key = sub[x].key
                        /\ sub[x].key # k => sub'[x] = sub[x]
  BY <1>1, Zenon DEF StreamsOK
<1>3. ASSUME k \in DOMAIN broker'.rooms
      PROVE  /\ RoomOK(broker'.rooms[k], count'[k]) /\ MembersOK(broker.rooms, k)'
             /\ OwnNotify(rs, k, broker'.rooms[k].notify)
  <2>1. /\ k \in DOMAIN rs /\ broker'.rooms[k] = rs[k] /\ RoomOK(rs[k], count[k])
        /\ MembersOK(rs, k) /\ OwnNotify(rs, k, rs[k].notify)
    BY <1>1, <1>3, Zenon DEF TableOK, NotifyOK
  <2> QED
    BY <2>1, Zenon DEF MembersOK, Live
<1>4. ASSUME NEW x \in Sub, sub[x].key = k PROVE PresentOK(broker.rooms, x)'
  <2>1. PresentOK(rs, x)
    BY <1>1, Zenon DEF TableOK
  <2>2. Live(sub[x]) => k \in DOMAIN broker'.rooms /\ x \in broker'.rooms[k].subs
                        /\ After(sub[x]) = count[k] + 1
    BY <1>4, <2>1, Zenon DEF PresentOK
  <2> QED
    BY <1>4, <2>2, Zenon DEF PresentOK, Live, After
<1> QED
  BY <1>2, <1>3, <1>4, LeaveStep, Zenon

\* A step that keeps the table.
LEMMA SameTable ==
  ASSUME NEW k, NEW rs, NEW a, a = [rooms |-> a.rooms, total |-> a.total], a.rooms = rs
  PROVE  /\ Elsewhere(k, rs, a.rooms) /\ (k \in DOMAIN a.rooms => k \in DOMAIN rs /\ a.rooms[k] = rs[k])
         /\ (k \in DOMAIN rs /\ k \notin DOMAIN a.rooms => rs[k].subs = {})
BY Zenon DEF Elsewhere

\* The grace period ends, or a record is too large.
LEMMA GraceOrRejectOK ==
  ASSUME IInv, NEW p \in Pub, GraceExpires(p) \/ \E b \in Sizes : RejectTooLarge(p, b)
  PROVE  IInv'
<1>1. PICK rs : rs = broker.rooms /\ Good(rs) /\ broker = [rooms |-> broker.rooms, total |-> broker.total]
  BY Zenon DEF IInv
<1>2. pub \in [Pub -> PubType]
  BY <1>1, Zenon DEF Good, StreamsOK
<1>3. PICK k \in Key : pub[p].key = k
  BY <1>2 DEF PubType
<1>4. PICK w : /\ w \in {"unmet", "finishing"} /\ pub' = [pub EXCEPT ![p].pc = w]
               /\ broker' = broker /\ sub' = sub /\ permits' = permits /\ count' = count
  BY Zenon DEF GraceExpires, RejectTooLarge, Goto
<1>5. w \in {"unmet", "publishing", "finishing", "ended"}
  BY <1>4
<1>6. Leaves(p, w) /\ broker' = [rooms |-> broker'.rooms, total |-> broker'.total]
      /\ broker'.rooms = rs
  BY <1>1, <1>4, <1>5, Zenon DEF Leaves
<1>7. /\ Elsewhere(k, rs, broker'.rooms)
      /\ (k \in DOMAIN broker'.rooms => k \in DOMAIN rs /\ broker'.rooms[k] = rs[k])
      /\ (k \in DOMAIN rs /\ k \notin DOMAIN broker'.rooms => rs[k].subs = {})
  BY <1>6, SameTable, Zenon
<1> QED
  BY <1>1, <1>3, <1>4, <1>6, <1>7, LeaveQuietly, Zenon

\* drop_empty_unfinished_room
LEMMA DropEmptyRoomOK ==
  ASSUME IInv, NEW p \in Pub, DropEmptyRoom(p)
  PROVE  IInv'
<1>1. PICK rs : rs = broker.rooms /\ Good(rs) /\ broker = [rooms |-> broker.rooms, total |-> broker.total]
  BY Zenon DEF IInv
<1>2. pub \in [Pub -> PubType]
  BY <1>1, Zenon DEF Good, StreamsOK
<1>3. PICK k \in Key : pub[p].key = k
  BY <1>2 DEF PubType
<1>4. /\ broker' = IF k \in DOMAIN broker.rooms /\ Unused(broker.rooms[k])
                   THEN RemoveRoom(broker, k) ELSE broker
      /\ pub' = [pub EXCEPT ![p].pc = "publishing"]
      /\ sub' = sub /\ permits' = permits /\ count' = count
  BY <1>3, Zenon DEF DropEmptyRoom, Goto
<1>5. "publishing" \in {"unmet", "publishing", "finishing", "ended"}
  OBVIOUS
<1>6. Leaves(p, "publishing")
  BY <1>4, <1>5, Zenon DEF Leaves
<1>7. /\ broker' = [rooms |-> broker'.rooms, total |-> broker'.total]
      /\ Elsewhere(k, rs, broker'.rooms)
      /\ (k \in DOMAIN broker'.rooms => k \in DOMAIN rs /\ broker'.rooms[k] = rs[k])
      /\ (k \in DOMAIN rs /\ k \notin DOMAIN broker'.rooms => rs[k].subs = {})
  <2>1. CASE k \in DOMAIN broker.rooms /\ Unused(broker.rooms[k])
    <3>1. broker' = RemoveRoom(broker, k) /\ rs[k].subs = {}
      BY <1>1, <1>4, <2>1, Zenon DEF Unused
    <3>2. Lacks(k, broker, broker')
      BY <1>1, <3>1, RemoveRoomTable, Zenon
    <3> QED
      BY <1>1, <3>1, <3>2, Zenon DEF Lacks
  <2>2. CASE ~(k \in DOMAIN broker.rooms /\ Unused(broker.rooms[k]))
    <3>1. broker' = broker
      BY <1>4, <2>2, Zenon
    <3>2. broker' = [rooms |-> broker'.rooms, total |-> broker'.total] /\ broker'.rooms = rs
      BY <1>1, <3>1, Zenon
    <3> QED
      BY <3>2, SameTable, Zenon
  <2> QED
    BY <2>1, <2>2, Zenon
<1> QED
  BY <1>1, <1>3, <1>4, <1>6, <1>7, LeaveQuietly, Zenon

\* A live stream whose room goes has a complete snapshot.
Ended(t, u, c) == t = [u EXCEPT !.end = "closed", !.upto = c]

\* A live stream is complete when its room closes.
LEMMA EndedStream ==
  ASSUME NEW u, StreamOK(u), Live(u), NEW c \in Nat, After(u) = c + 1, NEW t, Ended(t, u, c)
  PROVE  StreamOK(t) /\ t.key = u.key /\ ~Live(t)
<1>1. u \in SubType /\ "closed" \in {"open", "lagged", "closed", "left"} /\ "closed" # "open"
  BY DEF StreamOK
<1>2. /\ t \in SubType /\ t.got = u.got /\ t.todo = u.todo /\ t.q = u.q /\ t.from = u.from
      /\ t.upto = c /\ t.key = u.key /\ t.end = "closed" /\ t.pc = u.pc
  BY <1>1, Zenon DEF SubType, Ended
<1>3. After(t) = t.upto + 1
  BY <1>2, Zenon DEF After
<1>4. RunOK(t)
  BY <1>2, Zenon DEF StreamOK, RunOK
<1> QED
  BY <1>1, <1>2, <1>3, <1>4, Zenon DEF StreamOK, Live

\* The publisher's room ends, and its subscribers' queues are closed.
LEMMA EndRoom ==
  ASSUME NEW k \in Key, NEW rs, Good(rs), NEW p \in Pub, pub[p].key = k, Leaves(p, "ended"),
         broker' = [rooms |-> broker'.rooms, total |-> broker'.total],
         Elsewhere(k, rs, broker'.rooms),
         k \in DOMAIN broker'.rooms =>
           /\ k \in DOMAIN rs /\ RoomOK(broker'.rooms[k], count[k])
           /\ broker'.rooms[k].subs = {} /\ broker'.rooms[k].notify = rs[k].notify,
         sub' = IF k \in DOMAIN rs THEN Closed(rs[k].subs, k) ELSE sub,
         permits' = permits, count' = count
  PROVE  IInv'
<1>1. StreamsOK /\ TableOK(rs) /\ NotifyOK(rs)
  BY Zenon DEF Good
<1>2. count[k] \in Nat /\ sub \in [Sub -> SubType] /\ \A x \in Sub : StreamOK(sub[x])
  BY <1>1 DEF StreamsOK
<1>3. ASSUME NEW x \in Sub
      PROVE  /\ StreamOK(sub'[x]) /\ sub'[x].key = sub[x].key
             /\ sub[x].key # k => sub'[x] = sub[x]
             /\ sub[x].key = k => ~Live(sub'[x])
  <2>1. PresentOK(rs, x) /\ StreamOK(sub[x])
    BY <1>1, <1>2, Zenon DEF TableOK
  <2>2. CASE k \in DOMAIN rs /\ x \in rs[k].subs
    <3>1. sub[x].key = k /\ Live(sub[x])
      BY <1>1, <2>2, Zenon DEF TableOK, MembersOK
    <3>2. After(sub[x]) = count[k] + 1
      BY <2>1, <3>1, Zenon DEF PresentOK
    <3>3. sub' = Closed(rs[k].subs, k)
      BY <2>2, Zenon
    <3>4. sub'[x] = [sub[x] EXCEPT !.end = "closed", !.upto = count[k]]
      BY <2>2, <3>3, Zenon DEF Closed
    <3>5. Ended(sub'[x], sub[x], count[k])
      BY <3>4, Zenon DEF Ended
    <3>6. StreamOK(sub'[x]) /\ sub'[x].key = sub[x].key /\ ~Live(sub'[x])
      <4> DEFINE c == count[k]
                 u == sub[x]
      <4>1. c \in Nat /\ StreamOK(u) /\ Live(u) /\ After(u) = c + 1 /\ Ended(sub'[x], u, c)
        BY <1>2, <2>1, <3>1, <3>2, <3>5, Zenon
      <4> HIDE DEF c, u
      <4>2. StreamOK(sub'[x]) /\ sub'[x].key = u.key /\ ~Live(sub'[x])
        BY <4>1, EndedStream, Zenon
      <4> QED
        BY <4>2, Zenon DEF u
    <3> QED
      BY <3>1, <3>6, Zenon
  <2>3. CASE ~(k \in DOMAIN rs /\ x \in rs[k].subs)
    <3>1. sub'[x] = sub[x]
      BY <2>3, Zenon DEF Closed
    <3>2. sub[x].key = k => ~Live(sub[x])
      BY <2>1, <2>3, Zenon DEF PresentOK
    <3> QED
      BY <2>1, <3>1, <3>2, Zenon
  <2> QED
    BY <2>2, <2>3, Zenon
<1>4. sub' \in [Sub -> SubType]
  <2>1. \A x \in Sub : sub'[x] \in SubType
    BY <1>3, Zenon DEF StreamOK
  <2>2. DOMAIN sub' = Sub /\ sub' = [x \in Sub |-> sub'[x]]
    <3>1. CASE k \in DOMAIN rs
      <4>1. sub' = Closed(rs[k].subs, k)
        BY <3>1, Zenon
      <4> QED
        BY <4>1, Zenon DEF Closed
    <3>2. CASE k \notin DOMAIN rs
      BY <1>2, <3>2
    <3> QED
      BY <3>1, <3>2, Zenon
  <2> QED
    BY <2>1, <2>2, Zenon
<1>5. ASSUME k \in DOMAIN broker'.rooms
      PROVE  /\ RoomOK(broker'.rooms[k], count'[k]) /\ MembersOK(broker.rooms, k)'
             /\ OwnNotify(rs, k, broker'.rooms[k].notify)
  BY <1>1, <1>5, Zenon DEF MembersOK, NotifyOK
<1>6. ASSUME NEW x \in Sub, sub[x].key = k PROVE PresentOK(broker.rooms, x)'
  <2>1. ~Live(sub'[x])
    BY <1>3, <1>6, Zenon
  <2> QED
    BY <2>1, Zenon DEF PresentOK, Live
<1>7. \A x \in Sub : /\ StreamOK(sub'[x]) /\ sub'[x].key = sub[x].key
                     /\ sub[x].key # k => sub'[x] = sub[x]
  BY <1>3, Zenon
<1> QED
  BY <1>4, <1>5, <1>6, <1>7, LeaveStep, Zenon

\* drop_room
LEMMA DropRoomOK ==
  ASSUME IInv, NEW p \in Pub, DropRoom(p)
  PROVE  IInv'
<1>1. PICK rs : rs = broker.rooms /\ Good(rs) /\ broker = [rooms |-> broker.rooms, total |-> broker.total]
  BY Zenon DEF IInv
<1>2. pub \in [Pub -> PubType]
  BY <1>1, Zenon DEF Good, StreamsOK
<1>3. PICK k \in Key : pub[p].key = k
  BY <1>2 DEF PubType
<1>4. /\ broker' = RemoveRoom(broker, k) /\ pub' = [pub EXCEPT ![p].pc = "ended"]
      /\ sub' = IF k \in DOMAIN rs THEN Closed(rs[k].subs, k) ELSE sub
      /\ permits' = permits /\ count' = count
  BY <1>1, <1>3, Zenon DEF DropRoom, Goto
<1>5. "ended" \in {"unmet", "publishing", "finishing", "ended"}
  OBVIOUS
<1>6. Leaves(p, "ended")
  BY <1>4, <1>5, Zenon DEF Leaves
<1>7. Lacks(k, broker, broker')
  BY <1>1, <1>4, RemoveRoomTable, Zenon
<1>8. /\ broker' = [rooms |-> broker'.rooms, total |-> broker'.total]
      /\ Elsewhere(k, rs, broker'.rooms) /\ k \notin DOMAIN broker'.rooms
  BY <1>1, <1>7, Zenon DEF Lacks
<1>9. /\ permits' = permits /\ count' = count
      /\ sub' = IF k \in DOMAIN rs THEN Closed(rs[k].subs, k) ELSE sub
  BY <1>4, Zenon
<1> QED
  BY <1>1, <1>3, <1>6, <1>8, <1>9, EndRoom, Zenon

\* finish_room retains a room without its subscribers.
FinishedAs(t, r) == t = [[r EXCEPT !.subs = {}] EXCEPT !.fin = 0, !.act = 0]

\* Such a room is good.
FinishedWell(t, r, c) == RoomOK(t, c) /\ t.subs = {} /\ t.notify = r.notify /\ t.fin = 0

\* mark_room_finished() keeps the log and lets the subscribers go.
LEMMA FinishedRoom ==
  ASSUME NEW c, NEW r, RoomOK(r, c), NEW t, FinishedAs(t, r)
  PROVE  FinishedWell(t, r, c)
<1>1. r \in RoomRecord({r.bytes}) /\ LogOK(r.log, c)
  BY Zenon DEF RoomOK
<1>2. PICK a : a = [r EXCEPT !.subs = {}]
  BY Zenon
<1>3. a \in RoomRecord({r.bytes}) /\ a.notify = r.notify /\ a.log = r.log /\ a.subs = {}
  BY <1>1, <1>2 DEF RoomRecord
<1>4. t = [a EXCEPT !.fin = 0, !.act = 0]
  BY <1>2, Zenon DEF FinishedAs
<1>5. /\ t \in RoomRecord({r.bytes}) /\ t.notify = a.notify /\ t.log = a.log /\ t.subs = {}
      /\ t.fin = 0
  <2>1. 0 \in Nat
    OBVIOUS
  <2> QED
    BY <1>3, <1>4, <2>1, Zenon DEF RoomRecord
<1>6. t.bytes = r.bytes
  BY <1>5 DEF RoomRecord
<1> QED
  BY <1>1, <1>3, <1>5, <1>6, Zenon DEF RoomOK, FinishedWell

\* finish_room
LEMMA FinishOK ==
  ASSUME ChoicesOK, IInv, NEW p \in Pub, Finish(p)
  PROVE  IInv'
<1>1. PICK b : b = PurgeRooms(broker)
  BY Zenon
<1>2. Good(b.rooms) /\ b = [rooms |-> b.rooms, total |-> b.total]
  BY <1>1, PurgeGood, PurgeRecord, Zenon
<1>3. pub \in [Pub -> PubType] /\ count \in [Key -> Nat]
  BY <1>2, Zenon DEF Good, StreamsOK
<1>4. PICK k \in Key : pub[p].key = k
  BY <1>3 DEF PubType
<1>5. PICK r0 : r0 = PurgeBacklog(b.rooms[k])
  BY Zenon
<1>6. PICK t : FinishedAs(t, r0)
  BY Zenon DEF FinishedAs
<1>7. PICK keeps, v :
        /\ keeps => k \in DOMAIN b.rooms
        /\ broker' = IF keeps THEN PutRoom(b, k, t, v) ELSE RemoveRoom(b, k)
        /\ sub' = IF k \in DOMAIN b.rooms THEN Closed(b.rooms[k].subs, k) ELSE sub
        /\ pub' = [pub EXCEPT ![p].pc = "ended"] /\ permits' = permits /\ count' = count
  <2> DEFINE r == [r0 EXCEPT !.subs = {}]
             keeps == k \in DOMAIN b.rooms /\ r.log # <<>>
             v == SaturatingSub(b.total, Freed(b.rooms[k]))
  <2>1. broker' = IF keeps THEN PutRoom(b, k, [r EXCEPT !.fin = 0, !.act = 0], v)
                  ELSE RemoveRoom(b, k)
    BY <1>1, <1>4, <1>5, Zenon DEF Finish
  <2>2. t = [r EXCEPT !.fin = 0, !.act = 0]
    BY <1>6, Zenon DEF FinishedAs
  <2>3. /\ sub' = IF k \in DOMAIN b.rooms THEN Closed(b.rooms[k].subs, k) ELSE sub
        /\ pub' = [pub EXCEPT ![p].pc = "ended"] /\ permits' = permits /\ count' = count
    BY <1>1, <1>4, Zenon DEF Finish, Goto
  <2>4. keeps => k \in DOMAIN b.rooms
    BY Zenon
  <2>5. broker' = IF keeps THEN PutRoom(b, k, t, v) ELSE RemoveRoom(b, k)
    BY <2>1, <2>2, Zenon
  <2> HIDE DEF keeps, v
  <2> QED
    BY <2>3, <2>4, <2>5, Zenon
<1>8. "ended" \in {"unmet", "publishing", "finishing", "ended"}
  OBVIOUS
<1>9. Leaves(p, "ended")
  BY <1>7, <1>8, Zenon DEF Leaves
<1>10. k \in DOMAIN b.rooms =>
         RoomOK(t, count[k]) /\ t.subs = {} /\ t.notify = b.rooms[k].notify
  <2> SUFFICES ASSUME k \in DOMAIN b.rooms
               PROVE  RoomOK(t, count[k]) /\ t.subs = {} /\ t.notify = b.rooms[k].notify
    BY Zenon
  <2>1. RoomOK(b.rooms[k], count[k]) /\ count[k] \in Nat
    BY <1>2, <1>3 DEF Good, TableOK
  <2>2. RoomOK(r0, count[k]) /\ r0.notify = b.rooms[k].notify
    BY <1>5, <2>1, PurgedBacklog, Zenon DEF SameRoom
  <2> QED
    <3>1. RoomOK(r0, count[k]) /\ FinishedAs(t, r0)
      BY <1>6, <2>2, Zenon
    <3>2. FinishedWell(t, r0, count[k])
      BY <3>1, FinishedRoom, Zenon
    <3> QED
      BY <2>2, <3>2, Zenon DEF FinishedWell
<1>11. /\ broker' = [rooms |-> broker'.rooms, total |-> broker'.total]
       /\ Elsewhere(k, b.rooms, broker'.rooms)
       /\ k \in DOMAIN broker'.rooms => k \in DOMAIN b.rooms /\ broker'.rooms[k] = t
  <2>1. CASE keeps
    <3>1. broker' = PutRoom(b, k, t, v) /\ k \in DOMAIN b.rooms
      BY <1>7, <2>1, Zenon
    <3>2. Has(k, b, broker', t)
      BY <3>1, PutRoomTable, Zenon
    <3> QED
      BY <3>1, <3>2, Zenon DEF Has
  <2>2. CASE ~keeps
    <3>1. broker' = RemoveRoom(b, k)
      BY <1>7, <2>2, Zenon
    <3>2. Lacks(k, b, broker')
      BY <1>2, <3>1, RemoveRoomTable, Zenon
    <3> QED
      BY <3>2, Zenon DEF Lacks
  <2> QED
    BY <2>1, <2>2, Zenon
<1>12. k \in DOMAIN broker'.rooms =>
         /\ k \in DOMAIN b.rooms /\ RoomOK(broker'.rooms[k], count[k])
         /\ broker'.rooms[k].subs = {} /\ broker'.rooms[k].notify = b.rooms[k].notify
  BY <1>10, <1>11, Zenon
<1>13. /\ sub' = IF k \in DOMAIN b.rooms THEN Closed(b.rooms[k].subs, k) ELSE sub
       /\ permits' = permits /\ count' = count
  BY <1>7, Zenon
<1> QED
  BY <1>2, <1>4, <1>9, <1>11, <1>12, <1>13, EndRoom, Zenon

\* Timers are no part of the invariant.
LEMMA Unchanged ==
  ASSUME IInv, broker' = broker, pub' = pub, sub' = sub, permits' = permits, count' = count
  PROVE  IInv'
<1>1. PICK rs : rs = broker.rooms /\ Good(rs) /\ broker = [rooms |-> broker.rooms, total |-> broker.total]
  BY Zenon DEF IInv
<1>2. StreamsOK /\ TableOK(rs) /\ NotifyOK(rs) /\ SoloOK(rs)
  BY <1>1, Zenon DEF Good
<1>3. StreamsOK'
  BY <1>2, Zenon DEF StreamsOK
<1>4. (\A s \in Sub : PresentOK(broker.rooms, s)') /\ \A k \in DOMAIN rs : MembersOK(broker.rooms, k)'
  <2>1. (\A s \in Sub : PresentOK(rs, s)) /\ \A k \in DOMAIN rs : MembersOK(rs, k)
    BY <1>2, Zenon DEF TableOK
  <2>2. \A s \in Sub : PresentOK(rs, s) => PresentOK(broker.rooms, s)'
    BY <1>1, Zenon DEF PresentOK, Live, After
  <2>3. \A k : MembersOK(rs, k) => MembersOK(broker.rooms, k)'
    BY <1>1, Zenon DEF MembersOK, Live
  <2> QED
    BY <2>1, <2>2, <2>3, Zenon
<1>5. TableOK(broker.rooms)'
  BY <1>1, <1>2, <1>4, Zenon DEF TableOK
<1>6. \A k, id : OwnNotify(rs, k, id) => OwnNotify(broker.rooms, k, id)'
  BY <1>1, Zenon DEF OwnNotify, Awaiting
<1>7. NotifyOK(broker.rooms)'
  BY <1>1, <1>2, <1>6, Zenon DEF NotifyOK, Awaiting
<1>8. ASSUME NEW p \in Pub, Solo(p)' PROVE QuietOK(p)' /\ WaitOK(broker.rooms, p)'
  <2>1. Solo(p)
    BY <1>8, Zenon DEF Solo
  <2>2. QuietOK(p) /\ WaitOK(rs, p)
    BY <1>2, <2>1, Zenon DEF SoloOK
  <2> QED
    BY <1>1, <2>2, Zenon DEF QuietOK, WaitOK, Awaiting
<1> QED
  BY <1>1, <1>3, <1>5, <1>7, <1>8, Zenon DEF IInv, Good, SoloOK

\* drop_expired_finished_room
LEMMA FireOK ==
  ASSUME IInv, NEW p \in Pub, Fire(p)
  PROVE  IInv'
<1>1. PICK rs : rs = broker.rooms /\ Good(rs) /\ broker = [rooms |-> broker.rooms, total |-> broker.total]
  BY Zenon DEF IInv
<1>2. StreamsOK /\ TableOK(rs) /\ NotifyOK(rs) /\ SoloOK(rs) /\ pub \in [Pub -> PubType]
  BY <1>1, Zenon DEF Good, StreamsOK
<1>3. PICK k \in Key : pub[p].key = k
  BY <1>2 DEF PubType
<1>4. /\ broker' = IF k \in DOMAIN rs /\ rs[k].fin = RoomTtl THEN RemoveRoom(broker, k) ELSE broker
      /\ pub' = pub /\ sub' = sub /\ permits' = permits /\ count' = count
  BY <1>1, <1>3, Zenon DEF Fire
<1>5. CASE ~(k \in DOMAIN rs /\ rs[k].fin = RoomTtl)
  <2>1. broker' = broker
    BY <1>4, <1>5, Zenon
  <2> QED
    BY <1>4, <2>1, Unchanged, Zenon
<1>6. CASE k \in DOMAIN rs /\ rs[k].fin = RoomTtl
  <2>1. Lacks(k, broker, broker')
    BY <1>1, <1>4, <1>6, RemoveRoomTable, Zenon
  <2>2. /\ broker' = [rooms |-> broker'.rooms, total |-> broker'.total]
        /\ Elsewhere(k, rs, broker'.rooms) /\ k \notin DOMAIN broker'.rooms
    BY <1>1, <2>1, Zenon DEF Lacks
  <2>3. Finished(rs[k])
    BY <1>6, BrokerBounds DEF Finished, Never
  <2>4. rs[k].subs = {}
    BY <1>2, <1>6, <2>3, Zenon DEF TableOK, RoomOK
  <2>5. StreamsOK'
    BY <1>2, <1>4, Zenon DEF StreamsOK
  <2>6. Local(k, rs)
    BY <1>4, <2>2, Zenon DEF Local, Elsewhere
  <2>7. \A x \in Sub : sub[x].key = k => PresentOK(broker.rooms, x)'
    <3>1. \A x \in Sub : sub[x].key = k => ~Live(sub[x])
      BY <1>2, <2>4, Zenon DEF TableOK, PresentOK
    <3> QED
      BY <1>4, <3>1, Zenon DEF PresentOK, Live
  <2>8. \A q \in Pub : pub[q].key = k /\ Awaiting(q)' => OwnNotify(rs, k, pub'[q].notify)
    BY <1>2, <1>4, Zenon DEF NotifyOK, Awaiting
  <2>9. \A q \in Pub : pub[q].key = k => ~Solo(q)'
    BY <1>2, <1>4, <1>6, <2>3, Zenon DEF SoloOK, WaitOK, Solo
  <2> QED
    BY <1>1, <2>2, <2>5, <2>6, <2>7, <2>8, <2>9, LocalStep, Zenon
<1> QED
  BY <1>5, <1>6, Zenon

\* One publisher changes.
LEMMA OnePublisher ==
  ASSUME pub \in [Pub -> PubType], NEW p \in Pub, NEW v \in PubType, v.key = pub[p].key,
         pub' = [pub EXCEPT ![p] = v]
  PROVE  /\ pub' \in [Pub -> PubType] /\ pub'[p] = v
         /\ \A q \in Pub : pub'[q].key = pub[q].key /\ (q # p => pub'[q] = pub[q])
<1>1. pub' \in [Pub -> PubType] /\ pub'[p] = v /\ \A q \in Pub : q # p => pub'[q] = pub[q]
  BY Zenon
<1> QED
  BY <1>1, Zenon

\* notified().await takes the permit of its own object only.
LEMMA ArmOK ==
  ASSUME IInv, NEW p \in Pub, Arm(p)
  PROVE  IInv'
<1>1. PICK rs : rs = broker.rooms /\ Good(rs) /\ broker = [rooms |-> broker.rooms, total |-> broker.total]
  BY Zenon DEF IInv
<1>2. StreamsOK /\ TableOK(rs) /\ NotifyOK(rs) /\ SoloOK(rs) /\ pub \in [Pub -> PubType]
  BY <1>1, Zenon DEF Good, StreamsOK
<1>3. PICK k \in Key : pub[p].key = k
  BY <1>2 DEF PubType
<1>4. PICK w : w = IF pub[p].notify \in permits THEN "checking" ELSE "waiting"
  BY Zenon
<1>5. PICK v : v = [pub[p] EXCEPT !.pc = w]
  BY Zenon
<1>6. pub' = [pub EXCEPT ![p] = v]
  BY <1>2, <1>4, <1>5, Zenon DEF Arm, Goto
<1>7. /\ pub[p].pc = "arming" /\ permits' = permits \ {pub[p].notify}
      /\ broker' = broker /\ sub' = sub /\ count' = count
  BY Zenon DEF Arm
<1>8. v \in PubType /\ v.key = k /\ v.pc = w /\ v.notify = pub[p].notify /\ v.aged = pub[p].aged
  <2>1. PICK a : a = pub[p] /\ a \in PubType
    BY <1>2, Zenon
  <2>2. v = [a EXCEPT !.pc = w] /\ w \in {"checking", "waiting"}
    BY <1>4, <1>5, <2>1
  <2>3. v \in PubType /\ v.key = a.key /\ v.pc = w /\ v.notify = a.notify /\ v.aged = a.aged
    BY <2>1, <2>2 DEF PubType
  <2> QED
    BY <1>3, <2>1, <2>3, Zenon
<1>9. /\ pub' \in [Pub -> PubType] /\ pub'[p] = v
      /\ \A q \in Pub : pub'[q].key = pub[q].key /\ (q # p => pub'[q] = pub[q])
  BY <1>2, <1>3, <1>6, <1>8, OnePublisher, Zenon
<1>10. Awaiting(p) /\ w # "new" /\ w # "arming" /\ (w = "waiting" => pub[p].notify \notin permits)
  BY <1>4, <1>7 DEF Awaiting
<1>11. OwnNotify(rs, k, pub[p].notify)
  BY <1>2, <1>3, <1>10, Zenon DEF NotifyOK
<1>12. StreamsOK'
  BY <1>2, <1>7, <1>9, Zenon DEF StreamsOK
<1>13. Local(k, rs)
  <2>1. \A q \in Pub : pub[q].key # k /\ Awaiting(q) /\ pub[q].notify \in permits =>
                         pub[q].notify \in permits'
    BY <1>7, <1>11, Zenon DEF OwnNotify
  <2>2. \A q \in Pub : pub[q].key # k => pub'[q] = pub[q]
    BY <1>3, <1>9, Zenon
  <2> QED
    BY <1>1, <1>7, <1>9, <2>1, <2>2, Zenon DEF Local
<1>14. ASSUME k \in DOMAIN broker'.rooms
       PROVE  /\ RoomOK(broker'.rooms[k], count'[k]) /\ MembersOK(broker.rooms, k)'
              /\ OwnNotify(rs, k, broker'.rooms[k].notify)
  <2>1. RoomOK(rs[k], count[k]) /\ MembersOK(rs, k) /\ OwnNotify(rs, k, rs[k].notify)
    BY <1>1, <1>2, <1>7, <1>14, Zenon DEF TableOK, NotifyOK
  <2> QED
    BY <1>1, <1>7, <2>1, Zenon DEF MembersOK, Live
<1>15. \A x \in Sub : sub[x].key = k => PresentOK(broker.rooms, x)'
  BY <1>1, <1>2, <1>7, Zenon DEF TableOK, PresentOK, Live, After
<1>16. \A q \in Pub : pub[q].key = k /\ Awaiting(q)' => OwnNotify(rs, k, pub'[q].notify)
  BY <1>2, <1>8, <1>9, <1>11, Zenon DEF NotifyOK, Awaiting
<1>17. ASSUME NEW q \in Pub, pub[q].key = k, Solo(q)'
       PROVE  QuietOK(q)' /\ WaitOK(broker.rooms, q)'
  <2>1. q = p
    BY <1>3, <1>8, <1>9, <1>10, <1>17, Zenon DEF Solo
  <2>2. Solo(p)
    <3>1. pub[p].pc \in {"new", "checking", "arming", "waiting"}
      BY <1>7
    <3>2. \A x \in Pub \ {p} : pub[x].key # pub[p].key \/ pub[x].pc = "new"
      BY <1>9, <1>17, <2>1, Zenon DEF Solo
    <3> QED
      BY <3>1, <3>2, Zenon DEF Solo
  <2>3. QuietOK(p) /\ WaitOK(rs, p)
    BY <1>2, <2>2, Zenon DEF SoloOK
  <2>4. QuietOK(p)'
    BY <1>7, <1>9, <2>3, Zenon DEF QuietOK
  <2>5. pub[p].pc # "new"
    BY <1>7
  <2>6. /\ k \in DOMAIN rs /\ ~Finished(rs[k]) /\ rs[k].notify = pub[p].notify
        /\ rs[k].subs = {} => rs[k].act <= IF pub[p].aged THEN 1 ELSE 0
        /\ rs[k].subs # {} => pub[p].notify \in permits
    BY <1>3, <1>7, <1>10, <2>3, Zenon DEF WaitOK
  <2>7. WaitOK(broker.rooms, p)'
    BY <1>1, <1>3, <1>7, <1>8, <1>9, <1>10, <2>6, Zenon DEF WaitOK
  <2> QED
    BY <2>1, <2>4, <2>7, Zenon
<1> QED
  BY <1>1, <1>12, <1>13, <1>14, <1>15, <1>16, <1>17, LocalStep, Zenon

\* The room a publisher finds when it checks: a finished one is replaced.
CheckedRoom(b, k, r) ==
  /\ RoomOK(r, count[k]) /\ OwnNotify(b.rooms, k, r.notify) /\ ~Finished(r)
  /\ k \in DOMAIN b.rooms => b.rooms[k].subs = r.subs
  /\ k \notin DOMAIN b.rooms => r.subs = {}
  /\ r.act = 0 \/ (k \in DOMAIN b.rooms /\ r = b.rooms[k])

\* The room a waiting publisher looks at: a finished one is reset first.
LEMMA CheckRoom ==
  ASSUME ChoicesOK, NEW b, Good(b.rooms), NEW k \in Key, NEW r,
         r = IF Finished(Entry(b, k)) THEN NewRoom(FreshNotify(b)) ELSE Entry(b, k)
  PROVE  CheckedRoom(b, k, r)
<1>1. PICK e : e = Entry(b, k)
  BY Zenon
<1>2. EntryOf(b, k, e) /\ count \in [Key -> Nat]
  BY <1>1, EntryFacts, Zenon DEF Good, StreamsOK
<1>3. CASE Finished(e)
  <2>1. PICK id : id = FreshNotify(b)
    BY Zenon
  <2>2. id \in Nat /\ OwnNotify(b.rooms, k, id) /\ count[k] \in Nat
    BY <1>2, <2>1, FreshFacts
  <2>3. r = NewRoom(id)
    BY <1>1, <1>3, <2>1, Zenon
  <2>4. RoomOK(r, count[k]) /\ r.subs = {} /\ r.notify = id /\ ~Finished(r) /\ r.act = 0
    <3>1. /\ RoomOK(NewRoom(id), count[k]) /\ NewRoom(id).subs = {} /\ NewRoom(id).notify = id
          /\ ~Finished(NewRoom(id)) /\ NewRoom(id).act = 0
      BY <2>2, NewRoomOK, Zenon
    <3> QED
      BY <2>3, <3>1, Zenon
  <2>5. k \in DOMAIN b.rooms => b.rooms[k].subs = {}
    BY <1>2, <1>3, Zenon DEF EntryOf, RoomOK
  <2> QED
    <3>1. OwnNotify(b.rooms, k, r.notify)
      BY <2>2, <2>4, Zenon
    <3>2. k \in DOMAIN b.rooms => b.rooms[k].subs = r.subs
      BY <2>4, <2>5, Zenon
    <3> QED
      BY <2>4, <3>1, <3>2, Zenon DEF CheckedRoom
<1>4. CASE ~Finished(e)
  <2>1. r = e
    BY <1>1, <1>4, Zenon
  <2> QED
    BY <1>2, <1>4, <2>1, Zenon DEF EntryOf, CheckedRoom
<1> QED
  BY <1>3, <1>4, Zenon

\* One turn of wait_for_subscriber that does not give up.
LEMMA LookOK ==
  ASSUME ChoicesOK, NEW b, Good(b.rooms), NEW k \in Key, NEW p \in Pub, pub[p].key = k,
         pub[p].pc \in {"new", "checking"}, NEW r, CheckedRoom(b, k, r), Has(k, b, broker', r),
         NEW v \in PubType, v.key = k, v.notify = r.notify, v.aged = pub[p].aged,
         v.pc = IF r.subs # {} THEN "publishing" ELSE "arming",
         pub' = [pub EXCEPT ![p] = v],
         permits' = IF r.notify = FreshNotify(b) THEN permits \ {FreshNotify(b)} ELSE permits,
         sub' = sub, count' = count
  PROVE  IInv'
<1>1. StreamsOK /\ TableOK(b.rooms) /\ NotifyOK(b.rooms) /\ SoloOK(b.rooms)
  BY Zenon DEF Good
<1>2. pub \in [Pub -> PubType]
  BY <1>1, Zenon DEF StreamsOK
<1>3. /\ pub' \in [Pub -> PubType] /\ pub'[p] = v
      /\ \A q \in Pub : pub'[q].key = pub[q].key /\ (q # p => pub'[q] = pub[q])
  BY <1>2, OnePublisher, Zenon
<1>4. /\ broker' = [rooms |-> broker'.rooms, total |-> broker'.total]
      /\ Elsewhere(k, b.rooms, broker'.rooms) /\ k \in DOMAIN broker'.rooms
      /\ broker'.rooms[k] = r
  BY Zenon DEF Has
<1>5. StreamsOK'
  BY <1>1, <1>3, Zenon DEF StreamsOK
<1>6. Local(k, b.rooms)
  <2>1. \A q \in Pub : Awaiting(q) => pub[q].notify # FreshNotify(b)
    BY FreshFacts, Zenon
  <2>2. \A q \in Pub : pub[q].key # k /\ Awaiting(q) /\ pub[q].notify \in permits =>
                         pub[q].notify \in permits'
    BY <2>1, Zenon
  <2>3. \A q \in Pub : pub[q].key # k => pub'[q] = pub[q]
    BY <1>3, Zenon
  <2> QED
    BY <1>3, <1>4, <2>2, <2>3, Zenon DEF Local, Elsewhere
<1>7. /\ RoomOK(r, count[k]) /\ OwnNotify(b.rooms, k, r.notify) /\ ~Finished(r)
      /\ k \in DOMAIN b.rooms => b.rooms[k].subs = r.subs
      /\ k \notin DOMAIN b.rooms => r.subs = {}
      /\ r.act = 0 \/ (k \in DOMAIN b.rooms /\ r = b.rooms[k])
  BY Zenon DEF CheckedRoom
<1>8. /\ RoomOK(broker'.rooms[k], count'[k]) /\ MembersOK(broker.rooms, k)'
      /\ OwnNotify(b.rooms, k, broker'.rooms[k].notify)
  <2>1. MembersOK(broker.rooms, k)'
    <3>1. \A x \in r.subs : sub[x].key = k /\ Live(sub[x])
      BY <1>1, <1>7, Zenon DEF TableOK, MembersOK
    <3> QED
      BY <1>4, <3>1, Zenon DEF MembersOK, Live
  <2> QED
    BY <1>4, <1>7, <2>1, Zenon
<1>9. ASSUME NEW x \in Sub, sub[x].key = k PROVE PresentOK(broker.rooms, x)'
  <2>1. PresentOK(b.rooms, x)
    BY <1>1, Zenon DEF TableOK
  <2>2. Live(sub[x]) => x \in r.subs /\ After(sub[x]) = count[k] + 1
    BY <1>7, <1>9, <2>1, Zenon DEF PresentOK
  <2> QED
    BY <1>4, <1>9, <2>2, Zenon DEF PresentOK, Live, After
<1>10. \A q \in Pub : pub[q].key = k /\ Awaiting(q)' => OwnNotify(b.rooms, k, pub'[q].notify)
  BY <1>1, <1>3, <1>7, Zenon DEF NotifyOK, Awaiting
<1>11. v.pc # "new" /\ v.pc # "waiting" /\ v.pc \in {"publishing", "arming"}
  OBVIOUS
<1>12. ASSUME NEW q \in Pub, pub[q].key = k, Solo(q)'
       PROVE  QuietOK(q)' /\ WaitOK(broker.rooms, q)'
  <2>1. q = p
    BY <1>3, <1>11, <1>12, Zenon DEF Solo
  <2>2. v.pc \in {"new", "checking", "arming", "waiting"}
    BY <1>3, <1>12, <2>1, Zenon DEF Solo
  <2>3. r.subs = {} /\ v.pc = "arming"
    BY <2>2
  <2>4. Solo(p)
    <3>1. pub[p].pc \in {"new", "checking", "arming", "waiting"}
      OBVIOUS
    <3>2. \A x \in Pub \ {p} : pub[x].key # pub[p].key \/ pub[x].pc = "new"
      BY <1>3, <1>12, <2>1, Zenon DEF Solo
    <3> QED
      BY <3>1, <3>2, Zenon DEF Solo
  <2>5. QuietOK(p) /\ WaitOK(b.rooms, p)
    BY <1>1, <2>4, Zenon DEF SoloOK
  <2>6. QuietOK(p)'
    BY <1>3, <2>5, Zenon DEF QuietOK
  <2>7. r.act <= IF v.aged THEN 1 ELSE 0
    <3>1. CASE r.act = 0
      BY <3>1
    <3>2. CASE k \in DOMAIN b.rooms /\ r = b.rooms[k]
      BY <2>3, <2>5, <3>2, Zenon DEF WaitOK
    <3> QED
      BY <1>7, <3>1, <3>2, Zenon
  <2>8. WaitOK(broker.rooms, p)'
    BY <1>3, <1>4, <1>7, <1>11, <2>3, <2>7, Zenon DEF WaitOK
  <2> QED
    BY <2>1, <2>6, <2>8, Zenon
<1> QED
  BY <1>5, <1>6, <1>8, <1>9, <1>10, <1>12, LocalStep, Zenon

\* One turn of the loop of wait_for_subscriber.
LEMMA CheckOK ==
  ASSUME ChoicesOK, IInv, NEW p \in Pub, Check(p)
  PROVE  IInv'
<1>1. PICK b : b = PurgeRooms(broker)
  BY Zenon
<1>2. Good(b.rooms) /\ b = [rooms |-> b.rooms, total |-> b.total]
  BY <1>1, PurgeGood, PurgeRecord, Zenon
<1>3. pub \in [Pub -> PubType]
  BY <1>2, Zenon DEF Good, StreamsOK
<1>4. PICK k \in Key : pub[p].key = k
  BY <1>3 DEF PubType
<1>5. PICK r : r = IF Finished(Entry(b, k)) THEN NewRoom(FreshNotify(b)) ELSE Entry(b, k)
  BY Zenon
<1>6. CheckedRoom(b, k, r)
  BY <1>2, <1>5, CheckRoom, Zenon
<1>7. pub[p].pc \in {"new", "checking"} /\ sub' = sub /\ count' = count
  BY Zenon DEF Check
<1>8. CASE Full(b, k)
  <2>1. broker' = b /\ pub' = [pub EXCEPT ![p].pc = "ended"] /\ permits' = permits
    BY <1>1, <1>4, <1>8, Zenon DEF Check, Goto
  <2>2. "ended" \in {"unmet", "publishing", "finishing", "ended"}
    OBVIOUS
  <2>3. Leaves(p, "ended") /\ permits' = permits
    BY <2>1, <2>2, Zenon DEF Leaves
  <2>4. broker' = [rooms |-> broker'.rooms, total |-> broker'.total] /\ broker'.rooms = b.rooms
    BY <1>2, <2>1, Zenon
  <2>5. /\ Elsewhere(k, b.rooms, broker'.rooms)
        /\ (k \in DOMAIN broker'.rooms => k \in DOMAIN b.rooms /\ broker'.rooms[k] = b.rooms[k])
        /\ (k \in DOMAIN b.rooms /\ k \notin DOMAIN broker'.rooms => b.rooms[k].subs = {})
    BY <2>4, Zenon DEF Elsewhere
  <2> QED
    BY <1>2, <1>4, <1>7, <2>3, <2>4, <2>5, LeaveQuietly, Zenon
<1>9. CASE ~Full(b, k)
  <2>1. PICK w : w = IF r.subs # {} THEN "publishing" ELSE "arming"
    BY Zenon
  <2>2. PICK v : v = [pub[p] EXCEPT !.pc = w, !.notify = r.notify]
    BY Zenon
  <2>3. /\ broker' = PutRoom(b, k, r, SaturatingSub(b.total, FreedByReset(Entry(b, k))))
        /\ permits' = IF r.notify = FreshNotify(b) THEN permits \ {FreshNotify(b)} ELSE permits
        /\ pub' = [pub EXCEPT ![p].pc = w, ![p].notify = r.notify]
    BY <1>1, <1>4, <1>5, <1>9, <2>1, Zenon DEF Check
  <2>4. pub' = [pub EXCEPT ![p] = v]
    BY <1>3, <2>2, <2>3, Zenon
  <2>5. v \in PubType /\ v.key = k /\ v.pc = w /\ v.notify = r.notify /\ v.aged = pub[p].aged
    <3>1. PICK a : a = pub[p] /\ a \in PubType
      BY <1>3, Zenon
    <3>2. PICK id : id = r.notify
      BY Zenon
    <3>3. id \in Nat
      BY <1>6, <3>2, Zenon DEF CheckedRoom, RoomOK, RoomRecord
    <3>4. v = [a EXCEPT !.pc = w, !.notify = id] /\ w \in {"publishing", "arming"}
      BY <2>1, <2>2, <3>1, <3>2
    <3>5. v \in PubType /\ v.key = a.key /\ v.pc = w /\ v.notify = id /\ v.aged = a.aged
      BY <3>1, <3>3, <3>4, Zenon DEF PubType
    <3> QED
      BY <1>4, <3>1, <3>2, <3>5, Zenon
  <2>6. Has(k, b, broker', r)
    BY <2>3, PutRoomTable, Zenon
  <2>7. permits' = IF r.notify = FreshNotify(b) THEN permits \ {FreshNotify(b)} ELSE permits
    BY <2>3, Zenon
  <2>8. v.pc = IF r.subs # {} THEN "publishing" ELSE "arming"
    BY <2>1, <2>5, Zenon
  <2> QED
    BY <1>2, <1>4, <1>6, <1>7, <2>4, <2>5, <2>6, <2>7, <2>8, LookOK, Zenon
<1> QED
  BY <1>8, <1>9, Zenon

\* try_send: what becomes of stream u when record c + 1 is published.
Offered(t, u, n) ==
  t = IF Len(u.q) < QueueDepth THEN [u EXCEPT !.q = Append(u.q, n)] ELSE [u EXCEPT !.end = "lagged"]

\* It is given the record, or it is no longer live.
OfferedWell(t, u, n) ==
  /\ StreamOK(t) /\ t.key = u.key
  /\ t.end = "open" => Live(t) /\ After(t) = n + 1

\* A record is queued behind the others, or the stream has lagged.
LEMMA OfferedStream ==
  ASSUME NEW u, StreamOK(u), Live(u), NEW n \in Nat, After(u) = n, NEW t, Offered(t, u, n)
  PROVE  OfferedWell(t, u, n)
<1> DEFINE f == u.from
           g == u.got
           h == u.todo
           q == u.q
<1>1. u \in SubType /\ f \in Nat /\ g \in Seq(Nat) /\ h \in Seq(Nat) /\ q \in Seq(Nat)
  BY StreamFields, Zenon
<1>2. CASE Len(u.q) < QueueDepth
  <2> DEFINE a == Append(u.q, n)
  <2>1. /\ \A i \in 1 .. Len(g) : g[i] = f + i - 1
        /\ \A i \in 1 .. Len(h) : h[i] = f + Len(g) + i - 1
        /\ \A i \in 1 .. Len(q) : q[i] = f + Len(g) + Len(h) + i - 1
    BY Zenon DEF StreamOK, RunOK
  <2>2. f + Len(g) + Len(h) + Len(q) = n
    BY Zenon DEF After
  <2>3. a = Append(q, n)
    BY Zenon
  <2>4. t = [u EXCEPT !.q = a]
    BY <1>2, Zenon DEF Offered
  <2> HIDE DEF f, g, h, q, a
  <2>5. /\ a \in Seq(Nat) /\ Len(a) = Len(q) + 1 /\ Len(q) \in Nat /\ Len(g) \in Nat
        /\ Len(h) \in Nat
    BY <1>1, <2>3
  <2>6. (\A i \in 1 .. Len(q) : a[i] = q[i]) /\ a[Len(q) + 1] = n
    BY <1>1, <2>3
  <2>7. /\ f + Len(g) + Len(h) + (Len(q) + 1) - 1 = n
        /\ f + Len(g) + Len(h) + Len(a) = n + 1
    <3>1. PICK x \in Nat : x = Len(g)
      BY <2>5, Zenon
    <3>2. PICK y \in Nat : y = Len(h)
      BY <2>5, Zenon
    <3>3. PICK z \in Nat : z = Len(q)
      BY <2>5, Zenon
    <3>4. /\ f + x + y + z = f + x + y + (z + 1) - 1
          /\ f + x + y + (z + 1) = f + x + y + z + 1
      BY <1>1
    <3>5. f + x + y + z = n /\ Len(a) = z + 1
      BY <2>2, <2>5, <3>1, <3>2, <3>3, Zenon
    <3> QED
      BY <3>1, <3>2, <3>3, <3>4, <3>5, Zenon
  <2>8. \A i \in 1 .. Len(a) : a[i] = f + Len(g) + Len(h) + i - 1
    <3> TAKE i \in 1 .. Len(a)
    <3>1. CASE i \in 1 .. Len(q)
      BY <2>1, <2>6, <3>1, Zenon
    <3>2. CASE i = Len(q) + 1
      BY <2>6, <2>7, <3>2, Zenon
    <3> QED
      BY <2>5, <3>1, <3>2
  <2>9. /\ t \in SubType /\ t.got = g /\ t.todo = h /\ t.q = a /\ t.from = f
         /\ t.upto = u.upto /\ t.key = u.key /\ t.end = u.end /\ t.pc = u.pc
    BY <1>1, <2>4, <2>5, Zenon DEF SubType, g, h, f
  <2>10. RunOK(t)
    BY <2>1, <2>8, <2>9, Zenon DEF RunOK
  <2>11. After(t) = n + 1
    BY <2>7, <2>9, Zenon DEF After
  <2>12. Live(t) /\ t.end = "open" /\ t.pc \in {"sending", "resetting"} /\ t.from >= 1
    BY <2>9, Zenon DEF Live, StreamOK, f
  <2>13. t.end # "closed" /\ t.pc \notin {"finishing", "clean"} /\ t.pc # "finishing"
    BY <2>12
  <2> QED
    BY <2>9, <2>10, <2>11, <2>12, <2>13, Zenon DEF StreamOK, OfferedWell
<1>3. CASE ~(Len(u.q) < QueueDepth)
  <2>1. t = [u EXCEPT !.end = "lagged"]
    BY <1>3, Zenon DEF Offered
  <2>2. "lagged" \in {"open", "lagged", "closed", "left"} /\ "lagged" # "open" /\ "lagged" # "closed"
    OBVIOUS
  <2>3. /\ t \in SubType /\ t.got = g /\ t.todo = h /\ t.q = q /\ t.from = f
        /\ t.upto = u.upto /\ t.key = u.key /\ t.end = "lagged" /\ t.pc = u.pc
    BY <1>1, <2>1, <2>2, Zenon DEF SubType
  <2>4. RunOK(t)
    BY <2>3, Zenon DEF StreamOK, RunOK
  <2> QED
    BY <2>2, <2>3, <2>4, Zenon DEF StreamOK, OfferedWell
<1> QED
  BY <1>2, <1>3, Zenon

\* What publish() works on: a finished room has been removed first.
LEMMA PublishRoom ==
  ASSUME NEW b, Good(b.rooms), b = [rooms |-> b.rooms, total |-> b.total], NEW k \in Key,
         NEW st, st = IF k \in DOMAIN b.rooms /\ Finished(b.rooms[k]) THEN RemoveRoom(b, k) ELSE b
  PROVE  /\ st = [rooms |-> st.rooms, total |-> st.total] /\ Elsewhere(k, b.rooms, st.rooms)
         /\ k \in DOMAIN st.rooms => /\ k \in DOMAIN b.rooms /\ st.rooms[k] = b.rooms[k]
                                     /\ ~Finished(b.rooms[k])
         /\ k \in DOMAIN b.rooms /\ k \notin DOMAIN st.rooms => b.rooms[k].subs = {}
<1>1. CASE k \in DOMAIN b.rooms /\ Finished(b.rooms[k])
  <2>1. st = RemoveRoom(b, k)
    BY <1>1, Zenon
  <2>2. Lacks(k, b, st)
    BY <2>1, RemoveRoomTable, Zenon
  <2>3. b.rooms[k].subs = {}
    BY <1>1, Zenon DEF Good, TableOK, RoomOK
  <2> QED
    BY <2>2, <2>3, Zenon DEF Lacks
<1>2. CASE ~(k \in DOMAIN b.rooms /\ Finished(b.rooms[k]))
  <2>1. st = b
    BY <1>2, Zenon
  <2> QED
    BY <1>2, <2>1, Zenon DEF Elsewhere
<1> QED
  BY <1>1, <1>2, Zenon

\* The room a record is stored in, before it is stored.
LEMMA RoomToFill ==
  ASSUME ChoicesOK, NEW b, Good(b.rooms), b = [rooms |-> b.rooms, total |-> b.total], NEW k \in Key,
         NEW st, st = IF k \in DOMAIN b.rooms /\ Finished(b.rooms[k]) THEN RemoveRoom(b, k) ELSE b,
         NEW r, r = [Entry(st, k) EXCEPT !.act = 0]
  PROVE  /\ CheckedRoom(b, k, r)
         /\ \A q \in Pub : Awaiting(q) /\ pub[q].notify \in permits =>
                             pub[q].notify \in PermitsFor(st, k)
<1>1. /\ Elsewhere(k, b.rooms, st.rooms)
      /\ k \in DOMAIN st.rooms => /\ k \in DOMAIN b.rooms /\ st.rooms[k] = b.rooms[k]
                                  /\ ~Finished(b.rooms[k])
      /\ k \in DOMAIN b.rooms /\ k \notin DOMAIN st.rooms => b.rooms[k].subs = {}
  BY PublishRoom, Zenon
<1>2. DOMAIN b.rooms \subseteq Key /\ pub \in [Pub -> PubType] /\ count \in [Key -> Nat]
  BY Zenon DEF Good, TableOK, StreamsOK
<1>3. DOMAIN st.rooms \subseteq Key
  BY <1>1, <1>2, Zenon DEF Elsewhere
<1>4. PICK id : id = FreshNotify(st)
  BY Zenon
<1>5. /\ id \in Nat /\ \A l \in DOMAIN st.rooms : st.rooms[l].notify # id
      /\ \A q \in Pub : Awaiting(q) => pub[q].notify # id
  BY <1>2, <1>3, <1>4, FreshNotifyIsFree, Zenon
<1>6. OwnNotify(b.rooms, k, id)
  BY <1>1, <1>5, Zenon DEF OwnNotify, Elsewhere
<1>7. PICK e : e = Entry(st, k)
  BY Zenon
<1>8. /\ RoomOK(e, count[k]) /\ OwnNotify(b.rooms, k, e.notify) /\ ~Finished(e)
      /\ k \in DOMAIN b.rooms => b.rooms[k].subs = e.subs
      /\ k \notin DOMAIN b.rooms => e.subs = {}
  <2>1. CASE k \in DOMAIN st.rooms
    <3>1. e = b.rooms[k] /\ k \in DOMAIN b.rooms /\ ~Finished(b.rooms[k])
      BY <1>1, <1>7, <2>1, Zenon DEF Entry
    <3>2. RoomOK(b.rooms[k], count[k]) /\ OwnNotify(b.rooms, k, b.rooms[k].notify)
      BY <3>1, Zenon DEF Good, TableOK, NotifyOK
    <3> QED
      BY <3>1, <3>2, Zenon
  <2>2. CASE k \notin DOMAIN st.rooms
    <3>1. e = NewRoom(id) /\ count[k] \in Nat
      BY <1>2, <1>4, <1>7, <2>2 DEF Entry
    <3>2. /\ RoomOK(NewRoom(id), count[k]) /\ NewRoom(id).subs = {} /\ NewRoom(id).notify = id
          /\ ~Finished(NewRoom(id))
      BY <1>5, <3>1, NewRoomOK, Zenon
    <3>3. RoomOK(e, count[k]) /\ e.subs = {} /\ e.notify = id /\ ~Finished(e)
      BY <3>1, <3>2, Zenon
    <3>4. OwnNotify(b.rooms, k, e.notify)
      BY <1>6, <3>3, Zenon
    <3>5. k \in DOMAIN b.rooms => b.rooms[k].subs = e.subs
      BY <1>1, <2>2, <3>3, Zenon
    <3> QED
      BY <3>3, <3>4, <3>5, Zenon
  <2> QED
    BY <2>1, <2>2, Zenon
<1>9. r = [e EXCEPT !.act = 0] /\ e \in RoomRecord({e.bytes})
  BY <1>7, <1>8, Zenon DEF RoomOK
<1>10. Attended(r, e, e.subs, 0)
  BY <1>9, Zenon DEF Attended, RoomRecord
<1>11. AttendedAs(r, e, e.subs, 0)
  BY <1>8, <1>10, AttendedFields, Zenon
<1>12. RoomOK(r, count[k])
  <2>1. e.subs \subseteq Sub /\ 0 \in Nat
    BY <1>9 DEF RoomRecord
  <2> QED
    BY <1>8, <1>10, <2>1, AttendedRoom, Zenon
<1>13. CheckedRoom(b, k, r)
  <2>1. r.subs = e.subs /\ r.act = 0 /\ r.notify = e.notify /\ ~Finished(r)
    BY <1>8, <1>11, Zenon DEF AttendedAs
  <2>2. OwnNotify(b.rooms, k, r.notify)
    BY <1>8, <2>1, Zenon
  <2>3. k \in DOMAIN b.rooms => b.rooms[k].subs = r.subs
    BY <1>8, <2>1, Zenon
  <2>4. k \notin DOMAIN b.rooms => r.subs = {}
    BY <1>8, <2>1, Zenon
  <2> QED
    BY <1>12, <2>1, <2>2, <2>3, <2>4, Zenon DEF CheckedRoom
<1>14. \A q \in Pub : Awaiting(q) /\ pub[q].notify \in permits =>
                        pub[q].notify \in PermitsFor(st, k)
  BY <1>4, <1>5, Zenon DEF PermitsFor
<1> QED
  BY <1>13, <1>14, Zenon

\* publish(): a record is stored and offered to every subscriber of the room.
LEMMA PublishStep ==
  ASSUME NEW b, Good(b.rooms), NEW k \in Key, NEW p \in Pub, pub[p].key = k,
         pub[p].pc = "publishing", NEW r, CheckedRoom(b, k, r), NEW n, n = count[k] + 1,
         NEW t, RoomOK(t, n), SameRoom(t, r), NEW new, NEW S, Attended(new, t, S, t.act),
         S = {s \in r.subs : sub'[s].end = "open"},
         broker' = [rooms |-> broker'.rooms, total |-> broker'.total],
         Elsewhere(k, b.rooms, broker'.rooms),
         k \in DOMAIN broker'.rooms => broker'.rooms[k] = new,
         k \notin DOMAIN broker'.rooms => new.subs = {},
         sub' = [s \in Sub |-> sub'[s]],
         \A s \in Sub : /\ s \in r.subs => Offered(sub'[s], sub[s], n)
                        /\ s \notin r.subs => sub'[s] = sub[s],
         count' = [count EXCEPT ![k] = n], pub' = pub,
         \A q \in Pub : Awaiting(q) /\ pub[q].notify \in permits => pub[q].notify \in permits'
  PROVE  IInv'
<1>1. StreamsOK /\ TableOK(b.rooms) /\ NotifyOK(b.rooms)
  BY Zenon DEF Good
<1>2. count \in [Key -> Nat] /\ \A s \in Sub : StreamOK(sub[s])
  BY <1>1, Zenon DEF StreamsOK
<1>3. n \in Nat /\ count' \in [Key -> Nat] /\ count'[k] = n /\ \A l \in Key : l # k => count'[l] = count[l]
  BY <1>2
<1>4. /\ OwnNotify(b.rooms, k, r.notify) /\ r.subs \subseteq Sub /\ ~Finished(r)
      /\ k \in DOMAIN b.rooms => b.rooms[k].subs = r.subs
      /\ k \notin DOMAIN b.rooms => r.subs = {}
  BY Zenon DEF CheckedRoom, RoomOK, RoomRecord
<1>5. ASSUME NEW s \in r.subs
      PROVE  sub[s].key = k /\ OfferedWell(sub'[s], sub[s], n)
  <2>1. s \in Sub /\ k \in DOMAIN b.rooms /\ s \in b.rooms[k].subs
    BY <1>4, Zenon
  <2>2. sub[s].key = k /\ Live(sub[s])
    BY <1>1, <2>1, Zenon DEF TableOK, MembersOK
  <2>3. After(sub[s]) = count[k] + 1
    BY <1>1, <2>1, <2>2, Zenon DEF TableOK, PresentOK
  <2>4. StreamOK(sub[s]) /\ After(sub[s]) = n /\ Offered(sub'[s], sub[s], n)
    BY <1>2, <2>1, <2>3, Zenon
  <2>5. OfferedWell(sub'[s], sub[s], n)
    BY <1>3, <2>2, <2>4, OfferedStream, Zenon
  <2> QED
    BY <2>2, <2>5, Zenon
<1>6. ASSUME NEW s \in Sub
      PROVE  /\ StreamOK(sub'[s]) /\ sub'[s].key = sub[s].key
             /\ sub[s].key # k => sub'[s] = sub[s]
  <2>1. CASE s \in r.subs
    BY <1>5, <2>1, Zenon DEF OfferedWell
  <2>2. CASE s \notin r.subs
    BY <1>2, <2>2, Zenon
  <2> QED
    BY <2>1, <2>2, Zenon
<1>7. StreamsOK'
  <2>1. \A s \in Sub : sub'[s] \in SubType
    BY <1>6, Zenon DEF StreamOK
  <2>2. sub' \in [Sub -> SubType]
    BY <2>1, Zenon
  <2> QED
    BY <1>1, <1>3, <1>6, <2>2, Zenon DEF StreamsOK
<1>8. Local(k, b.rooms)
  BY <1>3, <1>6, Zenon DEF Local, Elsewhere
<1>9. AttendedAs(new, t, S, t.act)
  BY AttendedFields, Zenon
<1>10. new.subs = S /\ new.notify = r.notify /\ RoomOK(new, n)
  <2>1. S \subseteq Sub /\ t.act \in Nat /\ ~Finished(t)
    <3>1. t.act \in Nat /\ ~Finished(t)
      BY <1>4, Zenon DEF RoomOK, RoomRecord, SameRoom, Finished
    <3> QED
      BY <1>4, <3>1, Zenon
  <2>2. RoomOK(new, n)
    BY <2>1, AttendedRoom, Zenon
  <2>3. t.notify = r.notify
    BY Zenon DEF SameRoom
  <2> QED
    BY <1>9, <2>2, <2>3, Zenon DEF AttendedAs
<1>11. ASSUME k \in DOMAIN broker'.rooms
       PROVE  /\ RoomOK(broker'.rooms[k], count'[k]) /\ MembersOK(broker.rooms, k)'
              /\ OwnNotify(b.rooms, k, broker'.rooms[k].notify)
  <2>1. \A s \in S : sub'[s].key = k /\ Live(sub'[s])
    BY <1>5, Zenon DEF OfferedWell
  <2>2. broker'.rooms[k] = new
    BY <1>11, Zenon
  <2>3. MembersOK(broker.rooms, k)'
    BY <1>10, <2>1, <2>2, Zenon DEF MembersOK, Live
  <2>4. OwnNotify(b.rooms, k, new.notify)
    BY <1>4, <1>10, Zenon
  <2>5. RoomOK(new, count'[k])
    BY <1>3, <1>10, Zenon
  <2> QED
    BY <2>2, <2>3, <2>4, <2>5, Zenon
<1>12. ASSUME NEW s \in Sub, sub[s].key = k PROVE PresentOK(broker.rooms, s)'
  <2>1. CASE s \in r.subs
    <3>1. OfferedWell(sub'[s], sub[s], n)
      BY <1>5, <2>1, Zenon
    <3>2. Live(sub'[s]) => s \in S /\ After(sub'[s]) = n + 1
      BY <2>1, <3>1, Zenon DEF OfferedWell, Live
    <3>3. Live(sub'[s]) => k \in DOMAIN broker'.rooms /\ s \in broker'.rooms[k].subs
      BY <1>10, <3>2, Zenon
    <3>4. sub'[s].key = k
      BY <1>6, <1>12, Zenon
    <3> QED
      BY <1>3, <3>2, <3>3, <3>4, Zenon DEF PresentOK, Live, After
  <2>2. CASE s \notin r.subs
    <3>1. sub'[s] = sub[s] /\ PresentOK(b.rooms, s)
      BY <1>1, <2>2, Zenon DEF TableOK
    <3>2. ~Live(sub[s])
      BY <1>4, <1>12, <2>2, <3>1, Zenon DEF PresentOK
    <3> QED
      BY <3>1, <3>2, Zenon DEF PresentOK, Live
  <2> QED
    BY <2>1, <2>2, Zenon
<1>13. \A q \in Pub : pub[q].key = k /\ Awaiting(q)' => OwnNotify(b.rooms, k, pub'[q].notify)
  BY <1>1, Zenon DEF NotifyOK, Awaiting
<1>14. \A q \in Pub : pub[q].key = k => ~Solo(q)'
  <2>1. pub[p].pc # "new" /\ pub[p].pc \notin {"new", "checking", "arming", "waiting"}
    OBVIOUS
  <2> QED
    BY <2>1, Zenon DEF Solo
<1> QED
  BY <1>7, <1>8, <1>11, <1>12, <1>13, <1>14, LocalStep, Zenon

\* Two steps on key k leave the others alone.
LEMMA ElsewhereTwice ==
  ASSUME NEW k, NEW rs, NEW ts, NEW us, Elsewhere(k, rs, ts), Elsewhere(k, ts, us)
  PROVE  Elsewhere(k, rs, us)
BY Zenon DEF Elsewhere

\* publish(), refused or not.
LEMMA PublishOK ==
  ASSUME ChoicesOK, IInv, NEW p \in Pub, NEW z \in Sizes, Publish(p, z)
  PROVE  IInv'
<1>1. PICK b : b = PurgeRooms(broker)
  BY Zenon
<1>2. Good(b.rooms) /\ b = [rooms |-> b.rooms, total |-> b.total]
  BY <1>1, PurgeGood, PurgeRecord, Zenon
<1>3. pub \in [Pub -> PubType] /\ count \in [Key -> Nat]
  BY <1>2, Zenon DEF Good, StreamsOK
<1>4. PICK k \in Key : pub[p].key = k
  BY <1>3 DEF PubType
<1>5. PICK st : st = IF k \in DOMAIN b.rooms /\ Finished(b.rooms[k]) THEN RemoveRoom(b, k) ELSE b
  BY Zenon
<1>6. /\ st = [rooms |-> st.rooms, total |-> st.total] /\ Elsewhere(k, b.rooms, st.rooms)
      /\ k \in DOMAIN st.rooms => k \in DOMAIN b.rooms /\ st.rooms[k] = b.rooms[k]
      /\ k \in DOMAIN b.rooms /\ k \notin DOMAIN st.rooms => b.rooms[k].subs = {}
  BY <1>2, <1>5, PublishRoom, Zenon
<1>7. pub[p].pc = "publishing"
  BY Zenon DEF Publish
<1>8. CASE Full(st, k)
  <2>1. /\ broker' = st /\ pub' = [pub EXCEPT ![p].pc = "finishing"] /\ sub' = sub
        /\ permits' = permits /\ count' = count
    BY <1>1, <1>4, <1>5, <1>8, Zenon DEF Publish, Goto
  <2>2. "finishing" \in {"unmet", "publishing", "finishing", "ended"}
    OBVIOUS
  <2>3. Leaves(p, "finishing") /\ sub' = sub /\ permits' = permits /\ count' = count
    BY <2>1, <2>2, Zenon DEF Leaves
  <2>4. /\ broker' = [rooms |-> broker'.rooms, total |-> broker'.total]
        /\ Elsewhere(k, b.rooms, broker'.rooms)
        /\ (k \in DOMAIN broker'.rooms => k \in DOMAIN b.rooms /\ broker'.rooms[k] = b.rooms[k])
        /\ (k \in DOMAIN b.rooms /\ k \notin DOMAIN broker'.rooms => b.rooms[k].subs = {})
    BY <1>6, <2>1, Zenon
  <2> QED
    BY <1>2, <1>4, <2>3, <2>4, LeaveQuietly, Zenon
<1>9. CASE ~Full(st, k)
  <2>1. PICK n : n = count[k] + 1
    BY Zenon
  <2>2. PICK r : r = [Entry(st, k) EXCEPT !.act = 0]
    BY Zenon
  <2>3. PICK done : done = Append1(r, st.total, n, z)
    BY Zenon
  <2>4. PICK t : t = done.room
    BY Zenon
  <2>5. PICK S : S = {s \in r.subs : Offer(s, n).end = "open"}
    BY Zenon
  <2>6. PICK new : new = [t EXCEPT !.subs = S]
    BY Zenon
  <2>7. PICK after : after = PutRoom(st, k, new, done.total)
    BY Zenon
  <2>8. /\ broker' = IF Unused(new) THEN RemoveRoom(after, k) ELSE after
        /\ permits' = PermitsFor(st, k) /\ count' = [count EXCEPT ![k] = n] /\ pub' = pub
        /\ sub' = [s \in Sub |-> IF s \in r.subs THEN Offer(s, n) ELSE sub[s]]
    BY <1>1, <1>4, <1>5, <1>9, <2>1, <2>2, <2>3, <2>4, <2>5, <2>6, <2>7, Zenon DEF Publish
  <2>9. /\ CheckedRoom(b, k, r)
        /\ \A q \in Pub : Awaiting(q) /\ pub[q].notify \in permits =>
                            pub[q].notify \in PermitsFor(st, k)
    BY <1>2, <1>5, <2>2, RoomToFill, Zenon
  <2>10. RoomOK(t, n) /\ SameRoom(t, r)
    <3>1. PICK c \in Nat : c = count[k]
      BY <1>3
    <3>2. RoomOK(r, c) /\ t = Append1(r, st.total, c + 1, z).room /\ n = c + 1
      BY <2>1, <2>3, <2>4, <2>9, <3>1, Zenon DEF CheckedRoom
    <3>3. RoomOK(t, c + 1) /\ SameRoom(t, r)
      BY <3>2, Appended, Zenon
    <3> QED
      BY <3>2, <3>3, Zenon
  <2>11. Attended(new, t, S, t.act)
    <3>1. t \in RoomRecord({t.bytes})
      BY <2>10, Zenon DEF RoomOK
    <3> QED
      BY <2>6, <3>1, Zenon DEF Attended, RoomRecord
  <2>12. new.subs = S
    <3>1. AttendedAs(new, t, S, t.act)
      BY <2>10, <2>11, AttendedFields, Zenon
    <3> QED
      BY <3>1, Zenon DEF AttendedAs
  <2>13. r.subs \subseteq Sub
    BY <2>9, Zenon DEF CheckedRoom, RoomOK, RoomRecord
  <2>14. \A s \in Sub : /\ s \in r.subs => sub'[s] = Offer(s, n)
                        /\ s \notin r.subs => sub'[s] = sub[s]
    BY <2>8, Zenon
  <2>15. S = {s \in r.subs : sub'[s].end = "open"}
    BY <2>5, <2>13, <2>14, Zenon
  <2>16. \A s \in Sub : /\ s \in r.subs => Offered(sub'[s], sub[s], n)
                        /\ s \notin r.subs => sub'[s] = sub[s]
    BY <2>14, Zenon DEF Offer, Offered
  <2>17. sub' = [s \in Sub |-> sub'[s]]
    BY <2>8, Zenon
  <2>18. Has(k, st, after, new)
    BY <2>7, PutRoomTable, Zenon
  <2>19. /\ broker' = [rooms |-> broker'.rooms, total |-> broker'.total]
         /\ Elsewhere(k, b.rooms, broker'.rooms)
         /\ k \in DOMAIN broker'.rooms => broker'.rooms[k] = new
         /\ k \notin DOMAIN broker'.rooms => new.subs = {}
    <3>1. /\ after = [rooms |-> after.rooms, total |-> after.total]
          /\ Elsewhere(k, st.rooms, after.rooms) /\ after.rooms[k] = new /\ k \in DOMAIN after.rooms
      BY <2>18, Zenon DEF Has
    <3>2. Elsewhere(k, b.rooms, after.rooms)
      BY <1>6, <3>1, ElsewhereTwice, Zenon
    <3>3. CASE Unused(new)
      <4>1. broker' = RemoveRoom(after, k) /\ new.subs = {}
        BY <2>8, <3>3, Zenon DEF Unused
      <4>2. Lacks(k, after, broker')
        BY <3>1, <4>1, RemoveRoomTable, Zenon
      <4>3. /\ broker' = [rooms |-> broker'.rooms, total |-> broker'.total]
            /\ Elsewhere(k, after.rooms, broker'.rooms) /\ k \notin DOMAIN broker'.rooms
        BY <4>2, Zenon DEF Lacks
      <4>4. Elsewhere(k, b.rooms, broker'.rooms)
        BY <3>2, <4>3, ElsewhereTwice, Zenon
      <4> QED
        BY <4>1, <4>3, <4>4, Zenon
    <3>4. CASE ~Unused(new)
      <4>1. broker' = after
        BY <2>8, <3>4, Zenon
      <4> QED
        BY <3>1, <3>2, <4>1, Zenon
    <3> QED
      BY <3>3, <3>4, Zenon
  <2>20. /\ count' = [count EXCEPT ![k] = n] /\ pub' = pub
         /\ \A q \in Pub : Awaiting(q) /\ pub[q].notify \in permits => pub[q].notify \in permits'
    BY <2>8, <2>9, Zenon
  <2> QED
    BY <1>2, <1>4, <1>7, <2>1, <2>9, <2>10, <2>11, <2>15, <2>16, <2>17, <2>19, <2>20,
       PublishStep, Zenon
<1> QED
  BY <1>8, <1>9, Zenon

-----------------------------------------------------------------------------
(* Time, and the whole system. *)

\* A tick ages the publishers that wait, and nothing else of a publisher.
LEMMA TickPublishers ==
  ASSUME pub \in [Pub -> PubType], Tick
  PROVE  /\ pub' \in [Pub -> PubType]
         /\ \A p \in Pub : /\ pub'[p].pc = pub[p].pc /\ pub'[p].key = pub[p].key
                           /\ pub'[p].notify = pub[p].notify
                           /\ InWait(p) => pub'[p].aged
<1>1. pub' = [p \in Pub |-> IF InWait(p) THEN [pub[p] EXCEPT !.aged = TRUE] ELSE pub[p]]
  BY Zenon DEF Tick
<1>2. ASSUME NEW p \in Pub
      PROVE  /\ pub'[p] \in PubType /\ pub'[p].pc = pub[p].pc /\ pub'[p].key = pub[p].key
             /\ pub'[p].notify = pub[p].notify /\ (InWait(p) => pub'[p].aged)
  <2>1. PICK a : a = pub[p] /\ a \in PubType
    BY Zenon
  <2>2. CASE InWait(p)
    <3>1. PICK v : v = pub'[p]
      BY Zenon
    <3>2. v = [a EXCEPT !.aged = TRUE]
      BY <1>1, <2>1, <2>2, <3>1, Zenon
    <3>3. v \in PubType /\ v.pc = a.pc /\ v.key = a.key /\ v.notify = a.notify /\ v.aged = TRUE
      BY <2>1, <3>2, Zenon DEF PubType
    <3> QED
      BY <2>1, <3>1, <3>3, Zenon
  <2>3. CASE ~InWait(p)
    BY <1>1, <2>1, <2>3, Zenon
  <2> QED
    BY <2>2, <2>3, Zenon
<1>3. pub' = [p \in Pub |-> pub'[p]]
  BY <1>1, Zenon
<1>4. pub' \in [Pub -> PubType]
  BY <1>2, <1>3, Zenon
<1> QED
  BY <1>2, <1>4, Zenon

\* Time ages rooms and waiting publishers.
LEMMA TickOK ==
  ASSUME IInv, Tick
  PROVE  IInv'
<1>1. PICK rs : rs = broker.rooms /\ Good(rs) /\ broker = [rooms |-> broker.rooms, total |-> broker.total]
  BY Zenon DEF IInv
<1>2. StreamsOK /\ TableOK(rs) /\ NotifyOK(rs) /\ SoloOK(rs) /\ pub \in [Pub -> PubType]
  BY <1>1, Zenon DEF Good, StreamsOK
<1>3. PICK ts : ts = [k \in DOMAIN rs |-> AgedRoom(rs[k])]
  BY Zenon
<1>4. broker' = [broker EXCEPT !.rooms = ts]
  BY <1>1, <1>3, Zenon DEF Tick
<1>5. broker'.rooms = ts /\ broker' = [rooms |-> broker'.rooms, total |-> broker'.total]
  <2>1. PICK v : v = broker.total
    BY Zenon
  <2>2. broker = [rooms |-> rs, total |-> v]
    BY <1>1, <2>1, Zenon
  <2>3. broker' = [rooms |-> ts, total |-> v]
    BY <1>4, <2>2
  <2> QED
    BY <2>3
<1>6. sub' = sub /\ permits' = permits /\ count' = count /\ \A p \in Pub : InWait(p) => ~pub[p].aged
  BY Zenon DEF Tick
<1>7. /\ pub' \in [Pub -> PubType]
      /\ \A p \in Pub : /\ pub'[p].pc = pub[p].pc /\ pub'[p].key = pub[p].key
                        /\ pub'[p].notify = pub[p].notify
                        /\ InWait(p) => pub'[p].aged
  BY <1>2, TickPublishers, Zenon
<1>8. DOMAIN ts = DOMAIN rs
  BY <1>3
<1>9. ASSUME NEW k \in DOMAIN rs
      PROVE  /\ RoomOK(ts[k], count[k]) /\ ts[k].subs = rs[k].subs /\ ts[k].notify = rs[k].notify
             /\ (Finished(ts[k]) <=> Finished(rs[k])) /\ ts[k].act <= rs[k].act + 1
             /\ rs[k].act \in Nat
  <2>1. RoomOK(rs[k], count[k]) /\ count[k] \in Nat
    BY <1>2 DEF TableOK, StreamsOK
  <2>2. LET t == AgedRoom(rs[k]) IN
        /\ RoomOK(t, count[k]) /\ t.subs = rs[k].subs /\ t.notify = rs[k].notify
        /\ Finished(t) <=> Finished(rs[k])
        /\ t.act <= rs[k].act + 1
    BY <2>1, AgedRoomOK, Zenon
  <2>3. ts[k] = AgedRoom(rs[k])
    BY <1>3, Zenon
  <2>4. rs[k].act \in Nat
    BY <2>1, Zenon DEF RoomOK, RoomRecord
  <2> QED
    BY <2>2, <2>3, <2>4, Zenon
<1>10. StreamsOK'
  BY <1>2, <1>6, <1>7, Zenon DEF StreamsOK
<1>11. TableOK(broker.rooms)'
  <2>1. ASSUME NEW s \in Sub PROVE PresentOK(broker.rooms, s)'
    <3>1. PresentOK(rs, s)
      BY <1>2, Zenon DEF TableOK
    <3> QED
      BY <1>5, <1>6, <1>8, <1>9, <3>1, Zenon DEF PresentOK, Live, After
  <2>2. ASSUME NEW k \in DOMAIN ts PROVE RoomOK(ts[k], count[k])' /\ MembersOK(broker.rooms, k)'
    <3>1. MembersOK(rs, k) /\ ts[k].subs = rs[k].subs /\ RoomOK(ts[k], count[k])
      BY <1>2, <1>8, <1>9, Zenon DEF TableOK
    <3>2. MembersOK(broker.rooms, k)'
      BY <1>5, <1>6, <3>1, Zenon DEF MembersOK, Live
    <3> QED
      BY <1>6, <3>1, <3>2, Zenon
  <2> QED
    BY <1>2, <1>5, <1>8, <2>1, <2>2, Zenon DEF TableOK
<1>12. \A p \in Pub : Awaiting(p)' <=> Awaiting(p)
  BY <1>7, Zenon DEF Awaiting
<1>13. \A k, id : OwnNotify(rs, k, id) => OwnNotify(broker.rooms, k, id)'
  BY <1>5, <1>7, <1>8, <1>9, <1>12, Zenon DEF OwnNotify
<1>14. NotifyOK(broker.rooms)'
  <2>1. \A k \in DOMAIN ts : OwnNotify(rs, k, ts[k].notify)
    BY <1>2, <1>8, <1>9, Zenon DEF NotifyOK
  <2>2. \A p \in Pub : Awaiting(p)' => OwnNotify(rs, pub'[p].key, pub'[p].notify)
    BY <1>2, <1>7, <1>12, Zenon DEF NotifyOK
  <2> QED
    BY <1>5, <1>13, <2>1, <2>2, Zenon DEF NotifyOK
<1>15. ASSUME NEW p \in Pub, Solo(p)' PROVE QuietOK(p)' /\ WaitOK(broker.rooms, p)'
  <2>1. Solo(p)
    BY <1>7, <1>15, Zenon DEF Solo
  <2>2. QuietOK(p) /\ WaitOK(rs, p)
    BY <1>2, <2>1, Zenon DEF SoloOK
  <2>3. QuietOK(p)'
    BY <1>6, <1>7, <2>2, Zenon DEF QuietOK
  <2>4. PICK k : k = pub[p].key
    BY Zenon
  <2>5. ASSUME k \in DOMAIN rs, rs[k].subs = {}
        PROVE  pub[p].pc # "new" /\ ts[k].act <= IF pub'[p].aged THEN 1 ELSE 0
    <3>1. pub[p].pc # "new" /\ rs[k].act <= IF pub[p].aged THEN 1 ELSE 0
      BY <2>2, <2>4, <2>5, Zenon DEF WaitOK
    <3>2. InWait(p)
      BY <2>1, <3>1 DEF Solo, InWait
    <3>3. ~pub[p].aged /\ pub'[p].aged
      BY <1>6, <1>7, <3>2, Zenon
    <3>4. rs[k].act <= 0
      BY <3>1, <3>3, Zenon
    <3>5. rs[k].act \in Nat /\ ts[k].act <= rs[k].act + 1
      BY <1>9, <2>5, Zenon
    <3>6. rs[k].act = 0
      BY <3>4, <3>5
    <3>7. ts[k].act <= 1
      BY <3>5, <3>6
    <3> QED
      BY <3>1, <3>3, <3>7, Zenon
  <2>6. WaitOK(broker.rooms, p)'
    <3>1. k \in DOMAIN rs => ~Finished(rs[k])
      BY <2>2, <2>4, Zenon DEF WaitOK
    <3>2. Awaiting(p) => k \in DOMAIN rs /\ rs[k].notify = pub[p].notify
      BY <2>2, <2>4, Zenon DEF WaitOK
    <3>3. pub[p].pc = "arming" /\ rs[k].subs # {} => pub[p].notify \in permits
      BY <2>2, <2>4, Zenon DEF WaitOK
    <3>4. pub[p].pc = "waiting" => rs[k].subs = {}
      BY <2>2, <2>4, Zenon DEF WaitOK
    <3>5. pub[p].pc \in {"arming", "waiting"} => k \in DOMAIN rs /\ ts[k].subs = rs[k].subs
      BY <1>9, <3>2, Zenon DEF Awaiting
    <3>6. pub'[p].pc = "arming" /\ ts[k].subs # {} => pub'[p].notify \in permits'
      BY <1>6, <1>7, <3>3, <3>5
    <3>7. pub'[p].pc = "waiting" => ts[k].subs = {}
      BY <1>7, <3>4, <3>5
    <3>8. Awaiting(p)' => k \in DOMAIN ts /\ ts[k].notify = pub'[p].notify
      BY <1>7, <1>8, <1>9, <1>12, <3>2, Zenon
    <3>9. k \in DOMAIN ts => /\ ~Finished(ts[k])
                             /\ ts[k].subs = {} => /\ pub'[p].pc # "new"
                                                   /\ ts[k].act <= IF pub'[p].aged THEN 1 ELSE 0
      BY <1>7, <1>8, <1>9, <2>5, <3>1, Zenon
    <3>10. pub'[p].key = k
      BY <1>7, <2>4, Zenon
    <3> QED
      BY <1>5, <3>6, <3>7, <3>8, <3>9, <3>10, Zenon DEF WaitOK
  <2> QED
    BY <2>3, <2>6, Zenon
<1> QED
  BY <1>5, <1>10, <1>11, <1>14, <1>15, Zenon DEF IInv, Good, SoloOK

\* No rooms, and nobody connected.
LEMMA InitOK ==
  ASSUME Init
  PROVE  IInv
<1>1. broker.rooms = [k \in {} |-> NewRoom(1)] /\ broker = [rooms |-> broker.rooms, total |-> broker.total]
  <2>1. PICK f : f = [k \in {} |-> NewRoom(1)]
    BY Zenon
  <2>2. broker = [rooms |-> f, total |-> 0]
    BY <2>1, Zenon DEF Init
  <2> QED
    BY <2>1, <2>2
<1>2. DOMAIN broker.rooms = {}
  BY <1>1
<1>3. /\ pub \in [Pub -> {[pc |-> "new", key |-> k, notify |-> 0, aged |-> FALSE] : k \in Key}]
      /\ sub \in [Sub -> {[pc |-> "new", key |-> k, todo |-> <<>>, q |-> <<>>, got |-> <<>>,
                           from |-> 1, upto |-> 0, end |-> "open"] : k \in Key}]
      /\ count = [k \in Key |-> 0]
  BY Zenon DEF Init
<1>4. pub \in [Pub -> PubType] /\ \A p \in Pub : pub[p].pc = "new" /\ pub[p].key \in Key
  <2>1. ASSUME NEW p \in Pub PROVE pub[p] \in PubType /\ pub[p].pc = "new" /\ pub[p].key \in Key
    <3>1. PICK k \in Key : pub[p] = [pc |-> "new", key |-> k, notify |-> 0, aged |-> FALSE]
      BY <1>3
    <3> QED
      BY <3>1 DEF PubType
  <2>2. pub = [p \in Pub |-> pub[p]]
    BY <1>3
  <2>3. pub \in [Pub -> PubType]
    BY <2>1, <2>2, Zenon
  <2> QED
    BY <2>1, <2>3, Zenon
<1>5. count \in [Key -> Nat] /\ \A k \in Key : count[k] = 0
  BY <1>3
<1>6. <<>> \in Seq(Nat) /\ Len(<<>>) = 0
  OBVIOUS
<1>7. ASSUME NEW s \in Sub PROVE StreamOK(sub[s]) /\ sub[s].pc = "new" /\ sub[s].end = "open"
  <2>1. PICK k \in Key : sub[s] = [pc |-> "new", key |-> k, todo |-> <<>>, q |-> <<>>, got |-> <<>>,
                                   from |-> 1, upto |-> 0, end |-> "open"]
    BY <1>3
  <2>2. PICK u : u = sub[s]
    BY Zenon
  <2>3. u = [pc |-> "new", key |-> k, todo |-> <<>>, q |-> <<>>, got |-> <<>>,
             from |-> 1, upto |-> 0, end |-> "open"]
    BY <2>1, <2>2, Zenon
  <2>4. /\ u.pc = "new" /\ u.todo = <<>> /\ u.q = <<>> /\ u.got = <<>> /\ u.from = 1
        /\ u.end = "open"
    BY <2>3
  <2>5. u \in SubType
    BY <1>6, <2>3 DEF SubType
  <2>6. RunOK(u)
    BY <1>6, <2>4 DEF RunOK
  <2>7. StreamOK(u)
    BY <2>4, <2>5, <2>6 DEF StreamOK
  <2> QED
    BY <2>2, <2>4, <2>7, Zenon
<1>8. StreamsOK
  <2>1. \A s \in Sub : sub[s] \in SubType
    BY <1>7, Zenon DEF StreamOK
  <2>2. sub = [s \in Sub |-> sub[s]]
    BY <1>3
  <2>3. sub \in [Sub -> SubType]
    BY <2>1, <2>2, Zenon
  <2> QED
    BY <1>4, <1>5, <1>7, <2>3, Zenon DEF StreamsOK
<1>9. TableOK(broker.rooms)
  <2>1. \A s \in Sub : ~Live(sub[s])
    BY <1>7 DEF Live
  <2> QED
    BY <1>2, <2>1, Zenon DEF TableOK, PresentOK
<1>10. \A p \in Pub : ~Awaiting(p) /\ pub[p].pc # "arming" /\ pub[p].pc # "waiting"
  BY <1>4 DEF Awaiting
<1>11. NotifyOK(broker.rooms)
  BY <1>2, <1>10, Zenon DEF NotifyOK
<1>12. SoloOK(broker.rooms)
  <2>1. \A s \in Sub : sub[s].pc \in {"new", "refused"}
    BY <1>7
  <2>2. \A p \in Pub : QuietOK(p)
    BY <1>4, <1>5, <2>1, Zenon DEF QuietOK
  <2>3. \A p \in Pub : WaitOK(broker.rooms, p)
    BY <1>2, <1>10, Zenon DEF WaitOK
  <2> QED
    BY <2>2, <2>3, Zenon DEF SoloOK
<1> QED
  BY <1>1, <1>8, <1>9, <1>11, <1>12, Zenon DEF IInv, Good

\* Every step keeps the invariant.
LEMMA NextOK ==
  ASSUME ChoicesOK, IInv, [Next]_vars
  PROVE  IInv'
<1>1. CASE UNCHANGED vars
  <2>1. broker' = broker /\ pub' = pub /\ sub' = sub /\ permits' = permits /\ count' = count
    BY <1>1, Zenon DEF vars
  <2> QED
    BY <2>1, Unchanged, Zenon
<1>2. ASSUME NEW p \in Pub, Waits(p) PROVE IInv'
  BY <1>2, CheckOK, ArmOK, GraceOrRejectOK, DropEmptyRoomOK, Zenon DEF Waits
<1>3. ASSUME NEW p \in Pub, Publishes(p) PROVE IInv'
  BY <1>3, PublishOK, GraceOrRejectOK, FinishOK, DropRoomOK, Zenon DEF Publishes
<1>4. ASSUME NEW p \in Pub, Fire(p) PROVE IInv'
  BY <1>4, FireOK, Zenon
<1>5. ASSUME NEW s \in Sub, Subscribe(s) \/ Serves(s) PROVE IInv'
  BY <1>5, SubscribeOK, ServesOK, UnsubscribeOK, Zenon DEF Serves
<1>6. CASE Tick
  BY <1>6, TickOK, Zenon
<1> QED
  BY <1>1, <1>2, <1>3, <1>4, <1>5, <1>6, Zenon DEF Next
=============================================================================
