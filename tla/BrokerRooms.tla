----------------------------- MODULE BrokerRooms -----------------------------
(***************************************************************************)
(* The preview broker: rooms that forward a publisher's records to live    *)
(* subscribers and retain a bounded backlog for late ones                  *)
(* (transport-quic-broker/src/state.rs and the two stream handlers of      *)
(* handlers.rs).  Every operation on the rooms runs under one mutex and is *)
(* one action; what a handler does between two of them is local to it.     *)
(*                                                                         *)
(* A record is its number among the publications of its key, and its size. *)
(* Time passes in ticks that age what is stored.  PUBLISH_SUBSCRIBER_GRACE *)
(* (5 s) is shorter than a tick, so a grace period meets at most one tick. *)
(***************************************************************************)
EXTENDS Naturals, Sequences, FiniteSets, FiniteSetsExt, Functions

CONSTANTS
  Key,            \* stream keys
  Pub,            \* publish streams: each is opened once
  Sub,            \* subscribe streams: each is opened once
  QueueDepth,     \* per_subscriber_queue
  MaxBacklog,     \* max_backlog
  MaxRooms,       \* max_rooms
  MaxBytes,       \* max_backlog_bytes
  Sizes,          \* encoded sizes of records
  ReplayTtl,      \* replay_ttl, in ticks; 0 retains nothing
  RoomTtl,        \* FINISHED_ROOM_TTL = UNFINISHED_ROOM_TTL, in ticks
  MaxRecords      \* bound on the publications of a key

ASSUME BrokerBounds ==
  /\ QueueDepth \in Nat \ {0} /\ MaxBacklog \in Nat \ {0} /\ MaxRooms \in Nat \ {0}
  /\ MaxBytes \in Nat \ {0} /\ Sizes \subseteq Nat \ {0}
  /\ IsFiniteSet(Key) /\ IsFiniteSet(Pub)
  /\ ReplayTtl \in Nat /\ RoomTtl \in Nat \ {0, 1} /\ MaxRecords \in Nat

VARIABLES
  broker,    \* BrokerStateInner: the rooms and total_backlog_bytes
  pub,       \* each publish stream's handler
  sub,       \* each subscribe stream's handler
  permits,   \* the Notify objects that hold a stored permit
  timers,    \* age of the one-shot timer each publish stream left behind
  count      \* history: publications per key

vars == <<broker, pub, sub, permits, timers, count>>

Never == RoomTtl + 1   \* no such instant: finished_at = None, no timer

-----------------------------------------------------------------------------
(* Rooms. *)

NewRoom(id) ==
  [subs |-> {}, log |-> <<>>, bytes |-> 0, notify |-> id, fin |-> Never, act |-> 0]

Finished(r) == r.fin # Never
Unused(r) == r.subs = {} /\ r.log = <<>> /\ ~Finished(r)

Size(log) == MapThenSumSet(LAMBDA i : log[i].b, DOMAIN log)
SaturatingSub(a, b) == IF a > b THEN a - b ELSE 0

(* purge_expired_backlog: pops the front until it meets a live entry. *)
Expired(log) ==
  Min({d \in 0 .. Len(log) : d = Len(log) \/ log[d + 1].age < ReplayTtl})
PurgeBacklog(r) ==
  LET d == Expired(r.log)
  IN  [r EXCEPT !.log = SubSeq(@, d + 1, Len(@)),
                !.bytes = SaturatingSub(@, Size(SubSeq(r.log, 1, d)))]
Freed(r) == r.bytes - PurgeBacklog(r).bytes

Retained(r) ==
  IF Finished(r) THEN r.fin < RoomTtl ELSE r.subs # {} \/ r.act < RoomTtl

PurgeRooms(b) ==
  LET keep == {k \in DOMAIN b.rooms : Retained(b.rooms[k])}
      rs == [k \in keep |-> PurgeBacklog(b.rooms[k])]
  IN  [rooms |-> rs, total |-> MapThenSumSet(LAMBDA k : rs[k].bytes, keep)]

RemoveRoom(b, k) ==
  IF k \in DOMAIN b.rooms
  THEN [rooms |-> Restrict(b.rooms, DOMAIN b.rooms \ {k}),
        total |-> SaturatingSub(b.total, b.rooms[k].bytes)]
  ELSE b

Full(b, k) == k \notin DOMAIN b.rooms /\ Cardinality(DOMAIN b.rooms) >= MaxRooms

PutRoom(b, k, r, total) ==
  [rooms |-> [x \in DOMAIN b.rooms \cup {k} |-> IF x = k THEN r ELSE b.rooms[x]],
   total |-> total]

(* A Notify object lives as long as a room or a waiting publisher holds it. *)
Awaiting(p) == pub[p].pc \in {"arming", "waiting"}
FreshNotify(b) ==
  Min((1 .. Cardinality(Key) + Cardinality(Pub) + 1)
      \ ({b.rooms[k].notify : k \in DOMAIN b.rooms}
           \cup {pub[p].notify : p \in {q \in Pub : Awaiting(q)}}))

(* rooms.entry(key).or_default() *)
Entry(b, k) == IF k \in DOMAIN b.rooms THEN b.rooms[k] ELSE NewRoom(FreshNotify(b))
PermitsFor(b, k) == IF k \in DOMAIN b.rooms THEN permits ELSE permits \ {FreshNotify(b)}

-----------------------------------------------------------------------------
(* Publish streams: handle_publish_stream. *)

InWait(p) == pub[p].pc \in {"checking", "arming", "waiting"}

Goto(p, pc) == pub' = [pub EXCEPT ![p].pc = pc]


(* What the reset of a finished room gives back to the global budget. *)
FreedByReset(r) == IF Finished(r) THEN r.bytes ELSE 0

(* One turn of the loop of wait_for_subscriber, under the lock.  A finished
   room is reset in place.                                                 *)
Check(p) ==
  /\ pub[p].pc \in {"new", "checking"}
  /\ LET k == pub[p].key
         b == PurgeRooms(broker)
         old == Entry(b, k)
         id == FreshNotify(b)
         r == IF Finished(old) THEN NewRoom(id) ELSE old
     IN  IF Full(b, k)
         THEN broker' = b /\ Goto(p, "ended") /\ UNCHANGED permits
         ELSE /\ broker' = PutRoom(b, k, r, SaturatingSub(b.total, FreedByReset(old)))
              /\ permits' = IF r.notify = id THEN permits \ {id} ELSE permits
              /\ pub' = [pub EXCEPT ![p].pc = IF r.subs # {} THEN "publishing" ELSE "arming",
                                    ![p].notify = r.notify]
  /\ UNCHANGED <<sub, timers, count>>

(* notified().await: takes a stored permit, or registers and waits. *)
Arm(p) ==
  /\ pub[p].pc = "arming"
  /\ Goto(p, IF pub[p].notify \in permits THEN "checking" ELSE "waiting")
  /\ permits' = permits \ {pub[p].notify}
  /\ UNCHANGED <<broker, sub, timers, count>>

(* The grace period is over: the loop is cancelled where it waits. *)
GraceExpires(p) ==
  /\ pub[p].pc \in {"checking", "waiting"}
  /\ Goto(p, "unmet")
  /\ UNCHANGED <<broker, sub, permits, timers, count>>

(* drop_empty_unfinished_room, after which the records are published anyway *)
DropEmptyRoom(p) ==
  /\ pub[p].pc = "unmet"
  /\ LET k == pub[p].key IN
     broker' = IF k \in DOMAIN broker.rooms /\ Unused(broker.rooms[k])
               THEN RemoveRoom(broker, k) ELSE broker
  /\ Goto(p, "publishing")
  /\ UNCHANGED <<sub, permits, timers, count>>

(* How many entries the loop of publish() drops from the front. *)
Overflow(log, total) ==
  Min({d \in 0 .. Len(log) :
         /\ Len(log) - d <= MaxBacklog
         /\ total - Size(SubSeq(log, 1, d)) <= MaxBytes} \cup {Len(log)})

(* Appends the record to the backlog: the room and the new total. *)
Append1(r0, total0, n, b) ==
  IF ReplayTtl = 0 THEN [room |-> r0, total |-> total0]
  ELSE LET r == PurgeBacklog(r0)
           log == Append(r.log, [n |-> n, b |-> b, age |-> 0])
           total == SaturatingSub(total0, Freed(r0)) + b
           d == Overflow(log, total)
           gone == Size(SubSeq(log, 1, d))
       IN  [room |-> [r EXCEPT !.log = SubSeq(log, d + 1, Len(log)),
                               !.bytes = SaturatingSub(@ + b, gone)],
            total |-> SaturatingSub(total, gone)]

(* Mutant: a full queue skips the record. *)
OfferSkips(s, n) ==
  IF Len(sub[s].q) < QueueDepth THEN [sub[s] EXCEPT !.q = Append(@, n)] ELSE sub[s]

(* try_send: a queue with room takes the record; a full one is closed. *)
Offer(s, n) ==
  IF Len(sub[s].q) < QueueDepth THEN [sub[s] EXCEPT !.q = Append(@, n)]
  ELSE [sub[s] EXCEPT !.end = "lagged"]

Publish(p, b) ==
  /\ pub[p].pc = "publishing" /\ count[pub[p].key] < MaxRecords
  /\ ReplayTtl = 0 \/ b <= MaxBytes
  /\ LET k == pub[p].key
         purged == PurgeRooms(broker)
         st == IF k \in DOMAIN purged.rooms /\ Finished(purged.rooms[k])
               THEN RemoveRoom(purged, k) ELSE purged
         n == count[k] + 1
         room == [Entry(st, k) EXCEPT !.act = 0]
         done == Append1(room, st.total, n, b)
         taken == {s \in room.subs : Offer(s, n).end = "open"}
         new == [done.room EXCEPT !.subs = taken]
         after == PutRoom(st, k, new, done.total)
     IN  IF Full(st, k)
         THEN broker' = st /\ Goto(p, "finishing") /\ UNCHANGED <<sub, permits, count>>
         ELSE /\ broker' = IF Unused(new) THEN RemoveRoom(after, k) ELSE after
              /\ permits' = PermitsFor(st, k)
              /\ count' = [count EXCEPT ![k] = n]
              /\ sub' = [s \in Sub |-> IF s \in room.subs THEN Offer(s, n) ELSE sub[s]]
              /\ UNCHANGED pub
  /\ UNCHANGED timers

(* A record over the byte budget is refused before the lock is taken. *)
RejectTooLarge(p, b) ==
  /\ pub[p].pc = "publishing" /\ ReplayTtl # 0 /\ b > MaxBytes
  /\ Goto(p, "finishing")
  /\ UNCHANGED <<broker, sub, permits, timers, count>>

(* The queues of a room that goes away are closed. *)
Closed(ss, k) ==
  [s \in Sub |-> IF s \in ss THEN [sub[s] EXCEPT !.end = "closed", !.upto = count[k]]
                 ELSE sub[s]]

(* The one-shot timer that finish_room spawns for a retained room. *)
Scheduled(keeps) == IF keeps THEN 0 ELSE Never

(* The stream ends, fails or is quiet for too long: finish_room.  A backlog
   is retained for late subscribers, with a timer to drop it.              *)
Finish(p) ==
  /\ pub[p].pc \in {"publishing", "finishing"}
  /\ LET k == pub[p].key
         b == PurgeRooms(broker)
         there == k \in DOMAIN b.rooms
         r == [PurgeBacklog(b.rooms[k]) EXCEPT !.subs = {}]
         keeps == there /\ r.log # <<>>
     IN  /\ broker' = IF keeps THEN PutRoom(b, k, [r EXCEPT !.fin = 0, !.act = 0],
                                            SaturatingSub(b.total, Freed(b.rooms[k])))
                      ELSE RemoveRoom(b, k)
         /\ sub' = IF there THEN Closed(b.rooms[k].subs, k) ELSE sub
         /\ timers' = [timers EXCEPT ![p] = Scheduled(keeps)]
  /\ Goto(p, "ended")
  /\ UNCHANGED <<permits, count>>

(* A record of another stream: drop_room. *)
DropRoom(p) ==
  /\ pub[p].pc = "publishing"
  /\ LET k == pub[p].key IN
     /\ broker' = RemoveRoom(broker, k)
     /\ sub' = IF k \in DOMAIN broker.rooms THEN Closed(broker.rooms[k].subs, k) ELSE sub
  /\ Goto(p, "ended")
  /\ UNCHANGED <<permits, timers, count>>

(* Mutant: the timer drops whatever finished room it finds. *)
FireBlind(p) ==
  /\ timers[p] = RoomTtl /\ timers' = [timers EXCEPT ![p] = Never]
  /\ LET k == pub[p].key IN
     broker' = IF k \in DOMAIN broker.rooms /\ Finished(broker.rooms[k])
               THEN RemoveRoom(broker, k) ELSE broker
  /\ UNCHANGED <<pub, sub, permits, count>>

(* The timer of finish_room: drop_expired_finished_room. *)
Fire(p) ==
  /\ timers[p] = RoomTtl /\ timers' = [timers EXCEPT ![p] = Never]
  /\ LET k == pub[p].key IN
     broker' = IF k \in DOMAIN broker.rooms /\ broker.rooms[k].fin = RoomTtl
               THEN RemoveRoom(broker, k) ELSE broker
  /\ UNCHANGED <<pub, sub, permits, count>>

-----------------------------------------------------------------------------
(* Subscribe streams: handle_subscribe_stream. *)

(* The numbers a log serves. *)
Numbers(log) == [i \in DOMAIN log |-> log[i].n]

(* notify_waiters *)
Woken(id) ==
  [p \in Pub |-> IF pub[p].pc = "waiting" /\ pub[p].notify = id
                 THEN [pub[p] EXCEPT !.pc = "checking"] ELSE pub[p]]

(* Mutant: only registered waiters are woken. *)
NotifyOneNone(ps, id) == ps

(* notify_one finds no waiter left, and stores a permit for a publisher that
   is about to register.                                                   *)
NotifyOne(ps, id) == ps \cup {id}

(* subscribe(): the backlog and the queue are taken at the same instant.  A
   finished room only serves its backlog: the queue is closed at once.     *)
Subscribe(s) ==
  /\ sub[s].pc = "new"
  /\ LET k == sub[s].key
         b == PurgeRooms(broker)
         r == PurgeBacklog(Entry(b, k))
         new == IF Finished(r) THEN r ELSE [r EXCEPT !.act = 0, !.subs = @ \cup {s}]
     IN  IF Full(b, k)
         THEN /\ broker' = b /\ sub' = [sub EXCEPT ![s].pc = "refused"]
              /\ UNCHANGED <<pub, permits>>
         ELSE /\ broker' = PutRoom(b, k, new, SaturatingSub(b.total, Freed(Entry(b, k))))
              /\ sub' = [sub EXCEPT ![s] =
                           [pc |-> "sending", key |-> k, todo |-> Numbers(r.log), q |-> <<>>,
                            got |-> <<>>, from |-> count[k] + 1 - Len(r.log),
                            upto |-> count[k], end |-> IF Finished(r) THEN "closed" ELSE "open"]]
              /\ pub' = IF Finished(r) THEN pub ELSE Woken(r.notify)
              /\ permits' = IF Finished(r) THEN permits
                            ELSE NotifyOne(PermitsFor(b, k), r.notify)
  /\ UNCHANGED <<timers, count>>

(* rx.recv(): the next queued record is taken in hand. *)
Recv(s) ==
  /\ sub[s].pc = "sending" /\ sub[s].todo = <<>> /\ sub[s].q # <<>>
  /\ sub' = [sub EXCEPT ![s].todo = <<Head(sub[s].q)>>, ![s].q = Tail(@)]
  /\ UNCHANGED <<broker, pub, permits, timers, count>>

WriteFrame(s) ==
  /\ sub[s].pc = "sending" /\ sub[s].todo # <<>>
  /\ sub' = [sub EXCEPT ![s].got = Append(@, Head(sub[s].todo)), ![s].todo = Tail(@)]
  /\ UNCHANGED <<broker, pub, permits, timers, count>>

(* The write fails or meets its deadline: the stream is reset. *)
WriteFails(s) ==
  /\ sub[s].pc = "sending" /\ sub[s].todo # <<>>
  /\ sub' = [sub EXCEPT ![s].pc = "resetting"]
  /\ UNCHANGED <<broker, pub, permits, timers, count>>

(* Mutant: the stream is finished as soon as its queue is closed. *)
EndOfQueueEarly(s) ==
  /\ sub[s].pc = "sending" /\ sub[s].todo = <<>> /\ sub[s].end # "open"
  /\ sub' = [sub EXCEPT ![s].pc = "finishing"]
  /\ UNCHANGED <<broker, pub, permits, timers, count>>

(* The queue is closed and empty: send.finish(). *)
EndOfQueue(s) ==
  /\ sub[s].pc = "sending" /\ sub[s].todo = <<>> /\ sub[s].q = <<>> /\ sub[s].end # "open"
  /\ sub' = [sub EXCEPT ![s].pc = "finishing"]
  /\ UNCHANGED <<broker, pub, permits, timers, count>>

Unsubscribe(s) ==
  /\ sub[s].pc \in {"resetting", "finishing"}
  /\ LET k == sub[s].key
         b == PurgeRooms(broker)
         r0 == b.rooms[k]
         r == [r0 EXCEPT !.subs = @ \ {s}, !.act = IF Finished(r0) THEN @ ELSE 0]
     IN  broker' = IF k \notin DOMAIN b.rooms THEN b
                   ELSE IF Unused(r) THEN RemoveRoom(b, k) ELSE PutRoom(b, k, r, b.total)
  /\ sub' = [sub EXCEPT ![s].pc = IF @ = "finishing" THEN "clean" ELSE "reset",
                        ![s].end = IF @ = "open" THEN "left" ELSE @,
                        ![s].q = <<>>]
  /\ UNCHANGED <<pub, permits, timers, count>>

-----------------------------------------------------------------------------
Older(age, top) == IF age < top THEN age + 1 ELSE age
AgedEntry(e) == [e EXCEPT !.age = Older(@, ReplayTtl)]
AgedRoom(r) ==
  [r EXCEPT !.log = [i \in DOMAIN @ |-> AgedEntry(@[i])],
            !.fin = Older(@, RoomTtl), !.act = Older(@, RoomTtl)]

Tick ==
  /\ \A p \in Pub : InWait(p) => ~pub[p].aged
  /\ broker' = [broker EXCEPT !.rooms = [k \in DOMAIN @ |-> AgedRoom(@[k])]]
  /\ pub' = [p \in Pub |-> IF InWait(p) THEN [pub[p] EXCEPT !.aged = TRUE] ELSE pub[p]]
  /\ timers' = [p \in Pub |-> Older(timers[p], RoomTtl)]
  /\ UNCHANGED <<sub, permits, count>>

Init ==
  /\ broker = [rooms |-> [k \in {} |-> NewRoom(1)], total |-> 0]
  /\ pub \in [Pub -> {[pc |-> "new", key |-> k, notify |-> 0, aged |-> FALSE] : k \in Key}]
  /\ sub \in [Sub -> {[pc |-> "new", key |-> k, todo |-> <<>>, q |-> <<>>, got |-> <<>>,
                       from |-> 1, upto |-> 0, end |-> "open"] : k \in Key}]
  /\ permits = {} /\ timers = [p \in Pub |-> Never] /\ count = [k \in Key |-> 0]

Waits(p) == Check(p) \/ Arm(p) \/ GraceExpires(p) \/ DropEmptyRoom(p)
Publishes(p) ==
  \/ \E b \in Sizes : Publish(p, b) \/ RejectTooLarge(p, b)
  \/ Finish(p) \/ DropRoom(p)
Serves(s) == Recv(s) \/ WriteFrame(s) \/ WriteFails(s) \/ EndOfQueue(s) \/ Unsubscribe(s)

Next ==
  \/ \E p \in Pub : Waits(p) \/ Publishes(p) \/ Fire(p)
  \/ \E s \in Sub : Subscribe(s) \/ Serves(s)
  \/ Tick

Spec == Init /\ [][Next]_vars

(* Every started handler step ends: writes and lock holders are bounded, the
   grace period and the 120 s quiet-gap deadline expire, timers fire and time
   passes.  Nobody has to subscribe or to publish.                          *)
LiveSpec ==
  /\ Spec /\ WF_vars(Tick)
  /\ \A p \in Pub :
       /\ WF_vars(Fire(p)) /\ WF_vars(Arm(p)) /\ WF_vars(GraceExpires(p))
       /\ WF_vars(DropEmptyRoom(p)) /\ WF_vars(Finish(p))
  /\ \A s \in Sub : WF_vars(Serves(s))

-----------------------------------------------------------------------------
RoomType ==
  [subs : SUBSET Sub, log : Seq([n : Nat, b : Sizes, age : 0 .. ReplayTtl]), bytes : Nat,
   notify : Nat, fin : 0 .. Never, act : 0 .. RoomTtl]

TypeOK ==
  /\ DOMAIN broker.rooms \subseteq Key /\ broker.total \in Nat
  /\ \A k \in DOMAIN broker.rooms : broker.rooms[k] \in RoomType
  /\ pub \in [Pub -> [pc : {"new", "checking", "arming", "waiting", "unmet", "publishing",
                            "finishing", "ended"},
                      key : Key, notify : Nat, aged : BOOLEAN]]
  /\ sub \in [Sub -> [pc : {"new", "sending", "resetting", "finishing", "clean", "reset",
                            "refused"},
                      key : Key, todo : Seq(Nat), q : Seq(Nat), got : Seq(Nat), from : Nat,
                      upto : Nat, end : {"open", "lagged", "closed", "left"}]]
  /\ permits \subseteq Nat /\ timers \in [Pub -> 0 .. Never] /\ count \in [Key -> Nat]


(* What subscriber s has seen or will see of what it was given. *)
Given(s) == sub[s].got \o sub[s].todo \o sub[s].q

(* A subscriber is given a run of consecutive publications that starts where
   its snapshot starts, without a gap or a repetition between the backlog and
   the live records; while it is in the room the run reaches the last one. *)
SubscriberSeesRun ==
  \A s \in Sub :
    sub[s].pc \in {"sending", "resetting", "finishing"} =>
      /\ \A i \in DOMAIN Given(s) : Given(s)[i] = sub[s].from + i - 1
      /\ sub[s].end = "open" =>
           /\ sub[s].key \in DOMAIN broker.rooms
           /\ s \in broker.rooms[sub[s].key].subs
           /\ sub[s].from + Len(Given(s)) = count[sub[s].key] + 1

(* A stream that ended cleanly because its room closed carried everything from
   the snapshot to the last publication before the room closed.             *)
CleanEndIsComplete ==
  \A s \in Sub :
    sub[s].pc = "clean" /\ sub[s].end = "closed" =>
      sub[s].got = [i \in 1 .. sub[s].upto + 1 - sub[s].from |-> sub[s].from + i - 1]

(* A publisher that waits for its first subscriber, and is the only publisher
   of its key, is not left waiting while a subscriber is there: neither a
   subscription between its check and its registration nor a permit left by
   an earlier one makes it miss the wake-up.                                *)
LoneWaiterIsWoken ==
  \A p \in Pub :
    /\ pub[p].pc = "waiting"
    /\ \A q \in Pub \ {p} : pub[q].key # pub[p].key \/ pub[q].pc = "new"
    => \A s \in Sub : ~(sub[s].key = pub[p].key /\ sub[s].pc = "sending")

(* A finished room serves late subscribers for its whole time: before that,
   only a publisher of the same key may end it, never the timer of an earlier
   stream.                                                                  *)
ReplayWindowIsKept ==
  [][\A k \in DOMAIN broker.rooms :
       broker.rooms[k].fin < RoomTtl =>
         \/ k \in DOMAIN broker'.rooms /\ Finished(broker'.rooms[k])
         \/ count'[k] # count[k]
         \/ \E p \in Pub : pub[p].key = k /\ pub'[p].pc # pub[p].pc]_vars

(* A finished room is dropped although nobody touches the broker again. *)
FinishedRoomIsDropped ==
  \A k \in Key :
    (k \in DOMAIN broker.rooms /\ Finished(broker.rooms[k]))
      ~> (k \notin DOMAIN broker.rooms \/ ~Finished(broker.rooms[k]))

(* The subscribers of a stream are let go when its publisher ends: a handler
   that serves a room with a publisher comes to its end.                    *)
AudienceIsReleased ==
  \A s \in Sub, p \in Pub :
    (sub[s].pc = "sending" /\ pub[p].key = sub[s].key /\ pub[p].pc = "publishing")
      ~> sub[s].pc \in {"clean", "reset"}

=============================================================================
