-------------------------- MODULE BrokerRoomsProofs --------------------------
(***************************************************************************)
(* What the broker promises its streams: a subscriber is given a run of    *)
(* publications, a clean end is a complete one, a lone publisher is not    *)
(* left waiting beside a subscriber, and a finished room keeps its replay  *)
(* window.  The invariant they follow from is the one of BrokerSteps.      *)
(***************************************************************************)
EXTENDS BrokerSteps, FiniteSetTheorems

-----------------------------------------------------------------------------
(* What the model's least elements are. *)

\* A nonempty set of naturals has a least element, by the well-founded order.
LEMMA LeastIsMember ==
  ASSUME NEW T \in SUBSET Nat, T # {}
  PROVE  \E n \in T : \A m \in T : n <= m
<1>1. \A x, y \in Nat : <<x, y>> \in OpToRel(<, Nat) <=> x < y
  BY DEF OpToRel
<1>2. PICK R : IsWellFoundedOn(R, Nat) /\ \A x, y \in Nat : <<x, y>> \in R <=> x < y
  BY <1>1, NatLessThanWellFounded, Zenon
<1>3. IsWellFoundedOn(R, Nat) /\ T \subseteq Nat
  BY <1>2
<1>4. PICK n \in T : \A m \in T : ~(<<m, n>> \in R)
  BY <1>3, WFMin
<1>5. \A m \in T : ~(m < n)
  BY <1>2, <1>4
<1> QED
  BY <1>5

\* The least member of a set of numbers is one of them.
LEMMA MinIsMember ==
  ASSUME NEW T \in SUBSET Nat, T # {}
  PROVE  Min(T) \in T
BY LeastIsMember, Zenon DEF Min

\* purge_expired_backlog pops a prefix of the log.
LEMMA ExpiredInLog ==
  ASSUME NEW log, Len(log) \in Nat
  PROVE  Expired(log) \in 0 .. Len(log)
<1> DEFINE T == {d \in 0 .. Len(log) : d = Len(log) \/ log[d + 1].age < ReplayTtl}
<1>1. T \in SUBSET Nat /\ T # {} /\ T \subseteq 0 .. Len(log)
  OBVIOUS
<1>2. Min(T) \in T
  <2> HIDE DEF T
  <2> QED
    BY <1>1, MinIsMember
<1> QED
  BY <1>1, <1>2, Zenon DEF Expired

\* So does the loop of publish() that keeps the limits.
LEMMA OverflowInLog ==
  ASSUME NEW log, NEW total, Len(log) \in Nat
  PROVE  Overflow(log, total) \in 0 .. Len(log)
<1> DEFINE T == {d \in 0 .. Len(log) :
                   /\ Len(log) - d <= MaxBacklog
                   /\ total - Size(SubSeq(log, 1, d)) <= MaxBytes} \cup {Len(log)}
<1>1. T \in SUBSET Nat /\ T # {} /\ T \subseteq 0 .. Len(log)
  OBVIOUS
<1>2. Min(T) \in T
  <2> HIDE DEF T
  <2> QED
    BY <1>1, MinIsMember
<1> QED
  BY <1>1, <1>2, Zenon DEF Overflow

\* The image of a finite set is finite and no larger.
LEMMA ImageBound ==
  ASSUME NEW f, NEW T, IsFiniteSet(T), DOMAIN f = T
  PROVE  LET R == {f[x] : x \in T}
         IN  IsFiniteSet(R) /\ Cardinality(R) <= Cardinality(T)
<1> DEFINE R == {f[x] : x \in T}
           g == [x \in T |-> f[x]]
<1>1. g \in Surjection(T, R)
  BY DEF Surjection
<1> HIDE DEF g, R
<1>2. IsFiniteSet(R) /\ Cardinality(R) <= Cardinality(T)
  BY <1>1, FS_Surjection, Zenon
<1> QED
  BY <1>2, Zenon DEF R

\* There is always a Notify object nobody holds.
LEMMA FreshNotifyUnheld ==
  ASSUME NEW b, DOMAIN b.rooms \subseteq Key, pub \in [Pub -> PubType]
  PROVE  /\ FreshNotify(b) \in Nat
         /\ \A k \in DOMAIN b.rooms : b.rooms[k].notify # FreshNotify(b)
         /\ \A p \in Pub : Awaiting(p) => pub[p].notify # FreshNotify(b)
<1> DEFINE W == {q \in Pub : Awaiting(q)}
           D == DOMAIN b.rooms
           f == [k \in D |-> b.rooms[k].notify]
           g == [p \in W |-> pub[p].notify]
           R == {f[k] : k \in D}
           Q == {g[p] : p \in W}
           N == Cardinality(Key) + Cardinality(Pub) + 1
           free == (1 .. N) \ (R \cup Q)
<1>1. IsFiniteSet(Key) /\ IsFiniteSet(Pub)
  BY BrokerBounds, Zenon
<1>2. Cardinality(Key) \in Nat /\ Cardinality(Pub) \in Nat
  BY <1>1, FS_CardinalityType, Zenon
<1>3. IsFiniteSet(D) /\ Cardinality(D) <= Cardinality(Key) /\ Cardinality(D) \in Nat
  <2> D \in SUBSET Key
    OBVIOUS
  <2> HIDE DEF D
  <2> QED
    BY <1>1, FS_Subset, FS_CardinalityType, Zenon
<1>4. IsFiniteSet(W) /\ Cardinality(W) <= Cardinality(Pub) /\ Cardinality(W) \in Nat
  <2> W \in SUBSET Pub
    OBVIOUS
  <2> HIDE DEF W
  <2> QED
    BY <1>1, FS_Subset, FS_CardinalityType, Zenon
<1>5. IsFiniteSet(R) /\ Cardinality(R) <= Cardinality(D) /\ Cardinality(R) \in Nat
  <2> DOMAIN f = D
    OBVIOUS
  <2>1. IsFiniteSet(R) /\ Cardinality(R) <= Cardinality(D)
    <3> HIDE DEF f, D
    <3> QED
      BY <1>3, ImageBound, Zenon
  <2> HIDE DEF R
  <2> QED
    BY <2>1, FS_CardinalityType, Zenon
<1>6. IsFiniteSet(Q) /\ Cardinality(Q) <= Cardinality(W) /\ Cardinality(Q) \in Nat
  <2> DOMAIN g = W
    OBVIOUS
  <2>1. IsFiniteSet(Q) /\ Cardinality(Q) <= Cardinality(W)
    <3> HIDE DEF g, W
    <3> QED
      BY <1>4, ImageBound, Zenon
  <2> HIDE DEF Q
  <2> QED
    BY <2>1, FS_CardinalityType, Zenon
<1>7. FreshNotify(b) = Min(free)
  <2>1. R = {b.rooms[k].notify : k \in D} /\ Q = {pub[p].notify : p \in W}
    BY Zenon
  <2> HIDE DEF R, Q
  <2> QED
    BY <2>1, Zenon DEF FreshNotify
<1>8. free # {} /\ free \in SUBSET Nat
  <2> HIDE DEF R, Q, D, W
  <2>1. IsFiniteSet(R \cup Q)
    BY <1>5, <1>6, FS_Union, Zenon
  <2>2. Cardinality(R \cup Q) = Cardinality(R) + Cardinality(Q) - Cardinality(R \cap Q)
    BY <1>5, <1>6, FS_Union, Zenon
  <2>3. Cardinality(R \cap Q) \in Nat
    <3>1. R \cap Q \in SUBSET R
      BY Zenon
    <3>2. IsFiniteSet(R \cap Q)
      BY <1>5, <3>1, FS_Subset, Zenon
    <3> QED
      BY <3>2, FS_CardinalityType, Zenon
  <2>4. N \in Nat /\ 1 \in Int /\ N \in Int /\ ~(1 > N) /\ N - 1 + 1 = N
    BY <1>2
  <2>5. Cardinality(1 .. N) = N
    <3>1. Cardinality(1 .. N) = IF 1 > N THEN 0 ELSE N - 1 + 1
      <4> HIDE DEF N
      <4> QED
        BY <2>4, FS_Interval
    <3> QED
      BY <2>4, <3>1
  <2>6. Cardinality(R \cup Q) < N
    BY <1>2, <1>3, <1>4, <1>5, <1>6, <2>2, <2>3
  <2>7. Cardinality(R \cup Q) \in Nat
    BY <2>1, FS_CardinalityType, Zenon
  <2>8. ~(1 .. N \subseteq R \cup Q)
    <3> SUFFICES ASSUME 1 .. N \in SUBSET (R \cup Q) PROVE FALSE
      BY Zenon
    <3>1. Cardinality(1 .. N) <= Cardinality(R \cup Q)
      BY <2>1, FS_Subset, Zenon
    <3> HIDE DEF N
    <3> QED
      BY <2>4, <2>5, <2>6, <2>7, <3>1
  <2> HIDE DEF N
  <2>9. 1 .. N \subseteq Nat
    BY <2>4
  <2>10. PICK x \in 1 .. N : x \notin R \cup Q
    BY <2>8, Zenon
  <2> QED
    BY <2>9, <2>10, Zenon
<1>9. Min(free) \in free
  <2> HIDE DEF free
  <2> QED
    BY <1>8, MinIsMember, Zenon
<1>10. Min(free) \in Nat /\ Min(free) \notin R /\ Min(free) \notin Q
  <2>1. \A x \in free : x \in Nat /\ x \notin R /\ x \notin Q
    <3> HIDE DEF R, Q, N
    <3> QED
      BY <1>8, Zenon
  <2> HIDE DEF free, R, Q
  <2> QED
    BY <1>9, <2>1, Zenon
<1>11. /\ \A k \in D : b.rooms[k].notify \in R
       /\ \A p \in W : pub[p].notify \in Q
  BY Zenon
<1> HIDE DEF free, R, Q
<1> QED
  BY <1>7, <1>10, <1>11, Zenon

\* The hypothesis under which BrokerSteps proves its steps.
LEMMA ChoicesHold == ChoicesOK
<1>1. \A log : Len(log) \in Nat => Expired(log) \in 0 .. Len(log)
  BY ExpiredInLog, Zenon
<1>2. \A log, total : Len(log) \in Nat => Overflow(log, total) \in 0 .. Len(log)
  BY OverflowInLog, Zenon
<1>3. \A b : DOMAIN b.rooms \subseteq Key /\ pub \in [Pub -> PubType] =>
        /\ FreshNotify(b) \in Nat
        /\ \A k \in DOMAIN b.rooms : b.rooms[k].notify # FreshNotify(b)
        /\ \A p \in Pub : Awaiting(p) => pub[p].notify # FreshNotify(b)
  BY FreshNotifyUnheld, Zenon
<1> QED
  BY <1>1, <1>2, <1>3, Zenon DEF ChoicesOK

-----------------------------------------------------------------------------
(* The invariant. *)

\* The rooms, the handlers of the streams and the permits agree, whatever the
\* interleaving of handlers, timers and time.
THEOREM Invariance == Spec => []IInv
<1>1. Init => IInv
  BY InitOK, Zenon
<1>2. IInv /\ [Next]_vars => IInv'
  BY NextOK, ChoicesHold, Zenon
<1> QED
  BY <1>1, <1>2, PTL DEF Spec

-----------------------------------------------------------------------------
(* What the broker promises. *)

\* What a stream was given is one run of numbers.
LEMMA GivenRun ==
  ASSUME NEW u, StreamOK(u), NEW G, G = u.got \o u.todo \o u.q
  PROVE  /\ \A i \in DOMAIN G : G[i] = u.from + i - 1
         /\ u.from + Len(G) = After(u)
<1> DEFINE f == u.from
           g == u.got
           h == u.todo
           q == u.q
<1>1. f \in Nat /\ g \in Seq(Nat) /\ h \in Seq(Nat) /\ q \in Seq(Nat)
  BY StreamFields, Zenon
<1>2. /\ \A i \in 1 .. Len(g) : g[i] = f + i - 1
      /\ \A i \in 1 .. Len(h) : h[i] = f + Len(g) + i - 1
      /\ \A i \in 1 .. Len(q) : q[i] = f + Len(g) + Len(h) + i - 1
  BY Zenon DEF StreamOK, RunOK
<1>3. After(u) = f + Len(g) + Len(h) + Len(q)
  BY Zenon DEF After
<1>4. G = g \o h \o q
  BY Zenon
<1> HIDE DEF f, g, h, q
<1> DEFINE a == g \o h
<1>5. /\ a \in Seq(Nat) /\ Len(a) = Len(g) + Len(h)
      /\ Len(g) \in Nat /\ Len(h) \in Nat /\ Len(q) \in Nat
      /\ \A i \in 1 .. Len(a) : a[i] = IF i <= Len(g) THEN g[i] ELSE h[i - Len(g)]
  BY <1>1
<1>6. G = a \o q
  BY <1>4, Zenon
<1> HIDE DEF a
<1>7. /\ Len(G) = Len(a) + Len(q) /\ DOMAIN G = 1 .. Len(a) + Len(q)
      /\ \A i \in 1 .. Len(a) + Len(q) : G[i] = IF i <= Len(a) THEN a[i] ELSE q[i - Len(a)]
  BY <1>1, <1>5, <1>6
<1>8. PICK x, y, z \in Nat : x = Len(g) /\ y = Len(h) /\ z = Len(q)
  BY <1>5, Zenon
<1>9. \A i \in 1 .. x : a[i] = f + i - 1
  BY <1>2, <1>5, <1>8
<1>10. ASSUME NEW i \in x + 1 .. x + y PROVE a[i] = f + i - 1
  <2>1. i - x \in 1 .. y /\ i \in 1 .. Len(a) /\ ~(i <= Len(g))
    BY <1>5, <1>8
  <2>2. a[i] = h[i - x] /\ h[i - x] = f + x + (i - x) - 1
    BY <1>2, <1>5, <1>8, <2>1, Zenon
  <2> QED
    BY <1>1, <1>8, <2>1, <2>2
<1>11. ASSUME NEW i \in x + y + 1 .. x + y + z PROVE G[i] = f + i - 1
  <2>1. i - (x + y) \in 1 .. z /\ i \in 1 .. Len(a) + Len(q) /\ ~(i <= Len(a)) /\ Len(a) = x + y
    BY <1>5, <1>8
  <2>2. G[i] = q[i - (x + y)] /\ q[i - (x + y)] = f + x + y + (i - (x + y)) - 1
    BY <1>2, <1>7, <1>8, <2>1, Zenon
  <2> QED
    BY <1>1, <1>8, <2>1, <2>2
<1>12. ASSUME NEW i \in 1 .. x + y PROVE G[i] = a[i]
  <2>1. i \in 1 .. (x + y) + z /\ i <= x + y
    OBVIOUS
  <2>2. Len(a) = x + y /\ Len(q) = z
    BY <1>5, <1>8, Zenon
  <2> QED
    BY <1>7, <2>1, <2>2, Zenon
<1>13. ASSUME NEW i \in DOMAIN G PROVE G[i] = f + i - 1
  <2>1. i \in 1 .. x \/ i \in x + 1 .. x + y \/ i \in x + y + 1 .. x + y + z
    BY <1>5, <1>7, <1>8
  <2>2. CASE i \in 1 .. x
    <3>1. i \in 1 .. x + y
      BY <2>2
    <3> QED
      BY <1>9, <1>12, <2>2, <3>1, Zenon
  <2>3. CASE i \in x + 1 .. x + y
    <3>1. i \in 1 .. x + y
      BY <2>3
    <3> QED
      BY <1>10, <1>12, <2>3, <3>1, Zenon
  <2> QED
    BY <1>11, <2>1, <2>2, <2>3, Zenon
<1>14. f + Len(G) = After(u)
  <2>1. Len(G) = x + y + z /\ After(u) = f + x + y + z
    BY <1>3, <1>5, <1>7, <1>8, Zenon
  <2> QED
    BY <1>1, <1>8, <2>1
<1> QED
  BY <1>13, <1>14, Zenon DEF f

\* A subscriber is given consecutive publications from its snapshot on, without
\* a gap or a repetition between the backlog and the live records, and while it
\* is in the room it has been given the last one (subscribe(), publish()).
THEOREM RunIsSeen == Spec => []SubscriberSeesRun
<1>1. IInv => SubscriberSeesRun
  <2> SUFFICES ASSUME IInv PROVE SubscriberSeesRun
    BY Zenon
  <2>1. Good(broker.rooms)
    BY Zenon DEF IInv
  <2>2. ASSUME NEW s \in Sub, sub[s].pc \in {"sending", "resetting", "finishing"}
        PROVE  /\ \A i \in DOMAIN Given(s) : Given(s)[i] = sub[s].from + i - 1
               /\ sub[s].end = "open" =>
                    /\ sub[s].key \in DOMAIN broker.rooms
                    /\ s \in broker.rooms[sub[s].key].subs
                    /\ sub[s].from + Len(Given(s)) = count[sub[s].key] + 1
    <3>1. StreamOK(sub[s]) /\ PresentOK(broker.rooms, s)
      BY <2>1, Zenon DEF Good, StreamsOK, TableOK
    <3>2. PICK u : u = sub[s]
      BY Zenon
    <3>3. PICK G : G = Given(s)
      BY Zenon
    <3>4. StreamOK(u) /\ G = u.got \o u.todo \o u.q
      BY <3>1, <3>2, <3>3, Zenon DEF Given
    <3>5. (\A i \in DOMAIN G : G[i] = u.from + i - 1) /\ u.from + Len(G) = After(u)
      BY <3>4, GivenRun, Zenon
    <3>6. sub[s].end = "open" => Live(sub[s])
      BY <2>2, <3>1 DEF Live, StreamOK
    <3> QED
      BY <3>1, <3>2, <3>3, <3>5, <3>6, Zenon DEF PresentOK
  <2> QED
    BY <2>2, Zenon DEF SubscriberSeesRun
<1> QED
  BY <1>1, Invariance, PTL

\* A stream that ended cleanly because its room closed carried everything from
\* its snapshot to the last publication before that (handle_subscribe_stream).
THEOREM CleanEnds == Spec => []CleanEndIsComplete
<1>1. IInv => CleanEndIsComplete
  <2> SUFFICES ASSUME IInv PROVE CleanEndIsComplete
    BY Zenon
  <2>1. ASSUME NEW s \in Sub, sub[s].pc = "clean" /\ sub[s].end = "closed"
        PROVE  sub[s].got = [i \in 1 .. sub[s].upto + 1 - sub[s].from |-> sub[s].from + i - 1]
    <3>1. PICK u : u = sub[s] /\ StreamOK(u)
      BY Zenon DEF IInv, Good, StreamsOK
    <3>2. u.pc # "reset" /\ u.pc \in {"finishing", "clean"} /\ u.end = "closed"
      BY <2>1, <3>1
    <3>3. u.todo = <<>> /\ u.q = <<>> /\ After(u) = u.upto + 1
      BY <3>1, <3>2, Zenon DEF StreamOK
    <3>4. u.upto \in Nat
      BY <3>1, Zenon DEF StreamOK, SubType
    <3> DEFINE f == u.from
               g == u.got
               c == u.upto
    <3>5. f \in Nat /\ g \in Seq(Nat) /\ c \in Nat
      BY <3>1, <3>4, StreamFields, Zenon
    <3>6. Len(<<>>) = 0
      OBVIOUS
    <3>7. f + Len(g) + 0 + 0 = c + 1
      BY <3>3, <3>6, Zenon DEF After
    <3>8. \A i \in 1 .. Len(g) : g[i] = f + i - 1
      BY <3>1, Zenon DEF StreamOK, RunOK
    <3> HIDE DEF f, g, c
    <3>9. Len(g) \in Nat
      BY <3>5
    <3>10. Len(g) = c + 1 - f
      BY <3>5, <3>7, <3>9
    <3>11. g = [i \in 1 .. Len(g) |-> f + i - 1]
      BY <3>5, <3>8
    <3>12. g = [i \in 1 .. c + 1 - f |-> f + i - 1]
      BY <3>10, <3>11, Zenon
    <3> QED
      BY <3>1, <3>12, Zenon DEF f, g, c
  <2> QED
    BY <2>1, Zenon DEF CleanEndIsComplete
<1> QED
  BY <1>1, Invariance, PTL

\* A publisher that waits alone on its key is not left waiting beside a
\* subscriber, although the check and the registration of wait_for_subscriber
\* are two steps and a permit may be left from an earlier round.
THEOREM NoLostWakeup == Spec => []LoneWaiterIsWoken
<1>1. IInv => LoneWaiterIsWoken
  <2> SUFFICES ASSUME IInv, NEW p \in Pub, pub[p].pc = "waiting",
                      \A q \in Pub \ {p} : pub[q].key # pub[p].key \/ pub[q].pc = "new",
                      NEW s \in Sub, sub[s].key = pub[p].key, sub[s].pc = "sending"
               PROVE  FALSE
    BY Zenon DEF LoneWaiterIsWoken
  <2>1. Solo(p)
    <3>1. pub[p].pc \in {"new", "checking", "arming", "waiting"}
      OBVIOUS
    <3> QED
      BY <3>1, Zenon DEF Solo
  <2>2. Good(broker.rooms)
    BY Zenon DEF IInv
  <2>3. QuietOK(p) /\ WaitOK(broker.rooms, p) /\ PresentOK(broker.rooms, s)
    BY <2>1, <2>2, Zenon DEF Good, SoloOK, TableOK
  <2>4. sub[s].end = "open"
    BY <2>3 DEF QuietOK
  <2>5. Live(sub[s])
    BY <2>4 DEF Live
  <2> QED
    BY <2>3, <2>5, Zenon DEF PresentOK, WaitOK
<1> QED
  BY <1>1, Invariance, PTL

\* Room k is finished after the step, or a publisher of its key has moved.
WindowKept(k) ==
  \/ k \in DOMAIN broker'.rooms /\ Finished(broker'.rooms[k])
  \/ count'[k] # count[k]
  \/ \E p \in Pub : pub[p].key = k /\ pub'[p].pc # pub[p].pc

\* The step leaves every room but l's as it was, or as the purge left it.
TouchesOnly(l) ==
  \/ Elsewhere(l, broker.rooms, broker'.rooms)
  \/ Elsewhere(l, PurgeRooms(broker).rooms, broker'.rooms)

\* The purge keeps a finished room whose time is not over.
LEMMA OpenWindow ==
  ASSUME ChoicesOK, IInv, NEW k \in DOMAIN broker.rooms, broker.rooms[k].fin < RoomTtl
  PROVE  /\ Finished(broker.rooms[k]) /\ k \in DOMAIN PurgeRooms(broker).rooms
         /\ Finished(PurgeRooms(broker).rooms[k])
<1>1. RoomOK(broker.rooms[k], count[k])
  BY Zenon DEF IInv, Good, TableOK
<1>2. broker.rooms[k].fin \in Nat
  BY <1>1, Zenon DEF RoomOK, RoomRecord
<1>3. broker.rooms[k].fin # Never
  BY <1>2, BrokerBounds DEF Never
<1>4. Finished(broker.rooms[k]) /\ Retained(broker.rooms[k])
  BY <1>3, Zenon DEF Finished, Retained
<1>5. k \in DOMAIN PurgeRooms(broker).rooms /\ SameRoom(PurgeRooms(broker).rooms[k], broker.rooms[k])
  BY <1>4, PurgeGood, Zenon
<1> QED
  BY <1>4, <1>5, Zenon DEF SameRoom, Finished

\* A step on another key does not end it.
LEMMA WindowElsewhere ==
  ASSUME ChoicesOK, IInv, NEW k \in DOMAIN broker.rooms, broker.rooms[k].fin < RoomTtl,
         NEW l, l # k, TouchesOnly(l)
  PROVE  WindowKept(k)
<1>1. /\ Finished(broker.rooms[k]) /\ k \in DOMAIN PurgeRooms(broker).rooms
      /\ Finished(PurgeRooms(broker).rooms[k])
  BY OpenWindow, Zenon
<1> QED
  BY <1>1, Zenon DEF TouchesOnly, Elsewhere, WindowKept

\* A publisher that takes a step touches its own key only, and moves or publishes.
LEMMA PublisherSteps ==
  ASSUME ChoicesOK, IInv, NEW p \in Pub, Waits(p) \/ Publishes(p), NEW l, pub[p].key = l
  PROVE  TouchesOnly(l) /\ (pub'[p].pc # pub[p].pc \/ count'[l] # count[l])
<1>1. /\ pub \in [Pub -> PubType] /\ count \in [Key -> Nat]
      /\ broker = [rooms |-> broker.rooms, total |-> broker.total]
  BY Zenon DEF IInv, Good, StreamsOK
<1>2. PICK b : b = PurgeRooms(broker)
  BY Zenon
<1>3. b = [rooms |-> b.rooms, total |-> b.total] /\ Good(b.rooms) /\ l \in Key
  BY <1>1, <1>2, PurgeRecord, PurgeGood DEF PubType
<1>4. \A rs : Elsewhere(l, rs, rs)
  BY Zenon DEF Elsewhere
<1>5. \A w : pub' = [pub EXCEPT ![p].pc = w] => pub'[p].pc = w
  BY <1>1 DEF PubType
<1>6. CASE Check(p)
  <2>1. TouchesOnly(l)
    <3>1. broker' = b \/ \E r, v : broker' = PutRoom(b, l, r, v)
      BY <1>2, <1>6, Zenon DEF Check
    <3>2. broker' = b \/ \E r : Has(l, b, broker', r)
      BY <3>1, PutRoomTable, Zenon
    <3> QED
      BY <1>2, <1>4, <3>2, Zenon DEF TouchesOnly, Has
  <2>2. ASSUME Full(b, l) PROVE pub'[p].pc \in {"ended", "publishing", "arming"}
    <3>1. pub' = [pub EXCEPT ![p].pc = "ended"]
      BY <1>2, <1>6, <2>2, Zenon DEF Check, Goto
    <3>2. pub'[p].pc = "ended"
      BY <1>5, <3>1, Zenon
    <3> QED
      BY <3>2
  <2>3. ASSUME ~Full(b, l) PROVE pub'[p].pc \in {"ended", "publishing", "arming"}
    <3>1. PICK r : r = IF Finished(Entry(b, l)) THEN NewRoom(FreshNotify(b)) ELSE Entry(b, l)
      BY Zenon
    <3>2. PICK w : w = IF r.subs # {} THEN "publishing" ELSE "arming"
      BY Zenon
    <3>3. pub' = [pub EXCEPT ![p].pc = w, ![p].notify = r.notify]
      BY <1>2, <1>6, <2>3, <3>1, <3>2, Zenon DEF Check
    <3>4. pub'[p].pc = w
      BY <1>1, <3>3, Zenon DEF PubType
    <3> QED
      BY <3>2, <3>4
  <2>4. pub[p].pc \in {"new", "checking"}
    BY <1>6, Zenon DEF Check
  <2>5. pub'[p].pc \in {"ended", "publishing", "arming"}
    BY <2>2, <2>3, Zenon
  <2>6. pub'[p].pc # pub[p].pc
    BY <2>4, <2>5, Zenon
  <2> QED
    BY <2>1, <2>6, Zenon
<1>7. CASE Arm(p)
  <2>1. broker' = broker /\ pub[p].pc = "arming"
    BY <1>7, Zenon DEF Arm
  <2>2. PICK w : w = IF pub[p].notify \in permits THEN "checking" ELSE "waiting"
    BY Zenon
  <2>3. pub' = [pub EXCEPT ![p].pc = w]
    BY <1>7, <2>2, Zenon DEF Arm, Goto
  <2>4. pub'[p].pc = w /\ w # "arming"
    BY <1>5, <2>2, <2>3, Zenon
  <2> QED
    BY <1>4, <2>1, <2>4, Zenon DEF TouchesOnly
<1>8. CASE GraceExpires(p)
  <2>1. broker' = broker /\ pub[p].pc \in {"checking", "waiting"} /\ pub'[p].pc = "unmet"
    BY <1>5, <1>8, Zenon DEF GraceExpires, Goto
  <2>2. pub'[p].pc # pub[p].pc
    BY <2>1
  <2> QED
    BY <1>4, <2>1, <2>2, Zenon DEF TouchesOnly
<1>9. CASE DropEmptyRoom(p)
  <2>1. /\ broker' = broker \/ broker' = RemoveRoom(broker, l)
        /\ pub[p].pc = "unmet" /\ pub'[p].pc = "publishing"
    BY <1>5, <1>9, Zenon DEF DropEmptyRoom, Goto
  <2>2. broker' = broker \/ Lacks(l, broker, broker')
    BY <1>1, <2>1, RemoveRoomTable, Zenon
  <2>3. pub'[p].pc # pub[p].pc
    BY <2>1
  <2> QED
    BY <1>4, <2>2, <2>3, Zenon DEF TouchesOnly, Lacks
<1>10. CASE \E z \in Sizes : Publish(p, z)
  <2>1. PICK z \in Sizes : Publish(p, z)
    BY <1>10, Zenon
  <2>2. PICK st : st = IF l \in DOMAIN b.rooms /\ Finished(b.rooms[l]) THEN RemoveRoom(b, l) ELSE b
    BY Zenon
  <2>3. st = [rooms |-> st.rooms, total |-> st.total] /\ Elsewhere(l, b.rooms, st.rooms)
    BY <1>3, <2>2, PublishRoom, Zenon
  <2>4. CASE Full(st, l)
    <3>1. broker' = st /\ pub[p].pc = "publishing" /\ pub'[p].pc = "finishing"
      BY <1>2, <1>5, <2>1, <2>2, <2>4, Zenon DEF Publish, Goto
    <3>2. pub'[p].pc # pub[p].pc
      BY <3>1
    <3> QED
      BY <1>2, <2>3, <3>1, <3>2, Zenon DEF TouchesOnly
  <2>5. CASE ~Full(st, l)
    <3>1. /\ count' = [count EXCEPT ![l] = count[l] + 1]
          /\ \E new, v : \/ broker' = PutRoom(st, l, new, v)
                         \/ broker' = RemoveRoom(PutRoom(st, l, new, v), l)
      BY <1>2, <2>1, <2>2, <2>5, Zenon DEF Publish
    <3>2. count'[l] # count[l]
      BY <1>1, <1>3, <3>1
    <3>3. PICK new, v : \/ broker' = PutRoom(st, l, new, v)
                        \/ broker' = RemoveRoom(PutRoom(st, l, new, v), l)
      BY <3>1, Zenon
    <3>4. PICK after : after = PutRoom(st, l, new, v)
      BY Zenon
    <3>5. Has(l, st, after, new)
      BY <3>4, PutRoomTable, Zenon
    <3>6. /\ after = [rooms |-> after.rooms, total |-> after.total]
          /\ Elsewhere(l, st.rooms, after.rooms)
      BY <3>5, Zenon DEF Has
    <3>7. broker' = after \/ Lacks(l, after, broker')
      BY <3>3, <3>4, <3>6, RemoveRoomTable, Zenon
    <3>8. Elsewhere(l, after.rooms, broker'.rooms)
      BY <1>4, <3>7, Zenon DEF Lacks
    <3>9. Elsewhere(l, b.rooms, broker'.rooms)
      BY <2>3, <3>6, <3>8, ElsewhereTwice, Zenon
    <3> QED
      BY <1>2, <3>2, <3>9, Zenon DEF TouchesOnly
  <2> QED
    BY <2>4, <2>5, Zenon
<1>11. CASE \E z \in Sizes : RejectTooLarge(p, z)
  <2>1. broker' = broker /\ pub[p].pc = "publishing" /\ pub'[p].pc = "finishing"
    BY <1>5, <1>11, Zenon DEF RejectTooLarge, Goto
  <2>2. pub'[p].pc # pub[p].pc
    BY <2>1
  <2> QED
    BY <1>4, <2>1, <2>2, Zenon DEF TouchesOnly
<1>12. CASE Finish(p)
  <2>1. /\ pub[p].pc \in {"publishing", "finishing"} /\ pub'[p].pc = "ended"
        /\ broker' = RemoveRoom(b, l) \/ \E r, v : broker' = PutRoom(b, l, r, v)
    BY <1>2, <1>5, <1>12, Zenon DEF Finish, Goto
  <2>2. pub'[p].pc # pub[p].pc
    BY <2>1
  <2>3. Lacks(l, b, broker') \/ \E r : Has(l, b, broker', r)
    BY <1>3, <2>1, RemoveRoomTable, PutRoomTable, Zenon
  <2> QED
    BY <1>2, <2>2, <2>3, Zenon DEF TouchesOnly, Lacks, Has
<1>13. CASE DropRoom(p)
  <2>1. broker' = RemoveRoom(broker, l) /\ pub[p].pc = "publishing" /\ pub'[p].pc = "ended"
    BY <1>5, <1>13, Zenon DEF DropRoom, Goto
  <2>2. pub'[p].pc # pub[p].pc
    BY <2>1
  <2>3. Lacks(l, broker, broker')
    BY <1>1, <2>1, RemoveRoomTable, Zenon
  <2> QED
    BY <2>2, <2>3, Zenon DEF TouchesOnly, Lacks
<1> QED
  BY <1>6, <1>7, <1>8, <1>9, <1>10, <1>11, <1>12, <1>13, Zenon DEF Waits, Publishes

\* A subscriber that comes or goes leaves a finished room finished.
LEMMA SubscriberSteps ==
  ASSUME ChoicesOK, IInv, NEW k \in DOMAIN broker.rooms, broker.rooms[k].fin < RoomTtl,
         NEW s \in Sub, Subscribe(s) \/ Unsubscribe(s)
  PROVE  WindowKept(k)
<1>1. PICK b : b = PurgeRooms(broker)
  BY Zenon
<1>2. /\ b = [rooms |-> b.rooms, total |-> b.total] /\ Good(b.rooms)
      /\ k \in DOMAIN b.rooms /\ Finished(b.rooms[k])
  BY <1>1, PurgeRecord, PurgeGood, OpenWindow, Zenon
<1>3. PICK l : l = sub[s].key
  BY Zenon
<1>4. \A rs : Elsewhere(l, rs, rs)
  BY Zenon DEF Elsewhere
<1>5. TouchesOnly(l)
  <2>1. broker' = b \/ broker' = RemoveRoom(b, l) \/ \E r, v : broker' = PutRoom(b, l, r, v)
    BY <1>1, <1>3, Zenon DEF Subscribe, Unsubscribe
  <2>2. broker' = b \/ Lacks(l, b, broker') \/ \E r : Has(l, b, broker', r)
    BY <1>2, <2>1, RemoveRoomTable, PutRoomTable, Zenon
  <2> QED
    BY <1>1, <1>4, <2>2, Zenon DEF TouchesOnly, Lacks, Has
<1>6. CASE l # k
  BY <1>5, <1>6, WindowElsewhere, Zenon
<1>7. CASE l = k /\ Subscribe(s)
  <2>1. ~Full(b, k) /\ Entry(b, k) = b.rooms[k]
    BY <1>2, Zenon DEF Full, Entry
  <2>2. PICK r : r = PurgeBacklog(b.rooms[k])
    BY Zenon
  <2>3. RoomOK(b.rooms[k], count[k]) /\ count[k] \in Nat
    BY <1>2 DEF Good, TableOK, StreamsOK
  <2>4. Finished(r)
    BY <1>2, <2>2, <2>3, PurgedBacklog, Zenon DEF SameRoom, Finished
  <2>5. PICK v : broker' = PutRoom(b, k, r, v)
    BY <1>1, <1>3, <1>7, <2>1, <2>2, <2>4, Zenon DEF Subscribe
  <2>6. Has(k, b, broker', r)
    BY <2>5, PutRoomTable, Zenon
  <2> QED
    BY <2>4, <2>6, Zenon DEF Has, WindowKept
<1>8. CASE l = k /\ Unsubscribe(s)
  <2>1. PICK w : w = IF Finished(b.rooms[k]) THEN b.rooms[k].act ELSE 0
    BY Zenon
  <2>2. PICK r : Attended(r, b.rooms[k], b.rooms[k].subs \ {s}, w)
    BY Zenon DEF Attended
  <2>3. RoomOK(b.rooms[k], count[k])
    BY <1>2, Zenon DEF Good, TableOK
  <2>4. AttendedAs(r, b.rooms[k], b.rooms[k].subs \ {s}, w)
    BY <2>2, <2>3, AttendedFields, Zenon
  <2>5. Finished(r) /\ ~Unused(r)
    BY <1>2, <2>4, Zenon DEF AttendedAs, Unused
  <2>6. broker' = PutRoom(b, k, r, b.total)
    BY <1>1, <1>2, <1>3, <1>8, <2>1, <2>2, <2>5, Zenon DEF Unsubscribe, Attended
  <2>7. Has(k, b, broker', r)
    BY <2>6, PutRoomTable, Zenon
  <2> QED
    BY <2>5, <2>7, Zenon DEF Has, WindowKept
<1> QED
  BY <1>6, <1>7, <1>8, Zenon

\* Before its time only a publisher of its key ends a finished room: neither a
\* purge, nor a subscriber, nor the timer that an earlier finish_room of the same
\* key left behind (drop_expired_finished_room).
THEOREM ReplayWindow == Spec => ReplayWindowIsKept
<1>1. ASSUME IInv, Next, NEW k \in DOMAIN broker.rooms, broker.rooms[k].fin < RoomTtl
      PROVE  WindowKept(k)
  <2>1. Finished(broker.rooms[k]) /\ broker = [rooms |-> broker.rooms, total |-> broker.total]
    BY <1>1, OpenWindow, ChoicesHold, Zenon DEF IInv
  <2>2. broker' = broker => WindowKept(k)
    BY <2>1, Zenon DEF WindowKept
  <2>3. ASSUME NEW p \in Pub, Waits(p) \/ Publishes(p) PROVE WindowKept(k)
    <3>1. PICK l : pub[p].key = l
      BY Zenon
    <3>2. TouchesOnly(l) /\ (pub'[p].pc # pub[p].pc \/ count'[l] # count[l])
      BY <1>1, <2>3, <3>1, PublisherSteps, ChoicesHold, Zenon
    <3>3. CASE l = k
      BY <3>1, <3>2, <3>3, Zenon DEF WindowKept
    <3>4. CASE l # k
      BY <1>1, <3>2, <3>4, WindowElsewhere, ChoicesHold, Zenon
    <3> QED
      BY <3>3, <3>4, Zenon
  <2>4. ASSUME NEW p \in Pub, Fire(p) PROVE WindowKept(k)
    <3>1. PICK l : pub[p].key = l
      BY Zenon
    <3>2. broker' = IF l \in DOMAIN broker.rooms /\ broker.rooms[l].fin = RoomTtl
                    THEN RemoveRoom(broker, l) ELSE broker
      BY <2>4, <3>1, Zenon DEF Fire
    <3>3. CASE broker' = RemoveRoom(broker, l) /\ broker.rooms[l].fin = RoomTtl
      <4>1. l # k
        BY <1>1, <3>3, BrokerBounds
      <4>2. Lacks(l, broker, broker')
        BY <2>1, <3>3, RemoveRoomTable, Zenon
      <4>3. TouchesOnly(l)
        BY <4>2, Zenon DEF TouchesOnly, Lacks
      <4> QED
        BY <1>1, <4>1, <4>3, WindowElsewhere, ChoicesHold, Zenon
    <3> QED
      BY <2>2, <3>2, <3>3, Zenon
  <2>5. ASSUME NEW s \in Sub, Subscribe(s) \/ Serves(s) PROVE WindowKept(k)
    <3>1. CASE Subscribe(s) \/ Unsubscribe(s)
      BY <1>1, <3>1, SubscriberSteps, ChoicesHold, Zenon
    <3>2. CASE Recv(s) \/ WriteFrame(s) \/ WriteFails(s) \/ EndOfQueue(s)
      BY <2>2, <3>2, Zenon DEF Recv, WriteFrame, WriteFails, EndOfQueue
    <3> QED
      BY <2>5, <3>1, <3>2, Zenon DEF Serves
  <2>6. CASE Tick
    <3>1. PICK ts : ts = [x \in DOMAIN broker.rooms |-> AgedRoom(broker.rooms[x])]
      BY Zenon
    <3>2. broker' = [broker EXCEPT !.rooms = ts]
      BY <2>6, <3>1, Zenon DEF Tick
    <3>3. broker'.rooms = ts
      <4>1. PICK rs, v : broker = [rooms |-> rs, total |-> v]
        BY <2>1, Zenon
      <4> QED
        BY <3>2, <4>1
    <3>4. RoomOK(broker.rooms[k], count[k]) /\ count[k] \in Nat
      BY <1>1 DEF IInv, Good, TableOK, StreamsOK
    <3>5. Finished(AgedRoom(broker.rooms[k]))
      BY <2>1, <3>4, AgedRoomOK, Zenon
    <3>6. k \in DOMAIN ts /\ ts[k] = AgedRoom(broker.rooms[k])
      BY <1>1, <3>1, Zenon
    <3> QED
      BY <3>3, <3>5, <3>6, Zenon DEF WindowKept
  <2> QED
    BY <1>1, <2>3, <2>4, <2>5, <2>6, Zenon DEF Next
<1>2. IInv /\ [Next]_vars =>
        [\A k \in DOMAIN broker.rooms :
           broker.rooms[k].fin < RoomTtl =>
             \/ k \in DOMAIN broker'.rooms /\ Finished(broker'.rooms[k])
             \/ count'[k] # count[k]
             \/ \E p \in Pub : pub[p].key = k /\ pub'[p].pc # pub[p].pc]_vars
  BY <1>1, Zenon DEF WindowKept
<1> QED
  BY <1>2, Invariance, PTL DEF Spec, ReplayWindowIsKept
=============================================================================
