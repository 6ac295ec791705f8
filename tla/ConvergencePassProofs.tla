----------------------- MODULE ConvergencePassProofs ------------------------
(***************************************************************************)
(* Proofs about ConvergencePass for every set of inputs, every policy and  *)
(* all bounds: its safety invariants, and that it implements               *)
(* BatchAdjudication.                                                      *)
(***************************************************************************)
EXTENDS ConvergencePass, WellFoundedInduction, TLAPS

-----------------------------------------------------------------------------
(* Least and greatest elements of sets of numbers, from the well-founded   *)
(* order of the naturals.                                                  *)

\* The order of the naturals as a relation.
LEMMA LessThanRelation ==
    \E R : IsWellFoundedOn(R, Nat) /\ \A x, y \in Nat : <<x, y>> \in R <=> x < y
<1>1. \A x, y \in Nat : <<x, y>> \in OpToRel(<, Nat) <=> x < y
  BY DEF OpToRel
<1> QED
  BY <1>1, NatLessThanWellFounded, Zenon

\* Every nonempty set of naturals has a least element.
LEMMA LeastNumber ==
    ASSUME NEW T \in SUBSET Nat, T # {}
    PROVE  \E n \in T : \A m \in T : n <= m
<1>1. PICK R : IsWellFoundedOn(R, Nat) /\ \A x, y \in Nat : <<x, y>> \in R <=> x < y
  BY LessThanRelation
<1>2. IsWellFoundedOn(R, Nat) /\ T \subseteq Nat
  BY <1>1
<1>3. PICK n \in T : \A m \in T : ~(<<m, n>> \in R)
  BY <1>2, WFMin
<1>4. \A m \in T : ~(m < n)
  BY <1>1, <1>3
<1> QED
  BY <1>4

\* Every nonempty bounded set of naturals has a greatest element.
LEMMA GreatestNumber ==
    ASSUME NEW T \in SUBSET Nat, T # {}, NEW b \in Nat, \A n \in T : n <= b
    PROVE  \E n \in T : \A m \in T : m <= n
<1> DEFINE D == {b - n : n \in T}
<1>1. D \in SUBSET Nat /\ D # {}
  <2>1. \A n \in T : b - n \in Nat
    OBVIOUS
  <2> QED
    BY <2>1
<1>2. PICK d \in D : \A e \in D : d <= e
  <2> HIDE DEF D
  <2> QED
    BY <1>1, LeastNumber
<1>3. PICK n \in T : d = b - n
  BY <1>2
<1>4. \A m \in T : b - n <= b - m
  BY <1>2, <1>3
<1>5. \A m \in T : m <= n
  BY <1>4
<1> QED
  BY <1>5

TimesRecord == [real : Nat, quiet : Nat, back : Nat, ahead : Nat]
UsedRecord == [restarts : 0..MaxRestarts, steps : 0..MaxSteps, failures : 0..MaxFailures]

\* What a pass still has to wait, against the outside clocks t: the wall
\* deadlines move with every adjustment, the process deadlines of a fresh pass
\* were taken from them.
Clocks(p, t) ==
    /\ p.age = t.real + t.ahead - t.back
    /\ p.wa + t.real <= MaxPass + t.back
    /\ p.wa + t.real + t.ahead >= MaxPass
    /\ p.wq + t.quiet + t.ahead >= Quiescence
    /\ p.fresh =>
         /\ p.a > 0 => p.a + t.real <= MaxPass + t.back
         /\ t.back = 0 => /\ p.a + t.real + t.ahead >= MaxPass
                          /\ p.q + t.quiet + t.ahead >= Quiescence

\* The cutoff of a closed batch was due.
Earned(p, t) ==
    t.back = 0 =>
        IF p.cause = "absolute" THEN t.real + t.ahead >= MaxPass
        ELSE p.cause = "quiescence" /\ t.quiet + t.ahead >= Quiescence

\* An active pass sits on the tip and holds an input that justifies it and has
\* not been judged; all it holds is retained, and within reach of its base.
Justified(p, r) ==
    /\ \E i \in p.members : r[i] = "created" /\ Relevant(p, i)
    /\ \A i \in p.members : r[i] # "none" /\ i \in Window(p.base)

PassOK(p, r, t) ==
    /\ p \in PassRecord
    /\ Active(p) => p.base = tip /\ Justified(p, r)
    /\ p.phase = "collecting" => Clocks(p, t)
    /\ p.phase \in {"frozen", "resolving"} => Earned(p, t)

\* Between the end of a pass and the attempt it reserved, nothing takes the
\* reservation away.
ReservationOK ==
    waited > 0 => waited = 1 /\ HeldByReservation(pass) /\ ~owner.queued

IInv ==
    /\ TypeOK
    /\ owner = NoOwner \/ owner.commit \in Own
    /\ \A i \in Input : rows[i] = "created" => i \in Peer
    /\ Active(pass) => owner = NoOwner
    /\ PassOK(pass, rows, times)
    /\ ReservationOK

-----------------------------------------------------------------------------
(* The operators on passes. *)

\* The absent pass.
LEMMA NoPassTyped == NoPass \in PassRecord /\ ~Active(NoPass)
BY DEF NoPass, PassRecord, Active

\* An input that is relevant to a pass stays so when others join.
LEMMA RelevantGrows ==
    ASSUME NEW p \in PassRecord, NEW q \in PassRecord, NEW i \in Input,
           p.members \subseteq q.members, Relevant(p, i)
    PROVE  Relevant(q, i)
BY DEF Relevant, ContestedBelow, PassRecord, Commit

\* A rebase on the wall clock moves nothing but the process deadlines, and
\* those in step with the clocks.
LEMMA NormalizeKeeps ==
    ASSUME NEW p \in PassRecord, NEW t \in TimesRecord,
           p.phase = "collecting" => Clocks(p, t)
    PROVE  LET n == Normalize(p)
           IN /\ n \in PassRecord
              /\ n.phase = p.phase /\ n.base = p.base /\ n.members = p.members
              /\ n.phase = "collecting" => n.fresh /\ Clocks(n, t)
              /\ n.phase # "collecting" => n = p
<1>1. CASE p.phase # "collecting" \/ p.fresh
  BY <1>1 DEF Normalize
<1>2. CASE p.phase = "collecting" /\ ~p.fresh
  <2> DEFINE x == IF p.age < 0 THEN 0 ELSE Pos(p.wq)
             y == IF p.age < 0 THEN 0 ELSE Pos(p.wa)
             n == [p EXCEPT !.fresh = TRUE, !.q = x, !.a = y]
  <2>1. Normalize(p) = n
    BY <1>2 DEF Normalize
  <2>2. x \in Int /\ y \in Int
    BY DEF Pos, PassRecord
  <2> HIDE DEF x, y
  <2>3. /\ n \in PassRecord
        /\ n.phase = p.phase /\ n.base = p.base /\ n.members = p.members
        /\ n.fresh /\ n.q = x /\ n.a = y
        /\ n.wq = p.wq /\ n.wa = p.wa /\ n.age = p.age
    BY <2>2 DEF PassRecord
  <2>4. Clocks(n, t)
    <3> HIDE DEF n
    <3> QED
      BY <1>2, <2>3, PolicyAssumption DEF Clocks, Pos, PassRecord, TimesRecord, x, y
  <2> HIDE DEF n
  <2> QED
    BY <1>2, <2>1, <2>3, <2>4
<1> QED
  BY <1>1, <1>2

\* Closing a batch whose cutoff is due keeps what it is about, and records the
\* cause that was due.
LEMMA FreezeKeeps ==
    ASSUME NEW p \in PassRecord, NEW t \in TimesRecord,
           p.phase = "collecting", p.fresh, Clocks(p, t), Cutoff(p) <= 0
    PROVE  LET f == Freeze(p)
           IN /\ f \in PassRecord /\ f.phase = "frozen"
              /\ f.base = p.base /\ f.members = p.members /\ Earned(f, t)
<1> DEFINE c == IF p.age < 0 THEN "clock"
                ELSE IF p.a <= p.q THEN "absolute" ELSE "quiescence"
           f == [NoPass EXCEPT !.phase = "frozen", !.base = p.base,
                               !.members = p.members, !.cause = c]
<1>1. Freeze(p) = f
  BY DEF Freeze
<1>2. c \in {"none", "quiescence", "absolute", "clock"}
  OBVIOUS
<1> HIDE DEF c
<1>3. /\ f \in PassRecord /\ f.phase = "frozen"
      /\ f.base = p.base /\ f.members = p.members /\ f.cause = c
  BY <1>2, NoPassTyped DEF PassRecord
<1> HIDE DEF f
<1>4. Earned(f, t)
  BY <1>3, PolicyAssumption
     DEF Earned, Clocks, Cutoff, PassRecord, TimesRecord, c
<1> QED
  BY <1>1, <1>3, <1>4

\* Seeding retires rows, and only parked ones.
LEMMA RetiringKeeps ==
    ASSUME NEW r \in [Input -> RowState]
    PROVE  /\ RowsAfterLoad(r) \in [Input -> RowState]
           /\ \A i \in Input : \/ RowsAfterLoad(r)[i] = r[i]
                               \/ r[i] = "parked" /\ RowsAfterLoad(r)[i] = "gone"
BY DEF RowsAfterLoad, Retired, RowState

\* A pass that opens starts on the tip, with full windows and with an input that
\* opens it.
LEMMA OpenedKeeps ==
    ASSUME tip \in Nat, NEW s \in [Input -> RowState], ~Active(pass), pass \in PassRecord
    PROVE  LET p == Opened(s)
           IN \/ /\ Stable /\ p \in PassRecord /\ p.phase = "collecting" /\ p.fresh
                 /\ p.base = tip /\ Justified(p, s) /\ Clocks(p, NoTimes) /\ Cutoff(p) > 0
              \/ p \in PassRecord /\ ~Active(p)
<1> DEFINE S == GraphInput(s) \cap Window(tip)
           n == [NoPass EXCEPT !.phase = "collecting", !.base = tip, !.members = S]
           p == [n EXCEPT !.q = Quiescence, !.a = MaxPass,
                          !.wq = Quiescence, !.wa = MaxPass]
           z == [pass EXCEPT !.slot = FALSE]
<1>1. S \in SUBSET Input
  BY DEF GraphInput
<1>2. z \in PassRecord /\ z.phase = pass.phase
  BY DEF PassRecord
<1>3. CASE Stable /\ \E i \in S : Opens(s, S, i)
  <2>1. PICK i \in S : Opens(s, S, i)
    BY <1>3
  <2>2. Opened(s) = p
    BY <1>3 DEF Opened
  <2>3. \A j \in S : s[j] # "none" /\ j \in Window(tip)
    BY DEF GraphInput
  <2> HIDE DEF S
  <2>4. n \in PassRecord /\ n.phase = "collecting" /\ n.base = tip /\ n.members = S
    BY <1>1, NoPassTyped DEF PassRecord
  <2>a. n.fresh /\ n.age = 0
    BY DEF NoPass
  <2> HIDE DEF n
  <2>5. /\ p \in PassRecord /\ p.phase = "collecting" /\ p.base = tip /\ p.members = S
        /\ p.q = Quiescence /\ p.a = MaxPass /\ p.wq = Quiescence /\ p.wa = MaxPass
        /\ p.fresh /\ p.age = 0
    <3>1. Quiescence \in Int /\ MaxPass \in Int
      BY PolicyAssumption
    <3> QED
      BY <2>4, <2>a, <3>1 DEF PassRecord
  <2> HIDE DEF p
  <2>6. Relevant(p, i)
    BY <2>1, <2>5 DEF Opens, Relevant
  <2>7. Justified(p, s)
    BY <2>1, <2>3, <2>5, <2>6 DEF Justified, Opens
  <2>8. Clocks(p, NoTimes) /\ Cutoff(p) > 0
    BY <2>5, PolicyAssumption DEF Clocks, NoTimes, Cutoff
  <2> QED
    BY <1>3, <2>2, <2>5, <2>7, <2>8
<1>4. CASE ~(Stable /\ \E i \in S : Opens(s, S, i))
  <2>1. Opened(s) = z
    BY <1>4 DEF Opened
  <2> QED
    BY <1>2, <2>1 DEF Active
<1> QED
  BY <1>3, <1>4

\* load_or_open_convergence_pass leaves a closed batch and a held reservation
\* alone, rebases an open pass, and opens a new one only where there is none.
LoadOK(p, s, t) ==
    /\ PassOK(p, s, t)
    /\ p.phase = "collecting" => p.fresh
    /\ Active(p) => owner = NoOwner
    /\ p.phase \in {"frozen", "resolving"} => p = pass
    /\ pass.phase \in {"frozen", "resolving"} => p = pass
    /\ waited > 0 => p = pass
    /\ IsNew(p) => p.phase = "collecting" /\ Cutoff(p) > 0

\* So it does, whatever has just been stored.
LEMMA LoadKeeps ==
    ASSUME IInv, NEW r \in [Input -> RowState],
           \A i \in Input : rows[i] # "none" => r[i] = rows[i]
    PROVE  LET p == Load(r)
           IN LoadOK(p, RowsAfterLoad(r), IF IsNew(p) THEN NoTimes ELSE times)
<1> DEFINE p == Load(r)
           s == RowsAfterLoad(r)
           t == IF IsNew(p) THEN NoTimes ELSE times
<1> SUFFICES LoadOK(p, s, t)
  OBVIOUS
<1>0. pass \in PassRecord /\ times \in TimesRecord /\ tip \in Nat
  BY DEF IInv, TypeOK, TimesRecord
<1>s. s \in [Input -> RowState]
  BY RetiringKeeps
<1>1. CASE HeldByReservation(pass)
  <2>1. p = pass /\ ~Active(p)
    BY <1>1 DEF Load, HeldByReservation, Active
  <2> HIDE DEF p
  <2> QED
    BY <1>0, <2>1 DEF LoadOK, PassOK, IsNew, Active
<1>2. CASE Active(pass)
  <2>1. pass.base = tip /\ owner = NoOwner
    BY <1>2 DEF IInv, PassOK
  <2>2. ~HeldByReservation(pass)
    BY <1>2 DEF HeldByReservation, Active
  <2>3. p = Normalize(pass) /\ s = r
    BY <1>2, <2>1, <2>2 DEF Load, RowsAfterLoad, Seeds
  <2> HIDE DEF p, s
  <2>4. /\ p \in PassRecord
        /\ p.phase = pass.phase /\ p.base = pass.base /\ p.members = pass.members
        /\ p.phase = "collecting" => p.fresh /\ Clocks(p, times)
        /\ p.phase # "collecting" => p = pass
    BY <1>0, <2>3, NormalizeKeeps DEF IInv, PassOK
  <2>5. ~IsNew(p) /\ t = times
    BY <1>2, <2>1 DEF IsNew
  <2>6. Justified(p, s)
    <3>1. PICK i \in pass.members : rows[i] = "created" /\ Relevant(pass, i)
      BY <1>2 DEF IInv, PassOK, Justified
    <3>2. pass.members \subseteq Input
      BY <1>0 DEF PassRecord
    <3>3. Relevant(p, i)
      BY <1>0, <2>4, <3>1, <3>2, RelevantGrows
    <3>4. \A j \in p.members : rows[j] # "none" /\ s[j] # "none" /\ j \in Window(p.base)
      BY <1>2, <2>3, <2>4, <3>2 DEF IInv, PassOK, Justified
    <3> QED
      BY <2>3, <2>4, <3>1, <3>2, <3>3, <3>4 DEF Justified
  <2>7. PassOK(p, s, t)
    BY <1>2, <2>1, <2>4, <2>5, <2>6 DEF PassOK, IInv
  <2>8. ~(waited > 0)
    BY <2>2 DEF IInv, ReservationOK
  <2> QED
    BY <2>1, <2>4, <2>5, <2>7, <2>8 DEF LoadOK
<1>3. CASE ~HeldByReservation(pass) /\ ~Active(pass)
  <2>1. p = Opened(s)
    BY <1>3 DEF Load
  <2>2. ~(waited > 0) /\ pass.phase \notin {"frozen", "resolving"}
    BY <1>3 DEF IInv, ReservationOK, Active
  <2>3. IsNew(p) <=> Active(p)
    BY <1>3 DEF IsNew
  <2> HIDE DEF p, s
  <2>4. \/ /\ Stable /\ p \in PassRecord /\ p.phase = "collecting" /\ p.fresh
           /\ p.base = tip /\ Justified(p, s) /\ Clocks(p, NoTimes) /\ Cutoff(p) > 0
        \/ p \in PassRecord /\ ~Active(p)
    BY <1>0, <1>3, <1>s, <2>1, OpenedKeeps
  <2> QED
    BY <2>2, <2>3, <2>4 DEF LoadOK, PassOK, Active, Stable
<1> QED
  BY <1>1, <1>2, <1>3

\* Closing the batch of a loaded pass.
LEMMA FrozenOK ==
    ASSUME NEW p, NEW s, NEW t \in TimesRecord, PassOK(p, s, t),
           p.phase = "collecting", p.fresh, Cutoff(p) <= 0
    PROVE  /\ PassOK(Freeze(p), s, t) /\ Freeze(p).phase = "frozen"
           /\ Freeze(p).members = p.members
<1> DEFINE f == Freeze(p)
<1>1. p \in PassRecord /\ Clocks(p, t) /\ p.base = tip /\ Justified(p, s)
  BY DEF PassOK, Active
<1>2. /\ f \in PassRecord /\ f.phase = "frozen"
      /\ f.base = p.base /\ f.members = p.members /\ Earned(f, t)
  BY <1>1, FreezeKeeps
<1> HIDE DEF f
<1>3. Justified(f, s)
  BY <1>1, <1>2 DEF Justified, Relevant
<1> QED
  BY <1>1, <1>2, <1>3 DEF PassOK, f

\* Admission adds retained input to an open pass, or closes one it comes too
\* late for; the quiet time is counted from the last input that mattered.
LEMMA AdmitKeeps ==
    ASSUME NEW p, NEW s \in [Input -> RowState], NEW t \in TimesRecord, PassOK(p, s, t),
           p.phase = "collecting" => p.fresh, NEW i \in Input, s[i] # "none"
    PROVE  LET n == Admit(p, i)
               u == IF Admits(p, i) /\ Relevant(p, i) THEN [t EXCEPT !.quiet = 0] ELSE t
           IN /\ PassOK(n, s, u) /\ u \in TimesRecord
              /\ Active(n) <=> Active(p)
              /\ p.phase # "collecting" => n = p
              /\ p.phase = "collecting" =>
                    \/ n.phase = "collecting"
                    \/ /\ n.phase = "frozen" /\ Cutoff(p) <= 0
                       /\ n.members = p.members /\ i \notin n.members
<1> DEFINE n == Admit(p, i)
           u == IF Admits(p, i) /\ Relevant(p, i) THEN [t EXCEPT !.quiet = 0] ELSE t
<1> SUFFICES /\ PassOK(n, s, u) /\ u \in TimesRecord
             /\ Active(n) <=> Active(p)
             /\ p.phase # "collecting" => n = p
             /\ p.phase = "collecting" =>
                    \/ n.phase = "collecting"
                    \/ /\ n.phase = "frozen" /\ Cutoff(p) <= 0
                       /\ n.members = p.members /\ i \notin n.members
  OBVIOUS
<1>0. p \in PassRecord
  BY DEF PassOK
<1>1. CASE p.phase # "collecting" \/ i \in p.members
  BY <1>1 DEF Admit, Admits
<1>2. CASE p.phase = "collecting" /\ i \notin p.members /\ Cutoff(p) <= 0
  <2>1. n = Freeze(p)
    BY <1>2 DEF Admit
  <2>2. ~Admits(p, i)
    BY <1>0, <1>2 DEF Admits, Cutoff, PassRecord
  <2>3. u = t
    BY <2>2
  <2> HIDE DEF n, u
  <2>4. PassOK(n, s, t) /\ n.phase = "frozen" /\ n.members = p.members
    BY <1>2, <2>1, FrozenOK
  <2> QED
    BY <1>2, <2>3, <2>4 DEF Active
<1>3. CASE p.phase = "collecting" /\ i \notin p.members /\ ~(Cutoff(p) <= 0) /\ ~Admits(p, i)
  BY <1>3 DEF Admit
<1>4. CASE Admits(p, i)
  <2>0. p.phase = "collecting" /\ i \notin p.members /\ ~(Cutoff(p) <= 0)
    BY <1>0, <1>4 DEF Admits, Cutoff, PassRecord
  <2>1. p.fresh /\ Clocks(p, t) /\ p.base = tip /\ Justified(p, s)
    BY <2>0 DEF PassOK, Active
  <2>2. Quiescence \in Int
    BY PolicyAssumption
  <2>3. /\ n \in PassRecord /\ n.phase = "collecting" /\ n.base = p.base
        /\ n.members = p.members \cup {i}
        /\ n.fresh = p.fresh /\ n.a = p.a /\ n.wa = p.wa /\ n.age = p.age
        /\ IF Relevant(p, i) THEN n.q = Quiescence /\ n.wq = Quiescence
           ELSE n.q = p.q /\ n.wq = p.wq
    <3>1. CASE Relevant(p, i)
      <4> DEFINE m == [p EXCEPT !.members = @ \cup {i}, !.q = Quiescence, !.wq = Quiescence]
      <4>1. n = m
        BY <1>4, <2>0, <3>1 DEF Admit
      <4>2. /\ m \in PassRecord /\ m.phase = p.phase /\ m.base = p.base
            /\ m.members = p.members \cup {i}
            /\ m.fresh = p.fresh /\ m.a = p.a /\ m.wa = p.wa /\ m.age = p.age
            /\ m.q = Quiescence /\ m.wq = Quiescence
        BY <1>0, <2>2 DEF PassRecord
      <4> QED
        BY <2>0, <3>1, <4>1, <4>2
    <3>2. CASE ~Relevant(p, i)
      <4> DEFINE m == [p EXCEPT !.members = @ \cup {i}]
      <4>1. n = m
        BY <1>4, <2>0, <3>2 DEF Admit
      <4>2. /\ m \in PassRecord /\ m.phase = p.phase /\ m.base = p.base
            /\ m.members = p.members \cup {i}
            /\ m.fresh = p.fresh /\ m.a = p.a /\ m.wa = p.wa /\ m.age = p.age
            /\ m.q = p.q /\ m.wq = p.wq
        BY <1>0, <2>2 DEF PassRecord
      <4> QED
        BY <2>0, <3>2, <4>1, <4>2
    <3> QED
      BY <3>1, <3>2
  <2>4. /\ u \in TimesRecord /\ u.real = t.real /\ u.back = t.back /\ u.ahead = t.ahead
        /\ u.quiet = IF Relevant(p, i) THEN 0 ELSE t.quiet
    BY <1>4 DEF TimesRecord
  <2> HIDE DEF n, u
  <2>5. Clocks(n, u)
    BY <1>0, <2>1, <2>2, <2>3, <2>4 DEF Clocks, PassRecord, TimesRecord
  <2>6. Justified(n, s)
    <3>1. PICK j \in p.members : s[j] = "created" /\ Relevant(p, j)
      BY <2>1 DEF Justified
    <3>2. Relevant(n, j)
      BY <1>0, <2>3, <3>1, RelevantGrows DEF PassRecord
    <3>3. i \in Window(n.base)
      BY <1>4, <2>3 DEF Admits
    <3> QED
      BY <2>1, <2>3, <3>1, <3>2, <3>3 DEF Justified
  <2> QED
    BY <2>0, <2>1, <2>3, <2>4, <2>5, <2>6 DEF PassOK, Active
<1> QED
  BY <1>0, <1>1, <1>2, <1>3, <1>4 DEF Cutoff, PassRecord

\* A poll loads the pass and closes it when its cutoff is due.
LEMMA PolledKeeps ==
    ASSUME IInv
    PROVE  LET p == Polled(rows)
               t == IF IsNew(Load(rows)) THEN NoTimes ELSE times
           IN /\ PassOK(p, RowsAfterLoad(rows), t) /\ t \in TimesRecord
              /\ Active(p) => owner = NoOwner
              /\ waited > 0 => p = pass
              /\ pass.phase \in {"frozen", "resolving"} => p = pass
              /\ p.phase = "resolving" => pass.phase = "resolving"
<1> DEFINE l == Load(rows)
           p == Polled(rows)
           s == RowsAfterLoad(rows)
           t == IF IsNew(l) THEN NoTimes ELSE times
<1> SUFFICES /\ PassOK(p, s, t) /\ t \in TimesRecord
             /\ Active(p) => owner = NoOwner
             /\ waited > 0 => p = pass
             /\ pass.phase \in {"frozen", "resolving"} => p = pass
             /\ p.phase = "resolving" => pass.phase = "resolving"
  OBVIOUS
<1>0. pass \in PassRecord /\ times \in TimesRecord /\ rows \in [Input -> RowState]
  BY DEF IInv, TypeOK, TimesRecord
<1>1. LoadOK(l, s, t)
  BY <1>0, LoadKeeps
<1>2. NoTimes \in TimesRecord
  BY DEF NoTimes, TimesRecord
<1>3. t \in TimesRecord
  BY <1>0, <1>2
<1>4. p = IF l.phase = "collecting" /\ Cutoff(l) <= 0 THEN Freeze(l) ELSE l
  BY DEF Polled
<1> HIDE DEF l, p, s, t
<1>5. CASE l.phase = "collecting" /\ Cutoff(l) <= 0
  <2>1. PassOK(p, s, t) /\ p.phase = "frozen"
    BY <1>1, <1>3, <1>4, <1>5, FrozenOK DEF LoadOK
  <2>2. owner = NoOwner /\ pass.phase \notin {"frozen", "resolving"}
    BY <1>1, <1>5 DEF LoadOK, Active
  <2>3. ~(waited > 0)
    <3>1. SUFFICES ASSUME waited > 0 PROVE FALSE
      OBVIOUS
    <3>2. l = pass /\ pass.phase = "completed"
      BY <1>1, <3>1 DEF LoadOK, IInv, ReservationOK, HeldByReservation
    <3> QED
      BY <1>5, <3>2
  <2> QED
    BY <1>3, <2>1, <2>2, <2>3
<1>6. CASE ~(l.phase = "collecting" /\ Cutoff(l) <= 0)
  BY <1>1, <1>3, <1>4, <1>6 DEF LoadOK
<1> QED
  BY <1>5, <1>6

\* The branch a pass applies ends within reach of its base.
LEMMA ResultingTipTyped ==
    ASSUME IInv, Active(pass), NEW r \in Verdicts
    PROVE  ResultingTip(r) \in Nat
<1> DEFINE C == {d \in pass.members \cap Commit : r[d] = "applied"}
           ends == {Src[c] + 1 : c \in C}
<1>1. /\ tip \in Nat /\ pass.members \subseteq Input
      /\ \A i \in pass.members : i \in Window(tip)
  BY DEF IInv, TypeOK, PassOK, Justified, PassRecord
<1>2. tip + MaxRewind + 1 \in Nat
  BY <1>1, PolicyAssumption
<1>3. \A c \in C : Src[c] + 1 \in Nat /\ Src[c] + 1 <= tip + MaxRewind + 1
  <2>1. Floor(tip) \in Nat /\ MaxRewind \in Nat
    BY <1>1, PolicyAssumption DEF Floor
  <2>2. \A c \in C : Src[c] \in Floor(tip)..(tip + MaxRewind)
    BY <1>1 DEF Window
  <2> QED
    BY <1>1, <2>1, <2>2
<1>4. ends \in SUBSET Nat /\ \A e \in ends : e <= tip + MaxRewind + 1
  BY <1>3
<1>5. ResultingTip(r) = IF ends = {} THEN tip
                        ELSE CHOOSE e \in ends : \A f \in ends : f <= e
  BY DEF ResultingTip
<1>6. CASE ends # {}
  <2> HIDE DEF ends
  <2>1. \E e \in ends : \A f \in ends : f <= e
    BY <1>2, <1>4, <1>6, GreatestNumber
  <2> QED
    BY <1>4, <1>5, <1>6, <2>1
<1> QED
  BY <1>1, <1>5, <1>6

-----------------------------------------------------------------------------
(* The inductive invariant. *)

\* No pass, no input.
LEMMA InitOK == Init => IInv
<1> SUFFICES ASSUME Init PROVE IInv
  OBVIOUS
<1>1. rows \in [Input -> RowState] /\ \A i \in Input : rows[i] # "created"
  BY DEF Init, RowState
<1>2. pass \in PassRecord /\ pass.phase = "none"
  BY NoPassTyped DEF Init, NoPass
<1>3. used \in UsedRecord
  BY PolicyAssumption DEF Init, UsedRecord
<1>4. times \in TimesRecord
  BY DEF Init, NoTimes, TimesRecord
<1>5. owner \in [commit : Own \cup {"none"}, queued : BOOLEAN]
  BY DEF Init, NoOwner
<1>6. TypeOK
  BY <1>1, <1>2, <1>3, <1>4, <1>5 DEF TypeOK, Init, TimesRecord, UsedRecord
<1> QED
  BY <1>1, <1>2, <1>6 DEF IInv, PassOK, Active, ReservationOK, Init

\* What a step owes that moves neither the tip nor the local publication.
LEMMA PassStep ==
    ASSUME IInv,
           rows' \in [Input -> RowState],
           \A i \in Input : rows'[i] = "created" => i \in Peer,
           PassOK(pass', rows', times'), times' \in TimesRecord,
           Active(pass') => owner = NoOwner,
           tip' = tip, owner' = owner, halted' \in BOOLEAN, used' \in UsedRecord,
           admin' \in BOOLEAN,
           \/ waited' = 0
           \/ waited' = waited /\ admin' = admin /\ (waited > 0 => pass' = pass)
    PROVE  IInv'
<1>1. PassOK(pass, rows, times)' /\ (Active(pass) => owner = NoOwner)'
  BY DEF PassOK, Active, Justified, Relevant, Clocks, Earned
<1>2. TypeOK'
  BY DEF IInv, TypeOK, PassOK, TimesRecord, UsedRecord
<1>3. ReservationOK'
  BY DEF IInv, ReservationOK, HeldByReservation
<1> QED
  BY <1>1, <1>2, <1>3 DEF IInv, Peer

\* Arriving input in a settled group.
LEMMA IngestStable ==
    ASSUME IInv, NEW i \in Peer, Ingest(i), Stable
    PROVE  /\ rows' = RowsAfterLoad([rows EXCEPT ![i] = "created"])
           /\ PassOK(pass', rows', times') /\ times' \in TimesRecord
           /\ Active(pass') => owner = NoOwner
           /\ waited > 0 => pass' = pass
           /\ pass.phase \in {"frozen", "resolving"} => pass' = pass
           /\ pass'.phase \in {"frozen", "resolving"} => pass' = pass \/ i \notin pass'.members
<1> DEFINE r == [rows EXCEPT ![i] = "created"]
           p == Load(r)
           t == IF IsNew(p) THEN NoTimes ELSE times
           u == IF Admits(p, i) /\ Relevant(p, i) THEN [t EXCEPT !.quiet = 0] ELSE t
<1>0. i \in Input /\ rows \in [Input -> RowState] /\ times \in TimesRecord
  BY DEF IInv, TypeOK, TimesRecord, Peer
<1>1. /\ r \in [Input -> RowState] /\ r[i] = "created"
      /\ \A j \in Input : rows[j] # "none" => r[j] = rows[j]
  BY <1>0 DEF Ingest, RowState
<1>2. /\ rows' = RowsAfterLoad(r) /\ pass' = Admit(p, i)
      /\ times' = IF IsNew(p) THEN NoTimes
                  ELSE IF Admits(p, i) /\ Relevant(p, i)
                  THEN [times EXCEPT !.quiet = 0] ELSE times
  BY DEF Ingest
<1>3. times' = u /\ t \in TimesRecord
  BY <1>0, <1>2 DEF NoTimes, TimesRecord
<1>4. LoadOK(p, rows', t)
  BY <1>1, <1>2, LoadKeeps
<1>5. rows' \in [Input -> RowState] /\ rows'[i] = "created"
  <2> HIDE DEF r
  <2> QED
    BY <1>0, <1>1, <1>2, RetiringKeeps
<1> HIDE DEF p, t
<1>6. /\ PassOK(Admit(p, i), rows', u) /\ u \in TimesRecord
      /\ Active(Admit(p, i)) <=> Active(p)
      /\ p.phase # "collecting" => Admit(p, i) = p
      /\ p.phase = "collecting" => \/ Admit(p, i).phase = "collecting"
                                  \/ i \notin Admit(p, i).members
  <2>1. /\ PassOK(p, rows', t) /\ (p.phase = "collecting" => p.fresh)
        /\ i \in Input /\ rows' \in [Input -> RowState] /\ rows'[i] # "none"
        /\ t \in TimesRecord
    BY <1>0, <1>3, <1>4, <1>5 DEF LoadOK
  <2> QED
    BY <2>1, AdmitKeeps
<1>7. PassOK(pass', rows', times') /\ times' \in TimesRecord
  BY <1>2, <1>3, <1>6
<1>8. Active(pass') => owner = NoOwner
  BY <1>2, <1>4, <1>6 DEF LoadOK
<1>9. waited > 0 => pass' = pass
  BY <1>2, <1>4, <1>6 DEF LoadOK, IInv, ReservationOK, HeldByReservation
<1>10. pass.phase \in {"frozen", "resolving"} => pass' = pass
  BY <1>2, <1>4, <1>6 DEF LoadOK
<1>11. pass'.phase \in {"frozen", "resolving"} => pass' = pass \/ i \notin pass'.members
  BY <1>2, <1>4, <1>6 DEF LoadOK
<1> QED
  BY <1>2, <1>7, <1>8, <1>9, <1>10, <1>11

\* Arriving input, with the poll that follows it.
LEMMA IngestKeeps ==
    ASSUME IInv, NEW i \in Peer, Ingest(i)
    PROVE  IInv'
<1> DEFINE r == [rows EXCEPT ![i] = "created"]
<1>0. /\ i \in Input /\ rows \in [Input -> RowState] /\ times \in TimesRecord
      /\ admin \in BOOLEAN /\ halted \in BOOLEAN /\ used \in UsedRecord
      /\ \A j \in Input : rows[j] = "created" => j \in Peer
      /\ UNCHANGED <<tip, owner, admin, halted, used, waited>>
  BY DEF IInv, TypeOK, TimesRecord, UsedRecord, Peer, Ingest
<1>1. /\ r \in [Input -> RowState]
      /\ \A j \in Input : r[j] = "created" => j \in Peer
  BY <1>0 DEF RowState
<1>2. CASE Stable
  <2>1. /\ rows' = RowsAfterLoad(r)
        /\ PassOK(pass', rows', times') /\ times' \in TimesRecord
        /\ Active(pass') => owner = NoOwner
        /\ waited > 0 => pass' = pass
    BY <1>2, IngestStable
  <2> HIDE DEF r
  <2>2. /\ rows' \in [Input -> RowState]
        /\ \A j \in Input : rows'[j] = "created" => j \in Peer
    BY <1>1, <2>1, RetiringKeeps
  <2> QED
    BY <1>0, <2>1, <2>2, PassStep
<1>3. CASE ~Stable
  <2>1. rows' = r /\ UNCHANGED <<pass, times>>
    BY <1>3 DEF Ingest
  <2>2. ~Active(pass)
    BY <1>3 DEF Ingest, Stable, IInv
  <2>3. PassOK(pass', rows', times')
    BY <2>1, <2>2 DEF IInv, PassOK, Active
  <2> HIDE DEF r
  <2> QED
    BY <1>0, <1>1, <2>1, <2>2, <2>3, PassStep
<1> QED
  BY <1>2, <1>3

TimesAfterPoll == IF IsNew(Load(rows)) THEN NoTimes ELSE times

\* A poll, from the scheduler or from a send that has to wait.
LEMMA PollStep ==
    ASSUME IInv, pass' = Polled(rows), rows' = RowsAfterLoad(rows),
           times' = TimesAfterPoll,
           tip' = tip, owner' = owner, halted' = halted, used' = used,
           UNCHANGED <<admin, waited>> \/ (admin' = TRUE /\ waited' = 0)
    PROVE  IInv'
<1>1. /\ rows \in [Input -> RowState] /\ \A j \in Input : rows[j] = "created" => j \in Peer
      /\ admin \in BOOLEAN /\ halted \in BOOLEAN /\ used \in UsedRecord
  BY DEF IInv, TypeOK, UsedRecord
<1>2. rows' \in [Input -> RowState] /\ \A j \in Input : rows'[j] = "created" => j \in Peer
  BY <1>1, RetiringKeeps
<1>3. /\ PassOK(pass', rows', times') /\ times' \in TimesRecord
      /\ Active(pass') => owner = NoOwner
      /\ waited > 0 => pass' = pass
  BY PolledKeeps DEF TimesAfterPoll
<1> QED
  BY <1>1, <1>2, <1>3, PassStep

\* An open pass holds an input that gates local publications.
LEMMA ActiveGates ==
    ASSUME IInv, Settled(pass)
    PROVE  ~Active(pass)
BY DEF IInv, PassOK, Justified, Relevant, Settled, HasUnresolvedInput,
       PassGatesOutbound, HeldByReservation, Active

\* A local publication starts or ends beside a pass that is not active.
LEMMA OwnerStep ==
    ASSUME IInv, ~Active(pass), pass' \in PassRecord, pass'.phase = pass.phase,
           rows' \in [Input -> RowState],
           \A i \in Input : rows'[i] = "created" => rows[i] = "created",
           tip' \in Nat, owner' \in [commit : Own \cup {"none"}, queued : BOOLEAN],
           owner' = NoOwner \/ owner'.commit \in Own,
           admin' \in BOOLEAN, used' \in UsedRecord,
           halted' = halted, times' = times,
           \/ waited' = 0
           \/ waited' = waited /\ pass' = pass /\ (waited > 0 => admin' = admin /\ ~owner'.queued)
    PROVE  IInv'
<1>1. PassOK(pass, rows, times)' /\ ~Active(pass')
  BY DEF PassOK, Active
<1>2. TypeOK'
  BY DEF IInv, TypeOK, UsedRecord
<1>3. ReservationOK'
  BY DEF IInv, ReservationOK, HeldByReservation
<1>4. \A i \in Input : rows'[i] = "created" => i \in Peer
  BY DEF IInv
<1> QED
  BY <1>1, <1>2, <1>3, <1>4 DEF IInv, Active, Peer

\* Consuming a reservation changes nothing else of a pass.
LEMMA ConsumedTyped ==
    ASSUME NEW p \in PassRecord
    PROVE  Consumed(p) \in PassRecord /\ Consumed(p).phase = p.phase
BY DEF Consumed, PassRecord

\* A staged commit owns the group.
LEMMA StageKeeps ==
    ASSUME NEW c, NEW b \in BOOLEAN, Stage(c, b)
    PROVE  /\ owner' \in [commit : Own \cup {"none"}, queued : BOOLEAN]
           /\ owner'.commit \in Own /\ owner'.queued = b
BY DEF Stage

\* A local commit is sent.
LEMMA SendKeeps ==
    ASSUME IInv, NEW c \in Own, Send(c)
    PROVE  IInv'
<1>0. /\ rows \in [Input -> RowState] /\ tip \in Nat /\ admin \in BOOLEAN
      /\ used \in UsedRecord /\ halted \in BOOLEAN /\ pass \in PassRecord
  BY DEF IInv, TypeOK, UsedRecord
<1>1. CASE Settled(pass)
  <2>1. /\ Stage(c, FALSE)
        /\ UNCHANGED <<rows, pass, admin, times, waited, tip, halted, used>>
    BY <1>1 DEF Send
  <2>2. /\ owner' \in [commit : Own \cup {"none"}, queued : BOOLEAN]
        /\ owner'.commit \in Own /\ ~owner'.queued
    BY <2>1, StageKeeps
  <2>3. ~Active(pass)
    BY <1>1, ActiveGates
  <2> QED
    BY <1>0, <2>1, <2>2, <2>3, OwnerStep
<1>2. CASE ~Settled(pass)
  <2>1. /\ admin' = TRUE /\ waited' = 0
        /\ pass' = Polled(rows) /\ rows' = RowsAfterLoad(rows)
        /\ times' = TimesAfterPoll
        /\ UNCHANGED <<owner, tip, halted, used>>
    BY <1>2 DEF Send, TimesAfterPoll
  <2> QED
    BY <2>1, PollStep
<1> QED
  BY <1>1, <1>2

\* A queued commit is drained.
LEMMA DrainKeeps ==
    ASSUME IInv, NEW c \in Own, Drain(c)
    PROVE  IInv'
<1>0. /\ rows \in [Input -> RowState] /\ tip \in Nat /\ admin \in BOOLEAN
      /\ used \in UsedRecord /\ halted \in BOOLEAN /\ pass \in PassRecord
  BY DEF IInv, TypeOK, UsedRecord
<1>1. /\ Stage(c, TRUE) /\ pass' = Consumed(pass) /\ waited' = 0
      /\ UNCHANGED <<rows, tip, admin, halted, used, times>>
  BY DEF Drain
<1>2. /\ owner' \in [commit : Own \cup {"none"}, queued : BOOLEAN]
      /\ owner'.commit \in Own
  BY <1>1, StageKeeps
<1>3. ~Active(pass)
  BY ActiveGates DEF Drain
<1>4. pass' \in PassRecord /\ pass'.phase = pass.phase
  BY <1>0, <1>1, ConsumedTyped
<1> QED
  BY <1>0, <1>1, <1>2, <1>3, <1>4, OwnerStep

\* A publication ends, either way.
LEMMA PublicationEndKeeps ==
    ASSUME IInv, Confirm \/ PublishFails
    PROVE  IInv'
<1>0. /\ rows \in [Input -> RowState] /\ tip \in Nat /\ admin \in BOOLEAN
      /\ used \in UsedRecord /\ halted \in BOOLEAN /\ pass \in PassRecord
      /\ waited > 0 => ~owner.queued
  BY DEF IInv, TypeOK, UsedRecord, ReservationOK
<1>1. owner' = NoOwner /\ owner # NoOwner /\ ~Active(pass)
  BY DEF Confirm, PublishFails, IInv
<1>2. NoOwner \in [commit : Own \cup {"none"}, queued : BOOLEAN] /\ ~NoOwner.queued
  BY DEF NoOwner
<1>3. CASE Confirm
  <2>1. owner.commit \in Input
    BY <1>1, PolicyAssumption DEF IInv
  <2>2. /\ rows' \in [Input -> RowState]
        /\ \A i \in Input : rows'[i] = "created" => rows[i] = "created"
    BY <1>0, <1>3, <2>1 DEF Confirm, RowState
  <2>3. /\ tip' \in Nat /\ admin' \in BOOLEAN /\ (waited > 0 => admin' = admin)
        /\ UNCHANGED <<pass, halted, used, times, waited>>
    BY <1>0, <1>3 DEF Confirm
  <2> QED
    BY <1>0, <1>1, <1>2, <2>2, <2>3, OwnerStep
<1>4. CASE PublishFails
  <2>1. used' \in UsedRecord
    BY <1>0, <1>4, PolicyAssumption DEF PublishFails, UsedRecord
  <2>2. UNCHANGED <<rows, tip, pass, admin, halted, times, waited>>
    BY <1>4 DEF PublishFails
  <2> QED
    BY <1>0, <1>1, <1>2, <2>1, <2>2, OwnerStep
<1> QED
  BY <1>3, <1>4

\* A resolved pass completes.
LEMMA CompleteKeeps ==
    ASSUME IInv, Complete
    PROVE  IInv'
<1>0. /\ rows \in [Input -> RowState] /\ admin \in BOOLEAN /\ used \in UsedRecord
      /\ halted \in BOOLEAN /\ pass \in PassRecord /\ waited \in Nat
      /\ times \in TimesRecord
      /\ \A i \in Input : rows[i] = "created" => i \in Peer
  BY DEF IInv, TypeOK, UsedRecord, TimesRecord
<1>1. Active(pass) /\ owner = NoOwner /\ ~HeldByReservation(pass)
  BY DEF Complete, PassEnds, Active, HeldByReservation, IInv
<1>2. waited = 0
  BY <1>0, <1>1 DEF IInv, ReservationOK
<1>3. PICK r \in Verdicts : rows' = Judged(r) /\ tip' = ResultingTip(r)
  BY DEF Complete, PassEnds
<1>4. tip' \in Nat
  BY <1>1, <1>3, ResultingTipTyped
<1>5. /\ rows' \in [Input -> RowState]
      /\ \A i \in Input : rows'[i] = "created" => i \in Peer
  BY <1>0, <1>3 DEF Judged, Verdicts, RowState
<1>6. pass' \in PassRecord /\ pass'.phase = "completed" /\ pass'.slot
  <2>1. pass' = [NoPass EXCEPT !.phase = "completed", !.slot = TRUE]
    BY DEF Complete, PassEnds
  <2> QED
    BY <2>1, NoPassTyped DEF PassRecord
<1>7. /\ waited' = IF admin THEN 1 ELSE 0
      /\ UNCHANGED <<owner, admin, halted, used, times>>
  BY <1>2 DEF Complete, PassEnds
<1>8. PassOK(pass, rows, times)' /\ ~Active(pass')
  BY <1>6 DEF PassOK, Active
<1>9. ReservationOK'
  BY <1>1, <1>6, <1>7 DEF ReservationOK, HeldByReservation, NoOwner
<1>10. TypeOK'
  <2>1. waited' \in Nat
    BY <1>7
  <2> QED
    BY <1>0, <1>4, <1>5, <1>6, <1>7, <2>1 DEF IInv, TypeOK, UsedRecord, TimesRecord
<1> QED
  BY <1>1, <1>5, <1>7, <1>8, <1>9, <1>10 DEF IInv, Active, Peer

\* Time passes on both clocks.
LEMMA TickKeeps ==
    ASSUME IInv, Tick
    PROVE  IInv'
<1>0. /\ rows \in [Input -> RowState] /\ admin \in BOOLEAN /\ used \in UsedRecord
      /\ halted \in BOOLEAN /\ pass \in PassRecord /\ times \in TimesRecord
      /\ \A i \in Input : rows[i] = "created" => i \in Peer
  BY DEF IInv, TypeOK, UsedRecord, TimesRecord
<1>1. /\ pass.phase = "collecting" /\ Clocks(pass, times) /\ pass.base = tip
      /\ Justified(pass, rows) /\ owner = NoOwner /\ ~(waited > 0)
  BY DEF Tick, IInv, PassOK, Active, ReservationOK, HeldByReservation
<1> DEFINE x == IF pass.fresh THEN pass.q - 1 ELSE 0
           y == IF pass.fresh THEN pass.a - 1 ELSE 0
           wx == pass.wq - 1
           wy == pass.wa - 1
           g == pass.age + 1
           l == times.real + 1
           m == times.quiet + 1
           p == [pass EXCEPT !.q = x, !.a = y, !.wq = wx, !.wa = wy, !.age = g]
           t == [times EXCEPT !.real = l, !.quiet = m]
<1>2. pass' = p /\ times' = t /\ UNCHANGED <<rows, tip, owner, admin, halted, used, waited>>
  BY DEF Tick
<1>3. /\ x \in Int /\ y \in Int /\ wx \in Int /\ wy \in Int /\ g \in Int
      /\ l \in Nat /\ m \in Nat
  BY <1>0 DEF PassRecord, TimesRecord
<1> HIDE DEF x, y, wx, wy, g, l, m
<1>4. /\ p \in PassRecord /\ p.phase = "collecting" /\ p.base = pass.base
      /\ p.members = pass.members /\ p.fresh = pass.fresh
      /\ p.q = x /\ p.a = y /\ p.wq = wx /\ p.wa = wy /\ p.age = g
  <2>1. pass \in PassRecord /\ pass.phase = "collecting"
    BY <1>0, <1>1
  <2> QED
    BY <1>3, <2>1 DEF PassRecord
<1>5. /\ t \in TimesRecord /\ t.real = l /\ t.quiet = m
      /\ t.back = times.back /\ t.ahead = times.ahead
  <2>1. times \in TimesRecord
    BY <1>0
  <2> QED
    BY <1>3, <2>1 DEF TimesRecord
<1> HIDE DEF p, t
<1>6. Clocks(p, t)
  <2>1. MaxPass \in Int /\ Quiescence \in Int
    BY PolicyAssumption
  <2> QED
    BY <1>0, <1>1, <1>4, <1>5, <2>1 
       DEF Clocks, PassRecord, TimesRecord, x, y, wx, wy, g, l, m
<1>7. Justified(p, rows)
  BY <1>1, <1>4 DEF Justified, Relevant
<1>8. PassOK(p, rows, t)
  BY <1>1, <1>4, <1>6, <1>7 DEF PassOK
<1> QED
  BY <1>0, <1>1, <1>2, <1>5, <1>8, PassStep

\* The wall clock is adjusted.
LEMMA StepWallKeeps ==
    ASSUME IInv, NEW d \in WallSteps, StepWall(d)
    PROVE  IInv'
<1>0. /\ rows \in [Input -> RowState] /\ admin \in BOOLEAN /\ used \in UsedRecord
      /\ halted \in BOOLEAN /\ pass \in PassRecord /\ times \in TimesRecord
      /\ \A i \in Input : rows[i] = "created" => i \in Peer
  BY DEF IInv, TypeOK, UsedRecord, TimesRecord
<1>1. /\ pass.phase = "collecting" /\ Clocks(pass, times) /\ pass.base = tip
      /\ Justified(pass, rows) /\ owner = NoOwner /\ ~(waited > 0)
  BY DEF StepWall, IInv, PassOK, Active, ReservationOK, HeldByReservation
<1> DEFINE b == Pos(-d)
           f == Pos(d)
           wx == pass.wq - d
           wy == pass.wa - d
           g == pass.age + d
           l == times.back + b
           m == times.ahead + f
           p == [pass EXCEPT !.wq = wx, !.wa = wy, !.age = g]
           t == [times EXCEPT !.back = l, !.ahead = m]
<1>2. /\ pass' = p /\ times' = t
      /\ UNCHANGED <<rows, tip, owner, admin, halted, waited>>
  BY DEF StepWall
<1>3. d \in Int
  BY PolicyAssumption
<1>4. b \in Nat /\ f \in Nat /\ d = f - b /\ (b = 0 \/ f = 0)
  BY <1>3 DEF Pos
<1>u. used' \in UsedRecord
  BY <1>0, PolicyAssumption DEF StepWall, UsedRecord
<1> HIDE DEF b, f
<1>v. /\ wx \in Int /\ wy \in Int /\ g \in Int /\ l \in Nat /\ m \in Nat
  BY <1>0, <1>3, <1>4 DEF PassRecord, TimesRecord
<1> HIDE DEF wx, wy, g, l, m
<1>5. /\ p \in PassRecord /\ p.phase = "collecting" /\ p.base = pass.base
      /\ p.members = pass.members /\ p.fresh = pass.fresh
      /\ p.q = pass.q /\ p.a = pass.a /\ p.wq = wx /\ p.wa = wy /\ p.age = g
  <2>1. pass \in PassRecord /\ pass.phase = "collecting"
    BY <1>0, <1>1
  <2> QED
    BY <1>v, <2>1 DEF PassRecord
<1>6. /\ t \in TimesRecord /\ t.real = times.real /\ t.quiet = times.quiet
      /\ t.back = l /\ t.ahead = m
  <2>1. times \in TimesRecord
    BY <1>0
  <2> QED
    BY <1>v, <2>1 DEF TimesRecord
<1> HIDE DEF p, t
<1>7. Clocks(p, t)
  <2>1. MaxPass \in Int /\ Quiescence \in Int
    BY PolicyAssumption
  <2> QED
    BY <1>0, <1>1, <1>3, <1>4, <1>5, <1>6, <2>1
       DEF Clocks, PassRecord, TimesRecord, wx, wy, g, l, m
<1>8. Justified(p, rows)
  BY <1>1, <1>5 DEF Justified, Relevant
<1>9. PassOK(p, rows, t)
  BY <1>1, <1>5, <1>7, <1>8 DEF PassOK
<1> QED
  BY <1>0, <1>1, <1>2, <1>6, <1>9, <1>u, PassStep

\* A restart loses the process clock.
LEMMA RestartKeeps ==
    ASSUME IInv, Restart
    PROVE  IInv'
<1>0. /\ rows \in [Input -> RowState] /\ admin \in BOOLEAN /\ used \in UsedRecord
      /\ halted \in BOOLEAN /\ pass \in PassRecord /\ times \in TimesRecord
      /\ \A i \in Input : rows[i] = "created" => i \in Peer
      /\ PassOK(pass, rows, times) /\ (Active(pass) => owner = NoOwner)
  BY DEF IInv, TypeOK, UsedRecord, TimesRecord
<1>1. used' \in UsedRecord
  BY <1>0, PolicyAssumption DEF Restart, UsedRecord
<1>2. CASE pass.phase = "collecting"
  <2> DEFINE z == 0
             p == [pass EXCEPT !.fresh = FALSE, !.q = z, !.a = z]
  <2>1. pass' = p /\ UNCHANGED <<rows, tip, owner, admin, halted, times, waited>>
    BY <1>2 DEF Restart
  <2>2. /\ p \in PassRecord /\ p.phase = "collecting" /\ p.base = pass.base
        /\ p.members = pass.members /\ ~p.fresh
        /\ p.wq = pass.wq /\ p.wa = pass.wa /\ p.age = pass.age
    <3>1. pass \in PassRecord /\ z \in Int
      BY <1>0
    <3> HIDE DEF z
    <3> QED
      BY <1>2, <3>1 DEF PassRecord
  <2> HIDE DEF p
  <2>3. PassOK(p, rows, times) /\ owner = NoOwner /\ ~(waited > 0)
    BY <1>0, <1>2, <2>2
       DEF IInv, PassOK, Active, Justified, Relevant, Clocks, ReservationOK, HeldByReservation
  <2> QED
    BY <1>0, <1>1, <2>1, <2>3, PassStep
<1>3. CASE pass.phase # "collecting"
  <2>1. UNCHANGED <<pass, rows, tip, owner, admin, halted, times, waited>>
    BY <1>3 DEF Restart
  <2> QED
    BY <1>0, <1>1, <2>1, PassStep
<1> QED
  BY <1>2, <1>3

\* A frozen batch is judged.
LEMMA ResolveKeeps ==
    ASSUME IInv, Resolve
    PROVE  IInv'
<1>0. /\ rows \in [Input -> RowState] /\ admin \in BOOLEAN /\ used \in UsedRecord
      /\ halted \in BOOLEAN /\ pass \in PassRecord /\ times \in TimesRecord
      /\ \A i \in Input : rows[i] = "created" => i \in Peer
      /\ PassOK(pass, rows, times) /\ (Active(pass) => owner = NoOwner)
  BY DEF IInv, TypeOK, UsedRecord, TimesRecord
<1> DEFINE p == [pass EXCEPT !.phase = "resolving"]
<1>1. pass.phase = "frozen" /\ pass' = p
  BY DEF Resolve
<1>2. /\ p \in PassRecord /\ p.phase = "resolving" /\ p.base = pass.base
      /\ p.members = pass.members /\ p.cause = pass.cause
  <2>1. pass \in PassRecord
    BY <1>0
  <2> QED
    BY <2>1 DEF PassRecord
<1> HIDE DEF p
<1>3. PassOK(p, rows, times) /\ owner = NoOwner /\ ~(waited > 0)
  BY <1>0, <1>1, <1>2
     DEF IInv, PassOK, Active, Justified, Relevant, Earned, ReservationOK, HeldByReservation
<1>4. UNCHANGED <<rows, tip, owner, admin, halted, used, times, waited>>
  BY DEF Resolve
<1> QED
  BY <1>0, <1>1, <1>3, <1>4, PassStep

\* The steps that leave the pass alone or spend its reservation.
LEMMA OtherKeeps ==
    ASSUME IInv, \/ Halt \/ \E i \in App : DrainApplication(i)
                 \/ DrainFails \/ DrainDormant
    PROVE  IInv'
<1>0. /\ rows \in [Input -> RowState] /\ admin \in BOOLEAN /\ used \in UsedRecord
      /\ halted \in BOOLEAN /\ pass \in PassRecord /\ times \in TimesRecord
      /\ \A i \in Input : rows[i] = "created" => i \in Peer
      /\ PassOK(pass, rows, times) /\ (Active(pass) => owner = NoOwner)
      /\ waited \in Nat /\ tip \in Nat
  BY DEF IInv, TypeOK, UsedRecord, TimesRecord
<1>1. CASE Halt
  BY <1>0, <1>1, PassStep DEF Halt
<1>2. ASSUME NEW i \in App, DrainApplication(i) PROVE IInv'
  <2>1. PICK v \in {"applied", "gone"} : rows' = [rows EXCEPT ![i] = v]
    BY <1>2 DEF DrainApplication
  <2>2. /\ ~Active(pass)
        /\ UNCHANGED <<tip, owner, pass, admin, halted, used, times, waited>>
    BY <1>2 DEF DrainApplication
  <2>3. /\ rows' \in [Input -> RowState]
        /\ \A j \in Input : rows'[j] = "created" => j \in Peer
    BY <1>0, <2>1 DEF RowState
  <2>4. PassOK(pass', rows', times')
    BY <1>0, <2>2 DEF PassOK, Active
  <2> QED
    BY <1>0, <2>2, <2>3, <2>4, PassStep
<1>3. CASE DrainFails \/ DrainDormant
  <2>1. /\ pass' = Consumed(pass) /\ ~Active(pass)
        /\ UNCHANGED <<rows, tip, owner, admin, halted, used, times>>
    <3>1. CASE DrainFails
      BY <3>1 DEF DrainFails, HeldByReservation, Active
    <3>2. CASE DrainDormant
      BY <3>2, ActiveGates DEF DrainDormant, Settled
    <3> QED
      BY <1>3, <3>1, <3>2
  <2>2. waited' = 0
    <3>1. CASE DrainFails
      BY <3>1 DEF DrainFails
    <3>2. CASE DrainDormant
      BY <1>0, <3>2 DEF DrainDormant, IInv, ReservationOK, HeldByReservation
    <3> QED
      BY <1>3, <3>1, <3>2
  <2>3. PassOK(pass', rows', times') /\ ~Active(pass')
    BY <1>0, <2>1, ConsumedTyped DEF PassOK, Active
  <2> QED
    BY <1>0, <2>1, <2>2, <2>3, PassStep
<1> QED
  BY <1>1, <1>2, <1>3

\* Every step keeps the invariant.
LEMMA NextKeeps == IInv /\ [Next]_vars => IInv'
<1> SUFFICES ASSUME IInv, [Next]_vars PROVE IInv'
  OBVIOUS
<1>1. CASE \E i \in Peer : Ingest(i)
  BY <1>1, IngestKeeps
<1>2. CASE Converge
  <2>1. /\ pass' = Polled(rows) /\ rows' = RowsAfterLoad(rows)
        /\ times' = TimesAfterPoll
        /\ UNCHANGED <<tip, owner, admin, halted, used, waited>>
    BY <1>2 DEF Converge, TimesAfterPoll
  <2> QED
    BY <2>1, PollStep
<1>3. CASE \E c \in Own : Send(c) \/ Drain(c)
  BY <1>3, SendKeeps, DrainKeeps
<1>4. CASE \E d \in WallSteps : StepWall(d)
  BY <1>4, StepWallKeeps
<1>5. CASE UNCHANGED vars
  <2>1. UNCHANGED <<rows, tip, owner, pass, admin, halted, used, times, waited>>
    BY <1>5 DEF vars
  <2> QED
    BY <2>1 DEF IInv, TypeOK, PassOK, Active, Justified, Relevant, Clocks, Earned,
                ReservationOK, HeldByReservation
<1> QED
  BY <1>1, <1>2, <1>3, <1>4, <1>5, ResolveKeeps, CompleteKeeps, OtherKeeps,
     PublicationEndKeeps, TickKeeps, RestartKeeps DEF Next

\* The inductive invariant holds throughout.
THEOREM Invariance == Spec => []IInv
BY InitOK, NextKeeps, PTL DEF Spec

-----------------------------------------------------------------------------
(* What it implies. *)

\* Every variable of a convergence pass keeps its type, for every set of inputs
\* and every policy.
THEOREM TypeCorrect == Spec => []TypeOK
<1>1. IInv => TypeOK
  BY DEF IInv
<1> QED
  BY <1>1, Invariance, PTL

\* The tip does not move underneath an open pass and no local publication runs
\* beside one, whatever sends, confirmations, restarts and late input do.
THEOREM TipIsOwned == Spec => []ActivePassOwnsTip
<1>1. IInv => ActivePassOwnsTip
  BY DEF IInv, PassOK, ActivePassOwnsTip
<1> QED
  BY <1>1, Invariance, PTL

\* No restart and no adjustment of the wall clock carries an open pass beyond
\* its maximal residence, except by the time the wall clock was set back.
THEOREM Residence == Spec => []ResidenceIsBounded
<1>1. IInv => ResidenceIsBounded
  <2> SUFFICES ASSUME IInv, pass.phase = "collecting",
                      (IF pass.fresh THEN pass.a ELSE pass.wa) > 0
               PROVE  times.real + (IF pass.fresh THEN pass.a ELSE pass.wa)
                        <= MaxPass + times.back
    BY DEF ResidenceIsBounded
  <2>1. Clocks(pass, times) /\ pass \in PassRecord /\ times \in TimesRecord
    BY DEF IInv, PassOK, TypeOK, TimesRecord
  <2>2. MaxPass \in Int
    BY PolicyAssumption
  <2> QED
    BY <2>1, <2>2 DEF Clocks, PassRecord, TimesRecord
<1> QED
  BY <1>1, Invariance, PTL

\* A batch is closed only when it was due: after the whole quiescence window, or
\* at the maximal residence, as the recorded cause says.
THEOREM CutoffWasDue == Spec => []CutoffIsEarned
<1>1. IInv => CutoffIsEarned
  BY DEF IInv, PassOK, Earned, CutoffIsEarned
<1> QED
  BY <1>1, Invariance, PTL

\* No pass completes between a completed pass and the attempt it reserved for a
\* queued administrative intent.
THEOREM OneAttempt == Spec => []AttemptBeforeNextPass
<1>1. IInv => AttemptBeforeNextPass
  BY DEF IInv, TypeOK, ReservationOK, AttemptBeforeNextPass
<1> QED
  BY <1>1, Invariance, PTL

-----------------------------------------------------------------------------
(* A pass implements batch adjudication. *)

Arrived(r) == {i \in Peer : r[i] # "none"}
Closed(p) == IF p.phase \in {"frozen", "resolving"} THEN p.members \cap Peer ELSE {}
HasVerdict(r) == {i \in Peer : r[i] \notin {"none", "created"}}

BatchStep == Batch!Next \/ UNCHANGED Batch!vars

\* Nothing that the batch shows has changed.
LEMMA StutterStep ==
    ASSUME Arrived(rows') = Arrived(rows), HasVerdict(rows') = HasVerdict(rows),
           Closed(pass') = Closed(pass)
    PROVE  BatchStep
BY DEF BatchStep, Batch!vars, Arrived, HasVerdict, Closed, Peer

\* An input arrives while the batch stays as it is.
LEMMA ArriveStep ==
    ASSUME NEW i \in Peer, i \notin Arrived(rows), Arrived(rows') = Arrived(rows) \cup {i},
           HasVerdict(rows') = HasVerdict(rows), Closed(pass') = Closed(pass)
    PROVE  BatchStep
<1>1. Batch!Arrive(i)
  BY DEF Batch!Arrive, Arrived, HasVerdict, Closed, Peer
<1> QED
  BY <1>1 DEF BatchStep, Batch!Next, Peer

\* An input arrives too late for the batch that its arrival closes.
LEMMA ArriveLateStep ==
    ASSUME NEW i \in Peer, i \notin Arrived(rows), Arrived(rows') = Arrived(rows) \cup {i},
           HasVerdict(rows') = HasVerdict(rows), Closed(pass) = {},
           Closed(pass') \subseteq Arrived(rows), ~(Closed(pass') \subseteq HasVerdict(rows))
    PROVE  BatchStep
<1>1. Batch!ArriveLate(i)
  BY DEF Batch!ArriveLate, Arrived, HasVerdict, Closed, Peer
<1> QED
  BY <1>1 DEF BatchStep, Batch!Next, Peer

\* A batch with an unjudged input closes.
LEMMA CloseStep ==
    ASSUME Arrived(rows') = Arrived(rows), HasVerdict(rows') = HasVerdict(rows),
           Closed(pass) = {},
           Closed(pass') \subseteq Arrived(rows), ~(Closed(pass') \subseteq HasVerdict(rows))
    PROVE  BatchStep
<1>1. Batch!Close
  BY DEF Batch!Close, Arrived, HasVerdict, Closed, Peer
<1> QED
  BY <1>1 DEF BatchStep, Batch!Next

\* The closed batch is judged whole.
LEMMA JudgeStep ==
    ASSUME Arrived(rows') = Arrived(rows), Closed(pass) # {}, Closed(pass') = {},
           HasVerdict(rows') = HasVerdict(rows) \cup Closed(pass)
    PROVE  BatchStep
<1>1. Batch!Judge
  BY DEF Batch!Judge, Arrived, HasVerdict, Closed, Peer
<1> QED
  BY <1>1 DEF BatchStep, Batch!Next

\* An application message is delivered outside a batch.
LEMMA DeliverStep ==
    ASSUME NEW i \in App \cap Peer, i \in Arrived(rows), i \notin HasVerdict(rows),
           Arrived(rows') = Arrived(rows), Closed(pass) = {}, Closed(pass') = {},
           HasVerdict(rows') = HasVerdict(rows) \cup {i}
    PROVE  BatchStep
<1>1. Batch!Deliver(i)
  BY DEF Batch!Deliver, Arrived, HasVerdict, Closed, Peer
<1> QED
  BY <1>1 DEF BatchStep, Batch!Next, Peer

\* Seeding retires rows that have a verdict.
LEMMA RetiringIsStable ==
    ASSUME NEW r \in [Input -> RowState]
    PROVE  /\ Arrived(RowsAfterLoad(r)) = Arrived(r)
           /\ HasVerdict(RowsAfterLoad(r)) = HasVerdict(r)
<1>1. \A i \in Peer : \/ RowsAfterLoad(r)[i] = r[i]
                      \/ r[i] = "parked" /\ RowsAfterLoad(r)[i] = "gone"
  BY RetiringKeeps DEF Peer
<1> QED
  BY <1>1 DEF Arrived, HasVerdict

\* A closed batch has arrived, and holds something not yet judged.
LEMMA ClosedIsNew ==
    ASSUME NEW p, NEW r, NEW t, PassOK(p, r, t),
           \A i \in Input : r[i] = "created" => i \in Peer,
           p.phase \in {"frozen", "resolving"}
    PROVE  Closed(p) \subseteq Arrived(r) /\ ~(Closed(p) \subseteq HasVerdict(r))
<1>1. p.members \subseteq Input /\ Justified(p, r)
  BY DEF PassOK, Active, PassRecord
<1> QED
  BY <1>1 DEF Justified, Closed, Arrived, HasVerdict

\* A poll closes a batch or changes nothing that shows.
LEMMA PollRefines ==
    ASSUME IInv, pass' = Polled(rows), rows' = RowsAfterLoad(rows), times' = TimesAfterPoll
    PROVE  BatchStep
<1>1. rows \in [Input -> RowState] /\ \A i \in Input : rows[i] = "created" => i \in Peer
  BY DEF IInv, TypeOK
<1>2. Arrived(rows') = Arrived(rows) /\ HasVerdict(rows') = HasVerdict(rows)
  BY <1>1, RetiringIsStable
<1>3. \A i \in Input : rows'[i] = "created" => i \in Peer
  BY <1>1, RetiringKeeps
<1>4. /\ PassOK(pass', rows', times')
      /\ pass.phase \in {"frozen", "resolving"} => pass' = pass
  BY PolledKeeps DEF TimesAfterPoll
<1>5. CASE Closed(pass') = Closed(pass)
  BY <1>2, <1>5, StutterStep
<1>6. CASE Closed(pass') # Closed(pass)
  <2>1. pass.phase \notin {"frozen", "resolving"} /\ pass'.phase \in {"frozen", "resolving"}
    BY <1>4, <1>6 DEF Closed
  <2>2. Closed(pass') \subseteq Arrived(rows') /\ ~(Closed(pass') \subseteq HasVerdict(rows'))
    BY <1>3, <1>4, <2>1, ClosedIsNew
  <2>3. Closed(pass) = {}
    BY <2>1 DEF Closed
  <2> QED
    BY <1>2, <2>2, <2>3, CloseStep
<1> QED
  BY <1>5, <1>6

\* Input arrives, and may be what closes the batch it is too late for.
LEMMA IngestRefines ==
    ASSUME IInv, NEW i \in Peer, Ingest(i)
    PROVE  BatchStep
<1> DEFINE r == [rows EXCEPT ![i] = "created"]
<1>0. /\ i \in Input /\ rows \in [Input -> RowState] /\ rows[i] = "none"
      /\ \A j \in Input : rows[j] = "created" => j \in Peer
  BY DEF IInv, TypeOK, Ingest, Peer
<1>1. /\ r \in [Input -> RowState] /\ \A j \in Input : r[j] = "created" => j \in Peer
      /\ i \notin Arrived(rows) /\ Arrived(r) = Arrived(rows) \cup {i}
      /\ HasVerdict(r) = HasVerdict(rows)
  BY <1>0 DEF RowState, Arrived, HasVerdict, Peer
<1>2. CASE Stable
  <2>1. /\ rows' = RowsAfterLoad(r) /\ PassOK(pass', rows', times')
        /\ pass.phase \in {"frozen", "resolving"} => pass' = pass
        /\ pass'.phase \in {"frozen", "resolving"} => pass' = pass \/ i \notin pass'.members
    BY <1>2, IngestStable
  <2> HIDE DEF r
  <2>2. Arrived(rows') = Arrived(rows) \cup {i} /\ HasVerdict(rows') = HasVerdict(rows)
    BY <1>1, <2>1, RetiringIsStable
  <2>3. CASE Closed(pass') = Closed(pass)
    BY <1>1, <2>2, <2>3, ArriveStep
  <2>4. CASE Closed(pass') # Closed(pass)
    <3>1. /\ pass.phase \notin {"frozen", "resolving"}
          /\ pass'.phase \in {"frozen", "resolving"} /\ i \notin pass'.members
      BY <2>1, <2>4 DEF Closed
    <3>2. \A j \in Input : rows'[j] = "created" => j \in Peer
      BY <1>1, <2>1, RetiringKeeps
    <3>3. /\ Closed(pass') \subseteq Arrived(rows')
          /\ ~(Closed(pass') \subseteq HasVerdict(rows'))
      BY <2>1, <3>1, <3>2, ClosedIsNew
    <3>4. Closed(pass) = {} /\ i \notin Closed(pass')
      BY <3>1 DEF Closed
    <3>5. Closed(pass') \subseteq Arrived(rows)
      BY <2>2, <3>3, <3>4
    <3> QED
      BY <1>1, <2>2, <3>3, <3>4, <3>5, ArriveLateStep
  <2> QED
    BY <2>3, <2>4
<1>3. CASE ~Stable
  <2>1. rows' = r /\ pass' = pass
    BY <1>3 DEF Ingest
  <2> HIDE DEF r
  <2> QED
    BY <1>1, <2>1, ArriveStep
<1> QED
  BY <1>2, <1>3

\* The batch is judged whole.
LEMMA CompleteRefines ==
    ASSUME IInv, Complete
    PROVE  BatchStep
<1>0. /\ rows \in [Input -> RowState] /\ PassOK(pass, rows, times)
      /\ \A i \in Input : rows[i] = "created" => i \in Peer
      /\ pass.phase = "resolving" /\ Justified(pass, rows) /\ pass.members \subseteq Input
  BY DEF IInv, TypeOK, Complete, PassEnds, PassOK, Active, PassRecord
<1>1. PICK r \in Verdicts : rows' = Judged(r)
  BY DEF Complete, PassEnds
<1>2. \A i \in Input : IF i \in pass.members THEN rows'[i] \in {"applied", "parked", "gone"}
                       ELSE rows'[i] = rows[i]
  BY <1>1 DEF Judged, Verdicts
<1>3. \A i \in pass.members : rows[i] # "none"
  BY <1>0 DEF Justified
<1>4. Arrived(rows') = Arrived(rows)
  BY <1>0, <1>2, <1>3 DEF Arrived, Peer
<1>5. HasVerdict(rows') = HasVerdict(rows) \cup Closed(pass)
  BY <1>0, <1>2 DEF HasVerdict, Closed, Peer
<1>6. Closed(pass) # {}
  BY <1>0, ClosedIsNew
<1>7. Closed(pass') = {}
  BY DEF Complete, PassEnds, Closed, NoPass
<1> QED
  BY <1>4, <1>5, <1>6, <1>7, JudgeStep

\* Draining an application message delivers it.
LEMMA DrainApplicationRefines ==
    ASSUME IInv, NEW i \in App, DrainApplication(i)
    PROVE  BatchStep
<1>0. rows \in [Input -> RowState] /\ i \in App \cap Peer /\ i \in Input
  BY PolicyAssumption DEF IInv, TypeOK, Peer
<1>1. PICK v \in {"applied", "gone"} : rows' = [rows EXCEPT ![i] = v]
  BY DEF DrainApplication
<1>2. pass' = pass /\ Closed(pass) = {}
  BY DEF DrainApplication, Active, Closed
<1>3. rows[i] \in {"created", "parked"}
  BY DEF DrainApplication
<1>4. /\ Arrived(rows') = Arrived(rows) /\ i \in Arrived(rows)
      /\ HasVerdict(rows') = HasVerdict(rows) \cup {i}
  BY <1>0, <1>1, <1>3 DEF Arrived, HasVerdict, Peer, RowState
<1>5. CASE i \in HasVerdict(rows)
  BY <1>2, <1>4, <1>5, StutterStep
<1>6. CASE i \notin HasVerdict(rows)
  BY <1>0, <1>2, <1>4, <1>6, DeliverStep
<1> QED
  BY <1>5, <1>6

\* Local commits are no input of the batch.
LEMMA ConfirmRefines ==
    ASSUME IInv, Confirm
    PROVE  BatchStep
<1>1. owner.commit \in Own
  BY DEF IInv, Confirm
<1>2. \A i \in Peer : rows'[i] = rows[i]
  BY <1>1 DEF Confirm, IInv, TypeOK, Peer
<1>3. Arrived(rows') = Arrived(rows) /\ HasVerdict(rows') = HasVerdict(rows)
  BY <1>2 DEF Arrived, HasVerdict
<1>4. Closed(pass') = Closed(pass)
  BY DEF Confirm
<1> QED
  BY <1>3, <1>4, StutterStep

\* The steps that touch neither the rows nor a closed batch.
LEMMA QuietRefines ==
    ASSUME IInv, rows' = rows,
           \/ pass' = pass
           \/ pass'.members = pass.members
              /\ (pass'.phase \in {"frozen", "resolving"}
                    <=> pass.phase \in {"frozen", "resolving"})
    PROVE  BatchStep
<1>1. Closed(pass') = Closed(pass)
  BY DEF Closed
<1> QED
  BY <1>1, StutterStep

\* Every step of a pass is one of the abstract batch.
LEMMA NextRefines == IInv /\ [Next]_vars => BatchStep
<1> SUFFICES ASSUME IInv, [Next]_vars PROVE BatchStep
  OBVIOUS
<1>0. pass \in PassRecord
  BY DEF IInv, TypeOK
<1>1. CASE \E i \in Peer : Ingest(i)
  BY <1>1, IngestRefines
<1>2. CASE Converge
  BY <1>2, PollRefines DEF Converge, TimesAfterPoll
<1>3. CASE \E c \in Own : Send(c)
  <2>1. PICK c \in Own : Send(c)
    BY <1>3
  <2>2. CASE Settled(pass)
    <3>1. rows' = rows /\ pass' = pass
      BY <2>1, <2>2 DEF Send
    <3> QED
      BY <3>1, QuietRefines
  <2>3. CASE ~Settled(pass)
    <3>1. pass' = Polled(rows) /\ rows' = RowsAfterLoad(rows) /\ times' = TimesAfterPoll
      BY <2>1, <2>3 DEF Send, TimesAfterPoll
    <3> QED
      BY <3>1, PollRefines
  <2> QED
    BY <2>2, <2>3
<1>4. CASE \E i \in App : DrainApplication(i)
  BY <1>4, DrainApplicationRefines
<1>5. CASE (\E c \in Own : Drain(c)) \/ DrainFails \/ DrainDormant
  <2>1. rows' = rows /\ pass' = [pass EXCEPT !.slot = FALSE]
    BY <1>5 DEF Drain, DrainFails, DrainDormant, Consumed
  <2>2. pass'.phase = pass.phase /\ pass'.members = pass.members
    BY <1>0, <2>1 DEF PassRecord
  <2> QED
    BY <2>1, <2>2, QuietRefines
<1>6. CASE Resolve
  <2>1. rows' = rows /\ pass.phase = "frozen" /\ pass' = [pass EXCEPT !.phase = "resolving"]
    BY <1>6 DEF Resolve
  <2>2. pass'.phase = "resolving" /\ pass'.members = pass.members
    BY <1>0, <2>1 DEF PassRecord
  <2> QED
    BY <2>1, <2>2, QuietRefines
<1>7. CASE Tick \/ (\E d \in WallSteps : StepWall(d)) \/ Restart
  <2>1. rows' = rows
    BY <1>7 DEF Tick, StepWall, Restart
  <2>2. pass' = pass \/ (pass'.phase = pass.phase /\ pass'.members = pass.members)
    <3>1. CASE Tick
      BY <1>0, <3>1 DEF Tick, PassRecord
    <3>2. CASE \E d \in WallSteps : StepWall(d)
      BY <1>0, <3>2 DEF StepWall, PassRecord
    <3>3. CASE Restart
      BY <1>0, <3>3 DEF Restart, PassRecord
    <3> QED
      BY <1>7, <3>1, <3>2, <3>3
  <2> QED
    BY <2>1, <2>2, QuietRefines
<1>8. CASE Halt \/ PublishFails \/ UNCHANGED vars
  <2>1. rows' = rows /\ pass' = pass
    BY <1>8 DEF Halt, PublishFails, vars
  <2> QED
    BY <2>1, QuietRefines
<1> QED
  BY <1>1, <1>2, <1>3, <1>4, <1>5, <1>6, <1>7, <1>8, CompleteRefines, ConfirmRefines DEF Next

\* A convergence pass implements batch adjudication: what is frozen is judged
\* whole and by itself, nothing joins it, and no batch closes without new input.
THEOREM Refinement == Spec => RefinesBatchAdjudication
<1>1. Init => Batch!Init
  BY DEF Init, Batch!Init, NoPass, Peer
<1>2. IInv /\ [Next]_vars => [Batch!Next]_(Batch!vars)
  BY NextRefines DEF BatchStep
<1> QED
  BY <1>1, <1>2, Invariance, PTL DEF Spec, Batch!Spec, RefinesBatchAdjudication

=============================================================================
