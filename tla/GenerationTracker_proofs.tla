------------------------ MODULE GenerationTracker_proofs ------------------------
(***************************************************************************)
(* Proofs about GenerationTracker for every set of generations, hop        *)
(* counts, travel times and first hops and every cap, as long as the       *)
(* strict acceptance factor is below 1.                                    *)
(*                                                                         *)
(* What makes NoReturn inductive is that the first hop of an ant once      *)
(* admitted is never "new" again: it was recorded, or the record was full, *)
(* or it is no address.  So a later ant over it is held to the strict      *)
(* factor, and the minimum of all hop counts admitted before.              *)
(***************************************************************************)
EXTENDS GenerationTracker, DataLemmas

Ants == [hops : Nat \ {0}, time : Nat, firstHop : FirstHops]

\* A later ant of T over the first hop of an earlier one came a shorter way.
Shortening(T) ==
  \A i, j \in 1 .. Len(T) :
    i < j /\ T[i].firstHop = T[j].firstHop => T[j].hops < T[i].hops

\* The minima b records are those of T, and both are attained.
Minimal(b, T) ==
  /\ \E i \in 1 .. Len(T) : T[i].hops = b.hops
  /\ \E i \in 1 .. Len(T) : T[i].time = b.time
  /\ \A i \in 1 .. Len(T) : b.hops <= T[i].hops /\ b.time <= T[i].time

\* No first hop of T counts as new against the record b.
Spent(b, T) == \A i \in 1 .. Len(T) : ~ IsNewFirstHop(b.firstHops, T[i].firstHop)

\* Each admission after the first cost a first hop or a hop.
Paid(b, T) == Len(T) <= 1 + Cardinality(b.firstHops) + T[1].hops - b.hops

\* The first hops of b are within their cap.
Capped(b) == IsFiniteSet(b.firstHops) /\ Cardinality(b.firstHops) <= MaxFirstHops

\* What is true of a generation recorded as b that has admitted the ants of T.  One
\* that allowBroadcast created has hop count 0 and admits nothing.
Fits(b, T) ==
  /\ b \in Bests /\ T \in Seq(Ants)
  /\ Capped(b)
  /\ T = << >> => b.hops = 0
  /\ T # << >> => Minimal(b, T) /\ Spent(b, T) /\ Shortening(T) /\ Paid(b, T)

-----------------------------------------------------------------------------
(* One generation *)

\* An ant held to the strict factor has fewer hops than the recorded minimum.
LEMMA StrictIsShorter ==
  ASSUME NEW h \in Nat, NEW b \in Nat, b # 0, h * ADen <= A1 * b
  PROVE  h < b
<1> SUFFICES ASSUME h >= b PROVE FALSE
  OBVIOUS
<1>1. A1 \in Nat /\ ADen \in Nat /\ A1 + 1 <= ADen
  BY HistoryAssumption, GenerationAssumption
<1>2. h * ADen >= b * ADen
  BY <1>1
<1>3. b * ADen >= b * (A1 + 1)
  BY <1>1
<1>4. b * (A1 + 1) = A1 * b + b
  BY <1>1
<1>5. QED  BY <1>1, <1>2, <1>3, <1>4

\* Recording a first hop keeps the old ones from being new, and makes it old.
LEMMA NotedIsNotNew ==
  ASSUME NEW F, NEW x, NEW y
  PROVE  /\ ~ IsNewFirstHop(F, y) => ~ IsNewFirstHop(NoteFirstHop(F, x), y)
         /\ ~ IsNewFirstHop(NoteFirstHop(F, x), x)
<1>1. CASE IsNewFirstHop(F, x)
  <2>1. NoteFirstHop(F, x) = F \cup {x}
    BY <1>1 DEF NoteFirstHop
  <2>2. ~ IsNewFirstHop(F \cup {x}, x)
    BY DEF IsNewFirstHop
  <2>3. ASSUME ~ IsNewFirstHop(F, y) PROVE ~ IsNewFirstHop(F \cup {x}, y)
    <3>1. y = Invalid \/ y \in F
      BY <1>1, <2>3 DEF IsNewFirstHop
    <3>2. QED  BY <3>1 DEF IsNewFirstHop
  <2>4. QED  BY <2>1, <2>2, <2>3
<1>2. CASE ~ IsNewFirstHop(F, x)
  BY <1>2 DEF NoteFirstHop
<1>3. QED  BY <1>1, <1>2

\* Recording a first hop respects the cap, and takes one place if it was new.
LEMMA NotedIsCapped ==
  ASSUME NEW F, IsFiniteSet(F), Cardinality(F) <= MaxFirstHops, NEW x
  PROVE  /\ IsFiniteSet(NoteFirstHop(F, x))
         /\ Cardinality(NoteFirstHop(F, x)) <= MaxFirstHops
         /\ Cardinality(NoteFirstHop(F, x)) =
              IF IsNewFirstHop(F, x) THEN Cardinality(F) + 1 ELSE Cardinality(F)
<1>1. Cardinality(F) \in Nat /\ MaxFirstHops \in Nat
  BY FS_CardinalityType, HistoryAssumption
<1>2. CASE IsNewFirstHop(F, x)
  <2>1. NoteFirstHop(F, x) = F \cup {x} /\ x \notin F /\ Cardinality(F) < MaxFirstHops
    BY <1>2 DEF NoteFirstHop, IsNewFirstHop
  <2>2. IsFiniteSet(F \cup {x}) /\ Cardinality(F \cup {x}) = Cardinality(F) + 1
    BY <2>1, FS_AddElement
  <2>3. QED  BY <1>1, <1>2, <2>1, <2>2
<1>3. CASE ~ IsNewFirstHop(F, x)
  BY <1>3 DEF NoteFirstHop
<1>4. QED  BY <1>2, <1>3

\* The record of b once it has admitted an ant, as Admit computes it.
Improved(b, h, t, fh) ==
  [hops |-> Lesser(h, b.hops), time |-> Lesser(t, b.time), broadcasts |-> b.broadcasts,
   firstHops |-> NoteFirstHop(b.firstHops, fh)]

\* An ant inside the acceptance bands fits behind those admitted before it.
LEMMA AdmissionFits ==
  ASSUME NEW b, NEW T, Fits(b, T),
         NEW h \in Nat \ {0}, NEW t \in Nat, NEW fh \in FirstHops,
         IsNewFirstHop(b.firstHops, fh) => h * ADen <= A2 * b.hops,
         ~ IsNewFirstHop(b.firstHops, fh) => h * ADen <= A1 * b.hops
  PROVE  Fits(Improved(b, h, t, fh), Append(T, Ant(h, t, fh)))
<1> DEFINE a == Ant(h, t, fh)
           U == Append(T, a)
           c == Improved(b, h, t, fh)
           n == Len(T)
<1>1. /\ b.hops \in Nat /\ b.time \in Nat /\ b.broadcasts \in Nat
      /\ b.firstHops \subseteq FirstHops /\ T \in Seq(Ants) /\ n \in Nat
  BY DEF Fits, Bests
<1>2. T # << >> /\ b.hops # 0
  <2>1. A1 \in Nat /\ A2 \in Nat /\ ADen \in Nat \ {0}
    BY HistoryAssumption
  <2>2. h * ADen \in Int /\ h * ADen > 0
    BY <2>1
  <2>3. ASSUME b.hops = 0 PROVE FALSE
    <3>1. A1 * b.hops = 0 /\ A2 * b.hops = 0
      BY <2>1, <2>3
    <3>2. QED  BY <2>2, <3>1
  <2>4. QED  BY <2>3 DEF Fits
<1>3. Minimal(b, T) /\ Spent(b, T) /\ Shortening(T) /\ Paid(b, T) /\ Capped(b)
  BY <1>2 DEF Fits
<1>4. /\ a \in Ants /\ a.hops = h /\ a.time = t /\ a.firstHop = fh
      /\ U \in Seq(Ants) /\ U # << >> /\ Len(U) = n + 1
      /\ \A i \in 1 .. n : U[i] = T[i]
      /\ U[n + 1] = a
  <2>1. a \in Ants /\ a.hops = h /\ a.time = t /\ a.firstHop = fh
    BY DEF Ant, Ants
  <2> HIDE DEF a
  <2>2. QED  BY <2>1, <1>1, AppendProperties
<1>5. /\ c.hops = Lesser(h, b.hops) /\ c.time = Lesser(t, b.time)
      /\ c.broadcasts = b.broadcasts /\ c.firstHops = NoteFirstHop(b.firstHops, fh)
  BY DEF Improved
<1>6. /\ c.hops \in Nat /\ c.time \in Nat /\ c.hops <= h /\ c.hops <= b.hops
      /\ c.time <= t /\ c.time <= b.time
      /\ c.hops \in {h, b.hops} /\ c.time \in {t, b.time}
  BY <1>1, <1>5 DEF Lesser
<1>7. c \in Bests
  <2>1. c.firstHops \subseteq FirstHops
    BY <1>1, <1>5 DEF NoteFirstHop
  <2>2. c = [hops |-> c.hops, time |-> c.time, broadcasts |-> c.broadcasts, firstHops |-> c.firstHops]
    BY DEF Improved
  <2>3. c.broadcasts \in Nat
    BY <1>1, <1>5
  <2> HIDE DEF c
  <2>4. QED  BY <1>6, <2>1, <2>2, <2>3 DEF Bests
<1>8. Capped(c)
  BY <1>3, <1>5, NotedIsCapped DEF Capped
<1>9. /\ n >= 1
      /\ \A i \in 1 .. n : T[i].hops \in Nat /\ T[i].time \in Nat
  <2>1. \A i \in 1 .. n : T[i] \in Ants
    BY <1>1
  <2>2. QED  BY <2>1, <1>1, <1>2 DEF Ants
<1> HIDE DEF a, U, c, n
<1>10. \A i \in 1 .. n + 1 : (i \in 1 .. n \/ i = n + 1) /\ U[i] \in Ants
  BY <1>1, <1>4
<1>11. Minimal(c, U)
  <2>1. \E i \in 1 .. Len(U) : U[i].hops = c.hops
    <3>1. CASE c.hops = h
      BY <3>1, <1>1, <1>4
    <3>2. CASE c.hops = b.hops
      <4>1. PICK i \in 1 .. n : T[i].hops = b.hops
        BY <1>3 DEF Minimal, n
      <4>2. i \in 1 .. Len(U) /\ U[i].hops = c.hops
        BY <4>1, <3>2, <1>1, <1>4
      <4>3. QED  BY <4>2
    <3>3. QED  BY <3>1, <3>2, <1>6
  <2>2. \E i \in 1 .. Len(U) : U[i].time = c.time
    <3>1. CASE c.time = t
      BY <3>1, <1>1, <1>4
    <3>2. CASE c.time = b.time
      <4>1. PICK i \in 1 .. n : T[i].time = b.time
        BY <1>3 DEF Minimal, n
      <4>2. i \in 1 .. Len(U) /\ U[i].time = c.time
        BY <4>1, <3>2, <1>1, <1>4
      <4>3. QED  BY <4>2
    <3>3. QED  BY <3>1, <3>2, <1>6
  <2>3. \A i \in 1 .. Len(U) : c.hops <= U[i].hops /\ c.time <= U[i].time
    <3> TAKE i \in 1 .. Len(U)
    <3>1. CASE i \in 1 .. n
      <4>1. b.hops <= T[i].hops /\ b.time <= T[i].time
        BY <3>1, <1>3 DEF Minimal, n
      <4>2. U[i] = T[i] /\ T[i].hops \in Nat /\ T[i].time \in Nat
        BY <3>1, <1>4, <1>9
      <4>3. QED  BY <4>1, <4>2, <1>1, <1>6
    <3>2. CASE i = n + 1
      BY <3>2, <1>4, <1>6
    <3>3. QED  BY <3>1, <3>2, <1>4, <1>10
  <2>4. QED  BY <2>1, <2>2, <2>3 DEF Minimal
<1>12. Spent(c, U)
  <2> SUFFICES ASSUME NEW i \in 1 .. Len(U)
               PROVE  ~ IsNewFirstHop(NoteFirstHop(b.firstHops, fh), U[i].firstHop)
    BY <1>5 DEF Spent
  <2>1. CASE i \in 1 .. n
    <3>1. ~ IsNewFirstHop(b.firstHops, U[i].firstHop)
      BY <2>1, <1>3, <1>4 DEF Spent, n
    <3>2. QED  BY <3>1, NotedIsNotNew
  <2>2. CASE i = n + 1
    BY <2>2, <1>4, NotedIsNotNew
  <2>3. QED  BY <2>1, <2>2, <1>4, <1>10
<1>13. ASSUME ~ IsNewFirstHop(b.firstHops, fh)
       PROVE  h < b.hops
  BY <1>13, <1>1, <1>2, StrictIsShorter
<1>14. Shortening(U)
  <2> SUFFICES ASSUME NEW i \in 1 .. Len(U), NEW j \in 1 .. Len(U),
                      i < j, U[i].firstHop = U[j].firstHop
               PROVE  U[j].hops < U[i].hops
    BY DEF Shortening
  <2>1. i \in 1 .. n
    BY <1>1, <1>4
  <2>2. CASE j \in 1 .. n
    BY <2>1, <2>2, <1>3, <1>4 DEF Shortening, n
  <2>3. CASE j = n + 1
    <3>1. ~ IsNewFirstHop(b.firstHops, fh)
      BY <2>1, <2>3, <1>3, <1>4 DEF Spent, n
    <3>2. h < b.hops
      BY <3>1, <1>13
    <3>3. b.hops <= T[i].hops /\ T[i].hops \in Nat
      BY <2>1, <1>3, <1>9 DEF Minimal, n
    <3>4. QED  BY <2>1, <2>3, <3>2, <3>3, <1>1, <1>4
  <2>4. QED  BY <2>2, <2>3, <1>4, <1>10
<1>15. Paid(c, U)
  <2>1. /\ n <= 1 + Cardinality(b.firstHops) + T[1].hops - b.hops
        /\ U[1].hops = T[1].hops /\ T[1].hops \in Nat
    BY <1>1, <1>3, <1>4, <1>9 DEF Paid, n
  <2>2. /\ Cardinality(b.firstHops) \in Nat
        /\ Cardinality(c.firstHops) = IF IsNewFirstHop(b.firstHops, fh)
                                      THEN Cardinality(b.firstHops) + 1
                                      ELSE Cardinality(b.firstHops)
    BY <1>3, <1>5, NotedIsCapped, FS_CardinalityType DEF Capped
  <2>3. CASE IsNewFirstHop(b.firstHops, fh)
    <3>1. n + 1 <= 1 + Cardinality(c.firstHops) + U[1].hops - c.hops
      BY <2>1, <2>2, <2>3, <1>1, <1>6
    <3>2. QED  BY <3>1, <1>4 DEF Paid
  <2>4. CASE ~ IsNewFirstHop(b.firstHops, fh)
    <3>1. c.hops = h /\ h < b.hops
      BY <2>4, <1>1, <1>5, <1>13 DEF Lesser
    <3>2. n + 1 <= 1 + Cardinality(c.firstHops) + U[1].hops - c.hops
      BY <2>1, <2>2, <2>4, <3>1, <1>1
    <3>3. QED  BY <3>2, <1>4 DEF Paid
  <2>5. QED  BY <2>3, <2>4
<1>16. QED
  BY <1>4, <1>7, <1>8, <1>11, <1>12, <1>14, <1>15 DEF Fits, U, a, c

\* The first ant of a generation fits alone.
LEMMA FirstFits ==
  ASSUME NEW h \in Nat \ {0}, NEW t \in Nat, NEW fh \in FirstHops
  PROVE  Fits([hops |-> h, time |-> t, broadcasts |-> 0, firstHops |-> NoteFirstHop({}, fh)],
              <<Ant(h, t, fh)>>)
<1> DEFINE a == Ant(h, t, fh)
           F == NoteFirstHop({}, fh)
           b == [hops |-> h, time |-> t, broadcasts |-> 0, firstHops |-> F]
           T == <<a>>
<1>1. a \in Ants /\ a.hops = h /\ a.time = t /\ a.firstHop = fh
  BY DEF Ant, Ants
<1>2. b.hops = h /\ b.time = t /\ b.firstHops = F
  OBVIOUS
<1>3. F \subseteq FirstHops
  BY DEF NoteFirstHop
<1>4. IsFiniteSet(F) /\ Cardinality(F) <= MaxFirstHops /\ Cardinality(F) \in Nat
  <2>1. IsFiniteSet({}) /\ Cardinality({}) = 0 /\ 0 <= MaxFirstHops
    BY FS_EmptySet, HistoryAssumption
  <2>2. IsFiniteSet(F) /\ Cardinality(F) <= MaxFirstHops
    BY <2>1, NotedIsCapped
  <2>3. QED  BY <2>2, FS_CardinalityType
<1>5. b \in Bests
  BY <1>3 DEF Bests
<1>6. ~ IsNewFirstHop(F, fh)
  BY NotedIsNotNew
<1> HIDE DEF a, F, b
<1>7. T \in Seq(Ants) /\ T # << >> /\ Len(T) = 1 /\ T[1] = a
  BY <1>1
<1> HIDE DEF T
<1>8. Minimal(b, T)
  BY <1>1, <1>2, <1>7 DEF Minimal
<1>9. Spent(b, T)
  BY <1>1, <1>2, <1>6, <1>7 DEF Spent
<1>10. Shortening(T)
  BY <1>7 DEF Shortening
<1>11. Paid(b, T)
  BY <1>1, <1>2, <1>4, <1>7 DEF Paid
<1>12. Fits(b, T)
  BY <1>2, <1>4, <1>5, <1>7, <1>8, <1>9, <1>10, <1>11 DEF Fits, Capped
<1>13. QED  BY <1>12 DEF T, a, b, F

\* A generation that allowBroadcast creates fits an empty trail.
LEMMA UnadmittedFits ==
  Fits([hops |-> 0, time |-> 0, broadcasts |-> 0, firstHops |-> {}], << >>)
<1> DEFINE b == [hops |-> 0, time |-> 0, broadcasts |-> 0, firstHops |-> {}]
<1>1. b \in Bests /\ b.hops = 0 /\ b.firstHops = {}
  BY DEF Bests
<1>2. << >> \in Seq(Ants)
  OBVIOUS
<1> HIDE DEF b
<1>3. Capped(b)
  BY <1>1, FS_EmptySet, HistoryAssumption DEF Capped
<1>4. Fits(b, << >>)
  BY <1>1, <1>2, <1>3 DEF Fits
<1>5. QED  BY <1>4 DEF b

\* The number of broadcasts plays no part in what fits.
LEMMA BroadcastFits ==
  ASSUME NEW b, NEW T, Fits(b, T), NEW n \in Nat
  PROVE  Fits([b EXCEPT !.broadcasts = n], T)
<1> DEFINE c == [b EXCEPT !.broadcasts = n]
<1>1. b \in Bests
  BY DEF Fits
<1>2. c \in Bests /\ c.hops = b.hops /\ c.time = b.time /\ c.firstHops = b.firstHops
  BY <1>1 DEF Bests
<1> HIDE DEF c
<1>3. Fits(c, T)
  BY <1>2 DEF Fits, Capped, Minimal, Spent, Paid
<1>4. QED  BY <1>3 DEF c

-----------------------------------------------------------------------------
(* The store *)

\* A map and a deque are well formed, and agree.
Agree(best, q) ==
  /\ best \in [DOMAIN best -> Bests]
  /\ DOMAIN best \subseteq Keys
  /\ q \in Seq(Keys)
  /\ MaxHistory # 0 => Len(q) <= MaxHistory
  /\ DOMAIN best = {q[i] : i \in 1 .. Len(q)}
  /\ \A i, j \in 1 .. Len(q) : q[i] = q[j] => i = j

Store(g) == g = [best |-> g.best, order |-> g.order] /\ Agree(g.best, g.order)

\* On a deque without repetitions, an insertion and the eviction that follows
\* keep it so, and the deque holds what it held and the new key, less the evicted.
LEMMA EvictionKeepsWindow ==
  ASSUME NEW K, NEW q \in Seq(K), NEW k \in K,
         MaxHistory # 0 => Len(q) <= MaxHistory,
         \A i, j \in 1 .. Len(q) : q[i] = q[j] => i = j,
         k \notin {q[i] : i \in 1 .. Len(q)}
  PROVE  LET p == Append(q, k)
         IN /\ Kept(p) \in Seq(K)
            /\ MaxHistory # 0 => Len(Kept(p)) <= MaxHistory
            /\ \A i, j \in 1 .. Len(Kept(p)) : Kept(p)[i] = Kept(p)[j] => i = j
            /\ {Kept(p)[i] : i \in 1 .. Len(Kept(p))} =
                 ({q[i] : i \in 1 .. Len(q)} \cup {k}) \ Evicted(p)
            /\ k \notin Evicted(p)
<1> DEFINE p == Append(q, k)
           kept == Rest(MaxHistory, p)
           gone == Popped(MaxHistory, p)
<1>1. /\ MaxHistory \in Nat /\ q \in Seq(K) /\ k \in K /\ (MaxHistory # 0 => Len(q) <= MaxHistory)
      /\ \A i, j \in 1 .. Len(q) : q[i] = q[j] => i = j
      /\ k \notin {q[i] : i \in 1 .. Len(q)}
  BY HistoryAssumption
<1>2. Kept(p) = kept /\ Evicted(p) = gone
  BY DEF Kept, Evicted, Excess, Surplus, Rest, Popped
<1>3. /\ kept \in Seq(K)
      /\ MaxHistory # 0 => Len(kept) <= MaxHistory
      /\ \A i, j \in 1 .. Len(kept) : kept[i] = kept[j] => i = j
      /\ {kept[i] : i \in 1 .. Len(kept)} = ({q[i] : i \in 1 .. Len(q)} \cup {k}) \ gone
      /\ k \notin gone
  BY ONLY <1>1, PushKeepsWindow, Zenon
<1> HIDE DEF kept, gone
<1> QED
  BY <1>2, <1>3

\* Inserting a generation evicts others only, and changes none that it keeps.
LEMMA InsertStores ==
  ASSUME NEW g, Store(g), NEW k \in Keys, ~ Resident(g, k), NEW b \in Bests
  PROVE  LET h == Insert(g, k, b)
         IN /\ Store(h)
            /\ k \in DOMAIN h.best /\ h.best[k] = b
            /\ \A x \in DOMAIN h.best \ {k} : x \in DOMAIN g.best /\ h.best[x] = g.best[x]
<1> DEFINE q == g.order
           p == Append(q, k)
           D == (DOMAIN g.best \cup {k}) \ Evicted(p)
           f == [x \in D |-> IF x = k THEN b ELSE g.best[x]]
           h == [best |-> f, order |-> Kept(p)]
<1>1. /\ q \in Seq(Keys) /\ k \in Keys
      /\ MaxHistory # 0 => Len(q) <= MaxHistory
      /\ \A i, j \in 1 .. Len(q) : q[i] = q[j] => i = j
      /\ DOMAIN g.best = {q[i] : i \in 1 .. Len(q)}
      /\ DOMAIN g.best \subseteq Keys
      /\ g.best \in [DOMAIN g.best -> Bests]
      /\ k \notin DOMAIN g.best
  BY DEF Store, Agree, Resident
<1>2. k \notin {q[i] : i \in 1 .. Len(q)}
  BY <1>1
<1>3. Insert(g, k, b) = h
  BY DEF Insert
<1>4. h.best = f /\ h.order = Kept(p) /\ DOMAIN f = D
  OBVIOUS
<1> HIDE DEF q
<1>5. /\ Kept(p) \in Seq(Keys)
      /\ MaxHistory # 0 => Len(Kept(p)) <= MaxHistory
      /\ \A i, j \in 1 .. Len(Kept(p)) : Kept(p)[i] = Kept(p)[j] => i = j
      /\ {Kept(p)[i] : i \in 1 .. Len(Kept(p))} =
           ({q[i] : i \in 1 .. Len(q)} \cup {k}) \ Evicted(p)
      /\ k \notin Evicted(p)
  BY ONLY <1>1, <1>2, EvictionKeepsWindow, Zenon
<1>6. D = {Kept(p)[i] : i \in 1 .. Len(Kept(p))} /\ k \in D /\ D \subseteq Keys
  BY <1>1, <1>5
<1>7. f \in [D -> Bests]
  BY <1>1
<1> HIDE DEF p, f, D
<1>7a. Agree(f, Kept(p))
  BY <1>4, <1>5, <1>6, <1>7 DEF Agree
<1>8. Store(h)
  BY <1>4, <1>7a DEF Store
<1>9. k \in DOMAIN h.best /\ h.best[k] = b
  BY <1>4, <1>6 DEF f
<1>10. \A x \in DOMAIN h.best \ {k} : x \in DOMAIN g.best /\ h.best[x] = g.best[x]
  BY <1>4 DEF f, D
<1> HIDE DEF h
<1>11. QED  BY <1>3, <1>8, <1>9, <1>10

\* Changing the record of a resident generation leaves the rest alone.
LEMMA UpdateStores ==
  ASSUME NEW g, Store(g), NEW k, Resident(g, k), NEW b \in Bests
  PROVE  LET h == [g EXCEPT !.best[k] = b]
         IN /\ Store(h)
            /\ DOMAIN h.best = DOMAIN g.best /\ k \in DOMAIN g.best
            /\ h.best[k] = b
            /\ \A x \in DOMAIN g.best \ {k} : h.best[x] = g.best[x]
<1> DEFINE f == [g.best EXCEPT ![k] = b]
           h == [g EXCEPT !.best[k] = b]
           q == g.order
<1>1. /\ g = [best |-> g.best, order |-> q]
      /\ g.best \in [DOMAIN g.best -> Bests] /\ k \in DOMAIN g.best
      /\ Agree(g.best, q)
  BY DEF Store, Agree, Resident
<1>2. h = [best |-> f, order |-> q]
  BY <1>1
<1>3. /\ f \in [DOMAIN f -> Bests] /\ DOMAIN f = DOMAIN g.best /\ f[k] = b
      /\ \A x \in DOMAIN g.best \ {k} : f[x] = g.best[x]
  BY <1>1
<1> HIDE DEF h, f, q
<1>4. h.best = f /\ h.order = q /\ h = [best |-> h.best, order |-> h.order]
  BY <1>2
<1>5. Agree(f, q)
  BY <1>1, <1>3 DEF Agree
<1>6. Store(h)
  BY <1>4, <1>5 DEF Store
<1>7. QED  BY <1>1, <1>3, <1>4, <1>6 DEF h

-----------------------------------------------------------------------------
(* The invariant *)

\* The ants generation x has admitted; none if it is not resident.
TrailOf(x) == IF x \in DOMAIN trail THEN trail[x] ELSE << >>

\* A broadcast count within its cap.
Rationed(b) == MaxBroadcasts >= 0 => b.broadcasts <= MaxBroadcasts

IInv ==
  /\ Store(gens)
  /\ DOMAIN trail = DOMAIN gens.best
  /\ \A x \in DOMAIN gens.best : Fits(gens.best[x], trail[x]) /\ Rationed(gens.best[x])

LEMMA InitIInv == Init => IInv
<1> SUFFICES ASSUME Init PROVE IInv
  OBVIOUS
<1>1. gens = EmptyGenerations /\ DOMAIN trail = {}
  BY DEF Init
<1>2. Store(EmptyGenerations) /\ DOMAIN EmptyGenerations.best = {}
  <2>1. Agree([k \in {} |-> 0], << >>)
    BY HistoryAssumption DEF Agree
  <2>2. QED  BY <2>1 DEF Store, EmptyGenerations
<1>3. QED  BY <1>1, <1>2 DEF IInv

\* A step that touches the record and the trail of one generation only keeps the
\* invariant, if it leaves that generation fitting and rationed.
LEMMA OneGenerationStep ==
  ASSUME IInv, NEW k, NEW g, Store(g), NEW ants \in Seq(Ants),
         gens' = g, trail' = TrailAfter(g, k, ants),
         \A x \in DOMAIN g.best \ {k} : x \in DOMAIN gens.best /\ g.best[x] = gens.best[x],
         k \in DOMAIN g.best => Fits(g.best[k], TrailOf(k) \o ants) /\ Rationed(g.best[k])
  PROVE  IInv'
<1>1. DOMAIN trail' = DOMAIN g.best
  BY DEF TrailAfter
<1>2. ASSUME NEW x \in DOMAIN g.best
      PROVE  Fits(g.best[x], trail'[x]) /\ Rationed(g.best[x])
  <2>1. trail'[x] = TrailOf(x) \o (IF x = k THEN ants ELSE << >>)
    BY <1>2 DEF TrailAfter, TrailOf
  <2>2. CASE x = k
    BY <1>2, <2>1, <2>2
  <2>3. CASE x # k
    <3>1. /\ x \in DOMAIN gens.best /\ g.best[x] = gens.best[x]
          /\ TrailOf(x) = trail[x]
          /\ Fits(gens.best[x], trail[x]) /\ Rationed(gens.best[x])
      BY <1>2, <2>3 DEF IInv, TrailOf
    <3>2. trail[x] \o << >> = trail[x]
      <4>1. trail[x] \in Seq(Ants)
        BY <3>1 DEF Fits
      <4>2. QED  BY <4>1, ConcatEmptySeq
    <3>3. QED  BY <2>1, <2>3, <3>1, <3>2
  <2>4. QED  BY <2>2, <2>3
<1>3. QED  BY <1>1, <1>2 DEF IInv

\* accept() on an ant it admits keeps the invariant.
LEMMA AcceptIInv ==
  ASSUME IInv, NEW k \in Keys, NEW h \in Hops, NEW t \in Times, NEW fh \in FirstHops,
         AcceptAnt(k, h, t, fh)
  PROVE  IInv'
<1> DEFINE a == Ant(h, t, fh)
           b == gens.best[k]
           c == Improved(b, h, t, fh)
           first == [hops |-> h, time |-> t, broadcasts |-> 0, firstHops |-> NoteFirstHop({}, fh)]
<1>1. h \in Nat \ {0} /\ t \in Nat
  BY GenerationAssumption
<1>2. <<a>> \in Seq(Ants)
  BY <1>1 DEF Ant, Ants
<1>3. gens' = Admit(gens, k, h, t, fh) /\ trail' = TrailAfter(gens', k, <<a>>)
  BY DEF AcceptAnt
<1>4. Store(gens)
  BY DEF IInv
<1>5. CASE Resident(gens, k)
  <2>1. k \in DOMAIN gens.best /\ Fits(b, trail[k]) /\ Rationed(b) /\ TrailOf(k) = trail[k]
    BY <1>5 DEF Resident, IInv, TrailOf
  <2>2. /\ IsNewFirstHop(b.firstHops, fh) => h * ADen <= A2 * b.hops
        /\ ~ IsNewFirstHop(b.firstHops, fh) => h * ADen <= A1 * b.hops
    BY <1>5 DEF AcceptAnt, Admits
  <2>3. gens' = [gens EXCEPT !.best[k] = c]
    BY <1>3, <1>5 DEF Admit, Improved
  <2> HIDE DEF b
  <2>4. Fits(c, Append(trail[k], a))
    BY <1>1, <2>1, <2>2, AdmissionFits
  <2>5. Append(trail[k], a) = trail[k] \o <<a>>
    <3>1. trail[k] \in Seq(Ants) /\ a \in Ants
      BY <2>1, <1>1 DEF Fits, Ant, Ants
    <3> HIDE DEF a
    <3>2. QED  BY <3>1, AppendIsConcat
  <2>6. c \in Bests /\ Rationed(c)
    BY <2>1, <2>4 DEF Fits, Rationed, Improved
  <2> HIDE DEF c, a
  <2>7. /\ Store(gens')
        /\ DOMAIN gens'.best = DOMAIN gens.best /\ gens'.best[k] = c
        /\ \A x \in DOMAIN gens.best \ {k} : gens'.best[x] = gens.best[x]
    BY <1>4, <1>5, <2>3, <2>6, UpdateStores
  <2>8. QED  BY <1>2, <1>3, <2>1, <2>4, <2>5, <2>6, <2>7, OneGenerationStep
<1>6. CASE ~ Resident(gens, k)
  <2>1. gens' = Insert(gens, k, first)
    BY <1>3, <1>6 DEF Admit
  <2>2. Fits(first, <<a>>)
    BY <1>1, FirstFits
  <2>3. first \in Bests /\ Rationed(first)
    BY <2>2 DEF Fits, Rationed
  <2>4. TrailOf(k) = << >> /\ << >> \o <<a>> = <<a>>
    <3>1. TrailOf(k) = << >>
      BY <1>6 DEF Resident, IInv, TrailOf
    <3>2. QED  BY <3>1, <1>2, ConcatEmptySeq
  <2> HIDE DEF first, a
  <2>5. /\ Store(gens')
        /\ k \in DOMAIN gens'.best /\ gens'.best[k] = first
        /\ \A x \in DOMAIN gens'.best \ {k} :
             x \in DOMAIN gens.best /\ gens'.best[x] = gens.best[x]
    BY <1>4, <1>6, <2>1, <2>3, InsertStores
  <2>6. QED  BY <1>2, <1>3, <2>2, <2>3, <2>4, <2>5, OneGenerationStep
<1>7. QED  BY <1>5, <1>6

\* allowBroadcast() keeps the invariant, granted or refused.
LEMMA AllowIInv ==
  ASSUME IInv, NEW k \in Keys, AllowBroadcast(k)
  PROVE  IInv'
<1> DEFINE g == Tracked(gens, k)
           b == g.best[k]
           fresh == [hops |-> 0, time |-> 0, broadcasts |-> 0, firstHops |-> {}]
<1>1. gens' = ClaimBroadcast(gens, k, MaxBroadcasts) /\ trail' = TrailAfter(gens', k, << >>)
  BY DEF AllowBroadcast
<1>2. Store(gens) /\ << >> \in Seq(Ants) /\ MaxBroadcasts \in Int
  BY GenerationAssumption DEF IInv
<1>3. TrailOf(k) \o << >> = TrailOf(k)
  <2>1. TrailOf(k) \in Seq(Ants)
    BY DEF IInv, Fits, TrailOf
  <2>2. QED  BY <2>1, ConcatEmptySeq
<1>4. CASE MaxBroadcasts < 0
  <2>1. gens' = gens
    BY <1>1, <1>4 DEF ClaimBroadcast
  <2>2. k \in DOMAIN gens.best => Fits(gens.best[k], TrailOf(k)) /\ Rationed(gens.best[k])
    BY DEF IInv, TrailOf
  <2>3. QED  BY <1>1, <1>2, <1>3, <2>1, <2>2, OneGenerationStep
<1>5. CASE ~ MaxBroadcasts < 0
  <2>1. /\ Store(g) /\ k \in DOMAIN g.best
        /\ \A x \in DOMAIN g.best \ {k} : x \in DOMAIN gens.best /\ g.best[x] = gens.best[x]
        /\ Fits(b, TrailOf(k)) /\ Rationed(b)
        /\ MayBroadcast(gens, k, MaxBroadcasts) => b.broadcasts < MaxBroadcasts
    <3>1. CASE Resident(gens, k)
      <4>1. g = gens
        BY <3>1 DEF Tracked
      <4> HIDE DEF g
      <4>2. Fits(b, TrailOf(k)) /\ Rationed(b) /\ k \in DOMAIN g.best
        BY <3>1, <4>1 DEF IInv, Resident, TrailOf
      <4>3. MayBroadcast(gens, k, MaxBroadcasts) => b.broadcasts < MaxBroadcasts
        BY <1>5, <3>1, <4>1 DEF MayBroadcast
      <4>4. QED  BY <1>2, <4>1, <4>2, <4>3
    <3>2. CASE ~ Resident(gens, k)
      <4>1. g = Insert(gens, k, fresh)
        BY <3>2 DEF Tracked
      <4>2. Fits(fresh, << >>) /\ TrailOf(k) = << >>
        BY <3>2, UnadmittedFits DEF IInv, Resident, TrailOf
      <4>3. fresh \in Bests /\ fresh.broadcasts = 0
        BY <4>2 DEF Fits
      <4> HIDE DEF fresh, g
      <4>4. /\ Store(g) /\ k \in DOMAIN g.best /\ g.best[k] = fresh
            /\ \A x \in DOMAIN g.best \ {k} :
                 x \in DOMAIN gens.best /\ g.best[x] = gens.best[x]
        BY <1>2, <3>2, <4>1, <4>3, InsertStores
      <4>5. MayBroadcast(gens, k, MaxBroadcasts) => 0 < MaxBroadcasts
        BY <1>2, <1>5, <3>2 DEF MayBroadcast
      <4>6. Rationed(fresh)
        BY <1>2, <4>3 DEF Rationed
      <4>7. QED  BY <4>2, <4>3, <4>4, <4>5, <4>6
    <3>3. QED  BY <3>1, <3>2
  <2> HIDE DEF g
  <2>2. CASE MayBroadcast(gens, k, MaxBroadcasts)
    <3> DEFINE c == [b EXCEPT !.broadcasts = b.broadcasts + 1]
    <3>1. b \in Bests /\ b.broadcasts \in Nat /\ b.broadcasts < MaxBroadcasts
      BY <2>1, <2>2 DEF Fits, Bests
    <3>2. Fits(c, TrailOf(k)) /\ c.broadcasts = b.broadcasts + 1
      <4>1. b.broadcasts + 1 \in Nat
        BY <3>1
      <4>2. c.broadcasts = b.broadcasts + 1
        BY <3>1 DEF Bests
      <4>3. QED  BY <2>1, <4>1, <4>2, BroadcastFits
    <3>3. gens' = [g EXCEPT !.best[k] = c]
      BY <1>1, <1>5, <2>2 DEF ClaimBroadcast, g
    <3> HIDE DEF b
    <3>4. c \in Bests /\ Rationed(c)
      BY <1>2, <3>1, <3>2 DEF Fits, Rationed
    <3>5. Resident(g, k)
      BY <2>1 DEF Resident
    <3> HIDE DEF c
    <3>6. /\ Store(gens')
          /\ DOMAIN gens'.best = DOMAIN g.best /\ gens'.best[k] = c
          /\ \A x \in DOMAIN g.best \ {k} : gens'.best[x] = g.best[x]
      BY <2>1, <3>3, <3>4, <3>5, UpdateStores
    <3>7. \A x \in DOMAIN gens'.best \ {k} :
            x \in DOMAIN gens.best /\ gens'.best[x] = gens.best[x]
      BY <2>1, <3>6
    <3>8. QED  BY <1>1, <1>2, <1>3, <3>2, <3>4, <3>6, <3>7, OneGenerationStep
  <2>3. CASE ~ MayBroadcast(gens, k, MaxBroadcasts)
    <3>1. gens' = g
      BY <1>1, <1>5, <2>3 DEF ClaimBroadcast, g
    <3>2. QED  BY <1>1, <1>2, <1>3, <2>1, <3>1, OneGenerationStep
  <2>4. QED  BY <2>2, <2>3
<1>6. QED  BY <1>4, <1>5

\* Every step keeps the invariant.
LEMMA NextIInv == IInv /\ [Next]_vars => IInv'
<1> SUFFICES ASSUME IInv, [Next]_vars PROVE IInv'
  OBVIOUS
<1>1. ASSUME NEW k \in Keys, NEW h \in Hops, NEW t \in Times, NEW fh \in FirstHops,
             AcceptAnt(k, h, t, fh)
      PROVE  IInv'
  BY <1>1, AcceptIInv
<1>2. ASSUME NEW k \in Keys, AllowBroadcast(k) PROVE IInv'
  BY <1>2, AllowIInv
<1>3. CASE ClearTracker
  <2>1. gens' = EmptyGenerations /\ DOMAIN trail' = {}
    BY <1>3 DEF ClearTracker
  <2>2. Store(EmptyGenerations) /\ DOMAIN EmptyGenerations.best = {}
    <3>1. Agree([k \in {} |-> 0], << >>)
      BY HistoryAssumption DEF Agree
    <3>2. QED  BY <3>1 DEF Store, EmptyGenerations
  <2>3. QED  BY <2>1, <2>2 DEF IInv
<1>4. CASE UNCHANGED vars
  BY <1>4 DEF vars, IInv, TrailOf
<1>5. QED  BY <1>1, <1>2, <1>3, <1>4 DEF Next

\* The strengthening is an invariant of the tracker.
THEOREM GenerationsInvariant == Spec => []IInv
<1>1. Init => IInv  BY InitIInv
<1>2. IInv /\ [Next]_vars => IInv'  BY NextIInv
<1>3. QED  BY <1>1, <1>2, PTL DEF Spec

\* The types and the three caps: resident generations, first hops pinned by one,
\* broadcasts granted to one.
THEOREM GenerationsTypeOK == Spec => []TypeOK
<1>1. IInv => TypeOK
  <2> SUFFICES ASSUME IInv PROVE TypeOK
    OBVIOUS
  <2>1. Agree(gens.best, gens.order)
    BY DEF IInv, Store
  <2>2. \A k \in DOMAIN gens.best :
          gens.best[k] \in Bests /\ Capped(gens.best[k]) /\ Rationed(gens.best[k])
    BY DEF IInv, Fits
  <2>3. QED  BY <2>1, <2>2 DEF TypeOK, Agree, Capped, Rationed
<1>2. QED  BY <1>1, GenerationsInvariant, PTL

\* The map and its eviction deque hold the same generations, each once, although
\* accept() and allowBroadcast() both insert.
THEOREM GenerationsStoreAgrees == Spec => []StoreAgrees
<1>1. IInv => StoreAgrees
  BY DEF IInv, Store, Agree, StoreAgrees
<1>2. QED  BY <1>1, GenerationsInvariant, PTL

\* The recorded hops and time are the minima over every ant admitted.
THEOREM GenerationsBestIsMinimum == Spec => []BestIsMinimum
<1>1. IInv => BestIsMinimum
  BY DEF IInv, Fits, Minimal, BestIsMinimum
<1>2. QED  BY <1>1, GenerationsInvariant, PTL

\* accept() never lets a generation return over a first hop it has admitted, unless
\* it came a strictly shorter way: no flooded ant circulates.
THEOREM GenerationsNoReturn == Spec => []NoReturn
<1>1. IInv => NoReturn
  <2> SUFFICES ASSUME IInv, NEW k \in DOMAIN trail PROVE Shortening(trail[k])
    BY DEF NoReturn, Shortening
  <2>1. Fits(gens.best[k], trail[k])
    BY DEF IInv
  <2>2. CASE trail[k] = << >>
    BY <2>2 DEF Shortening
  <2>3. CASE trail[k] # << >>
    BY <2>1, <2>3 DEF Fits
  <2>4. QED  BY <2>2, <2>3
<1>2. QED  BY <1>1, GenerationsInvariant, PTL

\* A node admits, and so forwards, a generation at most once per first hop it can
\* record and per hop of the first ant's count.
THEOREM GenerationsAdmissionsBounded == Spec => []AdmissionsBounded
<1>1. IInv => AdmissionsBounded
  BY DEF IInv, Fits, Paid, AdmissionsBounded
<1>2. QED  BY <1>1, GenerationsInvariant, PTL

==============================================================================
