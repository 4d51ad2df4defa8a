-------------------------- MODULE RequestQueue_proofs --------------------------
(***************************************************************************)
(* The pending queue conserves its packets, keeps their order and its hold *)
(* caps, for any number of packets, any limit, timeout, caps and clock.    *)
(*                                                                         *)
(* The invariant says of the queue that Holds is true of it: its packets   *)
(* are those whose fate is "held", once each, in the order they last came; *)
(* no entry's deadline exceeds its cap, and first is when the packet came  *)
(* in.  The last two matter to the first two: an entry that is put back    *)
(* by a flush is still ahead of its deadline, so the purge and the         *)
(* eviction inside every Enqueue of the flush find nothing to take out.    *)
(* The queue is rebuilt by loops; Picks and Rotates say where each entry   *)
(* of the new queue was in the old one.                                    *)
(***************************************************************************)
EXTENDS RequestQueue, DataLemmas

Entry == [pkt : Packets, first : Nat, expire : Nat, reason : Reasons]

-----------------------------------------------------------------------------
(* What the loops over the queue compute *)

\* s is what is left of q at the positions in I, in the order of q: f says where
\* each entry of s was.
Picks(f, s, q, I) ==
  /\ f \in [DOMAIN s -> DOMAIN q]
  /\ \A i, j \in DOMAIN s : i < j => f[i] < f[j]
  /\ \A i \in DOMAIN s : s[i] = q[f[i]]
  /\ I = {f[i] : i \in DOMAIN s}

\* The loop that keeps the positions in I, as a function of how far it has come.
KeepsUpto(kept, S, q, I) ==
  /\ kept \in [0 .. Len(q) -> Seq(S)]
  /\ KeepAt(q, I) = kept[Len(q)]
  /\ kept[0] = << >>
  /\ \A n \in 1 .. Len(q) :
       kept[n] = IF n \in I THEN Append(kept[n - 1], q[n]) ELSE kept[n - 1]

\* The recursive function of KeepAt exists, so KeepAt is its value at the last position.
LEMMA KeepAtLoop ==
  ASSUME NEW S, NEW q \in Seq(S), NEW I \in SUBSET DOMAIN q
  PROVE  \E kept : KeepsUpto(kept, S, q, I)
<1> DEFINE N == Len(q)
           V == Seq(S)
           base == << >>
           Step(n, s) == IF n \in I THEN Append(s, q[n]) ELSE s
           Loop(f) == [n \in 0 .. N |-> IF n = 0 THEN base ELSE Step(n, f[n - 1])]
           h == CHOOSE f : f = Loop(f)
           step == [n \in 1 .. N |-> [s \in V |-> Step(n, s)]]
<1>1. N \in Nat /\ base \in V
  OBVIOUS
<1>2. \A n \in 1 .. N, s \in V : Step(n, s) \in V
  OBVIOUS
<1>3. KeepAt(q, I) = h[N]
  BY DEF KeepAt
<1>4. SUFFICES /\ h \in [0 .. N -> V] /\ h[0] = base
               /\ \A n \in 1 .. N : h[n] = Step(n, h[n - 1])
  BY <1>3 DEF KeepsUpto
<1> HIDE DEF N, V, base, Step
<1>5. step \in [1 .. N -> [V -> V]]
  BY <1>2
<1>6. \A n \in 1 .. N, s \in V : step[n][s] = Step(n, s)
  OBVIOUS
<1>7. h = Loop(h)
  <2> HIDE DEF step
  <2>0. PICK g : Recurses(g, N, V, base, step)
    BY <1>1, <1>5, RecursiveFunctionExists
  <2>1. g \in [0 .. N -> V] /\ g[0] = base /\ \A n \in 1 .. N : g[n] = step[n][g[n - 1]]
    BY <2>0 DEF Recurses
  <2>2. \A n \in 0 .. N : n # 0 => n \in 1 .. N /\ n - 1 \in 0 .. N
    BY <1>1
  <2>3. \A n \in 0 .. N : n # 0 => step[n][g[n - 1]] = Step(n, g[n - 1])
    BY <1>6, <2>1, <2>2
  <2>4. g = Loop(g)
    BY <2>1, <2>2, <2>3
  <2> HIDE DEF Loop
  <2> QED
    BY <2>4
<1> HIDE DEF step, h
<1>8. h[0] = base /\ \A n \in 1 .. N : h[n] = Step(n, h[n - 1])
  BY <1>1, <1>7
<1>9. \A n \in 0 .. N : h[n] \in V
  BY <1>1, <1>2, <1>8, RecursiveFunctionType
<1> QED
  BY <1>7, <1>8, <1>9

\* KeepAt keeps exactly the positions it is given, in order.
LEMMA KeepAtPicks ==
  ASSUME NEW S, NEW q \in Seq(S), NEW I \in SUBSET DOMAIN q
  PROVE  /\ KeepAt(q, I) \in Seq(S)
         /\ Len(KeepAt(q, I)) <= Len(q)
         /\ \E f : Picks(f, KeepAt(q, I), q, I)
<1>0. PICK kept : KeepsUpto(kept, S, q, I)
  BY KeepAtLoop
<1>1. /\ kept \in [0 .. Len(q) -> Seq(S)]
      /\ KeepAt(q, I) = kept[Len(q)]
      /\ kept[0] = << >>
      /\ \A n \in 1 .. Len(q) :
           kept[n] = IF n \in I THEN Append(kept[n - 1], q[n]) ELSE kept[n - 1]
  BY <1>0 DEF KeepsUpto
<1> DEFINE N == Len(q)
           Upto(n, f) ==
             /\ Len(kept[n]) <= n
             /\ f \in [1 .. Len(kept[n]) -> 1 .. n]
             /\ \A i, j \in 1 .. Len(kept[n]) : i < j => f[i] < f[j]
             /\ \A i \in 1 .. Len(kept[n]) : kept[n][i] = q[f[i]]
             /\ I \cap (1 .. n) = {f[i] : i \in 1 .. Len(kept[n])}
           T == {n \in 0 .. N : \E f : Upto(n, f)}
<1>2. N \in Nat /\ DOMAIN q = 1 .. N
  OBVIOUS
<1>3. \A n \in 0 .. N : kept[n] \in Seq(S) /\ Len(kept[n]) \in Nat
  BY <1>1
<1>4. 0 \in T
  <2> DEFINE f == [i \in 1 .. 0 |-> 0]
  <2>1. Len(kept[0]) = 0 /\ 1 .. 0 = {}
    BY <1>1
  <2>2. Upto(0, f)
    BY <2>1
  <2>3. 0 \in 0 .. N
    BY <1>2
  <2> HIDE DEF f, Upto
  <2> QED
    BY <2>2, <2>3
<1>5. ASSUME NEW n \in 1 .. N, n - 1 \in T PROVE n \in T
  <2>1. PICK f : Upto(n - 1, f)
    BY <1>5
  <2>2. n - 1 \in 0 .. N /\ n \in 0 .. N /\ q[n] \in S
    BY <1>2
  <2>3. kept[n] = IF n \in I THEN Append(kept[n - 1], q[n]) ELSE kept[n - 1]
    BY <1>1
  <2> DEFINE m == Len(kept[n - 1])
  <2>4. m \in Nat /\ m <= n - 1
    BY <1>3, <2>1, <2>2
  <2>5. CASE n \in I
    <3> DEFINE g == [i \in 1 .. m + 1 |-> IF i = m + 1 THEN n ELSE f[i]]
    <3>1. /\ Len(kept[n]) = m + 1
          /\ kept[n][m + 1] = q[n]
          /\ \A i \in 1 .. m : kept[n][i] = kept[n - 1][i]
      BY <1>3, <2>2, <2>3, <2>5, AppendProperties
    <3>2. /\ f \in [1 .. m -> 1 .. n - 1]
          /\ \A i, j \in 1 .. m : i < j => f[i] < f[j]
          /\ \A i \in 1 .. m : kept[n - 1][i] = q[f[i]]
          /\ I \cap (1 .. n - 1) = {f[i] : i \in 1 .. m}
      BY <2>1
    <3> HIDE DEF m, Upto
    <3>3. g \in [1 .. m + 1 -> 1 .. n]
      BY <2>4, <3>2
    <3>4. \A i, j \in 1 .. m + 1 : i < j => g[i] < g[j]
      BY <2>4, <3>2
    <3>5. \A i \in 1 .. m + 1 : kept[n][i] = q[g[i]]
      BY <2>4, <3>1, <3>2
    <3>6. I \cap (1 .. n) = {g[i] : i \in 1 .. m + 1}
      <4>1. \A k : k \in I \cap (1 .. n) <=> k = n \/ k \in I \cap (1 .. n - 1)
        BY <2>5
      <4>2. \A k : k \in {g[i] : i \in 1 .. m + 1} <=> k = n \/ k \in {f[i] : i \in 1 .. m}
        BY <2>4
      <4> QED
        BY <3>2, <4>1, <4>2
    <3>7. Upto(n, g)
      <4> HIDE DEF g
      <4>1. Len(kept[n]) = m + 1 /\ Len(kept[n]) <= n
        BY <2>4, <3>1
      <4> QED
        BY <4>1, <3>3, <3>4, <3>5, <3>6, Zenon DEF Upto
    <3> HIDE DEF g
    <3> QED
      BY <2>2, <3>7
  <2>6. CASE n \notin I
    <3>1. kept[n] = kept[n - 1]
      BY <2>3, <2>6
    <3>2. I \cap (1 .. n) = I \cap (1 .. n - 1)
      BY <2>6
    <3>3. Upto(n, f)
      BY <2>1, <2>4, <3>1, <3>2
    <3> HIDE DEF Upto
    <3> QED
      BY <2>2, <3>3
  <2> QED
    BY <2>5, <2>6
<1>6. N \in T
  <2> HIDE DEF T
  <2>1. 0 .. N \subseteq T
    BY <1>2, <1>4, <1>5, BoundedInduction
  <2> QED
    BY <1>2, <2>1
<1>7. PICK f : Upto(N, f)
  BY <1>6
<1>8. kept[N] \in Seq(S) /\ Len(kept[N]) <= N
  BY <1>2, <1>3, <1>7
<1>9. Picks(f, kept[N], q, I)
  <2>1. DOMAIN kept[N] = 1 .. Len(kept[N]) /\ I \cap (1 .. N) = I
    BY <1>2, <1>8
  <2> QED
    BY <1>2, <1>7, <2>1 DEF Picks
<1> QED
  <2> HIDE DEF T, Upto
  <2> QED
    BY <1>1, <1>8, <1>9

\* One round of the loop.
LEMMA KeepsUptoStep ==
  ASSUME NEW S, NEW q \in Seq(S), NEW I \in SUBSET DOMAIN q,
         NEW kept, KeepsUpto(kept, S, q, I), NEW n \in 1 .. Len(q)
  PROVE  /\ kept[n - 1] \in Seq(S)
         /\ Len(kept[n]) = IF n \in I THEN Len(kept[n - 1]) + 1 ELSE Len(kept[n - 1])
<1>1. Len(q) \in Nat /\ q[n] \in S
  OBVIOUS
<1>2. n - 1 \in 0 .. Len(q)
  BY <1>1
<1>3. kept[n - 1] \in Seq(S)
  BY <1>2 DEF KeepsUpto
<1>4. kept[n] = IF n \in I THEN Append(kept[n - 1], q[n]) ELSE kept[n - 1]
  BY DEF KeepsUpto
<1> QED
  BY <1>1, <1>3, <1>4, AppendProperties

\* A loop that has nothing to leave out copies the queue.
LEMMA KeepAtAll ==
  ASSUME NEW S, NEW q \in Seq(S)
  PROVE  KeepAt(q, DOMAIN q) = q
<1> DEFINE N == Len(q)
<1>1. PICK kept : KeepsUpto(kept, S, q, DOMAIN q)
  BY KeepAtLoop
<1> DEFINE T == {n \in 0 .. N : Len(kept[n]) = n /\ \A i \in 1 .. n : kept[n][i] = q[i]}
<1>2. N \in Nat /\ DOMAIN q = 1 .. N
  OBVIOUS
<1>3. /\ KeepAt(q, DOMAIN q) = kept[N]
      /\ kept[0] = << >>
      /\ kept \in [0 .. N -> Seq(S)]
      /\ \A n \in 1 .. N : kept[n] = Append(kept[n - 1], q[n])
  BY <1>1, <1>2 DEF KeepsUpto
<1>4. \A n \in 1 .. N : q[n] \in S
  BY <1>2
<1> HIDE DEF N
<1>5. 0 \in T
  BY <1>2, <1>3
<1>6. ASSUME NEW n \in 1 .. N, n - 1 \in T PROVE n \in T
  <2>1. Len(kept[n - 1]) = n - 1 /\ \A i \in 1 .. n - 1 : kept[n - 1][i] = q[i]
    BY <1>6
  <2>2. n - 1 \in 0 .. N /\ n \in Nat
    BY <1>2
  <2>3. kept[n - 1] \in Seq(S) /\ kept[n] = Append(kept[n - 1], q[n]) /\ q[n] \in S
    BY <1>3, <1>4, <2>2
  <2>4. /\ Len(kept[n]) = Len(kept[n - 1]) + 1
        /\ kept[n][Len(kept[n - 1]) + 1] = q[n]
        /\ \A i \in 1 .. Len(kept[n - 1]) : kept[n][i] = kept[n - 1][i]
    BY <2>3, AppendProperties
  <2>5. Len(kept[n]) = n /\ kept[n][n] = q[n] /\ \A i \in 1 .. n - 1 : kept[n][i] = q[i]
    BY <2>1, <2>2, <2>4
  <2> QED
    BY <1>2, <2>5
<1>7. N \in T
  <2> HIDE DEF T
  <2>1. 0 .. N \subseteq T
    BY <1>2, <1>5, <1>6, BoundedInduction
  <2> QED
    BY <1>2, <2>1
<1>8. kept[N] \in Seq(S) /\ Len(kept[N]) = Len(q) /\ \A i \in 1 .. Len(q) : kept[N][i] = q[i]
  BY <1>2, <1>3, <1>7 DEF N
<1> QED
  BY <1>3, <1>8, SeqEqual

\* What one loop keeps and the other leaves out add up to the queue.
LEMMA KeepAtComplement ==
  ASSUME NEW S, NEW q \in Seq(S), NEW I \in SUBSET DOMAIN q
  PROVE  Len(KeepAt(q, I)) + Len(KeepAt(q, DOMAIN q \ I)) = Len(q)
<1> DEFINE N == Len(q)
           J == DOMAIN q \ I
<1>1. N \in Nat
  OBVIOUS
<1>2. J \in SUBSET DOMAIN q /\ \A n \in 1 .. N : n \in J <=> n \notin I
  OBVIOUS
<1> HIDE DEF J
<1>3. PICK ins : KeepsUpto(ins, S, q, I)
  BY KeepAtLoop
<1>4. PICK outs : KeepsUpto(outs, S, q, J)
  BY <1>2, KeepAtLoop
<1> DEFINE a == [n \in 0 .. N |-> Len(ins[n])]
           b == [n \in 0 .. N |-> Len(outs[n])]
           T == {n \in 0 .. N : a[n] + b[n] = n}
<1>5. /\ \A n \in 0 .. N : a[n] \in Nat /\ b[n] \in Nat
      /\ a[0] = 0 /\ b[0] = 0
  <2>1. \A n \in 0 .. N : ins[n] \in Seq(S) /\ outs[n] \in Seq(S)
    BY <1>3, <1>4 DEF KeepsUpto
  <2>2. ins[0] = << >> /\ outs[0] = << >>
    BY <1>3, <1>4 DEF KeepsUpto
  <2>3. \A n \in 0 .. N : a[n] \in Nat /\ b[n] \in Nat
    BY <2>1
  <2>4. 0 \in 0 .. N
    BY <1>1
  <2> QED
    BY <2>2, <2>3, <2>4
<1>6. ASSUME NEW n \in 1 .. N
      PROVE  /\ a[n] = IF n \in I THEN a[n - 1] + 1 ELSE a[n - 1]
             /\ b[n] = IF n \in J THEN b[n - 1] + 1 ELSE b[n - 1]
  <2>1. n \in 0 .. N /\ n - 1 \in 0 .. N
    BY <1>1
  <2>2. Len(ins[n]) = IF n \in I THEN Len(ins[n - 1]) + 1 ELSE Len(ins[n - 1])
    BY <1>3, KeepsUptoStep
  <2>3. Len(outs[n]) = IF n \in J THEN Len(outs[n - 1]) + 1 ELSE Len(outs[n - 1])
    BY <1>2, <1>4, KeepsUptoStep
  <2>4. a[n] = Len(ins[n]) /\ a[n - 1] = Len(ins[n - 1])
    BY <2>1
  <2>5. b[n] = Len(outs[n]) /\ b[n - 1] = Len(outs[n - 1])
    BY <2>1
  <2> HIDE DEF a, b
  <2> QED
    BY <2>2, <2>3, <2>4, <2>5
<1>7. KeepAt(q, I) = ins[N] /\ KeepAt(q, J) = outs[N]
  BY <1>3, <1>4 DEF KeepsUpto
<1>8. a[N] = Len(KeepAt(q, I)) /\ b[N] = Len(KeepAt(q, J))
  BY <1>1, <1>7
<1> HIDE DEF N, a, b
<1>9. 0 \in T
  BY <1>1, <1>5
<1>10. ASSUME NEW n \in 1 .. N, n - 1 \in T PROVE n \in T
  <2>1. n - 1 \in 0 .. N /\ n \in 0 .. N /\ a[n - 1] + b[n - 1] = n - 1
    BY <1>1, <1>10
  <2>2. a[n - 1] \in Nat /\ b[n - 1] \in Nat
    BY <1>5, <2>1
  <2>3. a[n] + b[n] = (a[n - 1] + b[n - 1]) + 1
    BY <1>2, <1>6, <2>2
  <2> QED
    BY <2>1, <2>3
<1>11. N \in T
  <2> HIDE DEF T
  <2>1. 0 .. N \subseteq T
    BY <1>1, <1>9, <1>10, BoundedInduction
  <2> QED
    BY <1>1, <2>1
<1> QED
  BY <1>8, <1>11 DEF N, J

-----------------------------------------------------------------------------
(* What the operations on the queue compute *)

\* What the assumption on the constants gives, in the form the steps use.
LEMMA ConstantTypes ==
  /\ MaxLen \in Nat /\ MaxLen > 0 /\ Timeout \in Nat /\ Timeout > 0
  /\ \A p \in Packets : Dest[p] \in Dests
  /\ \A r \in Reasons : Cap[r] \in Nat
  BY QueueAssumption DEF Dests

Fresh(q, t) == \A i \in DOMAIN q : q[i].expire > t

\* The deadline of a capped entry is at most its cap after its first entry.
CappedEntry(e) == Cap[e.reason] # 0 => e.expire <= e.first + Cap[e.reason]
Capped(q) == \A i \in DOMAIN q : CappedEntry(q[i])

AtFresh(q, t) == {i \in DOMAIN q : q[i].expire > t}

\* Purge keeps the entries whose deadline lies ahead, in order.
LEMMA PurgePicks ==
  ASSUME NEW q \in Seq(Entry), NEW t
  PROVE  /\ Purge(q, t) \in Seq(Entry)
         /\ Len(Purge(q, t)) <= Len(q)
         /\ \E f : Picks(f, Purge(q, t), q, AtFresh(q, t))
<1>1. AtFresh(q, t) \in SUBSET DOMAIN q
  BY DEF AtFresh
<1>2. Purge(q, t) = KeepAt(q, AtFresh(q, t))
  BY DEF Purge, AtFresh
<1> QED
  BY <1>1, <1>2, KeepAtPicks

\* No entry a purge leaves has expired.
LEMMA PurgeLeavesFresh ==
  ASSUME NEW q \in Seq(Entry), NEW t
  PROVE  Fresh(Purge(q, t), t)
<1>1. PICK f : Picks(f, Purge(q, t), q, AtFresh(q, t))
  BY PurgePicks
<1> QED
  BY <1>1 DEF Picks, AtFresh, Fresh

\* A purge of a queue in which nothing has expired changes nothing.
LEMMA PurgeOfFresh ==
  ASSUME NEW q \in Seq(Entry), NEW t, Fresh(q, t)
  PROVE  Purge(q, t) = q
<1>1. {i \in DOMAIN q : q[i].expire > t} = DOMAIN q
  BY DEF Fresh
<1> QED
  BY <1>1, KeepAtAll DEF Purge

\* A stamped entry has its deadline ahead, and within its cap.
LEMMA StampedEntry ==
  ASSUME NEW e \in Entry, NEW t \in Nat
  PROVE  /\ Stamped(e, t) \in Entry
         /\ Stamped(e, t).pkt = e.pkt /\ Stamped(e, t).reason = e.reason
         /\ Stamped(e, t).first = IF e.first = 0 THEN t ELSE e.first
         /\ CappedEntry(Stamped(e, t))
         /\ e.first = 0 \/ (e.expire > t /\ CappedEntry(e)) => Stamped(e, t).expire > t
<1> DEFINE f == FirstEntered(e, t)
           x == Expiry(f, e.reason, t)
           c == Cap[e.reason]
<1>1. e.pkt \in Packets /\ e.reason \in Reasons /\ e.first \in Nat /\ e.expire \in Nat /\ c \in Nat
  BY ConstantTypes DEF Entry
<1>2. f \in Nat /\ f = IF e.first = 0 THEN t ELSE e.first
  BY <1>1 DEF FirstEntered
<1>3. x = IF c # 0 /\ f + c < t + Timeout THEN f + c ELSE t + Timeout
  BY DEF Expiry
<1>4. Stamped(e, t) = [e EXCEPT !.first = f, !.expire = x]
  BY DEF Stamped
<1> HIDE DEF f, x, c
<1>5. x \in Nat /\ (c # 0 => x <= f + c)
  BY <1>1, <1>2, <1>3, ConstantTypes
<1>6. Stamped(e, t) = [pkt |-> e.pkt, first |-> f, expire |-> x, reason |-> e.reason]
  BY <1>4 DEF Entry
<1>7. ASSUME e.first = 0 \/ (e.expire > t /\ (c # 0 => e.expire <= e.first + c)) PROVE x > t
  BY <1>1, <1>2, <1>3, <1>7, ConstantTypes
<1> QED
  BY <1>1, <1>2, <1>5, <1>6, <1>7 DEF Entry, CappedEntry, c

\* An insertion into a fresh queue below its limit only appends.
LEMMA EnqueueFacts ==
  ASSUME NEW q \in Seq(Entry), NEW e \in Entry, NEW t \in Nat
  PROVE  /\ Room(q, t) \in Seq(Entry)
         /\ Enqueue(q, e, t) \in Seq(Entry)
         /\ Len(q) <= MaxLen => Len(Enqueue(q, e, t)) <= MaxLen
         /\ Fresh(q, t) /\ Len(q) < MaxLen => Enqueue(q, e, t) = Append(q, Stamped(e, t))
<1> DEFINE p == Purge(q, t)
<1>1. p \in Seq(Entry) /\ Len(p) <= Len(q) /\ Len(p) \in Nat /\ Len(q) \in Nat
  BY PurgePicks
<1>2. Full(q, t) <=> Len(p) >= MaxLen
  BY DEF Full
<1>3. Room(q, t) = IF Full(q, t) THEN Tail(p) ELSE p
  BY DEF Room
<1>4. Enqueue(q, e, t) = Append(Room(q, t), Stamped(e, t)) /\ Stamped(e, t) \in Entry
  BY StampedEntry DEF Enqueue
<1> HIDE DEF p
<1>5. CASE Full(q, t)
  <2>1. p # << >>
    BY <1>1, <1>2, <1>5, ConstantTypes
  <2>2. Tail(p) \in Seq(Entry) /\ Len(Tail(p)) = Len(p) - 1
    BY <1>1, <2>1, HeadTailProperties
  <2>3. Len(Append(Tail(p), Stamped(e, t))) = Len(p) /\ Append(Tail(p), Stamped(e, t)) \in Seq(Entry)
    BY <1>1, <1>4, <2>2, AppendProperties
  <2>4. ~(Len(q) < MaxLen)
    BY <1>1, <1>2, <1>5, ConstantTypes
  <2>5. Room(q, t) = Tail(p) /\ Enqueue(q, e, t) = Append(Tail(p), Stamped(e, t))
    BY <1>3, <1>4, <1>5
  <2>6. Len(q) <= MaxLen => Len(Enqueue(q, e, t)) <= MaxLen
    BY <1>1, <2>3, <2>5, ConstantTypes
  <2> QED
    BY <2>2, <2>3, <2>4, <2>5, <2>6
<1>6. CASE ~Full(q, t)
  <2>1. Len(Append(p, Stamped(e, t))) = Len(p) + 1 /\ Append(p, Stamped(e, t)) \in Seq(Entry)
    BY <1>1, <1>4, AppendProperties
  <2>2. Len(p) + 1 <= MaxLen
    BY <1>1, <1>2, <1>6, ConstantTypes
  <2>3. Fresh(q, t) => p = q
    BY PurgeOfFresh DEF p
  <2> QED
    BY <1>3, <1>4, <1>6, <1>1, <2>1, <2>2, <2>3
<1> QED
  BY <1>5, <1>6

\* done is the loop that puts the entries of s back, as a function of how far it
\* has come.
RequeuesUpto(done, q, s, t) ==
  /\ done \in [0 .. Len(s) -> Seq(Entry)]
  /\ Requeue(q, s, t) = done[Len(s)]
  /\ done[0] = q
  /\ \A n \in 1 .. Len(s) : done[n] = Enqueue(done[n - 1], s[n], t)

\* The recursive function of Requeue exists.
LEMMA RequeueLoop ==
  ASSUME NEW q \in Seq(Entry), NEW s \in Seq(Entry), NEW t \in Nat
  PROVE  \E done : RequeuesUpto(done, q, s, t)
<1> DEFINE N == Len(s)
           V == Seq(Entry)
           Step(n, x) == Enqueue(x, s[n], t)
           Loop(f) == [n \in 0 .. N |-> IF n = 0 THEN q ELSE Step(n, f[n - 1])]
           h == CHOOSE f : f = Loop(f)
           step == [n \in 1 .. N |-> [x \in V |-> Step(n, x)]]
<1>1. N \in Nat /\ q \in V
  OBVIOUS
<1>2. \A n \in 1 .. N, x \in V : Step(n, x) \in V
  <2>1. \A n \in 1 .. N : s[n] \in Entry
    OBVIOUS
  <2> QED
    BY <2>1, EnqueueFacts
<1>3. Requeue(q, s, t) = h[N]
  BY DEF Requeue
<1>4. SUFFICES /\ h \in [0 .. N -> V] /\ h[0] = q
               /\ \A n \in 1 .. N : h[n] = Step(n, h[n - 1])
  BY <1>3 DEF RequeuesUpto
<1> HIDE DEF N, V, Step
<1>5. step \in [1 .. N -> [V -> V]]
  BY <1>2
<1>6. \A n \in 1 .. N, x \in V : step[n][x] = Step(n, x)
  OBVIOUS
<1>7. h = Loop(h)
  <2> HIDE DEF step
  <2>1. PICK g : Recurses(g, N, V, q, step)
    BY <1>1, <1>5, RecursiveFunctionExists
  <2>2. g \in [0 .. N -> V] /\ g[0] = q /\ \A n \in 1 .. N : g[n] = step[n][g[n - 1]]
    BY <2>1 DEF Recurses
  <2>3. \A n \in 0 .. N : n # 0 => n \in 1 .. N /\ n - 1 \in 0 .. N
    BY <1>1
  <2>4. \A n \in 0 .. N : n # 0 => step[n][g[n - 1]] = Step(n, g[n - 1])
    BY <1>6, <2>2, <2>3
  <2>5. g = Loop(g)
    BY <2>2, <2>3, <2>4
  <2> HIDE DEF Loop
  <2> QED
    BY <2>5
<1> HIDE DEF step, h
<1>8. h[0] = q /\ \A n \in 1 .. N : h[n] = Step(n, h[n - 1])
  BY <1>1, <1>7
<1>9. \A n \in 0 .. N : h[n] \in V
  BY <1>1, <1>2, <1>8, RecursiveFunctionType
<1> QED
  BY <1>7, <1>8, <1>9

\* Entries that have not timed out go back one behind the other, and the queue
\* gives up none for them.
LEMMA RequeueAppends ==
  ASSUME NEW q \in Seq(Entry), NEW s \in Seq(Entry), NEW t \in Nat,
         Fresh(q, t), Fresh(s, t), Capped(s), Len(q) + Len(s) <= MaxLen
  PROVE  /\ Requeue(q, s, t) \in Seq(Entry)
         /\ Len(Requeue(q, s, t)) = Len(q) + Len(s)
         /\ \A i \in 1 .. Len(q) : Requeue(q, s, t)[i] = q[i]
         /\ \A i \in 1 .. Len(s) : Requeue(q, s, t)[Len(q) + i] = Stamped(s[i], t)
<1>1. PICK done : RequeuesUpto(done, q, s, t)
  BY RequeueLoop
<1> DEFINE N == Len(s)
           M == Len(q)
           Good(n, x) ==
             /\ Len(x) = M + n
             /\ \A i \in 1 .. M : x[i] = q[i]
             /\ \A i \in 1 .. n : x[M + i] = Stamped(s[i], t)
           T == {n \in 0 .. N : Good(n, done[n])}
<1>2. N \in Nat /\ M \in Nat /\ M + N <= MaxLen /\ MaxLen \in Nat
  BY ConstantTypes
<1>3. /\ done \in [0 .. N -> Seq(Entry)]
      /\ Requeue(q, s, t) = done[N]
      /\ done[0] = q
      /\ \A n \in 1 .. N : done[n] = Enqueue(done[n - 1], s[n], t)
  BY <1>1 DEF RequeuesUpto
<1>4. \A i \in 1 .. N : s[i] \in Entry /\ s[i].expire > t /\ CappedEntry(s[i])
  BY DEF Fresh, Capped
<1>5. \A i \in 1 .. N : Stamped(s[i], t) \in Entry /\ Stamped(s[i], t).expire > t
  BY <1>4, StampedEntry
<1>6. \A i \in 1 .. M : q[i].expire > t
  BY DEF Fresh
<1>7. 0 \in T
  BY <1>2, <1>3
<1> HIDE DEF N, M
<1>8. ASSUME NEW n \in 1 .. N, n - 1 \in T PROVE n \in T
  <2> DEFINE x == done[n - 1]
             e == Stamped(s[n], t)
  <2>1. n - 1 \in 0 .. N /\ n \in 0 .. N
    BY <1>2
  <2>2. x \in Seq(Entry) /\ Good(n - 1, x) /\ done[n] = Enqueue(x, s[n], t) /\ s[n] \in Entry /\ e \in Entry
    BY <1>3, <1>4, <1>5, <1>8, <2>1
  <2> HIDE DEF x, e
  <2>3. Len(x) = M + (n - 1) /\ Len(x) < MaxLen
    BY <1>2, <2>2
  <2>4. Fresh(x, t)
    <3>1. ASSUME NEW i \in 1 .. M + (n - 1) PROVE x[i].expire > t
      <4>1. CASE i \in 1 .. M
        BY <1>6, <2>2, <4>1
      <4>2. CASE i \notin 1 .. M
        <5>1. i - M \in 1 .. n - 1 /\ M + (i - M) = i /\ i - M \in 1 .. N
          BY <1>2, <4>2
        <5> QED
          BY <1>5, <2>2, <5>1
      <4> QED
        BY <4>1, <4>2
    <3> QED
      BY <2>2, <2>3, <3>1 DEF Fresh
  <2>5. done[n] = Append(x, e)
    BY <2>2, <2>3, <2>4, EnqueueFacts DEF e
  <2>6. /\ Len(done[n]) = Len(x) + 1
        /\ \A i \in 1 .. Len(x) : done[n][i] = x[i]
        /\ done[n][Len(x) + 1] = e
    BY <2>2, <2>5, AppendProperties
  <2>7. Len(done[n]) = M + n /\ \A i \in 1 .. M + (n - 1) : done[n][i] = x[i]
    BY <1>2, <2>3, <2>6
  <2>8. \A i \in 1 .. M : done[n][i] = q[i]
    BY <1>2, <2>2, <2>7
  <2>9. ASSUME NEW i \in 1 .. n PROVE done[n][M + i] = Stamped(s[i], t)
    <3>1. CASE i = n
      <4>1. M + i = Len(x) + 1
        BY <1>2, <2>3, <3>1
      <4> QED
        BY <2>6, <3>1, <4>1 DEF e
    <3>2. CASE i # n
      <4>1. i \in 1 .. n - 1 /\ M + i \in 1 .. M + (n - 1)
        BY <1>2, <3>2
      <4> QED
        BY <2>2, <2>7, <4>1
    <3> QED
      BY <3>1, <3>2
  <2> QED
    BY <2>1, <2>7, <2>8, <2>9
<1>9. N \in T
  <2> HIDE DEF T
  <2>1. 0 .. N \subseteq T
    BY <1>2, <1>7, <1>8, BoundedInduction
  <2> QED
    BY <1>2, <2>1
<1>10. N \in 0 .. N
  BY <1>2
<1> QED
  BY <1>3, <1>9, <1>10 DEF N, M

-----------------------------------------------------------------------------
(* What becomes of the entries *)

\* The entries of r are entries of q, f says which: no entry twice, those of one
\* destination in the order of q, some of them stamped again at t.
Rotates(f, r, q, t) ==
  /\ f \in [DOMAIN r -> DOMAIN q]
  /\ \A i, j \in DOMAIN r : f[i] = f[j] => i = j
  /\ \A i \in DOMAIN r : r[i] = q[f[i]] \/ r[i] = Stamped(q[f[i]], t)
  /\ \A i, j \in DOMAIN r : i < j /\ Dest[r[i].pkt] = Dest[r[j].pkt] => f[i] < f[j]

\* r is what is left of q at the positions in K.
Leaves(r, q, t, K) ==
  /\ r \in Seq(Entry)
  /\ Len(r) <= Len(q)
  /\ \E f : Rotates(f, r, q, t) /\ K = {f[i] : i \in DOMAIN r}

\* A queue whose entries were picked from another is left over from it.
LEMMA PickedLeaves ==
  ASSUME NEW q \in Seq(Entry), NEW r \in Seq(Entry), NEW t, NEW K, NEW f,
         Picks(f, r, q, K), Len(r) <= Len(q)
  PROVE  Leaves(r, q, t, K)
<1>1. DOMAIN r = 1 .. Len(r) /\ Len(r) \in Nat /\ DOMAIN q = 1 .. Len(q) /\ Len(q) \in Nat
  OBVIOUS
<1>2. \A i, j \in DOMAIN r : f[i] = f[j] => i = j
  <2> SUFFICES ASSUME NEW i \in DOMAIN r, NEW j \in DOMAIN r, f[i] = f[j], i # j PROVE FALSE
    OBVIOUS
  <2>1. i < j \/ j < i
    BY <1>1
  <2>2. f[i] < f[j] \/ f[j] < f[i]
    BY <2>1 DEF Picks
  <2>3. f[i] \in Int
    BY <1>1 DEF Picks
  <2> QED
    BY <2>2, <2>3
<1>3. Rotates(f, r, q, t)
  BY <1>2 DEF Rotates, Picks
<1> QED
  BY <1>3 DEF Leaves, Picks

\* The positions J of one sequence are the positions K of another.
Maps(f, J, K) == K = {f[j] : j \in J}

\* What is picked from what is picked.
LEMMA PickedTwice ==
  ASSUME NEW q \in Seq(Entry), NEW p \in Seq(Entry), NEW r \in Seq(Entry),
         NEW I, NEW J, NEW K, NEW f, NEW g, Picks(f, p, q, I), Picks(g, r, p, J),
         Maps(f, J, K)
  PROVE  \E h : Picks(h, r, q, K)
<1> DEFINE h == [i \in DOMAIN r |-> f[g[i]]]
<1>1. /\ f \in [DOMAIN p -> DOMAIN q]
      /\ \A i, j \in DOMAIN p : i < j => f[i] < f[j]
      /\ \A i \in DOMAIN p : p[i] = q[f[i]]
  BY DEF Picks
<1>2. /\ g \in [DOMAIN r -> DOMAIN p]
      /\ \A i, j \in DOMAIN r : i < j => g[i] < g[j]
      /\ \A i \in DOMAIN r : r[i] = p[g[i]]
      /\ J = {g[i] : i \in DOMAIN r}
  BY DEF Picks
<1>3. h \in [DOMAIN r -> DOMAIN q]
  BY <1>1, <1>2
<1>4. \A i, j \in DOMAIN r : i < j => h[i] < h[j]
  BY <1>1, <1>2
<1>5. \A i \in DOMAIN r : r[i] = q[h[i]]
  BY <1>1, <1>2
<1>6. K = {h[i] : i \in DOMAIN r}
  BY <1>2 DEF Maps
<1>7. Picks(h, r, q, K)
  BY <1>3, <1>4, <1>5, <1>6 DEF Picks
<1> QED
  BY <1>7

\* A purged queue is left over from the queue.
LEMMA PurgeLeaves ==
  ASSUME NEW q \in Seq(Entry), NEW t
  PROVE  Leaves(Purge(q, t), q, t, AtFresh(q, t))
BY PurgePicks, PickedLeaves

\* Keeping of what the purge leaves the entries P holds of.
LEMMA PurgeAndKeepLeaves ==
  ASSUME NEW q \in Seq(Entry), NEW t, NEW A,
         NEW J \in SUBSET DOMAIN Purge(q, t),
         J = {i \in DOMAIN Purge(q, t) : Purge(q, t)[i] \in A}
  PROVE  LET r == KeepAt(Purge(q, t), J)
             K == {i \in AtFresh(q, t) : q[i] \in A}
         IN /\ r \in Seq(Entry)
            /\ Len(r) <= Len(Purge(q, t))
            /\ \E h : Picks(h, r, q, K)
            /\ Leaves(r, q, t, K)
<1> DEFINE p == Purge(q, t)
           r == KeepAt(p, J)
           K == {i \in AtFresh(q, t) : q[i] \in A}
<1>1. p \in Seq(Entry) /\ Len(p) <= Len(q) /\ \E f : Picks(f, p, q, AtFresh(q, t))
  BY PurgePicks
<1>2. r \in Seq(Entry) /\ Len(r) <= Len(p) /\ \E g : Picks(g, r, p, J)
  BY <1>1, KeepAtPicks
<1>3. PICK f : Picks(f, p, q, AtFresh(q, t))
  BY <1>1
<1>4. PICK g : Picks(g, r, p, J)
  BY <1>2
<1>5. Maps(f, J, K)
  BY <1>3 DEF Picks, Maps
<1>6. PICK h : Picks(h, r, q, K)
  <2> HIDE DEF p, r, K
  <2> QED
    BY <1>1, <1>2, <1>3, <1>4, <1>5, PickedTwice
<1>7. Len(r) <= Len(q)
  <2>1. Len(r) \in Nat /\ Len(p) \in Nat /\ Len(q) \in Nat
    BY <1>1, <1>2
  <2> HIDE DEF p, r
  <2> QED
    BY <1>1, <1>2, <2>1
<1>8. Leaves(r, q, t, K)
  <2> HIDE DEF p, r, K
  <2> QED
    BY <1>2, <1>6, <1>7, PickedLeaves
<1> QED
  BY <1>2, <1>6, <1>8

\* The positions of q whose entry has not timed out and is, or is not, for d.
AtFreshFor(q, d, t)    == {i \in AtFresh(q, t) : Dest[q[i].pkt] = d}
AtFreshNotFor(q, d, t) == {i \in AtFresh(q, t) : Dest[q[i].pkt] # d}

\* DequeueAll splits the purged queue in two, by destination.
LEMMA DequeueFacts ==
  ASSUME NEW q \in Seq(Entry), NEW d, NEW t
  PROVE  /\ Taken(q, d, t) \in Seq(Entry) /\ Others(q, d, t) \in Seq(Entry)
         /\ Len(Taken(q, d, t)) + Len(Others(q, d, t)) <= Len(q)
         /\ \E h : Picks(h, Taken(q, d, t), q, AtFreshFor(q, d, t))
         /\ \E h : Picks(h, Others(q, d, t), q, AtFreshNotFor(q, d, t))
         /\ Leaves(Others(q, d, t), q, t, AtFreshNotFor(q, d, t))
<1> DEFINE p == Purge(q, t)
           A == {e \in Entry : Dest[e.pkt] = d}
           B == {e \in Entry : Dest[e.pkt] # d}
           I == AtFor(p, d)
           J == DOMAIN p \ AtFor(p, d)
<1>1. p \in Seq(Entry) /\ Len(p) <= Len(q) /\ Len(p) \in Nat /\ Len(q) \in Nat
  BY PurgePicks
<1>2. I \in SUBSET DOMAIN p /\ I = {i \in DOMAIN p : p[i] \in A}
  BY <1>1 DEF AtFor
<1>3. J \in SUBSET DOMAIN p /\ J = {i \in DOMAIN p : p[i] \in B}
  BY <1>1 DEF AtFor
<1>4. /\ AtFreshFor(q, d, t) = {i \in AtFresh(q, t) : q[i] \in A}
      /\ AtFreshNotFor(q, d, t) = {i \in AtFresh(q, t) : q[i] \in B}
  BY DEF AtFreshFor, AtFreshNotFor, AtFresh
<1>5. Taken(q, d, t) = KeepAt(p, I) /\ Others(q, d, t) = KeepAt(p, J)
  BY DEF Taken, Others
<1>6. Len(KeepAt(p, I)) + Len(KeepAt(p, J)) = Len(p)
  BY <1>1, <1>2, KeepAtComplement
<1> HIDE DEF A, B, I, J
<1>7. /\ KeepAt(p, I) \in Seq(Entry)
      /\ \E h : Picks(h, KeepAt(p, I), q, {i \in AtFresh(q, t) : q[i] \in A})
  BY <1>2, PurgeAndKeepLeaves
<1>8. /\ KeepAt(p, J) \in Seq(Entry)
      /\ \E h : Picks(h, KeepAt(p, J), q, {i \in AtFresh(q, t) : q[i] \in B})
      /\ Leaves(KeepAt(p, J), q, t, {i \in AtFresh(q, t) : q[i] \in B})
  BY <1>3, PurgeAndKeepLeaves
<1>9. Len(KeepAt(p, I)) + Len(KeepAt(p, J)) <= Len(q)
  BY <1>1, <1>6
<1> QED
  BY <1>4, <1>5, <1>7, <1>8, <1>9

\* A flush leaves every entry that has not timed out and has no route.
LEMMA FlushLeaves ==
  ASSUME NEW q \in Seq(Entry), Len(q) <= MaxLen, Capped(q), NEW d, NEW R, NEW t \in Nat
  PROVE  Leaves(FlushQueue(q, d, R, t), q, t,
                IF d \in R THEN AtFreshNotFor(q, d, t) ELSE AtFresh(q, t))
<1> DEFINE o == Others(q, d, t)
           k == Taken(q, d, t)
           r == Requeue(o, k, t)
           n == Len(o)
           m == Len(k)
<1>1. /\ k \in Seq(Entry) /\ o \in Seq(Entry) /\ m + n <= Len(q)
      /\ m \in Nat /\ n \in Nat /\ Len(q) \in Nat
  BY DequeueFacts
<1>2. CASE d \in R
  BY <1>2, DequeueFacts DEF FlushQueue
<1>3. CASE d \notin R
  <2>1. PICK g : Picks(g, k, q, AtFreshFor(q, d, t))
    BY DequeueFacts
  <2>2. PICK h : Picks(h, o, q, AtFreshNotFor(q, d, t))
    BY DequeueFacts
  <2> HIDE DEF o, k
  <2>3. \A i \in 1 .. m : /\ k[i] \in Entry /\ k[i] = q[g[i]]
                          /\ g[i] \in AtFreshFor(q, d, t)
    BY <1>1, <2>1 DEF Picks
  <2>4. \A i \in 1 .. n : /\ o[i] \in Entry /\ o[i] = q[h[i]]
                          /\ h[i] \in AtFreshNotFor(q, d, t)
    BY <1>1, <2>2 DEF Picks
  <2>5. Fresh(o, t) /\ Fresh(k, t) /\ Capped(k)
    <3>1. DOMAIN o = 1 .. n /\ DOMAIN k = 1 .. m
      BY <1>1
    <3>2. Fresh(o, t)
      BY <2>4, <3>1 DEF Fresh, AtFreshNotFor, AtFresh
    <3>3. Fresh(k, t)
      BY <2>3, <3>1 DEF Fresh, AtFreshFor, AtFresh
    <3>4. Capped(k)
      BY <2>3, <3>1 DEF Capped, AtFreshFor, AtFresh
    <3> QED
      BY <3>2, <3>3, <3>4
  <2>6. n + m <= MaxLen
    BY <1>1, ConstantTypes
  <2>7. /\ r \in Seq(Entry) /\ Len(r) = n + m
        /\ \A i \in 1 .. n : r[i] = o[i]
        /\ \A i \in 1 .. m : r[n + i] = Stamped(k[i], t)
    BY <1>1, <2>5, <2>6, RequeueAppends
  <2> DEFINE f == [i \in DOMAIN r |-> IF i <= n THEN h[i] ELSE g[i - n]]
  <2> HIDE DEF r, n, m
  <2>8. DOMAIN r = 1 .. n + m
    BY <1>1, <2>7
  <2>9. ASSUME NEW i \in DOMAIN r, i <= n
        PROVE  /\ i \in 1 .. n /\ f[i] = h[i] /\ r[i] = q[f[i]]
               /\ f[i] \in AtFreshNotFor(q, d, t) /\ Dest[r[i].pkt] # d
    <3>1. i \in 1 .. n /\ f[i] = h[i] /\ r[i] = o[i]
      BY <1>1, <2>7, <2>8, <2>9
    <3> QED
      BY <2>4, <3>1 DEF AtFreshNotFor
  <2>10. ASSUME NEW i \in DOMAIN r, ~(i <= n)
         PROVE  /\ i - n \in 1 .. m /\ f[i] = g[i - n] /\ r[i] = Stamped(q[f[i]], t)
                /\ f[i] \in AtFreshFor(q, d, t) /\ Dest[r[i].pkt] = d
    <3>1. i - n \in 1 .. m /\ i = n + (i - n) /\ f[i] = g[i - n]
      BY <1>1, <2>8, <2>10
    <3>2. r[i] = Stamped(k[i - n], t)
      BY <2>7, <3>1
    <3>3. Stamped(k[i - n], t).pkt = k[i - n].pkt
      BY <2>3, <3>1, StampedEntry
    <3> QED
      BY <2>3, <3>1, <3>2, <3>3 DEF AtFreshFor
  <2>11. \A x : x \in AtFresh(q, t) =>
           /\ x \in DOMAIN q
           /\ x \in AtFreshFor(q, d, t) <=> x \notin AtFreshNotFor(q, d, t)
    BY DEF AtFresh, AtFreshFor, AtFreshNotFor
  <2>12. AtFresh(q, t) = AtFreshFor(q, d, t) \cup AtFreshNotFor(q, d, t)
    BY DEF AtFreshFor, AtFreshNotFor
  <2>13. f \in [DOMAIN r -> DOMAIN q]
    <3>1. \A i \in DOMAIN r : f[i] \in DOMAIN q
      BY <2>9, <2>10, <2>11, <2>12
    <3> QED
      BY <3>1
  <2>14. /\ \A i, j \in 1 .. n : i < j => h[i] < h[j]
         /\ \A i, j \in 1 .. m : i < j => g[i] < g[j]
    BY <1>1, <2>1, <2>2 DEF Picks, n, m
  <2>15. \A x \in DOMAIN q : x \in Int
    OBVIOUS
  <2>16. \A i, j \in DOMAIN r : i < j /\ Dest[r[i].pkt] = Dest[r[j].pkt] => f[i] < f[j]
    <3> SUFFICES ASSUME NEW i \in DOMAIN r, NEW j \in DOMAIN r, i < j,
                        Dest[r[i].pkt] = Dest[r[j].pkt]
                 PROVE  f[i] < f[j]
      OBVIOUS
    <3> HIDE DEF f
    <3>1. CASE i <= n /\ j <= n
      BY <2>9, <2>14, <3>1
    <3>2. CASE ~(i <= n) /\ ~(j <= n)
      <4>1. i - n < j - n
        BY <1>1, <2>8
      <4> QED
        BY <2>10, <2>14, <3>2, <4>1
    <3>3. CASE i <= n /\ ~(j <= n)
      BY <2>9, <2>10, <3>3
    <3>4. CASE ~(i <= n) /\ j <= n
      BY <2>9, <2>10, <3>4
    <3> QED
      BY <3>1, <3>2, <3>3, <3>4
  <2>17. \A i, j \in DOMAIN r : f[i] = f[j] => i = j
    <3> SUFFICES ASSUME NEW i \in DOMAIN r, NEW j \in DOMAIN r, f[i] = f[j], i # j PROVE FALSE
      OBVIOUS
    <3>1. i < j \/ j < i
      BY <1>1, <2>8
    <3>2. (i <= n) <=> (j <= n)
      BY <2>9, <2>10, <2>11, <2>12
    <3>3. Dest[r[i].pkt] = Dest[r[j].pkt]
      <4>1. CASE i <= n
        <5>1. r[i] = q[f[i]] /\ r[j] = q[f[j]]
          BY <2>9, <3>2, <4>1
        <5> QED
          BY <5>1
      <4>2. CASE ~(i <= n)
        BY <2>10, <3>2, <4>2
      <4> QED
        BY <4>1, <4>2
    <3>4. f[i] < f[j] \/ f[j] < f[i]
      BY <2>16, <3>1, <3>3
    <3>5. f[i] \in Int
      BY <2>13, <2>15
    <3> HIDE DEF f
    <3> QED
      BY <3>4, <3>5
  <2>18. AtFresh(q, t) = {f[i] : i \in DOMAIN r}
    <3>1. ASSUME NEW x \in AtFreshNotFor(q, d, t) PROVE \E i \in DOMAIN r : x = f[i]
      <4>1. PICK i \in 1 .. n : x = h[i]
        BY <1>1, <2>2 DEF Picks, n
      <4>2. i \in DOMAIN r /\ i <= n
        BY <1>1, <2>8
      <4> QED
        BY <4>1, <4>2
    <3>2. ASSUME NEW x \in AtFreshFor(q, d, t) PROVE \E i \in DOMAIN r : x = f[i]
      <4>1. PICK i \in 1 .. m : x = g[i]
        BY <1>1, <2>1 DEF Picks, m
      <4>2. n + i \in DOMAIN r /\ ~(n + i <= n) /\ (n + i) - n = i
        BY <1>1, <2>8
      <4> QED
        BY <4>1, <4>2
    <3>3. \A i \in DOMAIN r : f[i] \in AtFresh(q, t)
      BY <2>9, <2>10, <2>12
    <3> HIDE DEF f
    <3> QED
      BY <2>12, <3>1, <3>2, <3>3
  <2>19. \A i \in DOMAIN r : r[i] = q[f[i]] \/ r[i] = Stamped(q[f[i]], t)
    <3> HIDE DEF f
    <3> QED
      BY <2>9, <2>10
  <2>20. Rotates(f, r, q, t)
    <3> HIDE DEF f
    <3> QED
      BY <2>13, <2>16, <2>17, <2>19 DEF Rotates
  <2>21. Len(r) <= Len(q)
    BY <1>1, <2>7
  <2>22. Leaves(r, q, t, AtFresh(q, t))
    <3> HIDE DEF f
    <3> QED
      BY <2>7, <2>18, <2>20, <2>21 DEF Leaves
  <2> QED
    BY <1>3, <2>22 DEF FlushQueue, r, o, k
<1> QED
  BY <1>2, <1>3

-----------------------------------------------------------------------------
(* The queue and the packets it holds *)

Unique(q) == \A i, j \in DOMAIN q : q[i].pkt = q[j].pkt => i = j

InOrder(q, sn) ==
  \A i, j \in DOMAIN q :
    i < j /\ Dest[q[i].pkt] = Dest[q[j].pkt] => sn[q[i].pkt] <= sn[q[j].pkt]

\* An entry carries the time its packet came into the queue, except time 0, which
\* reads as unset.
FirstIsEntry(q, sn) ==
  \A i \in DOMAIN q : sn[q[i].pkt] # 0 => q[i].first = sn[q[i].pkt]

\* The queue q holds exactly the packets in H, which came at the times in sn.
Holds(q, H, sn) ==
  /\ q \in Seq(Entry)
  /\ Len(q) <= MaxLen
  /\ Unique(q)
  /\ PacketsIn(q) = H
  /\ Capped(q)
  /\ InOrder(q, sn)
  /\ FirstIsEntry(q, sn)

\* What is left over from a queue that Holds does so too.
LEMMA LeavesHolds ==
  ASSUME NEW q, NEW H, NEW sn, Holds(q, H, sn), NEW r, NEW t \in Nat, NEW K, Leaves(r, q, t, K)
  PROVE  Holds(r, {q[k].pkt : k \in K}, sn)
<1>1. PICK f : Rotates(f, r, q, t) /\ K = {f[i] : i \in DOMAIN r}
  BY DEF Leaves
<1>2. q \in Seq(Entry) /\ r \in Seq(Entry)
  BY DEF Leaves, Holds
<1>3. \A i \in DOMAIN q : q[i] \in Entry
  BY <1>2
<1>4. \A i \in DOMAIN r : f[i] \in DOMAIN q /\ (r[i] = q[f[i]] \/ r[i] = Stamped(q[f[i]], t))
  BY <1>1 DEF Rotates
<1>5. ASSUME NEW i \in DOMAIN r
      PROVE  /\ r[i].pkt = q[f[i]].pkt
             /\ CappedEntry(r[i])
             /\ q[f[i]].first # 0 => r[i].first = q[f[i]].first
  BY <1>3, <1>4, StampedEntry DEF Holds, Capped
<1>6. Len(r) <= MaxLen
  <2>1. Len(r) \in Nat /\ Len(q) \in Nat
    BY <1>2
  <2> QED
    BY <2>1, ConstantTypes DEF Leaves, Holds
<1>7. Unique(r)
  <2> SUFFICES ASSUME NEW i \in DOMAIN r, NEW j \in DOMAIN r, r[i].pkt = r[j].pkt PROVE i = j
    BY DEF Unique
  <2>1. f[i] = f[j]
    BY <1>4, <1>5 DEF Holds, Unique
  <2> QED
    BY <1>1, <2>1 DEF Rotates
<1>8. PacketsIn(r) = {q[k].pkt : k \in K}
  BY <1>1, <1>5 DEF PacketsIn
<1>9. Capped(r)
  BY <1>5 DEF Capped
<1>10. InOrder(r, sn)
  <2> SUFFICES ASSUME NEW i \in DOMAIN r, NEW j \in DOMAIN r, i < j,
                      Dest[r[i].pkt] = Dest[r[j].pkt]
               PROVE  sn[r[i].pkt] <= sn[r[j].pkt]
    BY DEF InOrder
  <2>1. f[i] < f[j]
    BY <1>1 DEF Rotates
  <2> QED
    BY <1>4, <1>5, <2>1 DEF Holds, InOrder
<1>11. FirstIsEntry(r, sn)
  BY <1>4, <1>5 DEF Holds, FirstIsEntry
<1> QED
  BY <1>2, <1>6, <1>7, <1>8, <1>9, <1>10, <1>11 DEF Holds

\* The packets that the operations leave in the queue.
LEMMA PacketsLeft ==
  ASSUME NEW q \in Seq(Entry), NEW d, NEW t
  PROVE  /\ {q[k].pkt : k \in AtFresh(q, t)} = PacketsIn(q) \ Expired(q, t)
         /\ PacketsIn(Purge(q, t)) = PacketsIn(q) \ Expired(q, t)
         /\ PacketsIn(Taken(q, d, t)) = {q[k].pkt : k \in AtFreshFor(q, d, t)}
         /\ {q[k].pkt : k \in AtFreshNotFor(q, d, t)} =
              (PacketsIn(q) \ Expired(q, t)) \ PacketsIn(Taken(q, d, t))
<1>1. PICK f : Picks(f, Purge(q, t), q, AtFresh(q, t))
  BY PurgePicks
<1>2. PacketsIn(Purge(q, t)) = {q[k].pkt : k \in AtFresh(q, t)}
  BY <1>1 DEF Picks, PacketsIn
<1>3. {q[k].pkt : k \in AtFresh(q, t)} \subseteq PacketsIn(q)
  BY DEF AtFresh, PacketsIn
<1>4. {q[k].pkt : k \in AtFresh(q, t)} = PacketsIn(q) \ Expired(q, t)
  BY <1>2, <1>3 DEF Expired
<1>5. PICK g : Picks(g, Taken(q, d, t), q, AtFreshFor(q, d, t))
  BY DequeueFacts
<1>6. PacketsIn(Taken(q, d, t)) = {q[k].pkt : k \in AtFreshFor(q, d, t)}
  BY <1>5 DEF Picks, PacketsIn
<1>7. {q[k].pkt : k \in AtFreshNotFor(q, d, t)} =
        {q[k].pkt : k \in AtFresh(q, t)} \ {q[k].pkt : k \in AtFreshFor(q, d, t)}
  BY DEF AtFreshFor, AtFreshNotFor
<1> QED
  BY <1>2, <1>4, <1>6, <1>7

\* Room is made for one more entry, at the expense of the front one.
LEMMA RoomHolds ==
  ASSUME NEW q, NEW H, NEW sn, Holds(q, H, sn), NEW t \in Nat
  PROVE  /\ Holds(Room(q, t), (H \ Expired(q, t)) \ Evicted(q, t), sn)
         /\ Len(Room(q, t)) < MaxLen
         /\ Evicted(q, t) \subseteq H \ Expired(q, t)
<1> DEFINE p == Purge(q, t)
           L == H \ Expired(q, t)
<1>1. q \in Seq(Entry) /\ PacketsIn(q) = H /\ Len(q) <= MaxLen
  BY DEF Holds
<1>2. p \in Seq(Entry) /\ Len(p) <= Len(q) /\ Len(p) \in Nat /\ Len(q) \in Nat
  BY <1>1, PurgePicks
<1>3. Holds(p, L, sn)
  <2>1. {q[k].pkt : k \in AtFresh(q, t)} = L
    BY <1>1, PacketsLeft
  <2>2. Leaves(p, q, t, AtFresh(q, t))
    BY <1>1, PurgeLeaves
  <2>3. Holds(p, {q[k].pkt : k \in AtFresh(q, t)}, sn)
    BY <2>2, LeavesHolds
  <2> QED
    BY <2>1, <2>3
<1>4. Full(q, t) <=> Len(p) >= MaxLen
  BY DEF Full
<1> HIDE DEF L
<1>5. CASE ~Full(q, t)
  <2>1. Room(q, t) = p /\ Evicted(q, t) = {}
    BY <1>5 DEF Room, Evicted
  <2>2. Len(p) < MaxLen
    BY <1>2, <1>4, <1>5, ConstantTypes
  <2> QED
    BY <1>3, <2>1, <2>2 DEF L
<1>6. CASE Full(q, t)
  <2>1. Room(q, t) = Tail(p) /\ Evicted(q, t) = {Head(p).pkt}
    BY <1>6 DEF Room, Evicted
  <2> HIDE DEF p
  <2>2. p # << >> /\ Head(p) = p[1] /\ 1 \in DOMAIN p
    BY <1>2, <1>4, <1>6, ConstantTypes
  <2> DEFINE r == Tail(p)
             f == [i \in 1 .. Len(p) - 1 |-> i + 1]
             K == 2 .. Len(p)
  <2>3. r \in Seq(Entry) /\ Len(r) = Len(p) - 1 /\ \A i \in 1 .. Len(r) : r[i] = p[i + 1]
    BY <1>2, <2>2, HeadTailProperties
  <2> HIDE DEF r
  <2>4. Picks(f, r, p, K)
    <3>1. DOMAIN r = 1 .. Len(p) - 1 /\ DOMAIN p = 1 .. Len(p)
      BY <1>2, <2>3
    <3>2. K = {f[i] : i \in DOMAIN r}
      <4>1. \A k \in K : k - 1 \in 1 .. Len(p) - 1 /\ k = (k - 1) + 1
        BY <1>2
      <4>2. \A i \in 1 .. Len(p) - 1 : i + 1 \in K
        BY <1>2
      <4> QED
        BY <3>1, <4>1, <4>2
    <3> QED
      BY <1>2, <2>3, <3>1, <3>2 DEF Picks
  <2>5. Leaves(r, p, t, K)
    <3>1. Len(r) <= Len(p)
      BY <1>2, <2>3
    <3> HIDE DEF f, K
    <3> QED
      BY <1>2, <2>3, <2>4, <3>1, PickedLeaves
  <2>6. Holds(r, {p[k].pkt : k \in K}, sn)
    <3> HIDE DEF K
    <3> QED
      BY <1>3, <2>5, LeavesHolds
  <2>7. {p[k].pkt : k \in K} = L \ {p[1].pkt}
    <3>1. DOMAIN p = 1 .. Len(p) /\ L = {p[k].pkt : k \in 1 .. Len(p)}
      BY <1>2, <1>3 DEF Holds, PacketsIn
    <3>2. \A k \in K : k \in 1 .. Len(p) /\ k # 1
      BY <1>2
    <3>3. \A k \in 1 .. Len(p) : k # 1 => k \in K
      BY <1>2
    <3>4. \A k \in K : p[k].pkt # p[1].pkt
      BY <1>3, <2>2, <3>1, <3>2 DEF Holds, Unique
    <3> HIDE DEF K
    <3> QED
      BY <3>1, <3>2, <3>3, <3>4
  <2>8. p[1].pkt \in L
    BY <1>3, <2>2 DEF Holds, PacketsIn
  <2>9. Len(r) < MaxLen
    BY <1>1, <1>2, <2>3, ConstantTypes
  <2> QED
    BY <2>1, <2>2, <2>6, <2>7, <2>8, <2>9 DEF L, r
<1> QED
  BY <1>5, <1>6

\* A packet that comes in now is held, behind the others of its destination.
LEMMA AppendHolds ==
  ASSUME NEW q, NEW H, NEW sn, Holds(q, H, sn), Len(q) < MaxLen, NEW t \in Nat,
         NEW e \in Entry, e.pkt \notin H, e.first = 0,
         NEW sn2, sn2[e.pkt] = t, \A x \in H : sn2[x] = sn[x] /\ sn[x] <= t
  PROVE  Holds(Append(q, Stamped(e, t)), H \cup {e.pkt}, sn2)
<1> DEFINE x == Stamped(e, t)
           r == Append(q, x)
           n == Len(q)
<1>1. q \in Seq(Entry) /\ n \in Nat /\ DOMAIN q = 1 .. n
  BY DEF Holds
<1>2. x \in Entry /\ x.pkt = e.pkt /\ x.first = t /\ CappedEntry(x)
  BY StampedEntry
<1>3. /\ r \in Seq(Entry) /\ Len(r) = n + 1
      /\ \A i \in 1 .. n : r[i] = q[i]
      /\ r[n + 1] = x
  BY <1>1, <1>2, AppendProperties
<1> HIDE DEF x, r, n
<1>4. DOMAIN r = (1 .. n) \cup {n + 1}
  BY <1>1, <1>3
<1>5. \A i \in 1 .. n : q[i].pkt \in H
  BY <1>1 DEF Holds, PacketsIn
<1>6. n + 1 <= MaxLen
  BY <1>1, ConstantTypes DEF n
<1>7. Unique(r)
  BY <1>1, <1>2, <1>3, <1>4, <1>5 DEF Holds, Unique
<1>8. PacketsIn(r) = H \cup {e.pkt}
  BY <1>1, <1>2, <1>3, <1>4 DEF Holds, PacketsIn
<1>9. Capped(r)
  BY <1>1, <1>2, <1>3, <1>4 DEF Holds, Capped
<1>10. InOrder(r, sn2)
  <2> SUFFICES ASSUME NEW i \in DOMAIN r, NEW j \in DOMAIN r, i < j,
                      Dest[r[i].pkt] = Dest[r[j].pkt]
               PROVE  sn2[r[i].pkt] <= sn2[r[j].pkt]
    BY DEF InOrder
  <2>1. i \in 1 .. n
    BY <1>1, <1>4
  <2>2. CASE j \in 1 .. n
    BY <1>1, <1>3, <1>5, <2>1, <2>2 DEF Holds, InOrder
  <2>3. CASE j = n + 1
    BY <1>2, <1>3, <1>5, <2>1, <2>3
  <2> QED
    BY <1>4, <2>2, <2>3
<1>11. FirstIsEntry(r, sn2)
  BY <1>1, <1>2, <1>3, <1>4, <1>5 DEF Holds, FirstIsEntry
<1> QED
  BY <1>3, <1>6, <1>7, <1>8, <1>9, <1>10, <1>11 DEF Holds, r, x

\* An insertion of a packet the queue does not hold keeps what Holds says.
LEMMA EnqueueHolds ==
  ASSUME NEW q, NEW H, NEW sn, Holds(q, H, sn), NEW t \in Nat,
         NEW p \in Packets, p \notin H, NEW reason \in Reasons,
         NEW sn2, sn2[p] = t, \A x \in H : sn2[x] = sn[x] /\ sn[x] <= t
  PROVE  LET r == Enqueue(q, NewEntry(p, reason), t)
         IN /\ Holds(r, ((H \ Expired(q, t)) \ Evicted(q, t)) \cup {p}, sn2)
            /\ Expired(r, t) = {}
<1> DEFINE e == NewEntry(p, reason)
           m == Room(q, t)
           L == (H \ Expired(q, t)) \ Evicted(q, t)
           r == Enqueue(q, e, t)
<1>1. e \in Entry /\ e.pkt = p /\ e.first = 0
  BY DEF NewEntry, Entry
<1>2. r = Append(m, Stamped(e, t))
  BY DEF Enqueue
<1>3. Holds(m, L, sn) /\ Len(m) < MaxLen /\ L \subseteq H
  BY RoomHolds
<1> HIDE DEF e, m, L, r
<1>4. Holds(r, L \cup {p}, sn2)
  <2>1. Holds(Append(m, Stamped(e, t)), L \cup {e.pkt}, sn2)
    BY <1>1, <1>3, AppendHolds
  <2> QED
    BY <1>1, <1>2, <2>1
<1>5. Fresh(r, t)
  <2>1. q \in Seq(Entry) /\ m \in Seq(Entry)
    BY <1>3 DEF Holds
  <2>2. Fresh(m, t)
    <3>1. Fresh(Purge(q, t), t) /\ Purge(q, t) \in Seq(Entry) /\ Len(Purge(q, t)) \in Nat
      BY <2>1, PurgeLeavesFresh, PurgePicks
    <3>2. CASE Full(q, t)
      <4>1. Purge(q, t) # << >>
        BY <3>1, <3>2, ConstantTypes DEF Full
      <4>2. m = Tail(Purge(q, t))
        BY <3>2 DEF m, Room
      <4>3. /\ Len(m) = Len(Purge(q, t)) - 1
            /\ \A i \in 1 .. Len(m) : m[i] = Purge(q, t)[i + 1]
        BY <3>1, <4>1, <4>2, HeadTailProperties
      <4>4. \A i \in 1 .. Len(m) : i + 1 \in DOMAIN Purge(q, t)
        BY <3>1, <4>3
      <4>5. DOMAIN m = 1 .. Len(m)
        BY <2>1
      <4>6. \A i \in 1 .. Len(m) : Purge(q, t)[i + 1].expire > t
        BY <3>1, <4>4 DEF Fresh
      <4> QED
        BY <4>3, <4>5, <4>6 DEF Fresh
    <3>3. CASE ~Full(q, t)
      BY <3>1, <3>3 DEF m, Room
    <3> QED
      BY <3>2, <3>3
  <2>3. Stamped(e, t).expire > t /\ Stamped(e, t) \in Entry
    BY <1>1, StampedEntry
  <2>4. /\ Len(r) = Len(m) + 1
        /\ \A i \in 1 .. Len(m) : r[i] = m[i]
        /\ r[Len(m) + 1] = Stamped(e, t)
        /\ r \in Seq(Entry)
    BY <1>2, <2>1, <2>3, AppendProperties
  <2>5. DOMAIN r = (1 .. Len(m)) \cup {Len(m) + 1} /\ DOMAIN m = 1 .. Len(m)
    BY <2>1, <2>4
  <2> QED
    BY <2>2, <2>3, <2>4, <2>5 DEF Fresh
<1>6. Expired(r, t) = {}
  <2>1. Purge(r, t) = r
    BY <1>4, <1>5, PurgeOfFresh DEF Holds
  <2> QED
    BY <2>1 DEF Expired
<1> QED
  BY <1>4, <1>6 DEF L, r, e

\* A flush, and what it forwards.
LEMMA FlushHolds ==
  ASSUME NEW q, NEW H, NEW sn, Holds(q, H, sn), NEW t \in Nat, NEW d, NEW R
  PROVE  Holds(FlushQueue(q, d, R, t), (H \ Expired(q, t)) \ Forwarded(q, d, R, t), sn)
<1> DEFINE K == IF d \in R THEN AtFreshNotFor(q, d, t) ELSE AtFresh(q, t)
<1>1. q \in Seq(Entry) /\ Len(q) <= MaxLen /\ Capped(q) /\ PacketsIn(q) = H
  BY DEF Holds
<1>2. Leaves(FlushQueue(q, d, R, t), q, t, K)
  BY <1>1, FlushLeaves
<1>3. {q[k].pkt : k \in K} = (H \ Expired(q, t)) \ Forwarded(q, d, R, t)
  BY <1>1, PacketsLeft DEF Forwarded
<1> HIDE DEF K
<1>4. Holds(FlushQueue(q, d, R, t), {q[k].pkt : k \in K}, sn)
  BY <1>2, LeavesHolds
<1> QED
  BY <1>3, <1>4

-----------------------------------------------------------------------------
(* The inductive invariant *)

Held == {p \in Packets : fate[p] = "held"}

\* The packets held are those in the queue, which is in order and keeps their
\* deadlines; a packet came into the queue at a time that has been.
IInv ==
  /\ now \in Nat /\ Start <= now
  /\ DOMAIN fate = Packets
  /\ since \in [Packets -> Nat]
  /\ \A p \in Packets : Start <= since[p] /\ since[p] <= now
  /\ Holds(queue, Held, since)

\* The inductive invariant holds initially.
LEMMA InvInit == Init => IInv
<1> SUFFICES ASSUME Init PROVE IInv
  OBVIOUS
<1>1. Start \in Nat
  BY QueueAssumption
<1>2. /\ now \in Nat /\ Start <= now
      /\ DOMAIN fate = Packets
      /\ since \in [Packets -> Nat]
      /\ \A p \in Packets : Start <= since[p] /\ since[p] <= now
  BY <1>1 DEF Init
<1>3. Held = {}
  BY DEF Init, Held
<1>4. queue = << >> /\ queue \in Seq(Entry) /\ Len(queue) = 0 /\ DOMAIN queue = {}
  BY DEF Init
<1>5. Holds(queue, Held, since)
  BY <1>3, <1>4, ConstantTypes DEF Holds, Unique, PacketsIn, Capped, InOrder, FirstIsEntry
<1> QED
  BY <1>2, <1>5 DEF IInv

\* Which packets are held once a step has given them their fates.
HeldNext(in, sent, expired, evicted) ==
  /\ DOMAIN fate' = Packets
  /\ \A p \in Packets : since'[p] = IF p \in in THEN now ELSE since[p]
  /\ since' \in [Packets -> Nat]
  /\ \A p \in Packets : Start <= since'[p] /\ since'[p] <= now
  /\ in = {} => since' = since
  /\ Held' = (((Held \ expired) \cup in) \ sent) \ evicted

\* Who is held after a step, from the sets of packets the step is given.
LEMMA BecomesHeld ==
  ASSUME IInv, NEW in \in SUBSET Packets, NEW sent, NEW expired, NEW evicted,
         Becomes(in, sent, expired, evicted)
  PROVE  HeldNext(in, sent, expired, evicted)
<1>1. fate' = [p \in Packets |-> IF p \in sent THEN "sent"
                                ELSE IF p \in evicted THEN "evicted"
                                ELSE IF p \in in THEN "held"
                                ELSE IF p \in expired THEN "expired" ELSE fate[p]]
  BY DEF Becomes
<1>2. since' = [p \in Packets |-> IF p \in in THEN now ELSE since[p]]
  BY DEF Becomes
<1>3. /\ now \in Nat /\ Start <= now /\ since \in [Packets -> Nat]
      /\ \A p \in Packets : Start <= since[p] /\ since[p] <= now
  BY DEF IInv
<1>4. since' \in [Packets -> Nat] /\ \A p \in Packets : Start <= since'[p] /\ since'[p] <= now
  BY <1>2, <1>3
<1>5. in = {} => since' = since
  BY <1>2, <1>3
<1>6. Held' = {p \in Packets : fate'[p] = "held"}
  BY DEF Held
<1>7. \A p \in Packets :
        fate'[p] = "held" <=>
          p \in (Held \ expired) \cup in /\ p \notin sent /\ p \notin evicted
  BY <1>1 DEF Held
<1>8. Held \subseteq Packets
  BY DEF Held
<1>9. Held' = (((Held \ expired) \cup in) \ sent) \ evicted
  BY <1>6, <1>7, <1>8
<1> QED
  BY <1>1, <1>2, <1>4, <1>5, <1>9 DEF HeldNext

\* A packet with a route passes the queue by.
LEMMA ForwardKeepsInv == ASSUME IInv, NEW p \in Packets, Forward(p) PROVE IInv'
<1>1. /\ fate[p] = "new" /\ Becomes({}, {p}, {}, {})
      /\ queue' = queue /\ now' = now
  BY DEF Forward
<1>2. /\ DOMAIN fate' = Packets /\ since' = since
      /\ Held' = (((Held \ {}) \cup {}) \ {p}) \ {}
  <2>1. HeldNext({}, {p}, {}, {})
    BY <1>1, BecomesHeld
  <2> QED
    BY <2>1 DEF HeldNext
<1>3. Held' = Held
  BY <1>1, <1>2 DEF Held
<1> QED
  BY <1>1, <1>2, <1>3 DEF IInv

\* A packet without a route comes into the queue.
LEMMA DeferredKeepsInv == ASSUME IInv, NEW p \in Packets, DeferredRouteOutput(p) PROVE IInv'
<1> DEFINE reason == IF Dest[p] \in ever THEN "reconv" ELSE "setup"
<1>1. /\ fate[p] = "new"
      /\ queue' = Enqueue(queue, NewEntry(p, reason), now)
      /\ Becomes({p}, {}, Expired(queue, now), Evicted(queue, now))
      /\ now' = now
  BY DEF DeferredRouteOutput
<1>2. reason \in Reasons
  BY DEF Reasons
<1> HIDE DEF reason
<1>3. /\ DOMAIN fate' = Packets
      /\ \A x \in Packets : since'[x] = IF x \in {p} THEN now ELSE since[x]
      /\ since' \in [Packets -> Nat]
      /\ \A x \in Packets : Start <= since'[x] /\ since'[x] <= now
      /\ Held' = (((Held \ Expired(queue, now)) \cup {p}) \ {}) \ Evicted(queue, now)
  <2>1. HeldNext({p}, {}, Expired(queue, now), Evicted(queue, now))
    BY <1>1, BecomesHeld
  <2> QED
    BY <2>1 DEF HeldNext
<1>4. p \notin Held /\ Held \subseteq Packets
  BY <1>1 DEF Held
<1>5. /\ Holds(queue, Held, since) /\ now \in Nat
      /\ \A x \in Packets : since[x] <= now
  BY DEF IInv
<1>6. since'[p] = now /\ \A x \in Held : since'[x] = since[x] /\ since[x] <= now
  BY <1>3, <1>4, <1>5
<1>7. Holds(queue', ((Held \ Expired(queue, now)) \ Evicted(queue, now)) \cup {p}, since')
  BY <1>1, <1>2, <1>4, <1>5, <1>6, EnqueueHolds
<1>8. Evicted(queue, now) \subseteq Held
  BY <1>5, RoomHolds
<1>9. Held' = ((Held \ Expired(queue, now)) \ Evicted(queue, now)) \cup {p}
  BY <1>3, <1>4, <1>8
<1> QED
  BY <1>1, <1>3, <1>7, <1>9 DEF IInv

\* A packet that comes back is queued for repair and the queue is flushed.
LEMMA NotifyKeepsInv == ASSUME IInv, NEW p \in Packets, NotifyTxError(p) PROVE IInv'
<1> DEFINE q == Enqueue(queue, NewEntry(p, "repair"), now)
           R == routed'
           out == Forwarded(q, Dest[p], R, now)
           L == ((Held \ Expired(queue, now)) \ Evicted(queue, now)) \cup {p}
<1>1. /\ fate[p] = "sent"
      /\ queue' = FlushQueue(q, Dest[p], R, now)
      /\ Becomes({p}, out, Expired(queue, now), Evicted(queue, now))
      /\ now' = now
  BY DEF NotifyTxError
<1>2. "repair" \in Reasons
  BY DEF Reasons
<1>3. /\ DOMAIN fate' = Packets
      /\ \A x \in Packets : since'[x] = IF x \in {p} THEN now ELSE since[x]
      /\ since' \in [Packets -> Nat]
      /\ \A x \in Packets : Start <= since'[x] /\ since'[x] <= now
      /\ Held' = (((Held \ Expired(queue, now)) \cup {p}) \ out) \ Evicted(queue, now)
  <2> HIDE DEF out
  <2>1. HeldNext({p}, out, Expired(queue, now), Evicted(queue, now))
    BY <1>1, BecomesHeld
  <2> QED
    BY <2>1 DEF HeldNext
<1>4. p \notin Held /\ Held \subseteq Packets
  BY <1>1 DEF Held
<1>5. /\ Holds(queue, Held, since) /\ now \in Nat
      /\ \A x \in Packets : since[x] <= now
  BY DEF IInv
<1>6. since'[p] = now /\ \A x \in Held : since'[x] = since[x] /\ since[x] <= now
  BY <1>3, <1>4, <1>5
<1>7. Holds(q, L, since') /\ Expired(q, now) = {}
  BY <1>2, <1>4, <1>5, <1>6, EnqueueHolds
<1>8. Holds(queue', (L \ Expired(q, now)) \ out, since')
  <2> HIDE DEF q, L, R
  <2> QED
    BY <1>1, <1>5, <1>7, FlushHolds
<1>9. Evicted(queue, now) \subseteq Held
  BY <1>5, RoomHolds
<1> HIDE DEF q, R, out
<1>10. Held' = (L \ Expired(q, now)) \ out
  BY <1>3, <1>4, <1>7, <1>9
<1> QED
  BY <1>1, <1>3, <1>8, <1>10 DEF IInv

\* A backward ant flushes the queue for its destination.
LEMMA BackwardKeepsInv == ASSUME IInv, NEW d, BackwardAnt(d) PROVE IInv'
<1> DEFINE R == routed'
           out == Forwarded(queue, d, R, now)
<1>1. /\ queue' = FlushQueue(queue, d, R, now)
      /\ Becomes({}, out, Expired(queue, now), {})
      /\ now' = now
  BY DEF BackwardAnt
<1> HIDE DEF R, out
<1>2. /\ DOMAIN fate' = Packets /\ since' = since
      /\ Held' = (((Held \ Expired(queue, now)) \cup {}) \ out) \ {}
  <2>1. HeldNext({}, out, Expired(queue, now), {})
    BY <1>1, BecomesHeld
  <2> QED
    BY <2>1 DEF HeldNext
<1>3. Holds(queue, Held, since) /\ now \in Nat
  BY DEF IInv
<1>4. Holds(queue', (Held \ Expired(queue, now)) \ out, since)
  BY <1>1, <1>3, FlushHolds DEF out
<1>5. Held' = (Held \ Expired(queue, now)) \ out
  BY <1>2
<1> QED
  BY <1>1, <1>2, <1>4, <1>5 DEF IInv

\* The retry timer flushes every destination that has a route.
LEMMA RetryKeepsInv == ASSUME IInv, ReactiveRetryTimerExpire PROVE IInv'
<1> DEFINE q == Purge(queue, now)
           out == {p \in PacketsIn(q) : Dest[p] \in routed}
           A == {e \in Entry : Dest[e.pkt] \notin routed}
           J == {i \in DOMAIN q : q[i].pkt \notin out}
           K == {i \in AtFresh(queue, now) : queue[i] \in A}
           L == Held \ Expired(queue, now)
<1>1. /\ queue' = KeepAt(q, J)
      /\ Becomes({}, out, Expired(queue, now), {})
      /\ now' = now
  BY DEF ReactiveRetryTimerExpire
<1>2. /\ DOMAIN fate' = Packets /\ since' = since
      /\ Held' = ((L \cup {}) \ out) \ {}
  <2> HIDE DEF out
  <2>1. HeldNext({}, out, Expired(queue, now), {})
    BY <1>1, BecomesHeld
  <2> QED
    BY <2>1 DEF HeldNext
<1>3. /\ Holds(queue, Held, since) /\ now \in Nat
      /\ queue \in Seq(Entry) /\ PacketsIn(queue) = Held
  BY DEF IInv, Holds
<1>4. q \in Seq(Entry)
  BY <1>3, PurgePicks
<1>5. J \in SUBSET DOMAIN q /\ J = {i \in DOMAIN q : q[i] \in A}
  BY <1>4 DEF PacketsIn
<1>6. Leaves(queue', queue, now, K)
  <2> HIDE DEF A, J, K
  <2> QED
    BY <1>1, <1>3, <1>5, PurgeAndKeepLeaves DEF K
<1>7. Holds(queue', {queue[k].pkt : k \in K}, since)
  <2> HIDE DEF K
  <2> QED
    BY <1>3, <1>6, LeavesHolds
<1>8. {queue[k].pkt : k \in K} = L \ out
  <2>1. {queue[k].pkt : k \in AtFresh(queue, now)} = L
    BY <1>3, PacketsLeft
  <2>2. PacketsIn(q) = L
    BY <1>3, PacketsLeft
  <2>3. \A k \in AtFresh(queue, now) :
          k \in K <=> queue[k].pkt \notin out
    <3>1. \A k \in AtFresh(queue, now) : queue[k] \in Entry /\ queue[k].pkt \in L
      BY <1>3, <2>1 DEF AtFresh
    <3> HIDE DEF L, q
    <3> QED
      BY <2>2, <3>1
  <2> HIDE DEF out, L
  <2> QED
    BY <2>1, <2>3
<1> HIDE DEF out, L, K
<1>9. Held' = L \ out
  BY <1>2
<1> QED
  BY <1>1, <1>2, <1>7, <1>8, <1>9 DEF IInv

\* A failed repair empties the queue of one destination.
LEMMA DiscardKeepsInv == ASSUME IInv, NEW d, DiscardQueue(d) PROVE IInv'
<1>1. /\ queue' = Others(queue, d, now)
      /\ fate' = [p \in Packets |->
           IF p \in PacketsIn(Taken(queue, d, now)) THEN "discarded"
           ELSE IF p \in Expired(queue, now) THEN "expired" ELSE fate[p]]
      /\ now' = now /\ since' = since
  BY DEF DiscardQueue
<1>2. /\ Holds(queue, Held, since) /\ now \in Nat
      /\ queue \in Seq(Entry) /\ PacketsIn(queue) = Held
  BY DEF IInv, Holds
<1>3. Leaves(queue', queue, now, AtFreshNotFor(queue, d, now))
  BY <1>1, <1>2, DequeueFacts
<1>4. Holds(queue', {queue[k].pkt : k \in AtFreshNotFor(queue, d, now)}, since)
  BY <1>2, <1>3, LeavesHolds
<1>5. {queue[k].pkt : k \in AtFreshNotFor(queue, d, now)} =
        (Held \ Expired(queue, now)) \ PacketsIn(Taken(queue, d, now))
  BY <1>2, PacketsLeft
<1>6. Held' = (Held \ Expired(queue, now)) \ PacketsIn(Taken(queue, d, now))
  BY <1>1 DEF Held
<1> QED
  BY <1>1, <1>4, <1>5, <1>6 DEF IInv

\* Every step keeps the inductive invariant.
LEMMA InvNext == IInv /\ [Next]_vars => IInv'
<1> SUFFICES ASSUME IInv, [Next]_vars PROVE IInv'
  OBVIOUS
<1>1. ASSUME NEW p \in Packets, Forward(p) PROVE IInv'
  BY <1>1, ForwardKeepsInv
<1>2. ASSUME NEW p \in Packets, DeferredRouteOutput(p) PROVE IInv'
  BY <1>2, DeferredKeepsInv
<1>3. ASSUME NEW p \in Packets, NotifyTxError(p) PROVE IInv'
  BY <1>3, NotifyKeepsInv
<1>4. ASSUME NEW d \in Dests, BackwardAnt(d) PROVE IInv'
  BY <1>4, BackwardKeepsInv
<1>5. ASSUME NEW d \in Dests, DiscardQueue(d) PROVE IInv'
  BY <1>5, DiscardKeepsInv
<1>6. ASSUME NEW d \in Dests, RouteChange(d) PROVE IInv'
  BY <1>6 DEF RouteChange, IInv, Held
<1>7. CASE ReactiveRetryTimerExpire
  BY <1>7, RetryKeepsInv
<1>8. CASE Tick
  <2>1. now' = now + 1 /\ queue' = queue /\ fate' = fate /\ since' = since
    BY <1>8 DEF Tick
  <2>2. now' \in Nat /\ Start <= now' /\ \A p \in Packets : since[p] <= now'
    BY <2>1, QueueAssumption DEF IInv
  <2> QED
    BY <2>1, <2>2 DEF IInv, Held
<1>9. CASE UNCHANGED vars
  BY <1>9 DEF vars, IInv, Held
<1> QED
  BY <1>1, <1>2, <1>3, <1>4, <1>5, <1>6, <1>7, <1>8, <1>9 DEF Next

\* The invariant holds in every state the queue reaches.
THEOREM Invariant == Spec => []IInv
<1>1. Init => IInv
  BY InvInit
<1>2. IInv /\ [Next]_vars => IInv'
  BY InvNext
<1> QED
  BY <1>1, <1>2, PTL DEF Spec

-----------------------------------------------------------------------------
(* The properties *)

\* For every set of packets, limit, timeout and cap: no packet is lost without a
\* trace or queued twice, and the queue keeps within its limit.
THEOREM PacketsConserved == Spec => []Conserved
<1>1. IInv => Conserved
  BY DEF IInv, Holds, Unique, Held, Conserved
<1> QED
  BY <1>1, Invariant, PTL

\* Packets of one destination wait in the order they came, through every flush.
THEOREM OrderKept == Spec => []NoOvertaking
<1>1. IInv => NoOvertaking
  BY DEF IInv, Holds, InOrder, NoOvertaking
<1> QED
  BY <1>1, Invariant, PTL

\* A packet that has not timed out is forwarded before its cap is up.
LEMMA FreshWithinCap ==
  ASSUME IInv, Start # 0, NEW i \in DOMAIN queue, queue[i].pkt \notin Expired(queue, now),
         Cap[queue[i].reason] # 0
  PROVE  now < since[queue[i].pkt] + Cap[queue[i].reason]
<1> DEFINE e == queue[i]
<1>1. /\ now \in Nat /\ since \in [Packets -> Nat]
      /\ \A p \in Packets : Start <= since[p]
      /\ queue \in Seq(Entry) /\ Unique(queue)
      /\ CappedEntry(e)
      /\ since[e.pkt] # 0 => e.first = since[e.pkt]
  BY DEF IInv, Holds, Capped, FirstIsEntry
<1>2. e \in Entry
  BY <1>1
<1> HIDE DEF e
<1>3. /\ e.pkt \in Packets /\ e.expire \in Nat /\ e.first \in Nat
      /\ Cap[e.reason] \in Nat
  BY <1>2, ConstantTypes DEF Entry
<1>4. e.expire > now
  <2>1. e.pkt \in PacketsIn(queue)
    BY DEF PacketsIn, e
  <2>2. PICK k \in AtFresh(queue, now) : e.pkt = queue[k].pkt
    <3>1. {queue[k].pkt : k \in AtFresh(queue, now)} = PacketsIn(queue) \ Expired(queue, now)
      BY <1>1, PacketsLeft
    <3>2. e.pkt \in {queue[k].pkt : k \in AtFresh(queue, now)}
      BY <2>1, <3>1 DEF e
    <3> QED
      BY <3>2
  <2>3. k = i
    BY <1>1, <2>2 DEF Unique, AtFresh, e
  <2> QED
    BY <2>2, <2>3 DEF AtFresh, e
<1>5. since[e.pkt] # 0
  BY <1>1, <1>3, QueueAssumption
<1>6. e.expire <= since[e.pkt] + Cap[e.reason]
  BY <1>1, <1>5 DEF CappedEntry, e
<1>7. since[e.pkt] \in Nat
  BY <1>1, <1>3
<1>8. now < since[e.pkt] + Cap[e.reason]
  BY <1>1, <1>3, <1>4, <1>6, <1>7
<1> QED
  BY <1>8 DEF e

\* Only packets that have not timed out are forwarded.
LEMMA SentIsFresh ==
  ASSUME IInv, [Next]_vars, NEW p \in Held, fate'[p] = "sent"
  PROVE  p \notin Expired(queue, now)
<1>1. p \in Packets /\ fate[p] = "held"
  BY DEF Held
<1>2. /\ Holds(queue, Held, since) /\ now \in Nat
      /\ queue \in Seq(Entry) /\ PacketsIn(queue) = Held
  BY DEF IInv, Holds
<1>3. ASSUME NEW in, NEW sent, NEW evicted, Becomes(in, sent, Expired(queue, now), evicted)
      PROVE  p \in sent
  BY <1>1, <1>3 DEF Becomes
<1>4. ASSUME NEW d, NEW R, p \in Forwarded(queue, d, R, now)
      PROVE  p \notin Expired(queue, now)
  <2>1. p \in PacketsIn(Taken(queue, d, now))
    BY <1>4 DEF Forwarded
  <2>2. p \in {queue[k].pkt : k \in AtFresh(queue, now)}
    BY <1>2, <2>1, PacketsLeft DEF AtFreshFor
  <2> QED
    BY <1>2, <2>2, PacketsLeft
<1>5. CASE \E x \in Packets : Forward(x)
  BY <1>1, <1>5 DEF Forward, Becomes
<1>6. CASE \E x \in Packets : DeferredRouteOutput(x)
  BY <1>3, <1>6 DEF DeferredRouteOutput
<1>7. ASSUME NEW x \in Packets, NotifyTxError(x) PROVE p \notin Expired(queue, now)
  <2> DEFINE q == Enqueue(queue, NewEntry(x, "repair"), now)
             L == ((Held \ Expired(queue, now)) \ Evicted(queue, now)) \cup {x}
             out == Forwarded(q, Dest[x], routed', now)
             sn == [y \in Packets |-> IF y = x THEN now ELSE since[y]]
  <2>1. fate[x] = "sent" /\ Becomes({x}, out, Expired(queue, now), Evicted(queue, now))
    BY <1>7 DEF NotifyTxError
  <2>2. p \in out
    <3> HIDE DEF out
    <3> QED
      BY <1>3, <2>1
  <2>3. x \notin Held /\ "repair" \in Reasons /\ x # p
    BY <1>1, <2>1 DEF Held, Reasons
  <2>4. sn[x] = now /\ \A y \in Held : sn[y] = since[y] /\ since[y] <= now
    BY <2>3 DEF Held, IInv
  <2>5. Holds(q, L, sn)
    <3> HIDE DEF sn
    <3> QED
      BY <1>2, <2>3, <2>4, EnqueueHolds
  <2>6. q \in Seq(Entry) /\ PacketsIn(q) = L
    BY <2>5 DEF Holds
  <2>7. p \in PacketsIn(Taken(q, Dest[x], now))
    BY <2>2 DEF Forwarded
  <2> HIDE DEF q
  <2>8. p \in PacketsIn(q)
    <3>1. PacketsIn(Taken(q, Dest[x], now)) = {q[k].pkt : k \in AtFreshFor(q, Dest[x], now)}
      BY <2>6, PacketsLeft
    <3>2. AtFreshFor(q, Dest[x], now) \subseteq DOMAIN q
      BY DEF AtFreshFor, AtFresh
    <3> QED
      BY <2>7, <3>1, <3>2 DEF PacketsIn
  <2> QED
    BY <2>3, <2>6, <2>8
<1>8. CASE \E d \in Dests : BackwardAnt(d)
  <2>1. PICK d \in Dests : Becomes({}, Forwarded(queue, d, routed', now), Expired(queue, now), {})
    BY <1>8 DEF BackwardAnt
  <2> QED
    BY <1>3, <1>4, <2>1
<1>9. CASE ReactiveRetryTimerExpire
  <2> DEFINE out == {x \in PacketsIn(Purge(queue, now)) : Dest[x] \in routed}
  <2>1. Becomes({}, out, Expired(queue, now), {})
    BY <1>9 DEF ReactiveRetryTimerExpire
  <2>2. p \in out
    <3> HIDE DEF out
    <3> QED
      BY <1>3, <2>1
  <2> QED
    BY <2>2 DEF Expired
<1>10. CASE \E d \in Dests : DiscardQueue(d)
  BY <1>1, <1>10 DEF DiscardQueue
<1>11. CASE \E d \in Dests : RouteChange(d)
  BY <1>1, <1>11 DEF RouteChange
<1>12. CASE Tick \/ UNCHANGED vars
  BY <1>1, <1>12 DEF Tick, vars
<1> QED
  BY <1>5, <1>6, <1>7, <1>8, <1>9, <1>10, <1>11, <1>12 DEF Next

\* SetHoldCap bounds the hold of every packet, when the clock does not start at
\* the time that reads as unset.
THEOREM CapHolds ==
  ASSUME Start # 0
  PROVE  Spec => CapRespected
<1> DEFINE Within ==
      \A i \in DOMAIN queue :
        LET e == queue[i] IN
        Cap[e.reason] # 0 /\ fate'[e.pkt] = "sent" => now < since[e.pkt] + Cap[e.reason]
<1>1. ASSUME IInv, [Next]_vars PROVE [Within]_vars
  <2>1. ASSUME NEW i \in DOMAIN queue, Cap[queue[i].reason] # 0, fate'[queue[i].pkt] = "sent"
        PROVE  now < since[queue[i].pkt] + Cap[queue[i].reason]
    <3>1. queue[i].pkt \in Held
      BY <1>1 DEF IInv, Holds, PacketsIn
    <3>2. queue[i].pkt \notin Expired(queue, now)
      BY <1>1, <2>1, <3>1, SentIsFresh
    <3> QED
      BY <1>1, <2>1, <3>2, FreshWithinCap
  <2>2. Within
    BY <2>1
  <2> QED
    BY <2>2
<1>2. CapRespected <=> [][Within]_vars
  BY DEF CapRespected
<1> QED
  BY <1>1, <1>2, Invariant, PTL DEF Spec

=============================================================================
