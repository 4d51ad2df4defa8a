------------------------------- MODULE DataLemmas -------------------------------
(***************************************************************************)
(* What the proofs of several modules need of their data.  Induction over  *)
(* the naturals and recursive functions are stated without operator        *)
(* parameters so that a proof can cite them: a predicate is a set, a       *)
(* recursive definition its table of steps; they rest on < being           *)
(* well-founded.  Then the least and greatest of a set of numbers, and     *)
(* queues with a cap.                                                      *)
(***************************************************************************)
EXTENDS Integers, Sequences, FiniteSets, FiniteSetsExt, SequenceTheorems, FiniteSetTheorems,
        WellFoundedInduction, TLAPS

-----------------------------------------------------------------------------
(* Induction and recursion *)

\* Induction over the naturals: a set that holds 0 and is closed under successor.
LEMMA SetInduction ==
  ASSUME NEW S, 0 \in S, \A n \in Nat : n \in S => n + 1 \in S
  PROVE  Nat \subseteq S
<1> DEFINE T == {n \in Nat : n \notin S}
<1> DEFINE R == OpToRel(<, Nat)
<1> SUFFICES ASSUME T # {} PROVE FALSE
  OBVIOUS
<1>1. PICK x \in T : \A y \in T : ~(<<y, x>> \in R)
  BY NatLessThanWellFounded, WFMin, Zenon
<1>2. R = {ss \in Nat \X Nat : ss[1] < ss[2]}
  BY DEF OpToRel
<1>3. x \in Nat /\ x # 0
  OBVIOUS
<1>4. x - 1 \in Nat /\ x - 1 < x /\ (x - 1) + 1 = x
  BY <1>3
<1>5. <<x - 1, x>> \in R
  BY <1>2, <1>3, <1>4
<1>6. x - 1 \in S
  BY <1>1, <1>4, <1>5
<1> QED
  BY <1>4, <1>6

\* The least of a set of naturals.
LEMMA LeastExists ==
  ASSUME NEW T \in SUBSET Nat, T # {}
  PROVE  \E x \in T : \A y \in T : x <= y
<1> DEFINE R == OpToRel(<, Nat)
<1>1. PICK x \in T : \A y \in T : ~(<<y, x>> \in R)
  BY NatLessThanWellFounded, WFMin, Zenon
<1>2. R = {ss \in Nat \X Nat : ss[1] < ss[2]}
  BY DEF OpToRel
<1>3. ASSUME NEW y \in T PROVE x <= y
  <2>1. x \in Nat /\ y \in Nat
    OBVIOUS
  <2>2. ~ (y < x)
    BY <1>1, <1>2, <2>1
  <2> QED
    BY <2>1, <2>2
<1> QED
  BY <1>3

\* Induction up to a bound
LEMMA BoundedInduction ==
  ASSUME NEW N \in Nat, NEW S, 0 \in S, \A n \in 1..N : n - 1 \in S => n \in S
  PROVE  0..N \subseteq S
<1> DEFINE T == {n \in Nat : n <= N => n \in S}
<1>1. 0 \in T
  OBVIOUS
<1>2. ASSUME NEW n \in Nat, n \in T PROVE n + 1 \in T
  <2> SUFFICES ASSUME n + 1 <= N PROVE n + 1 \in S
    OBVIOUS
  <2>1. n + 1 \in 1..N /\ (n + 1) - 1 \in S
    BY <1>2
  <2> QED
    BY <2>1
<1>3. Nat \subseteq T
  <2> HIDE DEF T
  <2> QED BY <1>1, <1>2, SetInduction
<1> QED
  BY <1>3

\* The greatest of a finite one.
LEMMA GreatestExists ==
  ASSUME NEW T \in SUBSET Nat, T # {}, IsFiniteSet(T)
  PROVE  \E x \in T : \A y \in T : y <= x
<1>1. PICK q \in Seq(T) : \A x \in T : \E i \in 1 .. Len(q) : q[i] = x
  BY DEF IsFiniteSet
<1> DEFINE N == Len(q)
           S == {n \in 0 .. N : n = 0 \/ \E x \in T : \A i \in 1 .. n : q[i] <= x}
<1>2. N \in Nat /\ \A i \in 1 .. N : q[i] \in T /\ q[i] \in Nat
  <2>1. N \in Nat /\ \A i \in 1 .. N : q[i] \in T
    OBVIOUS
  <2> QED
    BY <2>1
<1>3. 0 \in S
  BY <1>2
<1>4. ASSUME NEW n \in 1 .. N, n - 1 \in S PROVE n \in S
  <2>1. n \in 0 .. N /\ n \in Nat /\ q[n] \in T /\ q[n] \in Nat
    BY <1>2
  <2>2. CASE n = 1
    BY <2>1, <2>2
  <2>3. CASE n # 1
    <3>1. PICK x \in T : \A i \in 1 .. n - 1 : q[i] <= x
      BY <1>4, <2>1, <2>3
    <3>2. x \in Nat /\ \A i \in 1 .. n : q[i] \in Nat /\ (i = n \/ i \in 1 .. n - 1)
      BY <1>2, <2>1
    <3>3. CASE q[n] <= x
      BY <2>1, <3>1, <3>2, <3>3
    <3>4. CASE x <= q[n]
      BY <2>1, <3>1, <3>2, <3>4
    <3> QED
      BY <2>1, <3>2, <3>3, <3>4
  <2> QED
    BY <2>2, <2>3
<1>5. N \in S
  <2> HIDE DEF S
  <2>1. 0 .. N \subseteq S
    BY <1>2, <1>3, <1>4, BoundedInduction
  <2> QED
    BY <1>2, <2>1
<1>6. N # 0
  <2>1. PICK y : y \in T
    OBVIOUS
  <2>2. PICK i \in 1 .. N : q[i] = y
    BY <1>1, <2>1
  <2> QED
    BY <1>2, <2>2
<1>7. PICK x \in T : \A i \in 1 .. N : q[i] <= x
  BY <1>5, <1>6
<1> QED
  BY <1>1, <1>7

\* f is the recursive function on 0 .. N that starts at base and goes by step.
Recurses(f, N, V, base, step) ==
  /\ f \in [0 .. N -> V]
  /\ f[0] = base
  /\ \A n \in 1 .. N : f[n] = step[n][f[n - 1]]

\* There is one for every base and every step that stay within V.
LEMMA RecursiveFunctionExists ==
  ASSUME NEW N \in Nat, NEW V, NEW base \in V, NEW step \in [1 .. N -> [V -> V]]
  PROVE  \E f : Recurses(f, N, V, base, step)
<1> DEFINE Upto(m) == \E f \in [0..m -> V] : f[0] = base /\ \A n \in 1..m : f[n] = step[n][f[n - 1]]
<1> DEFINE S == {m \in 0..N : Upto(m)}
<1>1. 0 \in S
  <2> DEFINE f == [n \in 0..0 |-> base]
  <2>1. f \in [0..0 -> V] /\ f[0] = base
    OBVIOUS
  <2>2. 1..0 = {}
    OBVIOUS
  <2>3. Upto(0)
    <3> HIDE DEF f
    <3> QED BY <2>1, <2>2
  <2> QED
    BY <2>3
<1>2. ASSUME NEW m \in 1..N, m - 1 \in S PROVE m \in S
  <2>1. PICK g \in [0..(m-1) -> V] : g[0] = base /\ \A n \in 1..(m-1) : g[n] = step[n][g[n - 1]]
    BY <1>2
  <2> DEFINE f == [n \in 0..m |-> IF n = m THEN step[m][g[m - 1]] ELSE g[n]]
  <2>2. m - 1 \in 0..(m-1) /\ g[m - 1] \in V
    BY <1>2
  <2>3. step[m][g[m - 1]] \in V
    BY <2>2
  <2>4. \A n \in 0..m : n # m => n \in 0..(m-1)
    OBVIOUS
  <2>5. f \in [0..m -> V]
    BY <2>3, <2>4
  <2>6. f[0] = base
    BY <2>1, <1>2
  <2>7. ASSUME NEW n \in 1..m PROVE f[n] = step[n][f[n - 1]]
    <3>1. n - 1 \in 0..m /\ n - 1 # m /\ n \in 0..m
      OBVIOUS
    <3>2. f[n - 1] = g[n - 1]
      BY <3>1
    <3>3. CASE n = m
      BY <3>1, <3>2, <3>3
    <3>4. CASE n # m
      <4>1. n \in 1..(m-1)
        BY <3>4
      <4> QED
        BY <2>1, <3>1, <3>2, <4>1, <3>4
    <3> QED
      BY <3>3, <3>4
  <2>8. Upto(m)
    <3> HIDE DEF f
    <3> QED BY <2>5, <2>6, <2>7
  <2> QED
    BY <2>8
<1>3. N \in S
  <2> HIDE DEF S
  <2>1. 0..N \subseteq S
    BY <1>1, <1>2, BoundedInduction
  <2> QED
    BY <2>1
<1> QED
  BY <1>3 DEF Recurses

\* The type of a recursive function follows from that of its steps.
LEMMA RecursiveFunctionType ==
  ASSUME NEW N \in Nat, NEW V, NEW f, f[0] \in V, \A n \in 1 .. N : f[n - 1] \in V => f[n] \in V
  PROVE  \A n \in 0 .. N : f[n] \in V
<1> DEFINE T == {n \in 0 .. N : f[n] \in V}
<1>1. 0 \in T
  OBVIOUS
<1>2. \A n \in 1 .. N : n - 1 \in T => n \in T
  OBVIOUS
<1>3. 0 .. N \subseteq T
  <2> HIDE DEF T
  <2> QED
    BY <1>1, <1>2, BoundedInduction
<1> QED
  BY <1>3

\* g is the loop over S that goes by table.
Loops(g, N, V, base, S, table) ==
  /\ g \in [0 .. N -> V]
  /\ g[0] = base
  /\ \A k \in 1 .. N : g[k] = IF k - 1 \in S THEN table[k - 1][g[k - 1]] ELSE g[k - 1]

\* Every loop over a set of numbers has its table of intermediate results.
LEMMA LoopExists ==
  ASSUME NEW N \in Nat, NEW V, NEW base \in V, NEW S, NEW table \in [S -> [V -> V]]
  PROVE  \E g : Loops(g, N, V, base, S, table)
<1> DEFINE step == [k \in 1 .. N |-> [v \in V |-> IF k - 1 \in S THEN table[k - 1][v] ELSE v]]
<1>1. step \in [1 .. N -> [V -> V]]
  OBVIOUS
<1>2. \A k \in 1 .. N, v \in V : step[k][v] = IF k - 1 \in S THEN table[k - 1][v] ELSE v
  OBVIOUS
<1> HIDE DEF step
<1>3. PICK g : Recurses(g, N, V, base, step)
  BY <1>1, RecursiveFunctionExists
<1>4. g \in [0 .. N -> V] /\ g[0] = base /\ \A k \in 1 .. N : g[k] = step[k][g[k - 1]]
  BY <1>3 DEF Recurses
<1>5. \A k \in 1 .. N : g[k - 1] \in V
  BY <1>4
<1> QED
  BY <1>2, <1>4, <1>5 DEF Loops

-----------------------------------------------------------------------------
(* Finite sets *)

\* The values of a function on a finite set are finitely many.
LEMMA RangeFinite ==
  ASSUME NEW f, IsFiniteSet(DOMAIN f)
  PROVE  IsFiniteSet({f[x] : x \in DOMAIN f})
<1> DEFINE T == {f[x] : x \in DOMAIN f}
           g == [x \in DOMAIN f |-> f[x]]
<1>1. g \in Surjection(DOMAIN f, T)
  BY DEF Surjection
<1> QED
  BY <1>1, FS_Surjection

\* The greatest of a finite set of numbers.
LEMMA MaxIs ==
  ASSUME NEW S \in SUBSET Nat, S # {}, IsFiniteSet(S)
  PROVE  Max(S) \in S /\ \A y \in S : y <= Max(S)
<1>1. PICK x \in S : \A y \in S : y <= x
  BY GreatestExists
<1>2. \A y \in S : x >= y
  BY <1>1
<1>3. Max(S) \in S /\ \A y \in S : Max(S) >= y
  BY <1>2 DEF Max
<1> QED
  BY <1>3

\* The least of a set of numbers.
LEMMA MinIs ==
  ASSUME NEW S \in SUBSET Nat, S # {}
  PROVE  Min(S) \in S /\ \A y \in S : Min(S) <= y
<1>1. PICK x \in S : \A y \in S : x <= y
  BY LeastExists
<1> QED
  BY <1>1 DEF Min

-----------------------------------------------------------------------------
(* Queues with a cap: a key is pushed, then the front is popped until the  *)
(* queue is within its cap; 0 stands for no cap.                           *)

\* How many keys the loop pops of a queue p, which they are and what it leaves.
Surplus(cap, p) == IF cap # 0 /\ Len(p) > cap THEN Len(p) - cap ELSE 0
Popped(cap, p)  == {p[i] : i \in 1 .. Surplus(cap, p)}
Rest(cap, p)    == SubSeq(p, Surplus(cap, p) + 1, Len(p))

\* After a push on a queue within its cap the loop pops at most the front.
LEMMA PushPopsFront ==
  ASSUME NEW cap \in Nat, NEW K, NEW q \in Seq(K), NEW k \in K,
         cap # 0 => Len(q) <= cap
  PROVE  LET p    == Append(q, k)
             e    == Surplus(cap, p)
             kept == Rest(cap, p)
         IN /\ e = IF cap # 0 /\ Len(q) = cap THEN 1 ELSE 0
            /\ kept \in Seq(K)
            /\ Len(kept) = Len(q) + 1 - e
            /\ \A i \in 1 .. Len(q) + 1 - e : kept[i] = p[i + e]
            /\ Popped(cap, p) = IF e = 1 THEN {p[1]} ELSE {}
<1> DEFINE p == Append(q, k)
           e == Surplus(cap, p)
           kept == Rest(cap, p)
<1>1. p \in Seq(K) /\ Len(p) = Len(q) + 1 /\ Len(q) \in Nat
  OBVIOUS
<1>2. e = IF cap # 0 /\ Len(q) = cap THEN 1 ELSE 0
  BY <1>1 DEF Surplus
<1>3. e \in {0, 1} /\ e + 1 \in Int /\ Len(p) \in Int /\ \A i \in e + 1 .. Len(p) : p[i] \in K
  BY <1>1, <1>2
<1>4. /\ kept \in Seq(K)
      /\ Len(kept) = IF e + 1 <= Len(p) THEN Len(p) - (e + 1) + 1 ELSE 0
      /\ \A i \in 1 .. Len(p) - (e + 1) + 1 : kept[i] = p[(e + 1) + i - 1]
  <2>1. /\ SubSeq(p, e + 1, Len(p)) \in Seq(K)
        /\ Len(SubSeq(p, e + 1, Len(p))) = IF e + 1 <= Len(p) THEN Len(p) - (e + 1) + 1 ELSE 0
        /\ \A i \in 1 .. Len(p) - (e + 1) + 1 : SubSeq(p, e + 1, Len(p))[i] = p[(e + 1) + i - 1]
    BY ONLY <1>3, SubSeqProperties
  <2> QED
    BY <2>1 DEF Rest
<1> HIDE DEF p, e, kept
<1>5. Len(kept) = Len(q) + 1 - e
  BY <1>1, <1>3, <1>4
<1>6. \A i \in 1 .. Len(q) + 1 - e : kept[i] = p[i + e]
  BY <1>1, <1>3, <1>4
<1>7. Popped(cap, p) = IF e = 1 THEN {p[1]} ELSE {}
  BY <1>3 DEF Popped, e
<1> QED
  BY <1>2, <1>4, <1>5, <1>6, <1>7 DEF p, e, kept

\* Without repetitions before, there are none after; the queue holds what it held and the
\* new key, less what was popped.
LEMMA PushKeepsWindow ==
  ASSUME NEW cap \in Nat, NEW K, NEW q \in Seq(K), NEW k \in K,
         cap # 0 => Len(q) <= cap,
         \A i, j \in 1 .. Len(q) : q[i] = q[j] => i = j,
         k \notin {q[i] : i \in 1 .. Len(q)}
  PROVE  LET p    == Append(q, k)
             e    == Surplus(cap, p)
             kept == Rest(cap, p)
             gone == Popped(cap, p)
         IN /\ kept \in Seq(K)
            /\ cap # 0 => Len(kept) <= cap
            /\ \A i, j \in 1 .. Len(kept) : kept[i] = kept[j] => i = j
            /\ {kept[i] : i \in 1 .. Len(kept)} = ({q[i] : i \in 1 .. Len(q)} \cup {k}) \ gone
            /\ k \notin gone
<1> DEFINE p == Append(q, k)
           e == Surplus(cap, p)
           kept == Rest(cap, p)
           gone == Popped(cap, p)
<1>1. /\ e = IF cap # 0 /\ Len(q) = cap THEN 1 ELSE 0
      /\ kept \in Seq(K)
      /\ Len(kept) = Len(q) + 1 - e
      /\ \A i \in 1 .. Len(q) + 1 - e : kept[i] = p[i + e]
      /\ gone = IF e = 1 THEN {p[1]} ELSE {}
  <2>1. q \in Seq(K) /\ k \in K /\ cap \in Nat /\ (cap # 0 => Len(q) <= cap)
    OBVIOUS
  <2> QED
    BY ONLY <2>1, PushPopsFront, Zenon
<1>2. /\ Len(p) = Len(q) + 1 /\ p[Len(q) + 1] = k
      /\ \A i \in 1 .. Len(q) : p[i] = q[i]
  OBVIOUS
<1> HIDE DEF p, e, kept, gone
<1>3. Len(q) \in Nat /\ e \in {0, 1}
  BY <1>1
<1>4. \A i, j \in 1 .. Len(p) : p[i] = p[j] => i = j
  BY <1>2, <1>3
<1>5. cap # 0 => Len(kept) <= cap
  BY <1>1, <1>3
<1>6. \A i \in 1 .. Len(kept) : i + e \in 1 .. Len(p) /\ kept[i] = p[i + e]
  BY <1>1, <1>2, <1>3
<1>7. \A i, j \in 1 .. Len(kept) : kept[i] = kept[j] => i = j
  BY <1>6, <1>3, <1>4
<1>8. k \notin gone
  BY <1>1, <1>2, <1>3, <1>4
<1>9. {kept[i] : i \in 1 .. Len(kept)} = ({q[i] : i \in 1 .. Len(q)} \cup {k}) \ gone
  <2>1. {q[i] : i \in 1 .. Len(q)} \cup {k} = {p[i] : i \in 1 .. Len(p)}
    BY <1>2, <1>3
  <2>2. {kept[i] : i \in 1 .. Len(kept)} = {p[i] : i \in e + 1 .. Len(p)}
    <3>1. \A i \in e + 1 .. Len(p) : i - e \in 1 .. Len(kept) /\ kept[i - e] = p[i]
      <4> TAKE i \in e + 1 .. Len(p)
      <4>1. i - e \in 1 .. Len(kept) /\ (i - e) + e = i
        BY <1>1, <1>2, <1>3
      <4>2. QED  BY <4>1, <1>6
    <3>2. \A i \in 1 .. Len(kept) : i + e \in e + 1 .. Len(p) /\ kept[i] = p[i + e]
      BY <1>6, <1>2, <1>3
    <3>3. ASSUME NEW x
          PROVE  x \in {kept[i] : i \in 1 .. Len(kept)} <=> x \in {p[i] : i \in e + 1 .. Len(p)}
      BY ONLY <3>1, <3>2
    <3>4. QED  BY <3>3
  <2>3. {p[i] : i \in 1 .. Len(p)} \ gone = {p[i] : i \in e + 1 .. Len(p)}
    BY <1>1, <1>2, <1>3, <1>4
  <2>4. QED  BY <2>1, <2>2, <2>3
<1> QED
  BY <1>1, <1>5, <1>7, <1>8, <1>9 DEF p, e, kept, gone

=============================================================================
