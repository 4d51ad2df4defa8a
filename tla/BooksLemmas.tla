------------------------------ MODULE BooksLemmas ------------------------------
(***************************************************************************)
(* Lemmas the proofs about BenchRun rest on: how many members a bag and a  *)
(* book of events have, what each hook of PacketBooks writes down and what *)
(* it leaves alone, and that the measures of reordering are what they are  *)
(* defined to be, for every order of arrival.                              *)
(***************************************************************************)
EXTENDS BenchRun, DataLemmas

-----------------------------------------------------------------------------
(* Counting *)

\* What S weighs when each of its members x weighs w[x].
Weight(w, S) == Cardinality(UNION {{x} \X (1 .. w[x]) : x \in S \cap DOMAIN w})

\* The numbers from 1 to n are n.
LEMMA UptoIs ==
  ASSUME NEW n \in Nat
  PROVE  IsFiniteSet(1 .. n) /\ Cardinality(1 .. n) = n
<1>1. 1 \in Int /\ n \in Int
  OBVIOUS
<1>2. IsFiniteSet(1 .. n) /\ Cardinality(1 .. n) = IF 1 > n THEN 0 ELSE n - 1 + 1
  BY <1>1, FS_Interval
<1> QED
  BY <1>2

\* A finite set weighs a natural number.
LEMMA WeightType ==
  ASSUME NEW D, IsFiniteSet(D), NEW w \in [D -> Nat], NEW S
  PROVE  /\ IsFiniteSet(UNION {{x} \X (1 .. w[x]) : x \in S \cap DOMAIN w})
         /\ Weight(w, S) \in Nat
<1> DEFINE Piece(x) == {x} \X (1 .. w[x])
           Pieces == {Piece(x) : x \in S \cap D}
<1>1. \A x \in D : IsFiniteSet(Piece(x))
  <2> SUFFICES ASSUME NEW x \in D PROVE IsFiniteSet(Piece(x))
    OBVIOUS
  <2>1. w[x] \in Int /\ 1 \in Int
    OBVIOUS
  <2>2. IsFiniteSet(1 .. w[x]) /\ IsFiniteSet({x})
    BY <2>1, FS_Interval, FS_Singleton
  <2> QED
    BY <2>2, FS_Product
<1>2. IsFiniteSet(S \cap D)
  BY FS_Intersection
<1>3. IsFiniteSet(Pieces)
  <2> DEFINE f == [x \in S \cap D |-> Piece(x)]
  <2>1. DOMAIN f = S \cap D /\ Pieces = {f[x] : x \in DOMAIN f}
    OBVIOUS
  <2> HIDE DEF f, Piece, Pieces
  <2> QED
    BY <1>2, <2>1, RangeFinite
<1>4. IsFiniteSet(UNION Pieces)
  BY <1>1, <1>3, FS_UNION
<1> QED
  BY <1>4, FS_CardinalityType DEF Weight

\* One more of k.
LEMMA WeightUp ==
  ASSUME NEW D, IsFiniteSet(D), NEW w \in [D -> Nat], NEW k, NEW v \in [D \cup {k} -> Nat],
         v[k] = (IF k \in D THEN w[k] ELSE 0) + 1, \A x \in D : x # k => v[x] = w[x],
         NEW S
  PROVE  Weight(v, S) = Weight(w, S) + (IF k \in S THEN 1 ELSE 0)
<1> DEFINE Of(u) == UNION {{x} \X (1 .. u[x]) : x \in S \cap DOMAIN u}
<1>1. IsFiniteSet(Of(w)) /\ Weight(w, S) = Cardinality(Of(w)) /\ Weight(w, S) \in Nat
  BY WeightType DEF Weight
<1>2. \A p : p \in Of(w) <=> \E x \in S \cap D : \E i \in 1 .. w[x] : p = <<x, i>>
  OBVIOUS
<1>3. \A p : p \in Of(v) <=> \E x \in S \cap (D \cup {k}) : \E i \in 1 .. v[x] : p = <<x, i>>
  OBVIOUS
<1> HIDE DEF Of
<1>4. CASE k \in S
  <2> DEFINE t == <<k, v[k]>>
  <2>1. v[k] \in 1 .. v[k]
    OBVIOUS
  <2>2. t \in Of(v)
    BY <1>3, <1>4, <2>1
  <2>3. t \notin Of(w)
    <3> SUFFICES ASSUME NEW x \in S \cap D, NEW i \in 1 .. w[x], t = <<x, i>> PROVE FALSE
      BY <1>2
    <3>1. x = k /\ i = v[k] /\ w[k] \in Nat
      OBVIOUS
    <3> QED
      BY <3>1
  <2>4. ASSUME NEW p \in Of(v), p # t PROVE p \in Of(w)
    <3>1. PICK x \in S \cap (D \cup {k}) : \E i \in 1 .. v[x] : p = <<x, i>>
      BY <1>3, <2>4
    <3>1i. PICK i \in 1 .. v[x] : p = <<x, i>>
      BY <3>1
    <3>2. CASE x = k
      <4>1. i # v[k]
        BY <2>4, <3>1i, <3>2
      <4>2. k \in D /\ i \in 1 .. w[k]
        BY <3>1i, <3>2, <4>1
      <4> QED
        BY <1>2, <3>1i, <3>2, <4>2
    <3>3. CASE x # k
      <4>1. x \in S \cap D /\ v[x] = w[x]
        BY <3>1i, <3>3
      <4> QED
        BY <1>2, <3>1i, <4>1
    <3> QED
      BY <3>2, <3>3
  <2>5. ASSUME NEW p \in Of(w) PROVE p \in Of(v)
    <3>1. PICK x \in S \cap D : \E i \in 1 .. w[x] : p = <<x, i>>
      BY <1>2, <2>5
    <3>1i. PICK i \in 1 .. w[x] : p = <<x, i>>
      BY <3>1
    <3>2. i \in 1 .. v[x]
      <4>1. w[x] \in Nat
        OBVIOUS
      <4> QED
        BY <4>1
    <3> QED
      BY <1>3, <3>1i, <3>2
  <2>6. Of(v) = Of(w) \cup {t}
    BY <2>2, <2>4, <2>5
  <2>7. Cardinality(Of(v)) = Cardinality(Of(w)) + 1
    <3> HIDE DEF t
    <3> QED
      BY <1>1, <2>3, <2>6, FS_AddElement
  <2> QED
    BY <1>1, <1>4, <2>7 DEF Weight, Of
<1>5. CASE k \notin S
  <2>1. ASSUME NEW p \in Of(v) PROVE p \in Of(w)
    <3>1. PICK x \in S \cap (D \cup {k}) : \E i \in 1 .. v[x] : p = <<x, i>>
      BY <1>3, <2>1
    <3>1i. PICK i \in 1 .. v[x] : p = <<x, i>>
      BY <3>1
    <3>2. x \in S \cap D /\ v[x] = w[x]
      BY <3>1i, <1>5
    <3> QED
      BY <1>2, <3>1i, <3>2
  <2>2. ASSUME NEW p \in Of(w) PROVE p \in Of(v)
    <3>1. PICK x \in S \cap D : \E i \in 1 .. w[x] : p = <<x, i>>
      BY <1>2, <2>2
    <3>1i. PICK i \in 1 .. w[x] : p = <<x, i>>
      BY <3>1
    <3>2. v[x] = w[x] /\ x \in S \cap (D \cup {k})
      BY <1>5
    <3> QED
      BY <1>3, <3>1i, <3>2
  <2>3. Of(v) = Of(w)
    BY <2>1, <2>2
  <2> QED
    BY <1>1, <1>5, <2>3 DEF Weight, Of
<1> QED
  BY <1>4, <1>5

\* The weights of disjoint sets add up.
LEMMA WeightUnion ==
  ASSUME NEW D, IsFiniteSet(D), NEW w \in [D -> Nat], NEW S, NEW T, S \cap T = {}
  PROVE  Weight(w, S \cup T) = Weight(w, S) + Weight(w, T)
<1> DEFINE s == UNION {{x} \X (1 .. w[x]) : x \in S \cap DOMAIN w}
           t == UNION {{x} \X (1 .. w[x]) : x \in T \cap DOMAIN w}
           u == UNION {{x} \X (1 .. w[x]) : x \in (S \cup T) \cap DOMAIN w}
<1>1. IsFiniteSet(s) /\ IsFiniteSet(t)
  BY WeightType
<1>2. Weight(w, S) = Cardinality(s) /\ Weight(w, T) = Cardinality(t) /\ Weight(w, S \cup T) = Cardinality(u)
  BY DEF Weight
<1>3. u = s \cup t /\ s \cap t = {}
  OBVIOUS
<1> HIDE DEF s, t, u
<1>4. Cardinality(s \cap t) = 0
  BY <1>3, FS_EmptySet
<1>5. Cardinality(s) \in Nat /\ Cardinality(t) \in Nat
  BY <1>1, FS_CardinalityType
<1>6. Cardinality(s \cup t) = Cardinality(s) + Cardinality(t) - Cardinality(s \cap t)
  BY <1>1, FS_Union
<1> QED
  BY <1>2, <1>3, <1>4, <1>5, <1>6

\* What has no member there weighs nothing; what has one weighs something.
LEMMA WeightNone ==
  ASSUME NEW w, NEW S, S \cap DOMAIN w = {}
  PROVE  Weight(w, S) = 0
<1>1. UNION {{x} \X (1 .. w[x]) : x \in S \cap DOMAIN w} = {}
  OBVIOUS
<1> QED
  BY <1>1, FS_EmptySet DEF Weight

\* Where every member weighs something, only the empty set weighs nothing.
LEMMA WeightZero ==
  ASSUME NEW D, IsFiniteSet(D), NEW w \in [D -> Nat \ {0}], NEW S
  PROVE  Weight(w, S) = 0 <=> S \cap D = {}
<1> DEFINE s == UNION {{x} \X (1 .. w[x]) : x \in S \cap DOMAIN w}
<1>1. w \in [D -> Nat]
  OBVIOUS
<1>2. IsFiniteSet(s) /\ Weight(w, S) = Cardinality(s)
  BY <1>1, WeightType DEF Weight
<1>3. s = {} <=> S \cap D = {}
  <2>1. ASSUME NEW x \in S \cap D PROVE <<x, 1>> \in s
    <3>1. w[x] \in Nat \ {0}
      OBVIOUS
    <3>2. 1 \in 1 .. w[x]
      BY <3>1
    <3> QED
      BY <3>2
  <2>2. S \cap D = {} => s = {}
    OBVIOUS
  <2> HIDE DEF s
  <2> QED
    BY <2>1, <2>2
<1> HIDE DEF s
<1>4. Cardinality(s) = 0 <=> s = {}
  BY <1>2, FS_EmptySet
<1> QED
  BY <1>2, <1>3, <1>4

\* A set that weighs at most one has at most one member.
LEMMA WeightOne ==
  ASSUME NEW D, IsFiniteSet(D), NEW w \in [D -> Nat \ {0}], NEW S, Weight(w, S) <= 1,
         NEW c \in S \cap D, NEW d \in S \cap D
  PROVE  c = d
<1> SUFFICES ASSUME c # d PROVE FALSE
  OBVIOUS
<1>1. w \in [D -> Nat]
  OBVIOUS
<1>2. {c} \cap (S \ {c}) = {} /\ S = {c} \cup (S \ {c})
  OBVIOUS
<1>3. Weight(w, S) = Weight(w, {c}) + Weight(w, S \ {c})
  BY <1>1, <1>2, WeightUnion
<1>4. Weight(w, {c}) # 0 /\ Weight(w, S \ {c}) # 0
  BY WeightZero
<1>5. Weight(w, {c}) \in Nat /\ Weight(w, S \ {c}) \in Nat
  BY <1>1, WeightType
<1> QED
  BY <1>3, <1>4, <1>5

-----------------------------------------------------------------------------
(* Copies in a bag *)

IsBagOf(B, U) == DOMAIN B \in SUBSET U /\ IsFiniteSet(DOMAIN B) /\ B \in [DOMAIN B -> Nat \ {0}]

Take(B, c) == B (-) SetToBag({c})
Put(B, c)  == B (+) SetToBag({c})

\* A copy is put into the bag.
LEMMA PutFacts ==
  ASSUME NEW U, NEW B, IsBagOf(B, U), NEW c \in U
  PROVE  /\ IsBagOf(Put(B, c), U)
         /\ \A x : x \in DOMAIN Put(B, c) <=> x \in DOMAIN B \/ x = c
         /\ Put(B, c)[c] = (IF c \in DOMAIN B THEN B[c] ELSE 0) + 1
         /\ \A x \in DOMAIN B : x # c => Put(B, c)[x] = B[x]
         /\ \A S : Weight(Put(B, c), S) = Weight(B, S) + (IF c \in S THEN 1 ELSE 0)
<1> DEFINE V == Put(B, c)
<1>1. V = [e \in DOMAIN B \cup {c} |-> (IF e \in DOMAIN B THEN B[e] ELSE 0) + (IF e = c THEN 1 ELSE 0)]
  BY DEF Put, SetToBag, (+)
<1>2. \A e \in DOMAIN B : B[e] \in Nat \ {0}
  BY DEF IsBagOf
<1>3. /\ DOMAIN V = DOMAIN B \cup {c}
      /\ V[c] = (IF c \in DOMAIN B THEN B[c] ELSE 0) + 1
      /\ \A x \in DOMAIN B : x # c => V[x] = B[x]
  BY <1>1, <1>2
<1>4. V \in [DOMAIN B \cup {c} -> Nat \ {0}]
  BY <1>1, <1>2
<1> HIDE DEF V
<1>5. IsFiniteSet(DOMAIN B \cup {c})
  BY FS_AddElement DEF IsBagOf
<1>6. IsBagOf(V, U)
  BY <1>3, <1>4, <1>5 DEF IsBagOf
<1>7. \A S : Weight(V, S) = Weight(B, S) + (IF c \in S THEN 1 ELSE 0)
  <2>1. B \in [DOMAIN B -> Nat] /\ V \in [DOMAIN B \cup {c} -> Nat] /\ IsFiniteSet(DOMAIN B)
    BY <1>2, <1>4 DEF IsBagOf
  <2> QED
    BY <1>3, <2>1, WeightUp
<1> QED
  BY <1>3, <1>6, <1>7 DEF V

\* A copy is taken out of it.
LEMMA TakeFacts ==
  ASSUME NEW U, NEW B, IsBagOf(B, U), NEW c \in DOMAIN B
  PROVE  /\ IsBagOf(Take(B, c), U)
         /\ \A x : x \in DOMAIN Take(B, c) <=> x \in DOMAIN B /\ (x = c => B[c] > 1)
         /\ \A x \in DOMAIN B : x # c => Take(B, c)[x] = B[x]
         /\ \A S : Weight(Take(B, c), S) = Weight(B, S) - (IF c \in S THEN 1 ELSE 0)
<1> DEFINE V == Take(B, c)
           R == [e \in DOMAIN B |-> IF e = c THEN B[e] - 1 ELSE B[e]]
<1>1. \A e \in DOMAIN B : B[e] \in Nat \ {0}
  BY DEF IsBagOf
<1>2. V = [e \in {d \in DOMAIN R : R[d] > 0} |-> R[e]]
  BY DEF Take, SetToBag, (-)
<1>3. DOMAIN V = {d \in DOMAIN B : d = c => B[c] > 1}
  BY <1>1, <1>2
<1>4. \A x \in DOMAIN V : V[x] = IF x = c THEN B[x] - 1 ELSE B[x]
  BY <1>2, <1>3
<1>5. DOMAIN V \in SUBSET DOMAIN B /\ V \in [DOMAIN V -> Nat \ {0}]
  <2>1. \A x \in DOMAIN V : V[x] \in Nat \ {0}
    BY <1>1, <1>3, <1>4
  <2>2. V = [x \in DOMAIN V |-> V[x]]
    BY <1>2
  <2> QED
    BY <1>3, <2>1, <2>2
<1> HIDE DEF V, R
<1>6. IsFiniteSet(DOMAIN V)
  BY <1>5, FS_Subset DEF IsBagOf
<1>7. IsBagOf(V, U)
  BY <1>5, <1>6 DEF IsBagOf
<1>8. \A S : Weight(B, S) = Weight(V, S) + (IF c \in S THEN 1 ELSE 0) /\ Weight(V, S) \in Nat
  <2>1. /\ B \in [DOMAIN B -> Nat] /\ V \in [DOMAIN V -> Nat]
    BY <1>1, <1>5 DEF IsBagOf
  <2>2. DOMAIN B = DOMAIN V \cup {c}
    BY <1>3
  <2>3. B[c] = (IF c \in DOMAIN V THEN V[c] ELSE 0) + 1
    BY <1>1, <1>3, <1>4
  <2>4. \A x \in DOMAIN V : x # c => B[x] = V[x]
    BY <1>4
  <2>5. ASSUME NEW S PROVE Weight(B, S) = Weight(V, S) + (IF c \in S THEN 1 ELSE 0) /\ Weight(V, S) \in Nat
    <3>1. B \in [DOMAIN V \cup {c} -> Nat]
      BY <2>1, <2>2
    <3>2. Weight(V, S) \in Nat
      BY <1>6, <2>1, WeightType
    <3>3. Weight(B, S) = Weight(V, S) + (IF c \in S THEN 1 ELSE 0)
      BY <1>6, <2>1, <2>3, <2>4, <3>1, WeightUp
    <3> QED
      BY <3>2, <3>3
  <2> QED
    BY <2>5
<1>9. \A S : Weight(V, S) = Weight(B, S) - (IF c \in S THEN 1 ELSE 0)
  BY <1>8
<1> QED
  BY <1>3, <1>4, <1>7, <1>9 DEF V

-----------------------------------------------------------------------------
(* What the hooks write down *)

Keys     == {Source} \X (Nat \ {0})
Flow     == [tx : Nat, route : Nat, ttl : Nat, queue : Nat]
Counters == {"hopTx", "hopRx", "acked", "macDrops", "reinjOfDelivered", "recovered",
             "adaptiveReinj", "adaptiveArpReinj", "pqEcb"}
Fields   == Counters \cup {"on", "rxSeq", "routePending", "routeRx", "reinj", "reinjSkip",
                           "fate", "pqPending", "flowMonitor"}

\* A map of records that count events.
IsTally(book) == \A k \in DOMAIN book : "events" \in DOMAIN book[k] /\ book[k].events \in Nat
Events(book)  == [k \in DOMAIN book |-> book[k].events]

IsLedger(b) ==
  /\ DOMAIN b = Fields
  /\ \A f \in Counters : b[f] \in Nat
  /\ b.rxSeq \in Seq(Keys)
  /\ IsTally(b.reinj) /\ IsTally(b.reinjSkip)
  /\ b.flowMonitor \in Flow

\* The books a differ from the books b in the fields F at most.
Same(a, b, F) == \A f \in Fields \ F : a[f] = b[f]

\* The fate of a packet that IP drops for a reason.
FateOf(reason) == IF reason = "route" THEN "Route" ELSE "Ttl"

\* One more drop for this reason.
OneDrop(a, b, reason) ==
  /\ a.flowMonitor.tx = b.flowMonitor.tx /\ a.flowMonitor.queue = b.flowMonitor.queue
  /\ reason = "route" => a.flowMonitor.route = b.flowMonitor.route + 1 /\ a.flowMonitor.ttl = b.flowMonitor.ttl
  /\ reason = "ttl" => a.flowMonitor.ttl = b.flowMonitor.ttl + 1 /\ a.flowMonitor.route = b.flowMonitor.route

\* A packet waiting at its source was given up.
Untracked(a, b, k) ==
  IF "pendingQueue" \in b.on /\ k \in b.pqPending
  THEN a.pqPending = b.pqPending \ {k} /\ a.pqEcb = b.pqEcb + 1
  ELSE a.pqPending = b.pqPending /\ a.pqEcb = b.pqEcb

\* a says where the packet k is, if the books ask for it.
Marks(a, b, k, f) ==
  /\ "fate" \notin b.on => a.fate = b.fate
  /\ "fate" \in b.on => /\ DOMAIN a.fate = DOMAIN b.fate \cup {k}
                        /\ a.fate[k].last = f
                        /\ \A x \in DOMAIN b.fate : x # k => a.fate[x] = b.fate[x]

\* The mark is one to all books with the same fates.
LEMMA MarksAgain ==
  ASSUME NEW a, NEW d, NEW b, NEW k, NEW f, Marks(a, d, k, f),
         NEW F, Same(d, b, F), "fate" \notin F, "on" \notin F
  PROVE  Marks(a, b, k, f)
<1>1. d.fate = b.fate /\ d.on = b.on
  BY DEF Same, Fields
<1> QED
  BY <1>1 DEF Marks

\* A mark says where the packet is and touches nothing else.
LEMMA FateMarkIs ==
  ASSUME NEW b, IsLedger(b), NEW k, NEW f
  PROVE  /\ IsLedger(FateMark(b, k, f))
         /\ Same(FateMark(b, k, f), b, {"fate"})
         /\ Marks(FateMark(b, k, f), b, k, f)
BY DEF FateMark, IsLedger, Same, Marks, Fields, Counters, Set

\* A recovered packet is marked as being at its node.
LEMMA FateRecoveredIs ==
  ASSUME NEW b, IsLedger(b), NEW k
  PROVE  /\ IsLedger(FateRecovered(b, k))
         /\ Same(FateRecovered(b, k), b, {"fate", "recovered"})
         /\ Marks(FateRecovered(b, k), b, k, "AtNode")
<1>1. CASE "fate" \notin b.on
  BY <1>1 DEF FateRecovered, Same, Marks
<1>2. CASE "fate" \in b.on
  <2> DEFINE m == Set(b.fate, k, [last |-> "AtNode", recovered |-> Lookup(b.fate, k, [recovered |-> 0]).recovered + 1])
             u == [b EXCEPT !.fate = m]
             a == [u EXCEPT !.recovered = b.recovered + 1]
  <2>1. FateRecovered(b, k) = a
    BY <1>2 DEF FateRecovered
  <2>2. DOMAIN m = DOMAIN b.fate \cup {k} /\ m[k].last = "AtNode" /\ \A x \in DOMAIN b.fate : x # k => m[x] = b.fate[x]
    BY DEF Set
  <2> HIDE DEF m
  <2>3. IsLedger(u) /\ Same(u, b, {"fate"}) /\ u.fate = m
    BY DEF IsLedger, Same, Fields, Counters
  <2>4. b.recovered + 1 \in Nat
    BY DEF IsLedger, Counters
  <2> HIDE DEF u
  <2>5. IsLedger(a) /\ Same(a, u, {"recovered"})
    BY <2>3, <2>4 DEF IsLedger, Same, Fields, Counters
  <2> HIDE DEF a
  <2>6. Same(a, b, {"fate", "recovered"}) /\ a.fate = m
    BY <2>3, <2>5 DEF Same, Fields
  <2> QED
    BY <1>2, <2>1, <2>2, <2>5, <2>6 DEF Marks
<1> QED
  BY <1>1, <1>2

\* A hop after a re-injection is no new event.
LEMMA PostHopIs ==
  ASSUME NEW r, IsTally(r), NEW k, NEW field, field # "events"
  PROVE  IsTally(PostHop(r, k, field)) /\ Events(PostHop(r, k, field)) = Events(r)
<1> DEFINE p == PostHop(r, k, field)
<1>1. DOMAIN p = DOMAIN r
  BY DEF PostHop
<1>2. ASSUME NEW x \in DOMAIN r PROVE DOMAIN p[x] = DOMAIN r[x] /\ p[x].events = r[x].events
  <2>1. "events" \in DOMAIN r[x]
    BY DEF IsTally
  <2> QED
    BY <2>1 DEF PostHop
<1> HIDE DEF p
<1>3. IsTally(p)
  BY <1>1, <1>2 DEF IsTally
<1>4. Events(p) = Events(r)
  BY <1>1, <1>2 DEF Events
<1> QED
  BY <1>3, <1>4 DEF p

\* An application sends a packet.
LEMMA SendIs ==
  ASSUME NEW b, IsLedger(b), NEW k
  PROVE  LET a == CountFateSend(b, k)
         IN /\ IsLedger(a)
            /\ Same(a, b, {"fate", "flowMonitor"})
            /\ Marks(a, b, k, "AtNode")
            /\ a.flowMonitor = [b.flowMonitor EXCEPT !.tx = @ + 1]
<1> DEFINE d == [b EXCEPT !.flowMonitor.tx = @ + 1]
           a == FateMark(d, k, "AtNode")
<1>1. IsLedger(d) /\ Same(d, b, {"flowMonitor"}) /\ d.flowMonitor = [b.flowMonitor EXCEPT !.tx = @ + 1]
  <2> DEFINE m == [b.flowMonitor EXCEPT !.tx = @ + 1]
  <2>1. m \in Flow
    BY DEF IsLedger, Flow
  <2>2. d = [b EXCEPT !.flowMonitor = m]
    OBVIOUS
  <2> HIDE DEF m, d
  <2>3. IsLedger(d) /\ Same(d, b, {"flowMonitor"}) /\ d.flowMonitor = m
    BY <2>1, <2>2 DEF IsLedger, Same, Fields, Counters
  <2> QED
    BY <2>3 DEF m
<1> HIDE DEF d
<1>2. IsLedger(a) /\ Same(a, d, {"fate"}) /\ Marks(a, d, k, "AtNode")
  BY <1>1, FateMarkIs
<1>3. a = CountFateSend(b, k)
  BY DEF CountFateSend, d
<1> HIDE DEF a
<1> QED
  BY <1>1, <1>2, <1>3 DEF Same, Marks, Fields

\* A packet is handed to an interface.
LEMMA HopTxIs ==
  ASSUME NEW b, IsLedger(b), NEW k, NEW n
  PROVE  LET a == CountDataHopTx(b, k, n)
         IN /\ IsLedger(a)
            /\ Same(a, b, {"hopTx", "routePending", "reinj", "fate"})
            /\ a.hopTx = b.hopTx + 1
            /\ a.routePending = Set(b.routePending, k, Append(Lookup(b.routePending, k, <<>>), n))
            /\ Events(a.reinj) = Events(b.reinj)
            /\ Marks(a, b, k, "Tx")
<1> DEFINE p == Set(b.routePending, k, Append(Lookup(b.routePending, k, <<>>), n))
           r == PostHop(b.reinj, k, "postTx")
           u == [b EXCEPT !.hopTx = b.hopTx + 1]
           v == [u EXCEPT !.routePending = p]
           w == [v EXCEPT !.reinj = r]
           a == FateMark(w, k, "Tx")
<1>1. CountDataHopTx(b, k, n) = a
  BY DEF CountDataHopTx
<1>2. IsTally(r) /\ Events(r) = Events(b.reinj)
  BY PostHopIs DEF IsLedger
<1> HIDE DEF p, r
<1>3. IsLedger(u) /\ Same(u, b, {"hopTx"}) /\ u.hopTx = b.hopTx + 1
  BY DEF IsLedger, Same, Fields, Counters
<1> HIDE DEF u
<1>4. IsLedger(v) /\ Same(v, u, {"routePending"}) /\ v.routePending = p
  BY <1>3 DEF IsLedger, Same, Fields, Counters
<1> HIDE DEF v
<1>5. IsLedger(w) /\ Same(w, v, {"reinj"}) /\ w.reinj = r
  BY <1>2, <1>4 DEF IsLedger, Same, Fields, Counters
<1> HIDE DEF w
<1>6. IsLedger(a) /\ Same(a, w, {"fate"}) /\ Marks(a, w, k, "Tx")
  BY <1>5, FateMarkIs
<1> HIDE DEF a
<1>7. Same(w, b, {"hopTx", "routePending", "reinj"}) /\ w.hopTx = b.hopTx + 1 /\ w.routePending = p
  BY <1>3, <1>4, <1>5 DEF Same, Fields, Counters
<1>8. Same(a, b, {"hopTx", "routePending", "reinj", "fate"}) /\ a.hopTx = w.hopTx /\ a.routePending = p /\ a.reinj = r
  BY <1>5, <1>6, <1>7 DEF Same, Fields, Counters
<1>9. Marks(a, b, k, "Tx")
  BY <1>6, <1>7, MarksAgain
<1> QED
  BY <1>1, <1>2, <1>6, <1>7, <1>8, <1>9 DEF p

\* A packet is received.
LEMMA HopRxIs ==
  ASSUME NEW b, IsLedger(b), NEW k
  PROVE  LET a == CountDataHopRx(b, k)
         IN /\ IsLedger(a)
            /\ Same(a, b, {"hopRx", "reinj", "fate"})
            /\ a.hopRx = b.hopRx + 1
            /\ Events(a.reinj) = Events(b.reinj)
            /\ Marks(a, b, k, "AtNode")
<1> DEFINE r == PostHop(b.reinj, k, "postRx")
           u == [b EXCEPT !.hopRx = b.hopRx + 1]
           w == [u EXCEPT !.reinj = r]
           a == FateMark(w, k, "AtNode")
<1>1. CountDataHopRx(b, k) = a
  BY DEF CountDataHopRx
<1>2. IsTally(r) /\ Events(r) = Events(b.reinj)
  BY PostHopIs DEF IsLedger
<1> HIDE DEF r
<1>3. IsLedger(u) /\ Same(u, b, {"hopRx"}) /\ u.hopRx = b.hopRx + 1
  BY DEF IsLedger, Same, Fields, Counters
<1> HIDE DEF u
<1>4. IsLedger(w) /\ Same(w, u, {"reinj"}) /\ w.reinj = r
  BY <1>2, <1>3 DEF IsLedger, Same, Fields, Counters
<1> HIDE DEF w
<1>5. IsLedger(a) /\ Same(a, w, {"fate"}) /\ Marks(a, w, k, "AtNode")
  BY <1>4, FateMarkIs
<1> HIDE DEF a
<1>6. Same(w, b, {"hopRx", "reinj"}) /\ w.hopRx = b.hopRx + 1
  BY <1>3, <1>4 DEF Same, Fields, Counters
<1>7. Same(a, b, {"hopRx", "reinj", "fate"}) /\ a.hopRx = w.hopRx /\ a.reinj = r
  BY <1>4, <1>5, <1>6 DEF Same, Fields, Counters
<1>8. Marks(a, b, k, "AtNode")
  BY <1>5, <1>6, MarksAgain
<1> QED
  BY <1>1, <1>2, <1>5, <1>6, <1>7, <1>8

\* The network layer drops a packet.
LEMMA L3DropIs ==
  ASSUME NEW b, IsLedger(b), NEW k, NEW reason \in {"route", "ttl"}
  PROVE  LET a == L3Drop(b, k, reason)
         IN /\ IsLedger(a)
            /\ Same(a, b, {"reinj", "fate", "pqPending", "pqEcb", "flowMonitor"})
            /\ OneDrop(a, b, reason)
            /\ Events(a.reinj) = Events(b.reinj)
            /\ Marks(a, b, k, FateOf(reason))
            /\ Untracked(a, b, k)
<1> DEFINE u == [b EXCEPT !.flowMonitor[reason] = @ + 1]
           r == PostHop(u.reinj, k, IF reason = "route" THEN "l3DropRoute" ELSE "l3DropTtl")
           v == [u EXCEPT !.reinj = r]
           f == FateOf(reason)
           w == FateMark(v, k, f)
           a == PqTrackDrop(w, k)
<1>1. L3Drop(b, k, reason) = a
  BY DEF L3Drop, CountFateL3Drop, CountReinjL3Drop, FateOf
<1>2. IsLedger(u) /\ Same(u, b, {"flowMonitor"}) /\ u.flowMonitor = [b.flowMonitor EXCEPT ![reason] = @ + 1]
  <2> DEFINE m == [b.flowMonitor EXCEPT ![reason] = @ + 1]
  <2>1. m \in Flow
    BY DEF IsLedger, Flow
  <2>2. u = [b EXCEPT !.flowMonitor = m]
    OBVIOUS
  <2> HIDE DEF m, u
  <2>3. IsLedger(u) /\ Same(u, b, {"flowMonitor"}) /\ u.flowMonitor = m
    BY <2>1, <2>2 DEF IsLedger, Same, Fields, Counters
  <2> QED
    BY <2>3 DEF m
<1> HIDE DEF u
<1>3. IsTally(r) /\ Events(r) = Events(u.reinj)
  BY <1>2, PostHopIs DEF IsLedger
<1> HIDE DEF r
<1>4. IsLedger(v) /\ Same(v, u, {"reinj"}) /\ v.reinj = r
  BY <1>2, <1>3 DEF IsLedger, Same, Fields, Counters
<1> HIDE DEF v
<1>5. IsLedger(w) /\ Same(w, v, {"fate"}) /\ Marks(w, v, k, f)
  BY <1>4, FateMarkIs
<1> HIDE DEF w
<1>6. /\ IsLedger(a) /\ Same(a, w, {"pqPending", "pqEcb"})
      /\ Untracked(a, w, k)
  <2>1. CASE "pendingQueue" \in w.on /\ k \in w.pqPending
    <3> DEFINE x == [w EXCEPT !.pqPending = w.pqPending \ {k}]
               y == [x EXCEPT !.pqEcb = w.pqEcb + 1]
    <3>1. IsLedger(x) /\ Same(x, w, {"pqPending"}) /\ x.pqPending = w.pqPending \ {k}
      BY <1>5 DEF IsLedger, Same, Fields, Counters
    <3>2. w.pqEcb + 1 \in Nat
      <4>1. w.pqEcb \in Nat
        BY <1>5 DEF IsLedger, Counters
      <4> QED
        BY <4>1
    <3> HIDE DEF x
    <3>3. IsLedger(y) /\ Same(y, x, {"pqEcb"}) /\ y.pqEcb = w.pqEcb + 1
      BY <3>1, <3>2 DEF IsLedger, Same, Fields, Counters
    <3>4. a = y
      BY <2>1 DEF PqTrackDrop, x
    <3> HIDE DEF y, a
    <3>5. Same(y, w, {"pqPending", "pqEcb"}) /\ y.pqPending = w.pqPending \ {k}
      BY <3>1, <3>3 DEF Same, Fields
    <3> QED
      BY <2>1, <3>3, <3>4, <3>5 DEF Untracked
  <2>2. CASE ~("pendingQueue" \in w.on /\ k \in w.pqPending)
    <3>1. a = w
      BY <2>2 DEF PqTrackDrop
    <3> QED
      BY <1>5, <2>2, <3>1 DEF Same, Untracked
  <2> QED
    BY <2>1, <2>2
<1> HIDE DEF a
<1>7. Same(w, b, {"reinj", "fate", "flowMonitor"}) /\ w.flowMonitor = u.flowMonitor /\ w.reinj = r
  BY <1>2, <1>4, <1>5 DEF Same, Fields
<1>8. Same(a, b, {"reinj", "fate", "pqPending", "pqEcb", "flowMonitor"}) /\ a.flowMonitor = u.flowMonitor /\ a.reinj = r
  BY <1>6, <1>7 DEF Same, Fields
<1>d. OneDrop(a, b, reason)
  <2>1. b.flowMonitor \in Flow
    BY DEF IsLedger
  <2> QED
    BY <1>2, <1>8, <2>1 DEF OneDrop, Flow
<1>9. Events(a.reinj) = Events(b.reinj)
  BY <1>2, <1>3, <1>8 DEF Same, Fields
<1>10. Marks(a, b, k, f)
  BY <1>2, <1>4, <1>5, <1>6 DEF Same, Marks, Fields
<1>11. w.on = b.on /\ w.pqPending = b.pqPending /\ w.pqEcb = b.pqEcb
  BY <1>7 DEF Same, Fields, Counters
<1>12. Untracked(a, b, k)
  BY <1>6, <1>11 DEF Untracked
<1>13. IsLedger(a) /\ Same(a, b, {"reinj", "fate", "pqPending", "pqEcb", "flowMonitor"})
  BY <1>6, <1>8
<1> QED
  BY <1>1, <1>d, <1>9, <1>10, <1>12, <1>13

\* The pending queue is told of a packet on its way down: into loopback, or to an interface.
LEMMA TrackIs ==
  ASSUME NEW b, IsLedger(b), NEW k
  PROVE  LET a == PqTrackTx(b, k, TRUE)
             e == PqTrackTx(b, k, FALSE)
         IN /\ IsLedger(a) /\ IsLedger(e)
            /\ Same(a, b, {"pqPending"}) /\ Same(e, b, {"pqPending"})
            /\ a.pqPending = IF "pendingQueue" \in b.on THEN b.pqPending \cup {k} ELSE b.pqPending
            /\ e.pqPending = IF "pendingQueue" \in b.on THEN b.pqPending \ {k} ELSE b.pqPending
BY DEF PqTrackTx, IsLedger, Same, Fields, Counters

\* The sink gets a packet.
LEMMA DeliverIs ==
  ASSUME NEW b, IsLedger(b), NEW k \in Keys
  PROVE  LET a == Deliver(b, k)
         IN /\ IsLedger(a)
            /\ Same(a, b, {"rxSeq", "routePending", "routeRx"})
            /\ a.rxSeq = Append(b.rxSeq, k)
            /\ a.routePending = Without(b.routePending, k)
            /\ a.routeRx = IF k \in DOMAIN b.routePending /\ k \notin DOMAIN b.routeRx
                           THEN Set(b.routeRx, k, b.routePending[k]) ELSE b.routeRx
<1> DEFINE x == IF k \in DOMAIN b.routePending /\ k \notin DOMAIN b.routeRx
                THEN Set(b.routeRx, k, b.routePending[k]) ELSE b.routeRx
           p == Without(b.routePending, k)
           u == [b EXCEPT !.routeRx = x]
           d == [u EXCEPT !.routePending = p]
           s == Append(d.rxSeq, k)
           a == [d EXCEPT !.rxSeq = s]
<1>1. Deliver(b, k) = a
  BY DEF Deliver, RecordRxSeq, CountDeliveredHops
<1> HIDE DEF x, p
<1>2. IsLedger(u) /\ Same(u, b, {"routeRx"}) /\ u.routeRx = x
  BY DEF IsLedger, Same, Fields, Counters
<1> HIDE DEF u
<1>3. IsLedger(d) /\ Same(d, u, {"routePending"}) /\ d.routePending = p
  BY <1>2 DEF IsLedger, Same, Fields, Counters
<1> HIDE DEF d
<1>4. s \in Seq(Keys) /\ s = Append(b.rxSeq, k)
  <2>1. d.rxSeq = b.rxSeq
    BY <1>2, <1>3 DEF Same, Fields
  <2> QED
    BY <2>1 DEF IsLedger
<1> HIDE DEF s
<1>5. IsLedger(a) /\ Same(a, d, {"rxSeq"}) /\ a.rxSeq = s
  BY <1>3, <1>4 DEF IsLedger, Same, Fields, Counters
<1> HIDE DEF a
<1>6. Same(a, b, {"rxSeq", "routePending", "routeRx"}) /\ a.routePending = p /\ a.routeRx = x
  BY <1>2, <1>3, <1>5 DEF Same, Fields
<1> QED
  BY <1>1, <1>4, <1>5, <1>6 DEF x, p

\* The MAC gives a frame up.
LEMMA MacDropIs ==
  ASSUME NEW b, IsLedger(b), NEW k
  PROVE  LET a == CountMacDataDrop(b, k)
         IN /\ IsLedger(a)
            /\ Same(a, b, {"macDrops", "fate"})
            /\ a.macDrops = b.macDrops + 1
            /\ Marks(a, b, k, "Mac")
<1> DEFINE u == [b EXCEPT !.macDrops = b.macDrops + 1]
           a == FateMark(u, k, "Mac")
<1>1. CountMacDataDrop(b, k) = a
  BY DEF CountMacDataDrop
<1>2. IsLedger(u) /\ Same(u, b, {"macDrops"}) /\ u.macDrops = b.macDrops + 1
  BY DEF IsLedger, Same, Fields, Counters
<1> HIDE DEF u
<1>3. IsLedger(a) /\ Same(a, u, {"fate"}) /\ Marks(a, u, k, "Mac")
  BY <1>2, FateMarkIs
<1> HIDE DEF a
<1>4. Same(a, b, {"macDrops", "fate"}) /\ a.macDrops = u.macDrops
  BY <1>2, <1>3 DEF Same, Fields, Counters
<1>5. Marks(a, b, k, "Mac")
  BY <1>2, <1>3, MarksAgain
<1> QED
  BY <1>1, <1>2, <1>3, <1>4, <1>5

\* A frame is acknowledged.
LEMMA AckedIs ==
  ASSUME NEW b, IsLedger(b), NEW k
  PROVE  LET a == CountAckedDataHop(b, k)
         IN IsLedger(a) /\ Same(a, b, {"acked"}) /\ a.acked = b.acked + 1
BY DEF CountAckedDataHop, IsLedger, Same, Fields, Counters

\* One more event.
OneMore(e, entry) ==
  DOMAIN e = DOMAIN entry /\ e.events = entry.events + 1 /\ \A f \in DOMAIN entry : f # "events" => e[f] = entry[f]

\* One more event in a tally.
LEMMA TallyUp ==
  ASSUME NEW r, IsTally(r), NEW k, NEW fresh, "events" \in DOMAIN fresh, fresh.events = 0,
         NEW e, OneMore(e, Lookup(r, k, fresh))
  PROVE  /\ IsTally(Set(r, k, e))
         /\ \A x : x \in DOMAIN Set(r, k, e) <=> x \in DOMAIN r \/ x = k
         /\ Events(Set(r, k, e))[k] = (IF k \in DOMAIN r THEN Events(r)[k] ELSE 0) + 1
         /\ \A x \in DOMAIN r : x # k => Set(r, k, e)[x] = r[x] /\ Events(Set(r, k, e))[x] = Events(r)[x]
         /\ \A f \in DOMAIN Lookup(r, k, fresh) :
              f \in DOMAIN Set(r, k, e)[k] /\ (f # "events" => Set(r, k, e)[k][f] = Lookup(r, k, fresh)[f])
<1> DEFINE entry == Lookup(r, k, fresh)
           m == Set(r, k, e)
<1>1. "events" \in DOMAIN entry /\ entry.events = (IF k \in DOMAIN r THEN r[k].events ELSE 0) /\ entry.events \in Nat
  BY DEF Lookup, IsTally
<1>2. DOMAIN e = DOMAIN entry /\ e.events = entry.events + 1 /\ \A f \in DOMAIN entry : f # "events" => e[f] = entry[f]
  BY <1>1 DEF OneMore
<1> HIDE DEF entry
<1>3. DOMAIN m = DOMAIN r \cup {k} /\ m[k] = e /\ \A x \in DOMAIN r : x # k => m[x] = r[x]
  BY DEF Set
<1> HIDE DEF m
<1>4. IsTally(m)
  <2> SUFFICES ASSUME NEW x \in DOMAIN m PROVE "events" \in DOMAIN m[x] /\ m[x].events \in Nat
    BY DEF IsTally
  <2>1. CASE x = k
    BY <1>1, <1>2, <1>3, <2>1
  <2>2. CASE x # k
    BY <1>3, <2>2 DEF IsTally
  <2> QED
    BY <2>1, <2>2
<1>5. Events(m)[k] = (IF k \in DOMAIN r THEN Events(r)[k] ELSE 0) + 1
  BY <1>1, <1>2, <1>3 DEF Events
<1>6. \A x \in DOMAIN r : x # k => Events(m)[x] = Events(r)[x]
  BY <1>3 DEF Events
<1> QED
  BY <1>2, <1>3, <1>4, <1>5, <1>6 DEF m, entry

\* The adapter puts the packet of such a frame back into its queue.
LEMMA ReinjectIs ==
  ASSUME NEW b, IsLedger(b), NEW k
  PROVE  LET a == CountMacReinject(b, k)
         IN /\ IsLedger(a)
            /\ Same(a, b, {"reinj", "reinjOfDelivered"})
            /\ \A x : x \in DOMAIN a.reinj <=> x \in DOMAIN b.reinj \/ x = k
            /\ Events(a.reinj)[k] = (IF k \in DOMAIN b.reinj THEN Events(b.reinj)[k] ELSE 0) + 1
            /\ \A x \in DOMAIN b.reinj : x # k => Events(a.reinj)[x] = Events(b.reinj)[x]
<1> DEFINE fresh == NewReinj(RxCount(b, k))
           entry == Lookup(b.reinj, k, fresh)
           e == [entry EXCEPT !.events = @ + 1]
           m == Set(b.reinj, k, e)
           n == b.reinjOfDelivered + (IF RxCount(b, k) > 0 THEN 1 ELSE 0)
           u == [b EXCEPT !.reinj = m]
           a == [u EXCEPT !.reinjOfDelivered = n]
<1>1. CountMacReinject(b, k) = a
  BY DEF CountMacReinject
<1>2. /\ IsTally(m) /\ \A x : x \in DOMAIN m <=> x \in DOMAIN b.reinj \/ x = k
      /\ Events(m)[k] = (IF k \in DOMAIN b.reinj THEN Events(b.reinj)[k] ELSE 0) + 1
      /\ \A x \in DOMAIN b.reinj : x # k => Events(m)[x] = Events(b.reinj)[x]
  <2>1. "events" \in DOMAIN fresh /\ fresh.events = 0
    BY DEF NewReinj
  <2>2. IsTally(b.reinj)
    BY DEF IsLedger
  <2>3. OneMore(e, Lookup(b.reinj, k, fresh))
    <3>1. "events" \in DOMAIN entry
      BY <2>1, <2>2 DEF IsTally, Lookup
    <3> HIDE DEF entry
    <3> QED
      BY <3>1 DEF OneMore, entry
  <2> HIDE DEF fresh, entry, e
  <2> QED
    BY <2>1, <2>2, <2>3, TallyUp
<1>3. n \in Nat
  <2>1. b.reinjOfDelivered \in Nat
    BY DEF IsLedger, Counters
  <2> QED
    BY <2>1
<1> HIDE DEF m, n
<1>4. IsLedger(u) /\ Same(u, b, {"reinj"}) /\ u.reinj = m
  BY <1>2 DEF IsLedger, Same, Fields, Counters
<1> HIDE DEF u
<1>5. IsLedger(a) /\ Same(a, u, {"reinjOfDelivered"})
  BY <1>3, <1>4 DEF IsLedger, Same, Fields, Counters
<1> HIDE DEF a
<1>6. Same(a, b, {"reinj", "reinjOfDelivered"}) /\ a.reinj = m
  BY <1>4, <1>5 DEF Same, Fields
<1> QED
  BY <1>1, <1>2, <1>5, <1>6

\* The cap on re-injections keeps it from doing so.
LEMMA SkipIs ==
  ASSUME NEW b, IsLedger(b), NEW k
  PROVE  LET a == CountMacReinjectSkip(b, k)
         IN /\ IsLedger(a)
            /\ Same(a, b, {"reinjSkip"})
            /\ \A x : x \in DOMAIN a.reinjSkip <=> x \in DOMAIN b.reinjSkip \/ x = k
            /\ Events(a.reinjSkip)[k] = (IF k \in DOMAIN b.reinjSkip THEN Events(b.reinjSkip)[k] ELSE 0) + 1
            /\ \A x \in DOMAIN b.reinjSkip : x # k =>
                 a.reinjSkip[x] = b.reinjSkip[x] /\ Events(a.reinjSkip)[x] = Events(b.reinjSkip)[x]
            /\ k \notin DOMAIN b.reinjSkip =>
                 "rxAtFirstSkip" \in DOMAIN a.reinjSkip[k] /\ a.reinjSkip[k].rxAtFirstSkip = RxCount(b, k)
            /\ k \in DOMAIN b.reinjSkip /\ "rxAtFirstSkip" \in DOMAIN b.reinjSkip[k] =>
                 "rxAtFirstSkip" \in DOMAIN a.reinjSkip[k] /\ a.reinjSkip[k].rxAtFirstSkip = b.reinjSkip[k].rxAtFirstSkip
<1> DEFINE fresh == [events |-> 0, rxAtFirstSkip |-> RxCount(b, k)]
           entry == Lookup(b.reinjSkip, k, fresh)
           e == [entry EXCEPT !.events = @ + 1]
           m == Set(b.reinjSkip, k, e)
           a == [b EXCEPT !.reinjSkip = m]
<1>1. CountMacReinjectSkip(b, k) = a
  BY DEF CountMacReinjectSkip
<1>2. "events" \in DOMAIN fresh /\ fresh.events = 0 /\ "rxAtFirstSkip" \in DOMAIN fresh /\ fresh.rxAtFirstSkip = RxCount(b, k)
  OBVIOUS
<1> HIDE DEF fresh
<1>3. /\ IsTally(m) /\ \A x : x \in DOMAIN m <=> x \in DOMAIN b.reinjSkip \/ x = k
      /\ Events(m)[k] = (IF k \in DOMAIN b.reinjSkip THEN Events(b.reinjSkip)[k] ELSE 0) + 1
      /\ \A x \in DOMAIN b.reinjSkip : x # k => m[x] = b.reinjSkip[x] /\ Events(m)[x] = Events(b.reinjSkip)[x]
      /\ \A f \in DOMAIN entry : f \in DOMAIN m[k] /\ (f # "events" => m[k][f] = entry[f])
  <2>1. IsTally(b.reinjSkip)
    BY DEF IsLedger
  <2>2. OneMore(e, Lookup(b.reinjSkip, k, fresh))
    <3>1. "events" \in DOMAIN entry
      BY <2>1, <1>2 DEF IsTally, Lookup
    <3> HIDE DEF entry
    <3> QED
      BY <3>1 DEF OneMore, entry
  <2> HIDE DEF e
  <2> QED
    BY <1>2, <2>1, <2>2, TallyUp
<1>4. k \notin DOMAIN b.reinjSkip => "rxAtFirstSkip" \in DOMAIN m[k] /\ m[k].rxAtFirstSkip = RxCount(b, k)
  BY <1>2, <1>3 DEF Lookup
<1>5. k \in DOMAIN b.reinjSkip /\ "rxAtFirstSkip" \in DOMAIN b.reinjSkip[k] =>
        "rxAtFirstSkip" \in DOMAIN m[k] /\ m[k].rxAtFirstSkip = b.reinjSkip[k].rxAtFirstSkip
  BY <1>3 DEF Lookup
<1> HIDE DEF m
<1>6. IsLedger(a) /\ Same(a, b, {"reinjSkip"}) /\ a.reinjSkip = m
  BY <1>3 DEF IsLedger, Same, Fields, Counters
<1> QED
  BY <1>1, <1>3, <1>4, <1>5, <1>6

\* An adaptive baseline takes the packet of a lost frame back.
LEMMA AdaptiveIs ==
  ASSUME NEW b, IsLedger(b), NEW k
  PROVE  LET a == CountAdaptiveReinject(b, k)
             e == CountAdaptiveArpReinject(b, k)
             F == {"adaptiveReinj", "adaptiveArpReinj", "fate", "recovered"}
         IN /\ IsLedger(a) /\ Same(a, b, F) /\ Marks(a, b, k, "AtNode")
            /\ IsLedger(e) /\ Same(e, b, F) /\ Marks(e, b, k, "AtNode")
<1> DEFINE u == [b EXCEPT !.adaptiveReinj = b.adaptiveReinj + 1]
           v == [b EXCEPT !.adaptiveArpReinj = b.adaptiveArpReinj + 1]
<1>1. CountAdaptiveReinject(b, k) = FateRecovered(u, k) /\ CountAdaptiveArpReinject(b, k) = FateRecovered(v, k)
  BY DEF CountAdaptiveReinject, CountAdaptiveArpReinject
<1>2. IsLedger(u) /\ Same(u, b, {"adaptiveReinj"})
  BY DEF IsLedger, Same, Fields, Counters
<1>3. IsLedger(v) /\ Same(v, b, {"adaptiveArpReinj"})
  BY DEF IsLedger, Same, Fields, Counters
<1> HIDE DEF u, v
<1>4. ASSUME NEW d, IsLedger(d), Same(d, b, {"adaptiveReinj", "adaptiveArpReinj"})
      PROVE  /\ IsLedger(FateRecovered(d, k)) /\ Marks(FateRecovered(d, k), b, k, "AtNode")
             /\ Same(FateRecovered(d, k), b, {"adaptiveReinj", "adaptiveArpReinj", "fate", "recovered"})
  <2>1. /\ IsLedger(FateRecovered(d, k)) /\ Same(FateRecovered(d, k), d, {"fate", "recovered"})
        /\ Marks(FateRecovered(d, k), d, k, "AtNode")
    BY <1>4, FateRecoveredIs
  <2>2. Marks(FateRecovered(d, k), b, k, "AtNode")
    BY <1>4, <2>1, MarksAgain
  <2>3. Same(FateRecovered(d, k), b, {"adaptiveReinj", "adaptiveArpReinj", "fate", "recovered"})
    BY <1>4, <2>1 DEF Same
  <2> QED
    BY <2>1, <2>2, <2>3
<1>5. Same(u, b, {"adaptiveReinj", "adaptiveArpReinj"}) /\ Same(v, b, {"adaptiveReinj", "adaptiveArpReinj"})
  BY <1>2, <1>3 DEF Same
<1> QED
  BY <1>1, <1>2, <1>3, <1>4, <1>5

\* A queue of a device drops, and OLSR refuses: FlowMonitor's counts alone.
LEMMA FlowMonitorIs ==
  ASSUME NEW b, IsLedger(b), NEW m \in Flow
  PROVE  LET a == [b EXCEPT !.flowMonitor = m]
         IN IsLedger(a) /\ Same(a, b, {"flowMonitor"}) /\ a.flowMonitor = m
BY DEF IsLedger, Same, Fields, Counters

\* A run starts.
LEMMA RunIs ==
  ASSUME NEW b, IsLedger(b) \/ b = NewBooks, NEW arm
  PROVE  RunOne(b, arm) = [NewBooks EXCEPT !.on = AskedBy(arm)]
<1>1. DOMAIN b = Fields /\ DOMAIN NewBooks = Fields
  BY DEF IsLedger, NewBooks, Fields, Counters
<1> DEFINE a == RunOne(b, arm)
           n == [NewBooks EXCEPT !.on = AskedBy(arm)]
<1>2. a = [x \in Fields |-> a[x]] /\ n = [x \in Fields |-> n[x]]
  BY <1>1 DEF RunOne
<1>3. ASSUME NEW x \in Fields PROVE a[x] = n[x]
  <2>1. a.on = n.on
    BY <1>1 DEF RunOne, Fields, Counters, NewBooks
  <2>2. a.hopTx = n.hopTx
    BY <1>1 DEF RunOne, Fields, Counters, NewBooks
  <2>3. a.hopRx = n.hopRx
    BY <1>1 DEF RunOne, Fields, Counters, NewBooks
  <2>4. a.acked = n.acked
    BY <1>1 DEF RunOne, Fields, Counters, NewBooks
  <2>5. a.macDrops = n.macDrops
    BY <1>1 DEF RunOne, Fields, Counters, NewBooks
  <2>6. a.rxSeq = n.rxSeq
    BY <1>1 DEF RunOne, Fields, Counters, NewBooks
  <2>7. a.routePending = n.routePending
    BY <1>1 DEF RunOne, Fields, Counters, NewBooks
  <2>8. a.routeRx = n.routeRx
    BY <1>1 DEF RunOne, Fields, Counters, NewBooks
  <2>9. a.reinj = n.reinj
    BY <1>1 DEF RunOne, Fields, Counters, NewBooks
  <2>10. a.reinjOfDelivered = n.reinjOfDelivered
    BY <1>1 DEF RunOne, Fields, Counters, NewBooks
  <2>11. a.reinjSkip = n.reinjSkip
    BY <1>1 DEF RunOne, Fields, Counters, NewBooks
  <2>12. a.fate = n.fate
    BY <1>1 DEF RunOne, Fields, Counters, NewBooks
  <2>13. a.recovered = n.recovered
    BY <1>1 DEF RunOne, Fields, Counters, NewBooks
  <2>14. a.adaptiveReinj = n.adaptiveReinj
    BY <1>1 DEF RunOne, Fields, Counters, NewBooks
  <2>15. a.adaptiveArpReinj = n.adaptiveArpReinj
    BY <1>1 DEF RunOne, Fields, Counters, NewBooks
  <2>16. a.pqPending = n.pqPending
    BY <1>1 DEF RunOne, Fields, Counters, NewBooks
  <2>17. a.pqEcb = n.pqEcb
    BY <1>1 DEF RunOne, Fields, Counters, NewBooks
  <2>18. a.flowMonitor = n.flowMonitor
    BY <1>1 DEF RunOne, Fields, Counters, NewBooks
  <2> QED
    BY <2>1, <2>2, <2>3, <2>4, <2>5, <2>6, <2>7, <2>8, <2>9, <2>10, <2>11, <2>12, <2>13, <2>14, <2>15, <2>16, <2>17, <2>18 DEF Fields, Counters
<1> HIDE DEF a, n
<1>4. a = n
  BY <1>2, <1>3
<1> QED
  BY <1>4 DEF a, n

-----------------------------------------------------------------------------
(* Reordering *)

\* The running maximum is reached, and by nothing before it exceeded.
LEMMA PrefixMaxIs ==
  ASSUME NEW arr \in Seq(Nat), NEW i \in 1 .. Len(arr)
  PROVE  /\ PrefixMax(arr)[i] \in Nat
         /\ \A j \in 1 .. i : arr[j] <= PrefixMax(arr)[i]
         /\ \E j \in 1 .. i : arr[j] = PrefixMax(arr)[i]
<1> DEFINE S == {arr[j] : j \in 1 .. i}
           f == [j \in 1 .. i |-> arr[j]]
<1>1. DOMAIN arr = 1 .. Len(arr) /\ Len(arr) \in Nat /\ i \in Nat
  OBVIOUS
<1>2. \A j \in 1 .. i : j \in 1 .. Len(arr) /\ arr[j] \in Nat
  BY <1>1
<1>3. S \in SUBSET Nat /\ arr[i] \in S
  BY <1>1, <1>2
<1>4. IsFiniteSet(S)
  <2>1. IsFiniteSet(1 .. i)
    BY <1>1, UptoIs
  <2>2. DOMAIN f = 1 .. i /\ S = {f[j] : j \in DOMAIN f}
    OBVIOUS
  <2> HIDE DEF f, S
  <2> QED
    BY <2>1, <2>2, RangeFinite
<1>5. PrefixMax(arr)[i] = Max(S)
  BY <1>1 DEF PrefixMax
<1>6. Max(S) \in S /\ \A y \in S : y <= Max(S)
  <2> HIDE DEF S
  <2> QED
    BY <1>3, <1>4, MaxIs
<1> QED
  BY <1>2, <1>5, <1>6

\* The next number expected is one above all that arrived before.
LEMMA NextExpIs ==
  ASSUME NEW arr \in Seq(Nat), NEW i \in 1 .. Len(arr)
  PROVE  NextExp(arr, i) = IF i = 1 THEN 0 ELSE PrefixMax(arr)[i - 1] + 1
<1> DEFINE n == Len(arr)
           M(j) == PrefixMax(arr)[j]
           g == [j \in 0 .. n |-> IF j = 0 THEN 0 ELSE M(j) + 1]
           Told(f) == [j \in 0 .. n |-> IF j = 0 THEN 0 ELSE IF arr[j] >= f[j - 1] THEN arr[j] + 1 ELSE f[j - 1]]
           h == CHOOSE f : f = Told(f)
<1>1. NextExp(arr, i) = h[i - 1]
  BY DEF NextExp
<1>2. n \in Nat /\ \A j \in 1 .. n : j \in Nat /\ arr[j] \in Nat /\ M(j) \in Nat
  BY PrefixMaxIs
<1>3. ASSUME NEW j \in 1 .. n PROVE g[j] = IF arr[j] >= g[j - 1] THEN arr[j] + 1 ELSE g[j - 1]
  <2>1. j \in Nat /\ j # 0 /\ j \in 0 .. n /\ j - 1 \in 0 .. n /\ g[j] = M(j) + 1
    BY <1>2
  <2>2. /\ \A k \in 1 .. j : arr[k] <= M(j)
        /\ \E k \in 1 .. j : arr[k] = M(j)
    BY PrefixMaxIs
  <2>3. CASE j = 1
    <3>1. g[j - 1] = 0 /\ M(j) = arr[j] /\ arr[j] \in Nat
      BY <1>2, <2>1, <2>2, <2>3
    <3> QED
      BY <2>1, <3>1
  <2>4. CASE j # 1
    <3>1. j - 1 \in 1 .. n /\ g[j - 1] = M(j - 1) + 1
      BY <1>2, <2>1, <2>4
    <3>2. /\ \A k \in 1 .. j - 1 : arr[k] <= M(j - 1)
          /\ \E k \in 1 .. j - 1 : arr[k] = M(j - 1)
      BY <3>1, PrefixMaxIs
    <3>3. M(j) \in Nat /\ M(j - 1) \in Nat /\ arr[j] \in Nat /\ \A k \in 1 .. j : arr[k] \in Nat /\ (k = j \/ k \in 1 .. j - 1)
      BY <1>2, <2>1, <3>1
    <3>4. CASE arr[j] >= M(j - 1) + 1
      <4>1. PICK k \in 1 .. j : arr[k] = M(j)
        BY <2>2
      <4>2. k \in 1 .. j - 1 => M(j) <= M(j - 1)
        BY <3>2, <4>1
      <4>3. arr[j] <= M(j)
        BY <2>1, <2>2
      <4>4. k = j
        BY <3>3, <3>4, <4>2, <4>3
      <4>5. M(j) = arr[j]
        BY <4>1, <4>4
      <4> QED
        BY <2>1, <3>1, <3>4, <4>5
    <3>5. CASE ~(arr[j] >= M(j - 1) + 1)
      <4>1. M(j) <= M(j - 1)
        <5>1. PICK k \in 1 .. j : arr[k] = M(j)
          BY <2>2
        <5>2. CASE k = j
          BY <3>3, <3>5, <5>1, <5>2
        <5>3. CASE k \in 1 .. j - 1
          BY <3>2, <3>3, <5>1, <5>3
        <5> QED
          BY <3>3, <5>2, <5>3
      <4>2. M(j - 1) <= M(j)
        <5>1. PICK k \in 1 .. j - 1 : arr[k] = M(j - 1)
          BY <3>2
        <5>2. k \in 1 .. j
          BY <2>1
        <5> QED
          BY <2>2, <5>1, <5>2
      <4>3. M(j) = M(j - 1)
        BY <3>3, <4>1, <4>2
      <4> QED
        BY <2>1, <3>1, <3>5, <4>3
    <3> QED
      BY <3>4, <3>5
  <2> QED
    BY <2>3, <2>4
<1>4. g = Told(g)
  <2>1. g[0] = 0 /\ \A j \in 0 .. n : j = 0 \/ j \in 1 .. n
    BY <1>2
  <2>2. DOMAIN g = 0 .. n /\ g = [j \in 0 .. n |-> g[j]]
    OBVIOUS
  <2> HIDE DEF g
  <2> QED
    BY <1>3, <2>1, <2>2
<1>5. h = Told(h)
  <2> HIDE DEF g, Told
  <2> QED
    BY <1>4
<1> HIDE DEF h
<1>5s. h[0] = 0 /\ \A j \in 1 .. n : h[j] = IF arr[j] >= h[j - 1] THEN arr[j] + 1 ELSE h[j - 1]
  <2>1. /\ 0 \in 0 .. n
        /\ \A j \in 1 .. n : j # 0 /\ j \in 0 .. n
    BY <1>2
  <2> QED
    BY <1>5, <2>1
<1> DEFINE S == {j \in 0 .. n : h[j] = g[j]}
<1>6. 0 \in S
  BY <1>2, <1>5s
<1>7. ASSUME NEW j \in 1 .. n, j - 1 \in S PROVE j \in S
  <2>1. j \in 0 .. n /\ j # 0
    BY <1>2
  <2>2. h[j] = IF arr[j] >= h[j - 1] THEN arr[j] + 1 ELSE h[j - 1]
    BY <1>5s
  <2>3. h[j - 1] = g[j - 1]
    BY <1>7
  <2> HIDE DEF g
  <2> QED
    BY <1>3, <2>1, <2>2, <2>3
<1>8. 0 .. n \subseteq S
  <2> HIDE DEF S
  <2> QED
    BY <1>2, <1>6, <1>7, BoundedInduction
<1>9. i - 1 \in 0 .. n /\ i \in Nat
  BY <1>2
<1>10. h[i - 1] = g[i - 1]
  BY <1>8, <1>9
<1> QED
  BY <1>1, <1>9, <1>10

\* A packet is reordered when it arrives under the next number expected.
LEMMA ReorderedIs ==
  ASSUME NEW arr \in Seq(Nat)
  PROVE  IsReordered(arr) = {i \in DOMAIN arr : arr[i] < NextExp(arr, i)}
<1>1. DOMAIN arr = 1 .. Len(arr) /\ Len(arr) \in Nat
  OBVIOUS
<1>2. ASSUME NEW i \in 1 .. Len(arr)
      PROVE  (i \in 2 .. Len(arr) /\ arr[i] <= PrefixMax(arr)[i - 1]) <=> arr[i] < NextExp(arr, i)
  <2>1. arr[i] \in Nat /\ i \in Nat
    BY <1>1
  <2>2. CASE i = 1
    <3>1. NextExp(arr, i) = 0
      BY <2>2, NextExpIs
    <3> QED
      BY <2>1, <2>2, <3>1
  <2>3. CASE i # 1
    <3>1. i \in 2 .. Len(arr) /\ i - 1 \in 1 .. Len(arr)
      BY <1>1, <2>1, <2>3
    <3>2. NextExp(arr, i) = PrefixMax(arr)[i - 1] + 1
      BY <2>3, NextExpIs
    <3>3. PrefixMax(arr)[i - 1] \in Nat
      BY <3>1, PrefixMaxIs
    <3> QED
      BY <2>1, <3>1, <3>2, <3>3
  <2> QED
    BY <2>2, <2>3
<1>3. \A i \in 2 .. Len(arr) : i \in 1 .. Len(arr)
  BY <1>1
<1> QED
  BY <1>1, <1>2, <1>3 DEF IsReordered

\* The running maximum first passes a number where the first larger one arrives.
LEMMA ExtentIs ==
  ASSUME NEW arr \in Seq(Nat), NEW i \in 1 .. Len(arr), {j \in 1 .. i - 1 : arr[j] > arr[i]} # {}
  PROVE  Extent(arr, i) = i - Min({j \in 1 .. i - 1 : arr[j] > arr[i]})
<1> DEFINE later == {j \in 1 .. i - 1 : arr[j] > arr[i]}
           passed == {j \in 1 .. i - 1 : PrefixMax(arr)[j] > arr[i]}
<1>1. /\ Len(arr) \in Nat /\ i \in Nat /\ arr[i] \in Nat
      /\ \A j \in 1 .. i - 1 : j \in 1 .. Len(arr) /\ j \in Nat /\ arr[j] \in Nat
  OBVIOUS
<1>2. \A j \in 1 .. i - 1 : /\ PrefixMax(arr)[j] \in Nat
                            /\ \A k \in 1 .. j : arr[k] <= PrefixMax(arr)[j]
                            /\ \E k \in 1 .. j : arr[k] = PrefixMax(arr)[j]
  BY <1>1, PrefixMaxIs
<1>3. later \subseteq passed /\ later \in SUBSET Nat /\ passed \in SUBSET Nat
  <2>1. ASSUME NEW j \in later PROVE j \in passed
    <3>1. j \in 1 .. i - 1 /\ arr[j] > arr[i] /\ j \in 1 .. j
      BY <1>1
    <3>2. arr[j] <= PrefixMax(arr)[j] /\ PrefixMax(arr)[j] \in Nat /\ arr[j] \in Nat
      BY <1>1, <1>2, <3>1
    <3> QED
      BY <1>1, <3>1, <3>2
  <2> QED
    BY <1>1, <2>1
<1>4. ASSUME NEW p \in passed PROVE \E j \in later : j <= p
  <2>1. p \in 1 .. i - 1 /\ PrefixMax(arr)[p] > arr[i]
    OBVIOUS
  <2>2. PICK k \in 1 .. p : arr[k] = PrefixMax(arr)[p]
    BY <1>2, <2>1
  <2>3. k \in 1 .. i - 1 /\ k <= p
    BY <1>1, <2>1
  <2> QED
    BY <2>1, <2>2, <2>3
<1> HIDE DEF later, passed
<1>5. later # {}
  BY DEF later
<1>6. Min(later) \in later /\ \A j \in later : Min(later) <= j
  BY <1>3, <1>5, MinIs
<1>7. Min(passed) \in passed /\ \A j \in passed : Min(passed) <= j
  BY <1>3, <1>5, MinIs
<1>8. Min(passed) = Min(later)
  <2>1. Min(passed) <= Min(later) /\ Min(later) \in Nat /\ Min(passed) \in Nat
    BY <1>3, <1>6, <1>7
  <2>2. PICK j \in later : j <= Min(passed)
    BY <1>4, <1>7
  <2>3. Min(later) <= j /\ j \in Nat
    BY <1>3, <1>6
  <2> QED
    BY <2>1, <2>2, <2>3
<1>9. passed # {}
  BY <1>3, <1>5
<1> QED
  BY <1>8, <1>9 DEF Extent, passed, later

\* It never passed a number where no larger one arrived, which is then one that did.
LEMMA ExtentNone ==
  ASSUME NEW arr \in Seq(Nat), NEW i \in IsReordered(arr), {j \in 1 .. i - 1 : arr[j] > arr[i]} = {}
  PROVE  Extent(arr, i) = 0 /\ Repeats(arr, i)
<1> DEFINE passed == {j \in 1 .. i - 1 : PrefixMax(arr)[j] > arr[i]}
<1>1. /\ Len(arr) \in Nat /\ i \in 2 .. Len(arr) /\ arr[i] \in Nat /\ i - 1 \in 1 .. i - 1
      /\ \A j \in 1 .. i - 1 : j \in 1 .. Len(arr) /\ j \in Nat /\ arr[j] \in Nat
      /\ arr[i] <= PrefixMax(arr)[i - 1]
  BY DEF IsReordered
<1>2. \A j \in 1 .. i - 1 : /\ PrefixMax(arr)[j] \in Nat
                            /\ \E k \in 1 .. j : arr[k] = PrefixMax(arr)[j]
  BY <1>1, PrefixMaxIs
<1>3. \A k \in 1 .. i - 1 : arr[k] <= arr[i]
  BY <1>1
<1>4. Repeats(arr, i)
  <2>1. PICK k \in 1 .. i - 1 : arr[k] = PrefixMax(arr)[i - 1]
    BY <1>1, <1>2
  <2>2. arr[k] = arr[i]
    BY <1>1, <1>3, <2>1
  <2> QED
    BY <2>2 DEF Repeats
<1>5. passed = {}
  <2> SUFFICES ASSUME NEW p \in passed PROVE FALSE
    OBVIOUS
  <2>1. p \in 1 .. i - 1 /\ PrefixMax(arr)[p] > arr[i]
    OBVIOUS
  <2>2. PICK k \in 1 .. p : arr[k] = PrefixMax(arr)[p]
    BY <1>2, <2>1
  <2>3. k \in 1 .. i - 1
    BY <1>1, <2>1
  <2> QED
    BY <1>1, <1>3, <2>1, <2>2, <2>3
<1> HIDE DEF passed
<1>6. Extent(arr, i) = i - i
  BY <1>5 DEF Extent, passed
<1> QED
  BY <1>1, <1>4, <1>6

\* The slots r of what is delivered lie in sequence order; a second copy leaves the slot
\* above its own empty; below a number under which nothing arrives twice no slot is empty.
Slots(arr) == [j \in DOMAIN arr |-> Slot(arr, arr[j])]
InSequence(arr, n, r) ==
  /\ r \in [1 .. n -> 1 .. n]
  /\ \A j, k \in 1 .. n : arr[j] < arr[k] <=> r[j] < r[k]
  /\ \A j, k \in 1 .. n : arr[j] < arr[k] /\ Repeats(arr, j) => r[j] + 1 < r[k]
  /\ \A j \in 1 .. n : (\A k \in 1 .. n : arr[k] < arr[j] => ~Repeats(arr, k))
                       => \A s \in 1 .. r[j] - 1 : \E k \in 1 .. n : arr[k] < arr[j] /\ r[k] = s

\* So do the slots ComputeReorder gives out.
LEMMA SlotIs ==
  ASSUME NEW arr \in Seq(Nat)
  PROVE  InSequence(arr, Len(arr), Slots(arr))
<1> DEFINE n == Len(arr)
           r == Slots(arr)
<1>0. DOMAIN arr = 1 .. n /\ r = [j \in 1 .. n |-> Slot(arr, arr[j])]
  BY DEF Slots
<1> DEFINE Below(j) == {k \in 1 .. n : arr[k] < arr[j]}
<1>1. DOMAIN arr = 1 .. n /\ n \in Nat /\ \A j \in 1 .. n : arr[j] \in Nat /\ j \in Nat
  OBVIOUS
<1> HIDE DEF n, r
<1>2. \A j \in 1 .. n : r[j] = Cardinality(Below(j)) + 1
  BY <1>0 DEF Slot
<1>3. IsFiniteSet(1 .. n) /\ Cardinality(1 .. n) = n
  BY <1>1, UptoIs
<1>4. ASSUME NEW j \in 1 .. n
      PROVE  IsFiniteSet(Below(j)) /\ Cardinality(Below(j)) \in Nat /\ r[j] \in 1 .. n
  <2>1. Below(j) \in SUBSET (1 .. n) /\ j \notin Below(j)
    BY <1>1
  <2> DEFINE S == Below(j)
             T == 1 .. n
  <2>2. r[j] = Cardinality(S) + 1
    BY <1>2
  <2> HIDE DEF S, T
  <2>3. IsFiniteSet(S) /\ Cardinality(S) <= Cardinality(T) /\ Cardinality(S) # Cardinality(T)
    BY <1>3, <2>1, FS_Subset DEF S, T
  <2>4. Cardinality(S) \in Nat
    BY <2>3, FS_CardinalityType
  <2>5. Cardinality(S) < n
    BY <1>1, <1>3, <2>3, <2>4 DEF T
  <2>6. r[j] \in 1 .. n
    BY <1>1, <2>2, <2>4, <2>5
  <2> QED
    BY <2>3, <2>4, <2>6 DEF S
<1>4r. \A j \in 1 .. n : r[j] \in 1 .. n /\ r[j] \in Nat
  BY <1>1, <1>4
<1>5. ASSUME NEW j \in 1 .. n, NEW k \in 1 .. n, arr[j] < arr[k]
      PROVE  r[j] < r[k]
  <2>1. Below(j) \in SUBSET Below(k) /\ j \in Below(k) /\ j \notin Below(j)
    BY <1>1, <1>5
  <2> DEFINE S == Below(j)
             T == Below(k)
  <2>2. r[j] = Cardinality(S) + 1 /\ r[k] = Cardinality(T) + 1
    BY <1>2
  <2>3. IsFiniteSet(T) /\ Cardinality(S) \in Nat /\ Cardinality(T) \in Nat
    BY <1>4
  <2>4. S \in SUBSET T /\ S # T
    BY <2>1
  <2> HIDE DEF S, T
  <2>5. Cardinality(S) <= Cardinality(T) /\ Cardinality(S) # Cardinality(T)
    BY <2>3, <2>4, FS_Subset
  <2> QED
    BY <2>2, <2>3, <2>5
<1>6. ASSUME NEW j \in 1 .. n, NEW k \in 1 .. n, arr[j] = arr[k] PROVE r[j] = r[k]
  <2>1. Below(j) = Below(k)
    BY <1>6
  <2> DEFINE S == Below(j)
             T == Below(k)
  <2>2. r[j] = Cardinality(S) + 1 /\ r[k] = Cardinality(T) + 1 /\ S = T
    BY <1>2, <2>1
  <2> HIDE DEF S, T
  <2> QED
    BY <2>2
<1>7. ASSUME NEW j \in 1 .. n, NEW k \in 1 .. n PROVE arr[j] < arr[k] <=> r[j] < r[k]
  <2>1. r[j] \in Nat /\ r[k] \in Nat /\ arr[j] \in Nat /\ arr[k] \in Nat
    BY <1>1, <1>4r
  <2>2. arr[k] < arr[j] => r[k] < r[j]
    BY <1>5
  <2>3. arr[j] = arr[k] => r[j] = r[k]
    BY <1>6
  <2>4. arr[j] < arr[k] => r[j] < r[k]
    BY <1>5
  <2> QED
    BY <2>1, <2>2, <2>3, <2>4
<1>8. ASSUME NEW j \in 1 .. n, NEW k \in 1 .. n, arr[j] < arr[k], Repeats(arr, j)
      PROVE  r[j] + 1 < r[k]
  <2>1. PICK l \in 1 .. j - 1 : arr[l] = arr[j]
    BY <1>8 DEF Repeats
  <2>2. l \in 1 .. n /\ l # j
    BY <1>1
  <2> DEFINE S == Below(j)
             T == Below(k)
  <2>3. S \in SUBSET T /\ l \in T /\ j \in T /\ l \notin S /\ j \notin S
    BY <1>1, <1>8, <2>1, <2>2
  <2>4. r[j] = Cardinality(S) + 1 /\ r[k] = Cardinality(T) + 1
    BY <1>2
  <2>5. IsFiniteSet(S) /\ IsFiniteSet(T) /\ Cardinality(S) \in Nat /\ Cardinality(T) \in Nat
    BY <1>4
  <2> HIDE DEF S, T
  <2>6. IsFiniteSet(S \cup {l}) /\ Cardinality(S \cup {l}) = Cardinality(S) + 1
    BY <2>3, <2>5, FS_AddElement
  <2>7. S \cup {l} \in SUBSET T /\ S \cup {l} # T
    BY <2>2, <2>3
  <2>8. Cardinality(S \cup {l}) <= Cardinality(T) /\ Cardinality(S \cup {l}) # Cardinality(T)
    BY <2>5, <2>7, FS_Subset
  <2> QED
    BY <2>4, <2>5, <2>6, <2>8
<1>9. ASSUME NEW j \in 1 .. n, \A k \in 1 .. n : arr[k] < arr[j] => ~Repeats(arr, k),
             NEW s \in 1 .. r[j] - 1
      PROVE  \E k \in 1 .. n : arr[k] < arr[j] /\ r[k] = s
  <2> DEFINE S == Below(j)
             T == 1 .. r[j] - 1
             f == [k \in S |-> r[k]]
  <2>1. r[j] \in 1 .. n /\ r[j] - 1 \in Nat /\ r[j] = Cardinality(S) + 1
    <3>1. r[j] = Cardinality(S) + 1
      BY <1>2
    <3>2. r[j] \in 1 .. n
      BY <1>4r
    <3> QED
      BY <1>1, <3>1, <3>2
  <2>2. IsFiniteSet(S) /\ Cardinality(S) \in Nat
    BY <1>4
  <2>3. IsFiniteSet(T) /\ Cardinality(T) = r[j] - 1
    BY <2>1, UptoIs
  <2>4. ASSUME NEW k \in S PROVE r[k] \in T
    <3>1. k \in 1 .. n /\ r[k] < r[j]
      BY <1>5
    <3> QED
      BY <1>1, <1>4r, <2>1, <3>1
  <2>5. ASSUME NEW k \in S, NEW l \in S, r[k] = r[l] PROVE k = l
    <3>1. /\ k \in 1 .. n /\ k \in Nat /\ arr[k] \in Nat /\ ~Repeats(arr, k) /\ r[k] \in Nat
          /\ l \in 1 .. n /\ l \in Nat /\ arr[l] \in Nat /\ ~Repeats(arr, l)
      BY <1>1, <1>4r, <1>9
    <3>2. ~(arr[k] < arr[l]) /\ ~(arr[l] < arr[k])
      BY <1>7, <2>5, <3>1
    <3>3. arr[k] = arr[l]
      BY <3>1, <3>2
    <3>4. ~(k \in 1 .. l - 1) /\ ~(l \in 1 .. k - 1)
      BY <3>1, <3>3 DEF Repeats
    <3> QED
      BY <1>1, <3>1, <3>4
  <2>6. f \in Injection(S, T)
    BY <2>4, <2>5 DEF Injection, IsInjective
  <2>7. Cardinality(S) = Cardinality(T)
    BY <2>1, <2>2, <2>3
  <2>8. f \in Surjection(S, T)
    <3> HIDE DEF f, S, T
    <3> QED
      BY <2>2, <2>3, <2>6, <2>7, FS_Injection
  <2>9. PICK k \in S : f[k] = s
    BY <2>8 DEF Surjection
  <2> QED
    BY <2>9
<1> HIDE DEF Below
<1>10. r \in [1 .. n -> 1 .. n]
  BY <1>0, <1>4r
<1>11. InSequence(arr, n, r)
  BY <1>7, <1>8, <1>9, <1>10 DEF InSequence
<1> QED
  BY <1>11 DEF n, r

\* The buffer holds exactly what waits for a packet with a smaller number, and every
\* second copy with all that is above it.
LEMMA OccupancyIs ==
  ASSUME NEW arr \in Seq(Nat), NEW i \in DOMAIN arr
  PROVE  Occupancy(arr, i) = Cardinality(HeldBack(arr, i))
<1> DEFINE n == Len(arr)
           r == Slots(arr)
           filled == {r[j] : j \in 1 .. i}
           runs == {k \in 0 .. n : 1 .. k \subseteq filled}
           K == Max(runs)
           waiting == HeldBack(arr, i)
           out == {j \in 1 .. i : r[j] <= K /\ ~Repeats(arr, j)}
<1>1. DOMAIN arr = 1 .. n /\ n \in Nat /\ i \in 1 .. n /\ i \in Nat
  OBVIOUS
<1>1n. \A j \in 1 .. n : arr[j] \in Nat /\ j \in Nat
  OBVIOUS
<1>3. Occupancy(arr, i) = i - K
  <2>0. \A j \in 1 .. i : r[j] = Slot(arr, arr[j])
    BY <1>1 DEF Slots
  <2>1. {Slot(arr, arr[j]) : j \in 1 .. i} = filled
    <3> HIDE DEF r
    <3> QED
      BY <2>0
  <2> QED
    BY <2>1 DEF Occupancy
<1>2s. InSequence(arr, n, r)
  BY SlotIs
<1> HIDE DEF r, n
<1>2. /\ r \in [1 .. n -> 1 .. n]
      /\ \A j, k \in 1 .. n : arr[j] < arr[k] <=> r[j] < r[k]
      /\ \A j, k \in 1 .. n : arr[j] < arr[k] /\ Repeats(arr, j) => r[j] + 1 < r[k]
      /\ \A j \in 1 .. n : (\A k \in 1 .. n : arr[k] < arr[j] => ~Repeats(arr, k))
                           => \A s \in 1 .. r[j] - 1 : \E k \in 1 .. n : arr[k] < arr[j] /\ r[k] = s
  BY <1>2s DEF InSequence
<1>3n. \A j \in 1 .. n : r[j] \in 1 .. n /\ r[j] \in Nat
  <2>1. r \in [1 .. n -> 1 .. n]
    BY <1>2
  <2>2. \A x \in 1 .. n : x \in Nat
    BY <1>1
  <2> QED
    BY <2>1, <2>2
<1>4. /\ K \in 0 .. n /\ 1 .. K \subseteq filled
      /\ \A k \in 0 .. n : 1 .. k \subseteq filled => k <= K
  <2>1. runs \in SUBSET Nat /\ 0 \in runs
    BY <1>1
  <2>2. IsFiniteSet(runs)
    <3>1. IsFiniteSet(0 .. n) /\ runs \in SUBSET (0 .. n)
      BY <1>1, FS_Interval
    <3> HIDE DEF runs
    <3> QED
      BY <3>1, FS_Subset
  <2>3. Max(runs) \in runs /\ \A y \in runs : y <= Max(runs)
    <3> HIDE DEF runs
    <3> QED
      BY <2>1, <2>2, MaxIs
  <2> DEFINE m == Max(runs)
  <2>4. m \in runs /\ \A y \in runs : y <= m
    BY <2>3
  <2> HIDE DEF m
  <2>5. m \in 0 .. n /\ 1 .. m \subseteq filled /\ \A k \in 0 .. n : 1 .. k \subseteq filled => k <= m
    BY <2>4
  <2> QED
    BY <2>5 DEF m
<1> HIDE DEF K
<1>5. K < n => K + 1 \notin filled
  <2> SUFFICES ASSUME K < n, K + 1 \in filled PROVE FALSE
    OBVIOUS
  <2>1. K \in Nat /\ K + 1 \in 0 .. n
    BY <1>1, <1>4
  <2>2. 1 .. K + 1 \subseteq filled
    <3>1. \A x \in 1 .. K + 1 : x \in 1 .. K \/ x = K + 1
      BY <2>1
    <3> QED
      BY <1>4, <3>1
  <2>3. K + 1 <= K
    BY <1>4, <2>1, <2>2
  <2> QED
    BY <2>1, <2>3
<1>5e. ASSUME NEW j \in 1 .. n, NEW k \in 1 .. n, r[j] = r[k] PROVE arr[j] = arr[k]
  <2>1. r[j] \in Nat /\ ~(r[j] < r[k]) /\ ~(r[k] < r[j])
    BY <1>3n, <1>5e
  <2>2. ~(arr[j] < arr[k]) /\ ~(arr[k] < arr[j])
    BY <1>2, <2>1
  <2> QED
    BY <1>1n, <2>2
<1>5r. ASSUME NEW j \in 1 .. n, NEW k \in 1 .. n, j < k, arr[j] = arr[k] PROVE Repeats(arr, k)
  <2>1. j \in 1 .. k - 1
    BY <1>1, <1>5r
  <2> QED
    BY <1>5r, <2>1 DEF Repeats
<1>6. ASSUME NEW j \in 1 .. i PROVE j \in waiting <=> j \notin out
  <2>1. j \in 1 .. n /\ r[j] \in 1 .. n /\ r[j] \in Nat /\ K \in Nat /\ r[j] \in filled
    BY <1>1, <1>3n, <1>4
  <2>2. ASSUME j \in waiting, r[j] <= K, ~Repeats(arr, j) PROVE FALSE
    <3>1. PICK k \in 1 .. n : arr[k] < arr[j] /\ (k > i \/ Repeats(arr, k))
      BY <1>1, <2>2 DEF HeldBack
    <3>2. r[k] < r[j] /\ r[k] \in 1 .. n /\ r[k] \in Nat
      BY <1>2, <1>3n, <2>1, <3>1
    <3>3. CASE Repeats(arr, k)
      <4>1. r[k] + 1 < r[j]
        BY <1>2, <2>1, <3>1, <3>3
      <4>2. r[k] + 1 \in 1 .. K
        BY <2>1, <2>2, <3>2, <4>1
      <4>3. PICK m \in 1 .. i : r[m] = r[k] + 1
        BY <1>4, <4>2
      <4>4. m \in 1 .. n /\ r[k] < r[m]
        BY <1>1, <3>2, <4>3
      <4>5. arr[k] < arr[m]
        BY <1>2, <4>4
      <4>6. r[k] + 1 < r[m]
        BY <1>2, <3>3, <4>4, <4>5
      <4> QED
        BY <3>2, <4>3, <4>6
    <3>4. CASE k > i /\ ~Repeats(arr, k)
      <4>1. r[k] \in 1 .. K
        BY <2>1, <2>2, <3>2
      <4>2. PICK l \in 1 .. i : r[l] = r[k]
        BY <1>4, <4>1
      <4>3. l \in 1 .. n /\ l < k
        BY <1>1, <1>1n, <3>4
      <4> QED
        BY <1>5e, <1>5r, <3>4, <4>2, <4>3
    <3> QED
      BY <3>1, <3>3, <3>4
  <2>3. ASSUME ~(r[j] <= K) PROVE j \in waiting
    <3> SUFFICES ASSUME j \notin waiting PROVE FALSE
      OBVIOUS
    <3>1. \A k \in 1 .. n : arr[k] < arr[j] => ~Repeats(arr, k) /\ ~(k > i)
      BY <1>1 DEF HeldBack
    <3>2. K < n /\ K + 1 <= r[j]
      BY <1>1, <2>1, <2>3
    <3>3. K + 1 \notin filled
      BY <1>5, <3>2
    <3>4. K + 1 # r[j]
      BY <2>1, <3>3
    <3>5. K + 1 \in 1 .. r[j] - 1
      BY <2>1, <3>2, <3>4
    <3>6. PICK k \in 1 .. n : arr[k] < arr[j] /\ r[k] = K + 1
      BY <1>2, <2>1, <3>1, <3>5
    <3>7. k \in 1 .. i
      BY <1>1, <1>1n, <3>1, <3>6
    <3> QED
      BY <3>3, <3>6, <3>7
  <2>4. Repeats(arr, j) => j \in waiting
    BY DEF HeldBack
  <2> QED
    BY <2>2, <2>3, <2>4
<1>7. waiting \cap out = {} /\ waiting \cup out = 1 .. i
  BY <1>6 DEF HeldBack
<1>8. IsFiniteSet(1 .. i) /\ Cardinality(1 .. i) = i
  BY <1>1, UptoIs
<1>9. IsFiniteSet(out) /\ Cardinality(out) = K
  <2> DEFINE f == [j \in out |-> r[j]]
             T == 1 .. K
  <2>1. IsFiniteSet(T) /\ Cardinality(T) = K
    <3>1. K \in Nat
      BY <1>4
    <3> QED
      BY <3>1, UptoIs
  <2>2. ASSUME NEW j \in out PROVE j \in 1 .. n /\ r[j] \in T
    <3>1. j \in 1 .. n /\ r[j] <= K /\ K \in Nat
      BY <1>1, <1>4
    <3> QED
      BY <1>1, <1>3n, <3>1
  <2>3. f \in Injection(out, T)
    <3>1. ASSUME NEW j \in out, NEW k \in out, r[j] = r[k] PROVE j = k
      <4>1. j \in 1 .. n /\ k \in 1 .. n /\ arr[j] = arr[k]
        BY <1>5e, <2>2, <3>1
      <4>2. ~(j < k) /\ ~(k < j)
        BY <1>5r, <4>1
      <4> QED
        BY <1>1n, <4>1, <4>2
    <3> QED
      BY <2>2, <3>1 DEF Injection, IsInjective
  <2>4. f \in Surjection(out, T)
    <3>1. ASSUME NEW s \in T PROVE \E j \in out : f[j] = s
      <4>1. PICK m \in 1 .. i : r[m] = s
        BY <1>4
      <4> DEFINE same == {j \in 1 .. i : arr[j] = arr[m]}
                 l == Min(same)
      <4>2. l \in same /\ \A j \in same : l <= j
        <5>1. same \in SUBSET Nat /\ same # {}
          BY <1>1
        <5> HIDE DEF same
        <5> QED
          BY <5>1, MinIs
      <4> HIDE DEF l
      <4>3. l \in 1 .. i /\ l \in 1 .. n /\ m \in 1 .. n /\ l \in Nat /\ arr[l] = arr[m]
        BY <1>1, <4>2
      <4>4. ~Repeats(arr, l)
        <5> SUFFICES ASSUME NEW j \in 1 .. l - 1, arr[j] = arr[l] PROVE FALSE
          BY DEF Repeats
        <5>1. j \in same /\ j < l /\ j \in Nat
          BY <1>1, <4>3
        <5> QED
          BY <4>2, <4>3, <5>1
      <4>5. r[l] = r[m]
        <5>1. ~(arr[l] < arr[m]) /\ ~(arr[m] < arr[l])
          BY <1>1n, <4>3
        <5>2. ~(r[l] < r[m]) /\ ~(r[m] < r[l]) /\ r[l] \in Nat /\ r[m] \in Nat
          BY <1>2, <1>3n, <4>3, <5>1
        <5> QED
          BY <5>2
      <4>6. l \in out
        BY <1>1, <1>4, <4>1, <4>3, <4>4, <4>5
      <4> QED
        BY <4>1, <4>5, <4>6
    <3> QED
      BY <2>3, <3>1 DEF Injection, Surjection
  <2> HIDE DEF f, T, out
  <2> QED
    BY <2>1, <2>3, <2>4, FS_Injection
<1> HIDE DEF waiting, out
<1>10. IsFiniteSet(waiting) /\ Cardinality(waiting) \in Nat
  BY <1>7, <1>8, FS_Subset, FS_CardinalityType
<1>11. Cardinality(waiting \cup out) = Cardinality(waiting) + Cardinality(out) - 0
  <2>1. Cardinality(waiting \cap out) = 0
    BY <1>7, FS_EmptySet
  <2>2. Cardinality(waiting \cup out) = Cardinality(waiting) + Cardinality(out) - Cardinality(waiting \cap out)
    BY <1>9, <1>10, FS_Union
  <2> QED
    BY <2>1, <2>2
<1>12. i = Cardinality(waiting) + K
  <2>1. K \in Nat
    BY <1>4
  <2>2. Cardinality(waiting \cup out) = i
    BY <1>7, <1>8
  <2>3. i = Cardinality(waiting) + K - 0
    BY <1>9, <1>11, <2>2
  <2> QED
    BY <1>1, <1>10, <2>1, <2>3
<1>13. i - K = Cardinality(waiting)
  BY <1>1, <1>4, <1>10, <1>12
<1> QED
  BY <1>3, <1>13 DEF waiting
================================================================================
