---------------------------- MODULE BenchRun_proofs ----------------------------
(***************************************************************************)
(* The books of the harness in every run, for every flow, scenario and     *)
(* number of packets.  BooksInv says of every state where the packets are  *)
(* and what the books say of them:                                         *)
(*                                                                         *)
(*   Typed      the bag holds copies that can exist, the books what the    *)
(*              arm asked for                                              *)
(*   Structure  a packet is in one place until a frame that was received   *)
(*              is sent again, and what tells of that is not forgotten     *)
(*   Agreement  of a packet in one place the books say where it is and     *)
(*              which way it came                                          *)
(*   Closes     what is offered is accounted for, with no recovery         *)
(*   Counts     where the frames handed to an interface are                *)
(*   Skips      the packets the cap on re-injections gave up               *)
(*                                                                         *)
(* One lemma per step of a copy says that it keeps BooksInv, and the four  *)
(* invariants of BenchRun follow from it.                                  *)
(***************************************************************************)
EXTENDS BooksLemmas

-----------------------------------------------------------------------------
(* The invariant *)

Stations == {Source} \cup UNION {{l[2] : l \in sc.links} : sc \in Scenarios}
Whys == {"none", "shed", "route", "ttl", "queue", "arp", "mac", "skipped", "recovered", "delivered"}
CopySpace == [key : Keys, at : Stations, to : Stations, place : {"queue", "air", "gone"},
              got : BOOLEAN, why : Whys, path : Seq(Stations), spent : Nat]

Restores(sc) == sc.arm \in {"anthocnet", "adaptive"}
Offered(b)   == {Source} \X (1 .. b.flowMonitor.tx)

\* What a copy can look like.
Proper(sc, c) ==
  /\ c.place # "gone" => c.why = "none"
  /\ c.place = "queue" => ~c.got /\ sc.arm # "olsr"
  /\ c.why \in {"shed", "route", "ttl", "queue", "arp", "delivered"} => ~c.got
  /\ c.why = "recovered" => c.got
  /\ c.why = "recovered" \/ c.spent > 0 => Restores(sc)
  /\ c.why = "mac" => ~Restores(sc)
  /\ c.why = "skipped" => sc.arm = "anthocnet" /\ c.spent > 0

Typed(sc, B, b) ==
  /\ sc \in Scenarios
  /\ IsBagOf(B, CopySpace)
  /\ IsLedger(b) /\ b.on = AskedBy(sc.arm)
  /\ \A c \in DOMAIN B : Proper(sc, c) /\ c.key \in Offered(b)
  /\ Delivered(b) \subseteq Offered(b) /\ b.pqPending \subseteq Offered(b)
  /\ DOMAIN b.routePending \subseteq Offered(b) /\ DOMAIN b.routeRx \subseteq Offered(b)
  /\ DOMAIN b.reinj \subseteq Offered(b) /\ DOMAIN b.reinjSkip \subseteq Offered(b)
  /\ sc.arm = "adaptive" => DOMAIN b.fate = Offered(b)
  /\ \A c \in DOMAIN B : c.why = "delivered" => c.key \in Delivered(b)

\* Re-injected, or the trace of a frame that was, and here to stay.
Marked(c) == c.spent > 0 \/ c.why = "recovered"
Lasting(c) == Marked(c) /\ ~(c.place = "air" /\ c.got)

Single(B, k) == \A d \in DOMAIN B : d.key = k => d.why # "recovered"
Clean(B, k)  == \A d \in DOMAIN B : d.key = k => ~Marked(d)
Open(k)      == {c \in CopySpace : c.key = k /\ ~c.got}

\* A packet is in one place until a frame that was received is sent again; and what
\* tells that it was sent again is not forgotten.
Structure(B) ==
  /\ \A k \in Keys : Single(B, k) => Weight(B, Open(k)) <= 1
  /\ \A c \in DOMAIN B : Marked(c) => \E d \in DOMAIN B : d.key = c.key /\ Lasting(d)

\* The path booked is that of the copy.
Follows(b, c) ==
  /\ c.place = "queue" => Lookup(b.routePending, c.key, <<>>) = c.path
  /\ c.place = "air" => c.key \in DOMAIN b.routePending /\ b.routePending[c.key] = Append(c.path, c.at)
  /\ c.place # "gone" => c.key \notin DOMAIN b.routeRx
  /\ c.why = "delivered" => c.key \in DOMAIN b.routeRx /\ b.routeRx[c.key] = c.path

\* What the books say of the one place where a packet is.
Agrees(sc, b, c, clean) ==
  /\ "pendingQueue" \in b.on => /\ c.place = "queue" => c.key \in b.pqPending
                                /\ c.place = "air" => c.key \notin b.pqPending
  /\ sc.arm = "adaptive" /\ c.key \notin Delivered(b) => b.fate[c.key].last = Whereabouts(c)
  /\ clean => Follows(b, c)

Agreement(sc, B, b) ==
  \A c \in DOMAIN B : ~c.got /\ Single(B, c.key) => Agrees(sc, b, c, Clean(B, c.key))

Received(b) == Len(b.rxSeq)

\* Where the packets offered are, for the arms that recover nothing.
Closes(sc, b) ==
  ~Restores(sc) =>
    /\ b.flowMonitor.tx + b.hopRx = b.hopTx + Received(b) + b.flowMonitor.route + b.flowMonitor.ttl
                                       + Cardinality(b.pqPending)
    /\ b.pqEcb <= b.flowMonitor.route

\* The copies in a place: of frames that were not received, and of frames that were.
LostIn(place, why)  == {c \in CopySpace : c.place = place /\ ~c.got /\ c.why = why}
SeenIn(place, why)  == {c \in CopySpace : c.place = place /\ c.got /\ c.why = why}
Lost(B, place, why) == Weight(B, LostIn(place, why))
Seen(B, place, why) == Weight(B, SeenIn(place, why))
SkippedOf(K) == {c \in CopySpace : c.why = "skipped" /\ c.key \in K}
Total(book)  == Weight(Events(book), DOMAIN book)

\* Where the frames handed to an interface are.
Sums(B, b) ==
  /\ b.hopTx = b.hopRx + Lost(B, "air", "none") + Lost(B, "gone", "mac")
                 + Lost(B, "gone", "skipped")
                 + (Total(b.reinj) - Seen(B, "gone", "recovered"))
                 + Lost(B, "gone", "queue") + Lost(B, "gone", "arp")
  /\ b.flowMonitor.queue = Lost(B, "gone", "queue")
  /\ b.hopRx = b.acked + Seen(B, "air", "none") + Seen(B, "gone", "mac")
                 + Seen(B, "gone", "skipped") + Seen(B, "gone", "recovered")
  /\ b.macDrops = Lost(B, "gone", "mac") + Seen(B, "gone", "mac")
                    + Lost(B, "gone", "skipped") + Seen(B, "gone", "skipped")
                    + Total(b.reinj)
  /\ Seen(B, "gone", "recovered") <= Total(b.reinj)

Counts(sc, B, b) ==
  sc.arm # "adaptive" =>
    /\ Sums(B, b)
    /\ b.adaptiveReinj = 0 /\ b.adaptiveArpReinj = 0
    /\ sc.arm # "anthocnet" => Total(b.reinj) = 0
    /\ \A c \in DOMAIN B : c.spent > 0 => Total(b.reinj) > 0

\* The packets that the cap on re-injections gave up.
Skips(sc, B, b) ==
  sc.arm # "adaptive" =>
    /\ \A K : Weight(Events(b.reinjSkip), K) = Weight(B, SkippedOf(K))
    /\ \A k \in DOMAIN b.reinjSkip :
         /\ "rxAtFirstSkip" \in DOMAIN b.reinjSkip[k]
         /\ b.reinjSkip[k].rxAtFirstSkip >= 1 => k \in Delivered(b)

BooksInv(sc, B, b) ==
  /\ Typed(sc, B, b) /\ Structure(B) /\ Agreement(sc, B, b)
  /\ Closes(sc, b) /\ Counts(sc, B, b) /\ Skips(sc, B, b)

-----------------------------------------------------------------------------
(* What a step of one packet keeps *)

\* The books differ in what they say of the packet k at most.
Elsewhere(a, b, k) ==
  /\ a.on = b.on
  /\ \A x : x # k =>
       /\ x \in a.pqPending <=> x \in b.pqPending
       /\ x \in Delivered(a) <=> x \in Delivered(b)
       /\ x \in DOMAIN a.routePending <=> x \in DOMAIN b.routePending
       /\ x \in DOMAIN b.routePending => a.routePending[x] = b.routePending[x]
       /\ x \in DOMAIN a.routeRx <=> x \in DOMAIN b.routeRx
       /\ x \in DOMAIN b.routeRx => a.routeRx[x] = b.routeRx[x]
       /\ x \in DOMAIN a.fate <=> x \in DOMAIN b.fate
       /\ x \in DOMAIN b.fate => a.fate[x] = b.fate[x]
       /\ x \in DOMAIN a.reinj <=> x \in DOMAIN b.reinj
       /\ x \in DOMAIN a.reinjSkip <=> x \in DOMAIN b.reinjSkip

\* What the books say of the other packets still agrees.
LEMMA ElsewhereAgrees ==
  ASSUME NEW sc, NEW a, NEW b, NEW k, Elsewhere(a, b, k), NEW c, c.key # k, NEW clean,
         sc.arm = "adaptive" => c.key \in DOMAIN b.fate, Agrees(sc, b, c, clean)
  PROVE  Agrees(sc, a, c, clean)
<1>1. Lookup(a.routePending, c.key, <<>>) = Lookup(b.routePending, c.key, <<>>)
  BY DEF Elsewhere, Lookup
<1>2. Follows(b, c) => Follows(a, c)
  BY <1>1 DEF Elsewhere, Follows
<1> QED
  BY <1>2 DEF Elsewhere, Agrees

\* Books that say the same of every packet agree with the same copies.
LEMMA SameAgrees ==
  ASSUME NEW sc, NEW a, NEW b, a.on = b.on, a.pqPending = b.pqPending, a.rxSeq = b.rxSeq,
         a.routePending = b.routePending, a.routeRx = b.routeRx, a.fate = b.fate,
         NEW c, NEW clean, Agrees(sc, b, c, clean)
  PROVE  Agrees(sc, a, c, clean)
BY DEF Agrees, Follows, Delivered

\* A copy that may have marked its packet as sent again.
LEMMA StructureKept ==
  ASSUME NEW B, IsBagOf(B, CopySpace), NEW A, IsBagOf(A, CopySpace), Structure(B),
         \A k \in Keys : Single(A, k) => Weight(A, Open(k)) <= Weight(B, Open(k)),
         \A d \in DOMAIN B : d.why = "recovered" => d \in DOMAIN A,
         \A d \in DOMAIN A : Marked(d) =>
            d \in DOMAIN B \/ \E e \in DOMAIN A : e.key = d.key /\ Lasting(e),
         \A d \in DOMAIN B : Lasting(d) => \E e \in DOMAIN A : e.key = d.key /\ Lasting(e)
  PROVE  /\ Structure(A)
         /\ \A k : Single(A, k) => Single(B, k)
         /\ \A k : Clean(A, k) => Clean(B, k)
<1>1. \A k : Single(A, k) => Single(B, k)
  BY DEF Single
<1>2. ASSUME NEW k \in Keys, Single(A, k) PROVE Weight(A, Open(k)) <= 1
  <2>1. Weight(B, Open(k)) <= 1 /\ Weight(A, Open(k)) <= Weight(B, Open(k))
    BY <1>1, <1>2 DEF Structure
  <2>2. Weight(B, Open(k)) \in Nat /\ Weight(A, Open(k)) \in Nat
    <3>1. B \in [DOMAIN B -> Nat] /\ A \in [DOMAIN A -> Nat] /\ IsFiniteSet(DOMAIN A) /\ IsFiniteSet(DOMAIN B)
      BY DEF IsBagOf
    <3> QED
      BY <3>1, WeightType
  <2> QED
    BY <2>1, <2>2
<1>3. ASSUME NEW c \in DOMAIN A, Marked(c) PROVE \E d \in DOMAIN A : d.key = c.key /\ Lasting(d)
  <2>1. CASE c \in DOMAIN B
    <3>1. PICK d \in DOMAIN B : d.key = c.key /\ Lasting(d)
      BY <1>3, <2>1 DEF Structure
    <3> QED
      BY <3>1
  <2> QED
    BY <1>3, <2>1
<1>4. ASSUME NEW k, Clean(A, k) PROVE Clean(B, k)
  <2> SUFFICES ASSUME NEW d \in DOMAIN B, d.key = k, Marked(d) PROVE FALSE
    BY DEF Clean
  <2>1. PICK e \in DOMAIN B : e.key = k /\ Lasting(e)
    BY DEF Structure
  <2>2. PICK f \in DOMAIN A : f.key = k /\ Lasting(f)
    BY <2>1
  <2> QED
    BY <1>4, <2>2 DEF Clean, Lasting
<1> QED
  BY <1>1, <1>2, <1>3, <1>4 DEF Structure

\* The one place of a packet.
LEMMA OnlyOpen ==
  ASSUME NEW B, IsBagOf(B, CopySpace), Structure(B), NEW k \in Keys, Single(B, k),
         NEW c \in DOMAIN B, c.key = k, ~c.got, NEW d \in DOMAIN B, d.key = k, ~d.got
  PROVE  c = d
<1>1. c \in Open(k) \cap DOMAIN B /\ d \in Open(k) \cap DOMAIN B
  BY DEF Open, IsBagOf
<1>2. Weight(B, Open(k)) <= 1 /\ B \in [DOMAIN B -> Nat \ {0}] /\ IsFiniteSet(DOMAIN B)
  BY DEF Structure, IsBagOf
<1> QED
  BY <1>1, <1>2, WeightOne

\* The books agree with all copies when they do with those of the packet that moved.
LEMMA AgreementKept ==
  ASSUME NEW sc, NEW B, NEW b, Typed(sc, B, b), Agreement(sc, B, b), NEW A, NEW a, NEW k,
         Elsewhere(a, b, k),
         \A d : d.key # k => (d \in DOMAIN A <=> d \in DOMAIN B),
         \A d \in DOMAIN A : d.key = k /\ ~d.got /\ Single(A, k) => Agrees(sc, a, d, Clean(A, k))
  PROVE  Agreement(sc, A, a)
<1> SUFFICES ASSUME NEW c \in DOMAIN A, ~c.got, Single(A, c.key)
             PROVE  Agrees(sc, a, c, Clean(A, c.key))
  BY DEF Agreement
<1>1. CASE c.key # k
  <2>1. c \in DOMAIN B
    BY <1>1
  <2>2. Single(B, c.key) /\ (Clean(A, c.key) <=> Clean(B, c.key))
    BY <1>1 DEF Single, Clean
  <2>3. Agrees(sc, b, c, Clean(B, c.key))
    BY <2>1, <2>2 DEF Agreement
  <2>4. sc.arm = "adaptive" => c.key \in DOMAIN b.fate
    BY <2>1 DEF Typed
  <2>5. Agrees(sc, a, c, Clean(B, c.key))
    BY <1>1, <2>3, <2>4, ElsewhereAgrees
  <2> QED
    BY <2>2, <2>5 DEF Agrees
<1> QED
  BY <1>1

\* The same, when the packet has one place and moved from it to another.
LEMMA AgreementMoves ==
  ASSUME NEW sc, NEW B, NEW b, Typed(sc, B, b), Agreement(sc, B, b), NEW A, IsBagOf(A, CopySpace), NEW a,
         Structure(A), \A k : Single(A, k) => Single(B, k), \A k : Clean(A, k) => Clean(B, k),
         NEW c \in DOMAIN B, ~c.got, NEW n \in DOMAIN A, ~n.got, n.key = c.key,
         Elsewhere(a, b, c.key),
         \A d : d.key # c.key => (d \in DOMAIN A <=> d \in DOMAIN B),
         \A clean \in BOOLEAN : (clean => ~Marked(n)) /\ Agrees(sc, b, c, clean) => Agrees(sc, a, n, clean)
  PROVE  Agreement(sc, A, a)
<1> DEFINE k == c.key
<1>1. k \in Keys
  BY DEF Typed, IsBagOf, CopySpace
<1>2. ASSUME NEW d \in DOMAIN A, d.key = k, ~d.got, Single(A, k) PROVE Agrees(sc, a, d, Clean(A, k))
  <2>1. d = n
    BY <1>1, <1>2, OnlyOpen
  <2>2. Agrees(sc, b, c, Clean(B, k))
    BY <1>2 DEF Agreement
  <2>3. CASE Clean(A, k)
    <3>1. ~Marked(n) /\ Agrees(sc, b, c, TRUE)
      BY <2>2, <2>3 DEF Clean, Agrees
    <3>2. Agrees(sc, a, n, TRUE)
      BY <3>1
    <3> QED
      BY <2>1, <2>3, <3>2 DEF Agrees
  <2>4. CASE ~Clean(A, k)
    <3>1. Agrees(sc, b, c, FALSE)
      BY <2>2 DEF Agrees
    <3>2. Agrees(sc, a, n, FALSE)
      BY <3>1
    <3> QED
      BY <2>1, <2>4, <3>2 DEF Agrees
  <2> QED
    BY <2>3, <2>4
<1> QED
  BY <1>2, AgreementKept

\* No more is said of what did not move.
LEMMA AgreementStays ==
  ASSUME NEW sc, NEW B, NEW b, Agreement(sc, B, b), NEW A, NEW a,
         \A k : Single(A, k) => Single(B, k), \A k : Clean(A, k) => Clean(B, k),
         \A d \in DOMAIN A : ~d.got /\ Single(A, d.key) => d \in DOMAIN B,
         a.on = b.on, a.pqPending = b.pqPending, a.rxSeq = b.rxSeq,
         a.routePending = b.routePending, a.routeRx = b.routeRx, a.fate = b.fate
  PROVE  Agreement(sc, A, a)
<1> SUFFICES ASSUME NEW c \in DOMAIN A, ~c.got, Single(A, c.key)
             PROVE  Agrees(sc, a, c, Clean(A, c.key))
  BY DEF Agreement
<1>1. Agrees(sc, b, c, Clean(B, c.key))
  BY DEF Agreement
<1>2. Agrees(sc, b, c, Clean(A, c.key))
  <2>1. Clean(A, c.key) => Clean(B, c.key)
    OBVIOUS
  <2> QED
    BY <1>1, <2>1 DEF Agrees
<1> QED
  BY <1>2, SameAgrees

\* The bag A is the bag B but for copies of the packet k, of which the ones in new have come.
Keeps(B, A, k, new) ==
  /\ IsBagOf(A, CopySpace) /\ Structure(A)
  /\ new \subseteq DOMAIN A /\ \A d \in DOMAIN A : d \in DOMAIN B \/ d \in new
  /\ \A d : d.key # k => (d \in DOMAIN A <=> d \in DOMAIN B)
  /\ \A x : Single(A, x) => Single(B, x)
  /\ \A x : Clean(A, x) => Clean(B, x)

One(p) == IF p THEN 1 ELSE 0

\* What A weighs more than B: a copy moved, parted in two, left or joined.
Moves(B, A, c, n)     == \A S : Weight(A, S) = Weight(B, S) - One(c \in S) + One(n \in S)
Splits(B, A, c, o, n) == \A S : Weight(A, S) = Weight(B, S) - One(c \in S) + One(o \in S) + One(n \in S)
Leaves(B, A, c)       == \A S : Weight(A, S) = Weight(B, S) - One(c \in S)
Joins(B, A, n)        == \A S : Weight(A, S) = Weight(B, S) + One(n \in S)

\* A copy takes the place of another.
LEMMA BecomesKeeps ==
  ASSUME NEW B, IsBagOf(B, CopySpace), Structure(B), NEW c \in DOMAIN B, NEW n \in CopySpace,
         n.key = c.key, n.got = c.got, c.why # "recovered", n.why # "recovered",
         c.spent > 0 => n.spent > 0, ~(n.place = "air" /\ n.got),
         NEW A, A = Put(Take(B, c), n)
  PROVE  Keeps(B, A, c.key, {n}) /\ Moves(B, A, c, n)
<1> DEFINE T == Take(B, c)
<1>1. c \in CopySpace
  BY DEF IsBagOf
<1>2. /\ IsBagOf(T, CopySpace)
      /\ \A x : x \in DOMAIN T <=> x \in DOMAIN B /\ (x = c => B[c] > 1)
      /\ \A S : Weight(T, S) = Weight(B, S) - One(c \in S)
  BY TakeFacts DEF One
<1>3. /\ IsBagOf(A, CopySpace)
      /\ \A x : x \in DOMAIN A <=> x \in DOMAIN T \/ x = n
      /\ \A S : Weight(A, S) = Weight(T, S) + One(n \in S)
  <2> HIDE DEF T
  <2> QED
    BY <1>2, PutFacts DEF One, T
<1> HIDE DEF T
<1>4. \A S : Weight(A, S) = Weight(B, S) - One(c \in S) + One(n \in S)
  BY <1>2, <1>3
<1>7. \A k \in Keys : Weight(A, Open(k)) <= Weight(B, Open(k))
  <2> TAKE k \in Keys
  <2>1. c \in Open(k) <=> n \in Open(k)
    BY <1>1 DEF Open
  <2>2. Weight(B, Open(k)) \in Nat
    BY WeightType DEF IsBagOf
  <2> QED
    BY <1>4, <2>1, <2>2 DEF One
<1>8. \A d \in DOMAIN B : d.why = "recovered" => d \in DOMAIN A
  BY <1>2, <1>3
<1>9. \A d \in DOMAIN A : Marked(d) => d \in DOMAIN B \/ \E e \in DOMAIN A : e.key = d.key /\ Lasting(e)
  BY <1>2, <1>3 DEF Lasting
<1>10. \A d \in DOMAIN B : Lasting(d) => \E e \in DOMAIN A : e.key = d.key /\ Lasting(e)
  BY <1>2, <1>3 DEF Lasting, Marked
<1>11. /\ Structure(A)
       /\ \A k : Single(A, k) => Single(B, k)
       /\ \A k : Clean(A, k) => Clean(B, k)
  BY <1>3, <1>7, <1>8, <1>9, <1>10, StructureKept
<1>12. \A d : d.key # c.key => (d \in DOMAIN A <=> d \in DOMAIN B)
  BY <1>2, <1>3
<1>13. Keeps(B, A, c.key, {n})
  BY <1>2, <1>3, <1>11, <1>12 DEF Keeps
<1> QED
  BY <1>4, <1>13 DEF Moves

\* Two copies take the place of one.
LEMMA BecomesAndBag ==
  ASSUME NEW B, IsBagOf(B, CopySpace), NEW c \in DOMAIN B, NEW o \in CopySpace, NEW n \in CopySpace,
         NEW A, A = Put(Put(Take(B, c), o), n)
  PROVE  /\ IsBagOf(A, CopySpace)
         /\ o \in DOMAIN A /\ n \in DOMAIN A
         /\ \A x \in DOMAIN A : x \in DOMAIN B \/ x \in {o, n}
         /\ \A x \in DOMAIN B : x # c => x \in DOMAIN A
<1> DEFINE T == Take(B, c)
           U == Put(T, o)
<1>1. A = Put(U, n)
  OBVIOUS
<1>2. IsBagOf(T, CopySpace) /\ \A x : x \in DOMAIN T <=> x \in DOMAIN B /\ (x = c => B[c] > 1)
  BY TakeFacts
<1> HIDE DEF T
<1>3. IsBagOf(U, CopySpace) /\ \A x : x \in DOMAIN U <=> x \in DOMAIN T \/ x = o
  BY <1>2, PutFacts
<1> HIDE DEF U
<1>4. IsBagOf(A, CopySpace) /\ \A x : x \in DOMAIN A <=> x \in DOMAIN U \/ x = n
  BY <1>1, <1>3, PutFacts
<1> QED
  BY <1>2, <1>3, <1>4

\* What the bag weighs when one copy becomes two.
LEMMA BecomesAndWeight ==
  ASSUME NEW B, IsBagOf(B, CopySpace), NEW c \in DOMAIN B, NEW o \in CopySpace, NEW n \in CopySpace,
         NEW A, A = Put(Put(Take(B, c), o), n)
  PROVE  Splits(B, A, c, o, n)
<1> DEFINE T == Take(B, c)
           U == Put(T, o)
<1>1. A = Put(U, n)
  OBVIOUS
<1>2. IsBagOf(T, CopySpace)
  BY TakeFacts
<1>3. \A S : Weight(T, S) = Weight(B, S) - One(c \in S)
  BY TakeFacts DEF One
<1> HIDE DEF T
<1>4. IsBagOf(U, CopySpace)
  BY <1>2, PutFacts
<1>5. \A S : Weight(U, S) = Weight(T, S) + One(o \in S)
  BY <1>2, PutFacts DEF One
<1> HIDE DEF U
<1>6. \A S : Weight(A, S) = Weight(U, S) + One(n \in S)
  BY <1>1, <1>4, PutFacts DEF One
<1> QED
  BY <1>3, <1>5, <1>6 DEF Splits

\* A frame arrives: the sender keeps a copy that was received, the receiver has another.
LEMMA ArrivalKeeps ==
  ASSUME NEW B, IsBagOf(B, CopySpace), Structure(B), NEW c \in DOMAIN B, c.place = "air", ~c.got, c.why = "none",
         NEW o \in CopySpace, o.key = c.key, o.got, o.spent = c.spent, o.why = c.why, o.place = c.place,
         NEW n \in CopySpace, n.key = c.key, ~n.got, n.spent = c.spent,
         n.why # "recovered",
         NEW A, A = Put(Put(Take(B, c), o), n)
  PROVE  Keeps(B, A, c.key, {o, n}) /\ Splits(B, A, c, o, n)
<1>1. c \in CopySpace
  BY DEF IsBagOf
<1>2. o.key = c.key /\ o.got /\ o.spent = c.spent /\ o.why = c.why /\ o.place = c.place
  OBVIOUS
<1>3. /\ IsBagOf(A, CopySpace)
      /\ o \in DOMAIN A /\ n \in DOMAIN A
      /\ \A x \in DOMAIN A : x \in DOMAIN B \/ x \in {o, n}
      /\ \A x \in DOMAIN B : x # c => x \in DOMAIN A
  BY <1>2, BecomesAndBag
<1>w. \A S : Weight(A, S) = Weight(B, S) - One(c \in S) + One(o \in S) + One(n \in S)
  BY <1>2, BecomesAndWeight DEF Splits
<1>4. c.why = "none" /\ ~c.got
  OBVIOUS
<1>5. \A k \in Keys : Weight(A, Open(k)) <= Weight(B, Open(k))
  <2> TAKE k \in Keys
  <2>1. o \notin Open(k) /\ (c \in Open(k) <=> n \in Open(k))
    BY <1>1, <1>2, <1>4 DEF Open
  <2>2. Weight(B, Open(k)) \in Nat
    BY WeightType DEF IsBagOf
  <2> QED
    BY <1>w, <2>1, <2>2 DEF One
<1>6. \A d \in DOMAIN B : d.why = "recovered" => d \in DOMAIN A
  BY <1>3, <1>4
<1>7. \A d \in DOMAIN A : Marked(d) => d \in DOMAIN B \/ \E e \in DOMAIN A : e.key = d.key /\ Lasting(e)
  <2> SUFFICES ASSUME NEW d \in {o, n}, Marked(d) PROVE n.key = d.key /\ Lasting(n)
    BY <1>3
  <2> QED
    BY <1>2, <1>4 DEF Lasting, Marked
<1>8. \A d \in DOMAIN B : Lasting(d) => \E e \in DOMAIN A : e.key = d.key /\ Lasting(e)
  <2> SUFFICES ASSUME Lasting(c) PROVE Lasting(n)
    BY <1>3
  <2> QED
    BY <1>4 DEF Lasting, Marked
<1>9. /\ Structure(A)
      /\ \A k : Single(A, k) => Single(B, k)
      /\ \A k : Clean(A, k) => Clean(B, k)
  BY <1>3, <1>5, <1>6, <1>7, <1>8, StructureKept
<1>10. \A d : d.key # c.key => (d \in DOMAIN A <=> d \in DOMAIN B)
  BY <1>2, <1>3
<1> QED
  BY <1>3, <1>9, <1>10, <1>w DEF Keeps, Splits

\* A frame that was received is sent again.
LEMMA AgainKeeps ==
  ASSUME NEW B, IsBagOf(B, CopySpace), Structure(B), NEW c \in DOMAIN B, c.place = "air", c.got, c.why = "none",
         NEW o, o = Gone(c, "recovered"), NEW n \in CopySpace, n.key = c.key, ~n.got, n.why # "recovered",
         NEW A, A = Put(Put(Take(B, c), o), n)
  PROVE  Keeps(B, A, c.key, {o, n}) /\ Splits(B, A, c, o, n)
<1>1. c \in CopySpace
  BY DEF IsBagOf
<1>2. o \in CopySpace /\ o.key = c.key /\ o.got /\ o.why = "recovered" /\ o.place = "gone"
  BY <1>1 DEF CopySpace, Gone, Whys
<1>3. /\ IsBagOf(A, CopySpace)
      /\ o \in DOMAIN A /\ n \in DOMAIN A
      /\ \A x \in DOMAIN A : x \in DOMAIN B \/ x \in {o, n}
      /\ \A x \in DOMAIN B : x # c => x \in DOMAIN A
  BY <1>2, BecomesAndBag
<1>w. \A S : Weight(A, S) = Weight(B, S) - One(c \in S) + One(o \in S) + One(n \in S)
  BY <1>2, BecomesAndWeight DEF Splits
<1>4. c.place = "air" /\ c.why = "none" /\ c.got
  OBVIOUS
<1>5. \A k \in Keys : Single(A, k) => Weight(A, Open(k)) <= Weight(B, Open(k))
  <2> SUFFICES ASSUME NEW k \in Keys, Single(A, k) PROVE Weight(A, Open(k)) <= Weight(B, Open(k))
    OBVIOUS
  <2>1. k # c.key
    BY <1>2, <1>3 DEF Single
  <2>2. o \notin Open(k) /\ n \notin Open(k) /\ c \notin Open(k)
    BY <1>2, <2>1 DEF Open
  <2>3. Weight(B, Open(k)) \in Nat
    BY WeightType DEF IsBagOf
  <2> QED
    BY <1>w, <2>2, <2>3 DEF One
<1>6. \A d \in DOMAIN B : d.why = "recovered" => d \in DOMAIN A
  BY <1>3, <1>4
<1>7. Lasting(o)
  BY <1>2 DEF Lasting, Marked
<1>8. \A d \in DOMAIN A : Marked(d) => d \in DOMAIN B \/ \E e \in DOMAIN A : e.key = d.key /\ Lasting(e)
  BY <1>2, <1>3, <1>7
<1>9. \A d \in DOMAIN B : Lasting(d) => \E e \in DOMAIN A : e.key = d.key /\ Lasting(e)
  BY <1>3, <1>4 DEF Lasting
<1>10. /\ Structure(A)
       /\ \A k : Single(A, k) => Single(B, k)
       /\ \A k : Clean(A, k) => Clean(B, k)
  BY <1>3, <1>5, <1>6, <1>8, <1>9, StructureKept
<1>11. \A d : d.key # c.key => (d \in DOMAIN A <=> d \in DOMAIN B)
  BY <1>2, <1>3
<1> QED
  BY <1>3, <1>10, <1>11, <1>w DEF Keeps, Splits

\* The sender's copy of a frame that was received goes.
LEMMA AckKeeps ==
  ASSUME NEW B, IsBagOf(B, CopySpace), Structure(B), NEW c \in DOMAIN B, c.place = "air", c.got, c.why = "none",
         NEW A, A = Take(B, c)
  PROVE  Keeps(B, A, c.key, {}) /\ Leaves(B, A, c)
<1>1. c \in CopySpace
  BY DEF IsBagOf
<1>2. /\ IsBagOf(A, CopySpace)
      /\ \A x : x \in DOMAIN A <=> x \in DOMAIN B /\ (x = c => B[c] > 1)
  BY TakeFacts
<1>w. \A S : Weight(A, S) = Weight(B, S) - One(c \in S)
  BY TakeFacts DEF One
<1>3. c.place = "air" /\ c.why = "none" /\ c.got
  OBVIOUS
<1>5. \A S : Weight(B, S) \in Nat
  BY WeightType DEF IsBagOf
<1>7. \A k \in Keys : Weight(A, Open(k)) <= Weight(B, Open(k))
  <2> TAKE k \in Keys
  <2>1. c \notin Open(k)
    BY <1>3 DEF Open
  <2> QED
    BY <1>w, <1>5, <2>1 DEF One
<1>8. \A d \in DOMAIN B : d.why = "recovered" => d \in DOMAIN A
  BY <1>2, <1>3
<1>9. \A d \in DOMAIN B : Lasting(d) => \E e \in DOMAIN A : e.key = d.key /\ Lasting(e)
  BY <1>2, <1>3 DEF Lasting
<1>10. /\ Structure(A)
       /\ \A k : Single(A, k) => Single(B, k)
       /\ \A k : Clean(A, k) => Clean(B, k)
  BY <1>2, <1>7, <1>8, <1>9, StructureKept
<1>11. \A d : d.key # c.key => (d \in DOMAIN A <=> d \in DOMAIN B)
  BY <1>2
<1>12. Keeps(B, A, c.key, {})
  BY <1>2, <1>10, <1>11 DEF Keeps
<1> QED
  BY <1>w, <1>12 DEF Leaves

\* The first copy of a packet.
LEMMA BornKeeps ==
  ASSUME NEW B, IsBagOf(B, CopySpace), Structure(B), NEW n \in CopySpace, \A d \in DOMAIN B : d.key # n.key,
         ~n.got, n.spent = 0, n.why # "recovered",
         NEW A, A = Put(B, n)
  PROVE  Keeps(B, A, n.key, {n}) /\ Joins(B, A, n)
<1>1. /\ IsBagOf(A, CopySpace)
      /\ \A x : x \in DOMAIN A <=> x \in DOMAIN B \/ x = n
      /\ \A S : Weight(A, S) = Weight(B, S) + One(n \in S)
  BY PutFacts DEF One
<1>3. \A S : Weight(B, S) \in Nat
  BY WeightType DEF IsBagOf
<1>5. \A k : Single(A, k) <=> Single(B, k)
  BY <1>1 DEF Single
<1>6. ~Marked(n)
  BY DEF Marked
<1>7. \A k : Clean(A, k) <=> Clean(B, k)
  BY <1>1, <1>6 DEF Clean
<1>8. ASSUME NEW k \in Keys, Single(A, k) PROVE Weight(A, Open(k)) <= 1
  <2>1. CASE k = n.key
    <3>1. Open(k) \cap DOMAIN B = {}
      BY <2>1 DEF Open
    <3>2. Weight(B, Open(k)) = 0
      BY <3>1, WeightZero DEF IsBagOf
    <3> QED
      BY <1>1, <3>2 DEF One
  <2>2. CASE k # n.key
    <3>1. n \notin Open(k)
      BY <2>2 DEF Open
    <3>2. Weight(B, Open(k)) <= 1
      BY <1>5, <1>8 DEF Structure
    <3> QED
      BY <1>1, <1>3, <3>1, <3>2 DEF One
  <2> QED
    BY <2>1, <2>2
<1>9. Structure(A)
  <2>1. ASSUME NEW c \in DOMAIN A, Marked(c) PROVE \E d \in DOMAIN A : d.key = c.key /\ Lasting(d)
    <3>1. c \in DOMAIN B
      BY <1>1, <1>6, <2>1
    <3>2. PICK d \in DOMAIN B : d.key = c.key /\ Lasting(d)
      BY <2>1, <3>1 DEF Structure
    <3> QED
      BY <1>1, <3>2
  <2> QED
    BY <1>8, <2>1 DEF Structure
<1>10. Keeps(B, A, n.key, {n})
  <2>1. \A d : d.key # n.key => (d \in DOMAIN A <=> d \in DOMAIN B)
    BY <1>1
  <2> QED
    BY <1>1, <1>5, <1>7, <1>9, <2>1 DEF Keeps
<1> QED
  BY <1>1, <1>10 DEF Joins

-----------------------------------------------------------------------------
(* What the hooks say of the other packets *)

\* Two hooks about the same packet say nothing of the others.
LEMMA ElsewhereTrans ==
  ASSUME NEW a, NEW d, NEW b, NEW k, Elsewhere(a, d, k), Elsewhere(d, b, k)
  PROVE  Elsewhere(a, b, k)
BY DEF Elsewhere

\* The mark of a packet and counters alone.
LEMMA ElsewhereMarks ==
  ASSUME NEW a, NEW b, NEW k, NEW f, NEW F,
         Same(a, b, F), F \subseteq Counters \cup {"flowMonitor", "fate"}, Marks(a, b, k, f)
  PROVE  Elsewhere(a, b, k)
<1>1. /\ a.on = b.on /\ a.rxSeq = b.rxSeq /\ a.routePending = b.routePending /\ a.routeRx = b.routeRx
      /\ a.reinj = b.reinj /\ a.reinjSkip = b.reinjSkip
  BY DEF Same, Fields, Counters
<1>2. a.pqPending = b.pqPending
  BY DEF Same, Fields, Counters
<1> QED
  BY <1>1, <1>2 DEF Elsewhere, Marks, Delivered

\* Counters alone.
LEMMA ElsewhereCounters ==
  ASSUME NEW a, NEW b, NEW k, NEW F, Same(a, b, F), F \subseteq Counters \cup {"flowMonitor"}
  PROVE  Elsewhere(a, b, k)
<1>1. /\ a.on = b.on /\ a.rxSeq = b.rxSeq /\ a.routePending = b.routePending /\ a.routeRx = b.routeRx
      /\ a.reinj = b.reinj /\ a.reinjSkip = b.reinjSkip /\ a.fate = b.fate
  BY DEF Same, Fields, Counters
<1>2. a.pqPending = b.pqPending
  BY DEF Same, Fields, Counters
<1> QED
  BY <1>1, <1>2 DEF Elsewhere, Delivered

\* Books with the same events have the same keys and totals.
LEMMA SameEvents ==
  ASSUME NEW r, NEW s, Events(r) = Events(s)
  PROVE  DOMAIN r = DOMAIN s /\ Total(r) = Total(s)
<1>1. DOMAIN Events(r) = DOMAIN r /\ DOMAIN Events(s) = DOMAIN s
  BY DEF Events
<1> QED
  BY <1>1 DEF Total

\* A packet handed to an interface.
LEMMA ElsewhereHopTx ==
  ASSUME NEW b, IsLedger(b), NEW k, NEW n
  PROVE  Elsewhere(CountDataHopTx(b, k, n), b, k)
<1> DEFINE a == CountDataHopTx(b, k, n)
<1>1. /\ Same(a, b, {"hopTx", "routePending", "reinj", "fate"})
      /\ a.routePending = Set(b.routePending, k, Append(Lookup(b.routePending, k, <<>>), n))
      /\ Events(a.reinj) = Events(b.reinj)
      /\ Marks(a, b, k, "Tx")
  BY HopTxIs
<1> HIDE DEF a
<1>2. DOMAIN a.reinj = DOMAIN b.reinj
  BY <1>1, SameEvents
<1>3. a.on = b.on /\ a.rxSeq = b.rxSeq /\ a.routeRx = b.routeRx /\ a.reinjSkip = b.reinjSkip /\ a.pqPending = b.pqPending
  BY <1>1 DEF Same, Fields, Counters
<1>4. \A x : x # k => /\ x \in DOMAIN a.routePending <=> x \in DOMAIN b.routePending
                      /\ x \in DOMAIN b.routePending => a.routePending[x] = b.routePending[x]
  BY <1>1 DEF Set
<1> QED
  BY <1>1, <1>2, <1>3, <1>4 DEF Elsewhere, Marks, Delivered, a

\* A packet received.
LEMMA ElsewhereHopRx ==
  ASSUME NEW b, IsLedger(b), NEW k
  PROVE  Elsewhere(CountDataHopRx(b, k), b, k)
<1> DEFINE a == CountDataHopRx(b, k)
<1>1. /\ Same(a, b, {"hopRx", "reinj", "fate"})
      /\ Events(a.reinj) = Events(b.reinj)
      /\ Marks(a, b, k, "AtNode")
  BY HopRxIs
<1> HIDE DEF a
<1>2. DOMAIN a.reinj = DOMAIN b.reinj
  BY <1>1, SameEvents
<1>3. /\ a.on = b.on /\ a.rxSeq = b.rxSeq /\ a.routePending = b.routePending /\ a.routeRx = b.routeRx
      /\ a.reinjSkip = b.reinjSkip /\ a.pqPending = b.pqPending
  BY <1>1 DEF Same, Fields, Counters
<1> QED
  BY <1>1, <1>2, <1>3 DEF Elsewhere, Marks, Delivered, a

\* A packet that the network layer drops.
LEMMA ElsewhereL3Drop ==
  ASSUME NEW b, IsLedger(b), NEW k, NEW reason \in {"route", "ttl"}
  PROVE  Elsewhere(L3Drop(b, k, reason), b, k)
<1> DEFINE a == L3Drop(b, k, reason)
           f == FateOf(reason)
<1>1. /\ Same(a, b, {"reinj", "fate", "pqPending", "pqEcb", "flowMonitor"})
      /\ Events(a.reinj) = Events(b.reinj)
      /\ Marks(a, b, k, f)
      /\ Untracked(a, b, k)
  BY L3DropIs
<1> HIDE DEF a, f
<1>2. DOMAIN a.reinj = DOMAIN b.reinj
  BY <1>1, SameEvents
<1>3. a.on = b.on /\ a.rxSeq = b.rxSeq /\ a.routePending = b.routePending /\ a.routeRx = b.routeRx /\ a.reinjSkip = b.reinjSkip
  BY <1>1 DEF Same, Fields, Counters
<1>4. \A x : x # k => (x \in a.pqPending <=> x \in b.pqPending)
  BY <1>1 DEF Untracked
<1> QED
  BY <1>1, <1>2, <1>3, <1>4 DEF Elsewhere, Marks, Delivered, a

\* A packet that the pending queue is told of.
LEMMA ElsewhereTrack ==
  ASSUME NEW b, IsLedger(b), NEW k
  PROVE  Elsewhere(PqTrackTx(b, k, TRUE), b, k) /\ Elsewhere(PqTrackTx(b, k, FALSE), b, k)
<1>1. ASSUME NEW a, Same(a, b, {"pqPending"}), \A x : x # k => (x \in a.pqPending <=> x \in b.pqPending)
      PROVE  Elsewhere(a, b, k)
  <2>1. /\ a.on = b.on /\ a.rxSeq = b.rxSeq /\ a.routePending = b.routePending /\ a.routeRx = b.routeRx
        /\ a.reinj = b.reinj /\ a.reinjSkip = b.reinjSkip /\ a.fate = b.fate
    BY <1>1 DEF Same, Fields, Counters
  <2> QED
    BY <1>1, <2>1 DEF Elsewhere, Delivered
<1> DEFINE a == PqTrackTx(b, k, TRUE)
           e == PqTrackTx(b, k, FALSE)
<1>2. /\ Same(a, b, {"pqPending"}) /\ Same(e, b, {"pqPending"})
      /\ a.pqPending = IF "pendingQueue" \in b.on THEN b.pqPending \cup {k} ELSE b.pqPending
      /\ e.pqPending = IF "pendingQueue" \in b.on THEN b.pqPending \ {k} ELSE b.pqPending
  BY TrackIs
<1> HIDE DEF a, e
<1>3. \A x : x # k => (x \in a.pqPending <=> x \in b.pqPending) /\ (x \in e.pqPending <=> x \in b.pqPending)
  BY <1>2
<1>4. Elsewhere(a, b, k) /\ Elsewhere(e, b, k)
  BY <1>1, <1>2, <1>3
<1> QED
  BY <1>4 DEF a, e

\* One more arrival at the sink.
LEMMA DeliveredMore ==
  ASSUME NEW b, b.rxSeq \in Seq(Keys), NEW a, NEW k \in Keys, a.rxSeq = Append(b.rxSeq, k)
  PROVE  \A x : x \in Delivered(a) <=> x \in Delivered(b) \/ x = k
<1>1. Len(b.rxSeq) \in Nat /\ DOMAIN b.rxSeq = 1 .. Len(b.rxSeq) /\ DOMAIN a.rxSeq = 1 .. Len(b.rxSeq) + 1
  OBVIOUS
<1>2. a.rxSeq[Len(b.rxSeq) + 1] = k /\ \A i \in 1 .. Len(b.rxSeq) : a.rxSeq[i] = b.rxSeq[i]
  OBVIOUS
<1>3. \A x : x \in Delivered(b) <=> \E i \in 1 .. Len(b.rxSeq) : b.rxSeq[i] = x
  BY <1>1 DEF Delivered, ToSet
<1>4. \A x : x \in Delivered(a) <=> \E i \in 1 .. Len(b.rxSeq) + 1 : a.rxSeq[i] = x
  BY <1>1 DEF Delivered, ToSet
<1>5. \A i \in 1 .. Len(b.rxSeq) + 1 : i = Len(b.rxSeq) + 1 \/ i \in 1 .. Len(b.rxSeq)
  BY <1>1
<1>6. Len(b.rxSeq) + 1 \in 1 .. Len(b.rxSeq) + 1 /\ \A i \in 1 .. Len(b.rxSeq) : i \in 1 .. Len(b.rxSeq) + 1
  BY <1>1
<1> QED
  BY <1>2, <1>3, <1>4, <1>5, <1>6

\* A packet that the sink gets.
LEMMA ElsewhereDeliver ==
  ASSUME NEW b, IsLedger(b), NEW k \in Keys
  PROVE  Elsewhere(Deliver(b, k), b, k)
<1> DEFINE a == Deliver(b, k)
<1>1. /\ Same(a, b, {"rxSeq", "routePending", "routeRx"})
      /\ a.rxSeq = Append(b.rxSeq, k)
      /\ a.routePending = Without(b.routePending, k)
      /\ a.routeRx = b.routeRx \/ a.routeRx = Set(b.routeRx, k, b.routePending[k])
  BY DeliverIs
<1> HIDE DEF a
<1>2. a.on = b.on /\ a.pqPending = b.pqPending /\ a.reinj = b.reinj /\ a.reinjSkip = b.reinjSkip /\ a.fate = b.fate
  BY <1>1 DEF Same, Fields, Counters
<1>3. \A x : x \in Delivered(a) <=> x \in Delivered(b) \/ x = k
  BY <1>1, DeliveredMore DEF IsLedger
<1>4. \A x : x # k => /\ x \in DOMAIN a.routePending <=> x \in DOMAIN b.routePending
                      /\ x \in DOMAIN b.routePending => a.routePending[x] = b.routePending[x]
  BY <1>1 DEF Without
<1>5. \A x : x # k => /\ x \in DOMAIN a.routeRx <=> x \in DOMAIN b.routeRx
                      /\ x \in DOMAIN b.routeRx => a.routeRx[x] = b.routeRx[x]
  BY <1>1 DEF Set
<1> QED
  BY <1>2, <1>3, <1>4, <1>5 DEF Elsewhere, a

\* The books of re-injection.
LEMMA ElsewhereReinject ==
  ASSUME NEW b, IsLedger(b), NEW k
  PROVE  Elsewhere(CountMacReinject(b, k), b, k) /\ Elsewhere(CountMacReinjectSkip(b, k), b, k)
<1> DEFINE a == CountMacReinject(b, k)
           e == CountMacReinjectSkip(b, k)
<1>1. Same(a, b, {"reinj", "reinjOfDelivered"}) /\ \A x : x \in DOMAIN a.reinj <=> x \in DOMAIN b.reinj \/ x = k
  BY ReinjectIs
<1>2. Same(e, b, {"reinjSkip"}) /\ \A x : x \in DOMAIN e.reinjSkip <=> x \in DOMAIN b.reinjSkip \/ x = k
  BY SkipIs
<1> HIDE DEF a, e
<1>3. /\ a.on = b.on /\ a.rxSeq = b.rxSeq /\ a.routePending = b.routePending /\ a.routeRx = b.routeRx
      /\ a.pqPending = b.pqPending /\ a.reinjSkip = b.reinjSkip /\ a.fate = b.fate
  BY <1>1 DEF Same, Fields, Counters
<1>4. /\ e.on = b.on /\ e.rxSeq = b.rxSeq /\ e.routePending = b.routePending /\ e.routeRx = b.routeRx
      /\ e.pqPending = b.pqPending /\ e.reinj = b.reinj /\ e.fate = b.fate
  BY <1>2 DEF Same, Fields, Counters
<1>5. Elsewhere(a, b, k)
  BY <1>1, <1>3 DEF Elsewhere, Delivered
<1>6. Elsewhere(e, b, k)
  BY <1>2, <1>4 DEF Elsewhere, Delivered
<1> QED
  BY <1>5, <1>6 DEF a, e

-----------------------------------------------------------------------------
(* Hooks that a step calls together *)

\* The later of two marks holds.
LEMMA MarksTwice ==
  ASSUME NEW a, NEW d, NEW b, NEW k, NEW f, NEW g, Marks(a, d, k, f), Marks(d, b, k, g), d.on = b.on
  PROVE  Marks(a, b, k, f)
BY DEF Marks

\* The first transmission of a packet by its source.
LEMMA FirstTxIs ==
  ASSUME NEW b, IsLedger(b), NEW k, NEW n
  PROVE  LET a == CountDataHopTx(CountFateSend(b, k), k, n)
         IN /\ IsLedger(a) /\ Elsewhere(a, b, k)
            /\ Same(a, b, {"hopTx", "routePending", "reinj", "fate", "flowMonitor"})
            /\ a.hopTx = b.hopTx + 1
            /\ a.flowMonitor = [b.flowMonitor EXCEPT !.tx = @ + 1]
            /\ a.routePending = Set(b.routePending, k, Append(Lookup(b.routePending, k, <<>>), n))
            /\ Events(a.reinj) = Events(b.reinj)
            /\ Marks(a, b, k, "Tx")
<1> DEFINE d == CountFateSend(b, k)
           a == CountDataHopTx(d, k, n)
<1>1. /\ IsLedger(d) /\ Same(d, b, {"fate", "flowMonitor"}) /\ Marks(d, b, k, "AtNode")
      /\ d.flowMonitor = [b.flowMonitor EXCEPT !.tx = @ + 1]
  BY SendIs
<1> HIDE DEF d
<1>2. Elsewhere(d, b, k)
  BY <1>1, ElsewhereMarks DEF Counters
<1>3. /\ IsLedger(a) /\ Same(a, d, {"hopTx", "routePending", "reinj", "fate"}) /\ a.hopTx = d.hopTx + 1
      /\ a.routePending = Set(d.routePending, k, Append(Lookup(d.routePending, k, <<>>), n))
      /\ Events(a.reinj) = Events(d.reinj) /\ Marks(a, d, k, "Tx") /\ Elsewhere(a, d, k)
  BY <1>1, HopTxIs, ElsewhereHopTx
<1> HIDE DEF a
<1>4. d.hopTx = b.hopTx /\ d.routePending = b.routePending /\ d.reinj = b.reinj /\ d.on = b.on
  BY <1>1 DEF Same, Fields, Counters
<1>5. a.flowMonitor = d.flowMonitor
  BY <1>3 DEF Same, Fields, Counters
<1>6. Same(a, b, {"hopTx", "routePending", "reinj", "fate", "flowMonitor"})
  BY <1>1, <1>3 DEF Same, Fields, Counters
<1>7. Marks(a, b, k, "Tx")
  BY <1>1, <1>3, <1>4, MarksTwice
<1>8. Elsewhere(a, b, k)
  BY <1>2, <1>3, ElsewhereTrans
<1> QED
  BY <1>1, <1>3, <1>4, <1>5, <1>6, <1>7, <1>8 DEF a, d

\* A packet without a route goes into the queue of the protocol.
LEMMA DeferIs ==
  ASSUME NEW b, IsLedger(b), NEW k
  PROVE  LET a == PqTrackTx(CountFateSend(b, k), k, TRUE)
         IN /\ IsLedger(a) /\ Elsewhere(a, b, k)
            /\ Same(a, b, {"fate", "flowMonitor", "pqPending"})
            /\ a.flowMonitor = [b.flowMonitor EXCEPT !.tx = @ + 1]
            /\ a.pqPending = IF "pendingQueue" \in b.on THEN b.pqPending \cup {k} ELSE b.pqPending
            /\ Marks(a, b, k, "AtNode")
<1> DEFINE d == CountFateSend(b, k)
           a == PqTrackTx(d, k, TRUE)
<1>1. /\ IsLedger(d) /\ Same(d, b, {"fate", "flowMonitor"}) /\ Marks(d, b, k, "AtNode")
      /\ d.flowMonitor = [b.flowMonitor EXCEPT !.tx = @ + 1]
  BY SendIs
<1> HIDE DEF d
<1>2. Elsewhere(d, b, k)
  BY <1>1, ElsewhereMarks DEF Counters
<1>3. /\ IsLedger(a) /\ Same(a, d, {"pqPending"}) /\ Elsewhere(a, d, k)
      /\ a.pqPending = IF "pendingQueue" \in d.on THEN d.pqPending \cup {k} ELSE d.pqPending
  BY <1>1, TrackIs, ElsewhereTrack
<1> HIDE DEF a
<1>4. d.pqPending = b.pqPending /\ d.on = b.on
  BY <1>1 DEF Same, Fields, Counters
<1>5. a.flowMonitor = d.flowMonitor /\ a.fate = d.fate
  BY <1>3 DEF Same, Fields, Counters
<1>6. Same(a, b, {"fate", "flowMonitor", "pqPending"})
  BY <1>1, <1>3 DEF Same, Fields, Counters
<1>7. Marks(a, b, k, "AtNode")
  BY <1>1, <1>5 DEF Marks
<1>8. Elsewhere(a, b, k)
  BY <1>2, <1>3, ElsewhereTrans
<1> QED
  BY <1>1, <1>3, <1>4, <1>5, <1>6, <1>7, <1>8 DEF a, d

\* A packet is sent to a neighbour.
LEMMA SentIs ==
  ASSUME NEW b, IsLedger(b), NEW c
  PROVE  LET a == Sent(b, c)
             k == c.key
         IN /\ IsLedger(a) /\ Elsewhere(a, b, k)
            /\ Same(a, b, {"hopTx", "routePending", "reinj", "fate", "pqPending"})
            /\ a.hopTx = b.hopTx + 1
            /\ a.routePending = Set(b.routePending, k, Append(Lookup(b.routePending, k, <<>>), c.at))
            /\ Events(a.reinj) = Events(b.reinj)
            /\ Marks(a, b, k, "Tx")
            /\ a.pqPending = IF "pendingQueue" \in b.on THEN b.pqPending \ {k} ELSE b.pqPending
<1> DEFINE k == c.key
           d == CountDataHopTx(b, k, c.at)
           a == PqTrackTx(d, k, FALSE)
<1>0. Sent(b, c) = a
  BY DEF Sent
<1>1. /\ IsLedger(d) /\ Same(d, b, {"hopTx", "routePending", "reinj", "fate"}) /\ d.hopTx = b.hopTx + 1
      /\ d.routePending = Set(b.routePending, k, Append(Lookup(b.routePending, k, <<>>), c.at))
      /\ Events(d.reinj) = Events(b.reinj) /\ Marks(d, b, k, "Tx") /\ Elsewhere(d, b, k)
  BY HopTxIs, ElsewhereHopTx
<1> HIDE DEF d
<1>3. /\ IsLedger(a) /\ Same(a, d, {"pqPending"}) /\ Elsewhere(a, d, k)
      /\ a.pqPending = IF "pendingQueue" \in d.on THEN d.pqPending \ {k} ELSE d.pqPending
  BY <1>1, TrackIs, ElsewhereTrack
<1> HIDE DEF a, k
<1>4. d.pqPending = b.pqPending /\ d.on = b.on
  BY <1>1 DEF Same, Fields, Counters
<1>5. a.hopTx = d.hopTx /\ a.routePending = d.routePending /\ a.reinj = d.reinj /\ a.fate = d.fate
  BY <1>3 DEF Same, Fields, Counters
<1>6. Same(a, b, {"hopTx", "routePending", "reinj", "fate", "pqPending"})
  BY <1>1, <1>3 DEF Same, Fields, Counters
<1>7. Marks(a, b, k, "Tx")
  BY <1>1, <1>5 DEF Marks
<1>8. Elsewhere(a, b, k)
  BY <1>1, <1>3, ElsewhereTrans
<1> QED
  BY <1>0, <1>1, <1>3, <1>4, <1>5, <1>6, <1>7, <1>8 DEF k

\* A packet arrives at its sink.
LEMMA ReachIs ==
  ASSUME NEW b, IsLedger(b), NEW k \in Keys
  PROVE  LET a == Deliver(CountDataHopRx(b, k), k)
         IN /\ IsLedger(a) /\ Elsewhere(a, b, k)
            /\ Same(a, b, {"hopRx", "reinj", "fate", "rxSeq", "routePending", "routeRx"})
            /\ a.hopRx = b.hopRx + 1
            /\ Events(a.reinj) = Events(b.reinj)
            /\ Marks(a, b, k, "AtNode")
            /\ a.rxSeq = Append(b.rxSeq, k)
            /\ a.routeRx = IF k \in DOMAIN b.routePending /\ k \notin DOMAIN b.routeRx
                           THEN Set(b.routeRx, k, b.routePending[k]) ELSE b.routeRx
            /\ \A x : x \in Delivered(a) <=> x \in Delivered(b) \/ x = k
<1> DEFINE d == CountDataHopRx(b, k)
           a == Deliver(d, k)
<1>1. /\ IsLedger(d) /\ Same(d, b, {"hopRx", "reinj", "fate"}) /\ d.hopRx = b.hopRx + 1
      /\ Events(d.reinj) = Events(b.reinj) /\ Marks(d, b, k, "AtNode") /\ Elsewhere(d, b, k)
  BY HopRxIs, ElsewhereHopRx
<1> HIDE DEF d
<1>3. /\ IsLedger(a) /\ Same(a, d, {"rxSeq", "routePending", "routeRx"}) /\ Elsewhere(a, d, k)
      /\ a.rxSeq = Append(d.rxSeq, k)
      /\ a.routeRx = IF k \in DOMAIN d.routePending /\ k \notin DOMAIN d.routeRx
                     THEN Set(d.routeRx, k, d.routePending[k]) ELSE d.routeRx
  BY <1>1, DeliverIs, ElsewhereDeliver
<1> HIDE DEF a
<1>4. d.rxSeq = b.rxSeq /\ d.routePending = b.routePending /\ d.routeRx = b.routeRx
  BY <1>1 DEF Same, Fields, Counters
<1>5. a.hopRx = d.hopRx /\ a.reinj = d.reinj /\ a.fate = d.fate
  BY <1>3 DEF Same, Fields, Counters
<1>6. Same(a, b, {"hopRx", "reinj", "fate", "rxSeq", "routePending", "routeRx"})
  BY <1>1, <1>3 DEF Same, Fields, Counters
<1>7. Marks(a, b, k, "AtNode")
  BY <1>1, <1>5 DEF Marks
<1>8. Elsewhere(a, b, k)
  BY <1>1, <1>3, ElsewhereTrans
<1>9. \A x : x \in Delivered(a) <=> x \in Delivered(b) \/ x = k
  BY <1>3, <1>4, DeliveredMore DEF IsLedger
<1> QED
  BY <1>1, <1>3, <1>4, <1>5, <1>6, <1>7, <1>8, <1>9 DEF a, d

\* A packet arrives and is sent on.
LEMMA ForwardIs ==
  ASSUME NEW b, IsLedger(b), NEW c
  PROVE  LET a == Sent(CountDataHopRx(b, c.key), c)
             k == c.key
         IN /\ IsLedger(a) /\ Elsewhere(a, b, k)
            /\ Same(a, b, {"hopRx", "hopTx", "routePending", "reinj", "fate", "pqPending"})
            /\ a.hopRx = b.hopRx + 1 /\ a.hopTx = b.hopTx + 1
            /\ a.routePending = Set(b.routePending, k, Append(Lookup(b.routePending, k, <<>>), c.at))
            /\ Events(a.reinj) = Events(b.reinj)
            /\ Marks(a, b, k, "Tx")
            /\ a.pqPending = IF "pendingQueue" \in b.on THEN b.pqPending \ {k} ELSE b.pqPending
<1> DEFINE k == c.key
           d == CountDataHopRx(b, k)
           a == Sent(d, c)
<1>1. /\ IsLedger(d) /\ Same(d, b, {"hopRx", "reinj", "fate"}) /\ d.hopRx = b.hopRx + 1
      /\ Events(d.reinj) = Events(b.reinj) /\ Marks(d, b, k, "AtNode") /\ Elsewhere(d, b, k)
  BY HopRxIs, ElsewhereHopRx
<1> HIDE DEF d
<1>3. /\ IsLedger(a) /\ Elsewhere(a, d, k)
      /\ Same(a, d, {"hopTx", "routePending", "reinj", "fate", "pqPending"})
      /\ a.hopTx = d.hopTx + 1
      /\ a.routePending = Set(d.routePending, k, Append(Lookup(d.routePending, k, <<>>), c.at))
      /\ Events(a.reinj) = Events(d.reinj)
      /\ Marks(a, d, k, "Tx")
      /\ a.pqPending = IF "pendingQueue" \in d.on THEN d.pqPending \ {k} ELSE d.pqPending
  BY <1>1, SentIs
<1> HIDE DEF a, k
<1>4. d.pqPending = b.pqPending /\ d.on = b.on /\ d.hopTx = b.hopTx /\ d.routePending = b.routePending
  BY <1>1 DEF Same, Fields, Counters
<1>5. a.hopRx = d.hopRx
  BY <1>3 DEF Same, Fields, Counters
<1>6. Same(a, b, {"hopRx", "hopTx", "routePending", "reinj", "fate", "pqPending"})
  BY <1>1, <1>3 DEF Same, Fields, Counters
<1>7. Marks(a, b, k, "Tx")
  BY <1>1, <1>3, <1>4, MarksTwice
<1>8. Elsewhere(a, b, k)
  BY <1>1, <1>3, ElsewhereTrans
<1> QED
  BY <1>1, <1>3, <1>4, <1>5, <1>6, <1>7, <1>8 DEF k, a, d

\* A packet arrives and is dropped.
LEMMA RefusedIs ==
  ASSUME NEW b, IsLedger(b), NEW k, NEW reason \in {"route", "ttl"}
  PROVE  LET a == L3Drop(CountDataHopRx(b, k), k, reason)
         IN /\ IsLedger(a) /\ Elsewhere(a, b, k)
            /\ Same(a, b, {"hopRx", "reinj", "fate", "pqPending", "pqEcb", "flowMonitor"})
            /\ a.hopRx = b.hopRx + 1
            /\ OneDrop(a, b, reason)
            /\ Events(a.reinj) = Events(b.reinj)
            /\ Marks(a, b, k, FateOf(reason))
            /\ Untracked(a, b, k)
<1> DEFINE d == CountDataHopRx(b, k)
           a == L3Drop(d, k, reason)
<1>1. /\ IsLedger(d) /\ Same(d, b, {"hopRx", "reinj", "fate"}) /\ d.hopRx = b.hopRx + 1
      /\ Events(d.reinj) = Events(b.reinj) /\ Marks(d, b, k, "AtNode") /\ Elsewhere(d, b, k)
  BY HopRxIs, ElsewhereHopRx
<1> HIDE DEF d
<1>2. d.flowMonitor = b.flowMonitor /\ d.pqPending = b.pqPending /\ d.pqEcb = b.pqEcb /\ d.on = b.on
  BY <1>1 DEF Same, Fields, Counters
<1>3. /\ IsLedger(a) /\ Elsewhere(a, d, k)
      /\ Same(a, d, {"reinj", "fate", "pqPending", "pqEcb", "flowMonitor"})
      /\ OneDrop(a, d, reason)
      /\ Events(a.reinj) = Events(d.reinj)
      /\ Marks(a, d, k, FateOf(reason))
      /\ Untracked(a, d, k)
  BY <1>1, L3DropIs, ElsewhereL3Drop
<1> HIDE DEF a
<1>4. OneDrop(a, b, reason) /\ Untracked(a, b, k)
  BY <1>2, <1>3 DEF OneDrop, Untracked
<1>5. a.hopRx = d.hopRx
  BY <1>3 DEF Same, Fields, Counters
<1>6. Same(a, b, {"hopRx", "reinj", "fate", "pqPending", "pqEcb", "flowMonitor"})
  BY <1>1, <1>3 DEF Same, Fields, Counters
<1>7. Marks(a, b, k, FateOf(reason))
  BY <1>1, <1>2, <1>3, MarksTwice
<1>8. Elsewhere(a, b, k)
  BY <1>1, <1>3, ElsewhereTrans
<1> QED
  BY <1>1, <1>3, <1>4, <1>5, <1>6, <1>7, <1>8 DEF a, d

\* The MAC gives a frame up, and the cap on re-injections lets its packet go.
LEMMA MacSkipIs ==
  ASSUME NEW b, IsLedger(b), NEW k
  PROVE  LET a == CountMacReinjectSkip(CountMacDataDrop(b, k), k)
         IN /\ IsLedger(a) /\ Elsewhere(a, b, k)
            /\ Same(a, b, {"macDrops", "fate", "reinjSkip"})
            /\ a.macDrops = b.macDrops + 1
            /\ Marks(a, b, k, "Mac")
            /\ \A x : x \in DOMAIN a.reinjSkip <=> x \in DOMAIN b.reinjSkip \/ x = k
            /\ Events(a.reinjSkip)[k] = (IF k \in DOMAIN b.reinjSkip THEN Events(b.reinjSkip)[k] ELSE 0) + 1
            /\ \A x \in DOMAIN b.reinjSkip : x # k =>
                 a.reinjSkip[x] = b.reinjSkip[x] /\ Events(a.reinjSkip)[x] = Events(b.reinjSkip)[x]
            /\ k \notin DOMAIN b.reinjSkip =>
                 "rxAtFirstSkip" \in DOMAIN a.reinjSkip[k] /\ a.reinjSkip[k].rxAtFirstSkip = RxCount(b, k)
            /\ k \in DOMAIN b.reinjSkip /\ "rxAtFirstSkip" \in DOMAIN b.reinjSkip[k] =>
                 "rxAtFirstSkip" \in DOMAIN a.reinjSkip[k] /\ a.reinjSkip[k].rxAtFirstSkip = b.reinjSkip[k].rxAtFirstSkip
<1> DEFINE d == CountMacDataDrop(b, k)
           a == CountMacReinjectSkip(d, k)
<1>1. IsLedger(d) /\ Same(d, b, {"macDrops", "fate"}) /\ d.macDrops = b.macDrops + 1 /\ Marks(d, b, k, "Mac")
  BY MacDropIs
<1> HIDE DEF d
<1>2. Elsewhere(d, b, k)
  BY <1>1, ElsewhereMarks DEF Counters
<1>3. d.reinjSkip = b.reinjSkip /\ RxCount(d, k) = RxCount(b, k)
  <2>1. d.reinjSkip = b.reinjSkip /\ d.rxSeq = b.rxSeq
    BY <1>1 DEF Same, Fields, Counters
  <2> QED
    BY <2>1 DEF RxCount
<1>4. /\ IsLedger(a) /\ Same(a, d, {"reinjSkip"})
      /\ \A x : x \in DOMAIN a.reinjSkip <=> x \in DOMAIN d.reinjSkip \/ x = k
      /\ Events(a.reinjSkip)[k] = (IF k \in DOMAIN d.reinjSkip THEN Events(d.reinjSkip)[k] ELSE 0) + 1
      /\ \A x \in DOMAIN d.reinjSkip : x # k =>
           a.reinjSkip[x] = d.reinjSkip[x] /\ Events(a.reinjSkip)[x] = Events(d.reinjSkip)[x]
      /\ k \notin DOMAIN d.reinjSkip =>
           "rxAtFirstSkip" \in DOMAIN a.reinjSkip[k] /\ a.reinjSkip[k].rxAtFirstSkip = RxCount(d, k)
      /\ k \in DOMAIN d.reinjSkip /\ "rxAtFirstSkip" \in DOMAIN d.reinjSkip[k] =>
           "rxAtFirstSkip" \in DOMAIN a.reinjSkip[k] /\ a.reinjSkip[k].rxAtFirstSkip = d.reinjSkip[k].rxAtFirstSkip
  BY <1>1, SkipIs
<1>5. Elsewhere(a, d, k)
  BY <1>1, ElsewhereReinject
<1> HIDE DEF a
<1>6. a.macDrops = d.macDrops /\ a.fate = d.fate
  BY <1>4 DEF Same, Fields, Counters
<1>7. Same(a, b, {"macDrops", "fate", "reinjSkip"})
  BY <1>1, <1>4 DEF Same, Fields, Counters
<1>8. Marks(a, b, k, "Mac")
  BY <1>1, <1>6 DEF Marks
<1>9. Elsewhere(a, b, k)
  BY <1>2, <1>5, ElsewhereTrans
<1> QED
  BY <1>1, <1>3, <1>4, <1>6, <1>7, <1>8, <1>9 DEF a, d

\* The MAC gives a frame up, and the adapter takes its packet back.
LEMMA MacReinjectIs ==
  ASSUME NEW b, IsLedger(b), NEW k
  PROVE  LET a == CountMacReinject(CountMacDataDrop(b, k), k)
         IN /\ IsLedger(a) /\ Elsewhere(a, b, k)
            /\ Same(a, b, {"macDrops", "fate", "reinj", "reinjOfDelivered"})
            /\ a.macDrops = b.macDrops + 1
            /\ Marks(a, b, k, "Mac")
            /\ \A x : x \in DOMAIN a.reinj <=> x \in DOMAIN b.reinj \/ x = k
            /\ Events(a.reinj)[k] = (IF k \in DOMAIN b.reinj THEN Events(b.reinj)[k] ELSE 0) + 1
            /\ \A x \in DOMAIN b.reinj : x # k => Events(a.reinj)[x] = Events(b.reinj)[x]
<1> DEFINE d == CountMacDataDrop(b, k)
           a == CountMacReinject(d, k)
<1>1. IsLedger(d) /\ Same(d, b, {"macDrops", "fate"}) /\ d.macDrops = b.macDrops + 1 /\ Marks(d, b, k, "Mac")
  BY MacDropIs
<1> HIDE DEF d
<1>2. Elsewhere(d, b, k)
  BY <1>1, ElsewhereMarks DEF Counters
<1>3. d.reinj = b.reinj
  BY <1>1 DEF Same, Fields, Counters
<1>4. /\ IsLedger(a) /\ Same(a, d, {"reinj", "reinjOfDelivered"})
      /\ \A x : x \in DOMAIN a.reinj <=> x \in DOMAIN d.reinj \/ x = k
      /\ Events(a.reinj)[k] = (IF k \in DOMAIN d.reinj THEN Events(d.reinj)[k] ELSE 0) + 1
      /\ \A x \in DOMAIN d.reinj : x # k => Events(a.reinj)[x] = Events(d.reinj)[x]
  BY <1>1, ReinjectIs
<1>5. Elsewhere(a, d, k)
  BY <1>1, ElsewhereReinject
<1> HIDE DEF a
<1>6. a.macDrops = d.macDrops /\ a.fate = d.fate
  BY <1>4 DEF Same, Fields, Counters
<1>7. Same(a, b, {"macDrops", "fate", "reinj", "reinjOfDelivered"})
  BY <1>1, <1>4 DEF Same, Fields, Counters
<1>8. Marks(a, b, k, "Mac")
  BY <1>1, <1>6 DEF Marks
<1>9. Elsewhere(a, b, k)
  BY <1>2, <1>5, ElsewhereTrans
<1> QED
  BY <1>1, <1>3, <1>4, <1>6, <1>7, <1>8, <1>9 DEF a, d

\* The MAC gives a frame up, and an adaptive baseline takes its packet back.
LEMMA MacAdaptiveIs ==
  ASSUME NEW b, IsLedger(b), NEW k
  PROVE  LET a == CountAdaptiveReinject(CountMacDataDrop(b, k), k)
         IN /\ IsLedger(a) /\ Elsewhere(a, b, k)
            /\ Same(a, b, {"macDrops", "adaptiveReinj", "adaptiveArpReinj", "fate", "recovered"})
            /\ Marks(a, b, k, "AtNode")
<1> DEFINE d == CountMacDataDrop(b, k)
           a == CountAdaptiveReinject(d, k)
           F == {"adaptiveReinj", "adaptiveArpReinj", "fate", "recovered"}
<1>1. IsLedger(d) /\ Same(d, b, {"macDrops", "fate"}) /\ Marks(d, b, k, "Mac")
  BY MacDropIs
<1> HIDE DEF d
<1>2. IsLedger(a) /\ Same(a, d, F) /\ Marks(a, d, k, "AtNode")
  BY <1>1, AdaptiveIs
<1> HIDE DEF a
<1>3. Elsewhere(d, b, k) /\ Elsewhere(a, d, k)
  <2>1. {"macDrops", "fate"} \subseteq Counters \cup {"flowMonitor", "fate"}
    BY DEF Counters
  <2>2. F \subseteq Counters \cup {"flowMonitor", "fate"}
    BY DEF Counters
  <2> HIDE DEF F
  <2> QED
    BY <1>1, <1>2, <2>1, <2>2, ElsewhereMarks
<1>4. d.on = b.on
  BY <1>1 DEF Same, Fields, Counters
<1>5. Same(a, b, {"macDrops", "adaptiveReinj", "adaptiveArpReinj", "fate", "recovered"})
  BY <1>1, <1>2 DEF Same
<1>6. Marks(a, b, k, "AtNode")
  BY <1>1, <1>2, <1>4, MarksTwice
<1>7. Elsewhere(a, b, k)
  BY <1>3, ElsewhereTrans
<1> QED
  BY <1>2, <1>5, <1>6, <1>7 DEF a, d

\* One more event for a packet is one more in all.
LEMMA TallyTotals ==
  ASSUME NEW r, NEW s, IsTally(r), IsTally(s), IsFiniteSet(DOMAIN r), NEW k,
         \A x : x \in DOMAIN s <=> x \in DOMAIN r \/ x = k,
         Events(s)[k] = (IF k \in DOMAIN r THEN Events(r)[k] ELSE 0) + 1,
         \A x \in DOMAIN r : x # k => Events(s)[x] = Events(r)[x]
  PROVE  /\ \A S : Weight(Events(s), S) = Weight(Events(r), S) + One(k \in S)
         /\ Total(s) = Total(r) + 1
<1> DEFINE w == Events(r)
           v == Events(s)
           D == DOMAIN r
<1>1. w \in [D -> Nat]
  BY DEF Events, IsTally
<1>2. DOMAIN s = D \cup {k}
  OBVIOUS
<1>3. v \in [D \cup {k} -> Nat]
  BY <1>2 DEF Events, IsTally
<1> HIDE DEF w, v
<1>4. \A S : Weight(v, S) = Weight(w, S) + One(k \in S)
  BY <1>1, <1>3, WeightUp DEF One, w, v
<1>5. Weight(v, D \cup {k}) = Weight(w, D \cup {k}) + 1
  BY <1>4 DEF One
<1>6. Weight(w, D \cup {k}) = Weight(w, D)
  <2>1. (D \cup {k}) \cap DOMAIN w = D \cap DOMAIN w
    BY <1>1
  <2> QED
    BY <2>1 DEF Weight
<1>7. Total(s) = Weight(v, D \cup {k}) /\ Total(r) = Weight(w, D)
  BY <1>2 DEF Total, w, v
<1> QED
  BY <1>4, <1>5, <1>6, <1>7 DEF w, v

\* The events booked are a natural number.
LEMMA TotalType ==
  ASSUME NEW r, IsTally(r), IsFiniteSet(DOMAIN r)
  PROVE  Total(r) \in Nat /\ \A S : Weight(Events(r), S) \in Nat
<1>1. Events(r) \in [DOMAIN r -> Nat]
  BY DEF Events, IsTally
<1>2. \A S : Weight(Events(r), S) \in Nat
  BY <1>1, WeightType
<1> QED
  BY <1>2 DEF Total

-----------------------------------------------------------------------------
(* What the parts of the invariant need of a step *)

\* Only so many packets have been offered.
LEMMA OfferedFinite ==
  ASSUME NEW sc, NEW B, NEW b, Typed(sc, B, b)
  PROVE  /\ IsFiniteSet(Offered(b)) /\ b.flowMonitor.tx \in Nat
         /\ IsFiniteSet(b.pqPending) /\ IsFiniteSet(DOMAIN b.reinj) /\ IsFiniteSet(DOMAIN b.reinjSkip)
         /\ IsFiniteSet(Delivered(b))
<1>1. b.flowMonitor.tx \in Nat
  BY DEF Typed, IsLedger, Flow
<1>2. IsFiniteSet(1 .. b.flowMonitor.tx) /\ IsFiniteSet({Source})
  <2>1. b.flowMonitor.tx \in Int /\ 1 \in Int
    BY <1>1
  <2> QED
    BY <2>1, FS_Interval, FS_Singleton
<1>3. IsFiniteSet(Offered(b))
  BY <1>2, FS_Product DEF Offered
<1>4. /\ b.pqPending \subseteq Offered(b) /\ DOMAIN b.reinj \subseteq Offered(b)
      /\ DOMAIN b.reinjSkip \subseteq Offered(b) /\ Delivered(b) \subseteq Offered(b)
  BY DEF Typed
<1> QED
  BY <1>1, <1>3, <1>4, FS_Subset

\* The copies that have come are copies of k that a step may leave.
Fits(sc, a, k, new) ==
  \A n \in new : Proper(sc, n) /\ n.key = k /\ (n.why = "delivered" => k \in Delivered(a))

\* A step about the packet k keeps the types.
LEMMA TypedKept ==
  ASSUME NEW sc, NEW B, NEW b, Typed(sc, B, b), NEW A, NEW a, NEW k, NEW new,
         Keeps(B, A, k, new), IsLedger(a), Elsewhere(a, b, k),
         \A x : x \in Offered(a) <=> x \in Offered(b) \/ x = k,
         Fits(sc, a, k, new),
         k \in Delivered(b) => k \in Delivered(a),
         sc.arm = "adaptive" => k \in DOMAIN a.fate
  PROVE  Typed(sc, A, a)
<1>1. /\ sc \in Scenarios /\ IsBagOf(A, CopySpace) /\ IsLedger(a) /\ a.on = AskedBy(sc.arm)
  BY DEF Typed, Keeps, Elsewhere
<1>2. ASSUME NEW c \in DOMAIN A
      PROVE  Proper(sc, c) /\ c.key \in Offered(a) /\ (c.why = "delivered" => c.key \in Delivered(a))
  <2>1. CASE c \in new
    BY <2>1 DEF Fits
  <2>2. CASE c \in DOMAIN B
    <3>1. Proper(sc, c) /\ c.key \in Offered(b) /\ (c.why = "delivered" => c.key \in Delivered(b))
      BY <2>2 DEF Typed
    <3> QED
      BY <3>1 DEF Elsewhere
  <2> QED
    BY <2>1, <2>2 DEF Keeps
<1>3. Delivered(a) \subseteq Offered(a) /\ a.pqPending \subseteq Offered(a)
  BY DEF Elsewhere, Typed
<1>4. DOMAIN a.routePending \subseteq Offered(a) /\ DOMAIN a.routeRx \subseteq Offered(a)
  BY DEF Elsewhere, Typed
<1>5. DOMAIN a.reinj \subseteq Offered(a) /\ DOMAIN a.reinjSkip \subseteq Offered(a)
  BY DEF Elsewhere, Typed
<1>6. sc.arm = "adaptive" => DOMAIN a.fate = Offered(a)
  BY DEF Elsewhere, Typed
<1> QED
  BY <1>1, <1>2, <1>3, <1>4, <1>5, <1>6 DEF Typed

\* A step that offers nothing.
LEMMA TypedMoves ==
  ASSUME NEW sc, NEW B, NEW b, Typed(sc, B, b), NEW A, NEW a, NEW c \in DOMAIN B, NEW new,
         Keeps(B, A, c.key, new), IsLedger(a), Elsewhere(a, b, c.key),
         a.flowMonitor.tx = b.flowMonitor.tx,
         Fits(sc, a, c.key, new),
         c.key \in Delivered(b) => c.key \in Delivered(a),
         sc.arm = "adaptive" /\ c.key \in DOMAIN b.fate => c.key \in DOMAIN a.fate
  PROVE  Typed(sc, A, a)
<1>1. c.key \in Offered(b) /\ Offered(a) = Offered(b)
  BY DEF Typed, Offered
<1>2. \A x : x \in Offered(a) <=> x \in Offered(b) \/ x = c.key
  BY <1>1
<1>3. sc.arm = "adaptive" => c.key \in DOMAIN a.fate
  BY <1>1 DEF Typed
<1> QED
  BY <1>2, <1>3, TypedKept

\* A step in which nothing is skipped keeps what the books say of skips.
LEMMA SkipsKept ==
  ASSUME NEW sc, NEW B, NEW b, Skips(sc, B, b), NEW A, NEW a, a.reinjSkip = b.reinjSkip,
         \A x \in Delivered(b) : x \in Delivered(a),
         \A K : Weight(A, SkippedOf(K)) = Weight(B, SkippedOf(K))
  PROVE  Skips(sc, A, a)
BY DEF Skips

\* A step that none of the closing counts sees keeps them closed.
LEMMA ClosesKept ==
  ASSUME NEW sc, NEW b, Closes(sc, b), NEW a,
         a.hopTx = b.hopTx, a.hopRx = b.hopRx, a.rxSeq = b.rxSeq, a.pqPending = b.pqPending, a.pqEcb = b.pqEcb,
         a.flowMonitor.tx = b.flowMonitor.tx, a.flowMonitor.route = b.flowMonitor.route,
         a.flowMonitor.ttl = b.flowMonitor.ttl
  PROVE  Closes(sc, a)
BY DEF Closes, Received

\* The pending queue holds what its queue holds, and nothing that is on the air.
LEMMA PendingIs ==
  ASSUME NEW sc, NEW B, NEW b, Typed(sc, B, b), Agreement(sc, B, b), ~Restores(sc),
         NEW c \in DOMAIN B, ~c.got
  PROVE  /\ c.place = "queue" => "pendingQueue" \in b.on /\ c.key \in b.pqPending
         /\ c.place = "air" /\ "pendingQueue" \in b.on => c.key \notin b.pqPending
<1>1. Single(B, c.key)
  BY DEF Single, Typed, Proper
<1>2. Agrees(sc, b, c, Clean(B, c.key))
  BY <1>1 DEF Agreement
<1>3. c.place = "queue" => "pendingQueue" \in b.on
  <2>1. sc.arm \in Arms /\ (c.place = "queue" => sc.arm # "olsr") /\ b.on = AskedBy(sc.arm)
    BY BenchAssumption DEF Typed, Proper
  <2> QED
    BY <2>1 DEF Arms, Restores, AskedBy
<1> QED
  BY <1>2, <1>3 DEF Agrees

\* What part of the bag weighs is a natural number.
LEMMA CountType ==
  ASSUME NEW B, IsBagOf(B, CopySpace)
  PROVE  \A S : Weight(B, S) \in Nat
BY WeightType DEF IsBagOf

-----------------------------------------------------------------------------
(* What the operators on copies make *)

\* The fields of a copy.
LEMMA CopyFields ==
  ASSUME NEW c \in CopySpace
  PROVE  /\ c.key \in Keys /\ c.at \in Stations /\ c.to \in Stations /\ c.place \in {"queue", "air", "gone"}
         /\ c.got \in BOOLEAN /\ c.why \in Whys /\ c.path \in Seq(Stations) /\ c.spent \in Nat
BY DEF CopySpace

\* A packet held at a node.
LEMMA HeldIs ==
  ASSUME NEW k \in Keys, NEW s \in Stations
  PROVE  LET n == Held(k, s)
         IN /\ n \in CopySpace /\ n.key = k /\ n.at = s /\ n.place = "queue" /\ ~n.got /\ n.why = "none"
            /\ n.path = <<>> /\ n.spent = 0
BY DEF CopySpace, Held, Whys

\* A frame on its way to m.
LEMMA OnAirIs ==
  ASSUME NEW c \in CopySpace, NEW m \in Stations
  PROVE  LET n == OnAir(c, m)
         IN /\ n \in CopySpace /\ n.key = c.key /\ n.at = c.at /\ n.place = "air" /\ ~n.got /\ n.why = c.why
            /\ n.path = c.path /\ n.spent = c.spent
BY DEF CopySpace, OnAir

\* A copy that is gone.
LEMMA GoneIs ==
  ASSUME NEW c \in CopySpace, NEW why \in Whys
  PROVE  LET n == Gone(c, why)
         IN /\ n \in CopySpace /\ n.key = c.key /\ n.at = c.at /\ n.place = "gone" /\ n.got = c.got /\ n.why = why
            /\ n.path = c.path /\ n.spent = c.spent
BY DEF CopySpace, Gone

\* A copy that has gone over its hop.
LEMMA PassedIs ==
  ASSUME NEW c \in CopySpace
  PROVE  LET n == Passed(c)
         IN /\ n \in CopySpace /\ n.key = c.key /\ n.at = c.to /\ n.place = c.place /\ ~n.got /\ n.why = c.why
            /\ n.path = Append(c.path, c.at) /\ n.spent = c.spent
<1>1. Append(c.path, c.at) \in Seq(Stations)
  BY CopyFields
<1> QED
  BY <1>1 DEF CopySpace, Passed

\* The copy that the sender of a frame keeps when the frame was received.
LEMMA GotIs ==
  ASSUME NEW c \in CopySpace
  PROVE  LET n == [c EXCEPT !.got = TRUE]
         IN /\ n \in CopySpace /\ n.key = c.key /\ n.place = c.place /\ n.got /\ n.why = c.why /\ n.spent = c.spent
BY DEF CopySpace

\* A copy that a queue takes.
LEMMA QueuedIs ==
  ASSUME NEW c \in CopySpace
  PROVE  LET n == [c EXCEPT !.place = "queue"]
         IN /\ n \in CopySpace /\ n.key = c.key /\ n.at = c.at /\ n.place = "queue" /\ n.got = c.got /\ n.why = c.why
            /\ n.path = c.path /\ n.spent = c.spent
BY DEF CopySpace

\* The copy that goes back into a queue.
LEMMA RequeuedIs ==
  ASSUME NEW c \in CopySpace
  PROVE  LET n == [Held(c.key, c.at) EXCEPT !.path = c.path, !.spent = c.spent + 1]
         IN /\ n \in CopySpace /\ n.key = c.key /\ n.at = c.at /\ n.place = "queue" /\ ~n.got /\ n.why = "none"
            /\ n.path = c.path /\ n.spent = c.spent + 1
<1> DEFINE h == Held(c.key, c.at)
           u == [h EXCEPT !.path = c.path]
           n == [u EXCEPT !.spent = c.spent + 1]
<1>1. c.key \in Keys /\ c.at \in Stations /\ c.path \in Seq(Stations) /\ c.spent + 1 \in Nat
  BY CopyFields
<1>2. /\ h \in CopySpace /\ h.key = c.key /\ h.at = c.at /\ h.place = "queue" /\ ~h.got /\ h.why = "none"
  BY <1>1, HeldIs
<1> HIDE DEF h
<1>3. /\ u \in CopySpace /\ u.key = c.key /\ u.at = c.at /\ u.place = "queue" /\ ~u.got /\ u.why = "none" /\ u.path = c.path
  BY <1>1, <1>2 DEF CopySpace
<1> HIDE DEF u
<1>4. /\ n \in CopySpace /\ n.key = c.key /\ n.at = c.at /\ n.place = "queue" /\ ~n.got /\ n.why = "none"
      /\ n.path = c.path /\ n.spent = c.spent + 1
  BY <1>1, <1>3 DEF CopySpace
<1>5. n = [Held(c.key, c.at) EXCEPT !.path = c.path, !.spent = c.spent + 1]
  BY DEF u, h
<1> QED
  BY <1>4, <1>5

-----------------------------------------------------------------------------
(* The steps of a copy *)

\* The parts of the invariant.
LEMMA Parts ==
  ASSUME NEW sc, NEW B, NEW b, BooksInv(sc, B, b), NEW c \in DOMAIN B
  PROVE  /\ Typed(sc, B, b) /\ Structure(B) /\ Agreement(sc, B, b) /\ Closes(sc, b) /\ Counts(sc, B, b) /\ Skips(sc, B, b)
         /\ IsBagOf(B, CopySpace) /\ IsLedger(b) /\ b.on = AskedBy(sc.arm)
         /\ c \in CopySpace /\ Proper(sc, c) /\ sc.arm \in Arms
BY BenchAssumption DEF BooksInv, Typed, IsBagOf

\* What the books and the bag count are numbers.
Numeric(B, b) ==
  /\ b.hopTx \in Nat /\ b.hopRx \in Nat /\ b.acked \in Nat /\ b.macDrops \in Nat /\ b.pqEcb \in Nat
  /\ b.flowMonitor.tx \in Nat /\ b.flowMonitor.route \in Nat /\ b.flowMonitor.ttl \in Nat /\ b.flowMonitor.queue \in Nat
  /\ Received(b) \in Nat /\ Cardinality(b.pqPending) \in Nat /\ Total(b.reinj) \in Nat
  /\ Lost(B, "air", "none") \in Nat /\ Lost(B, "gone", "mac") \in Nat /\ Lost(B, "gone", "skipped") \in Nat
  /\ Lost(B, "gone", "queue") \in Nat /\ Lost(B, "gone", "arp") \in Nat
  /\ Seen(B, "air", "none") \in Nat /\ Seen(B, "gone", "mac") \in Nat /\ Seen(B, "gone", "skipped") \in Nat
  /\ Seen(B, "gone", "recovered") \in Nat

\* Typed books and bags count in natural numbers.
LEMMA Numbers ==
  ASSUME NEW sc, NEW B, NEW b, Typed(sc, B, b)
  PROVE  Numeric(B, b)
<1>1. IsLedger(b) /\ IsBagOf(B, CopySpace)
  BY DEF Typed
<1>2. /\ b.hopTx \in Nat /\ b.hopRx \in Nat /\ b.acked \in Nat /\ b.macDrops \in Nat /\ b.pqEcb \in Nat
      /\ b.flowMonitor.tx \in Nat /\ b.flowMonitor.route \in Nat /\ b.flowMonitor.ttl \in Nat /\ b.flowMonitor.queue \in Nat
      /\ Received(b) \in Nat
  <2>1. /\ b.hopTx \in Nat /\ b.hopRx \in Nat /\ b.acked \in Nat /\ b.macDrops \in Nat /\ b.pqEcb \in Nat
    BY <1>1 DEF IsLedger, Counters
  <2>2. b.flowMonitor \in Flow /\ b.rxSeq \in Seq(Keys)
    BY <1>1 DEF IsLedger
  <2> QED
    BY <2>1, <2>2 DEF Flow, Received
<1>3. Cardinality(b.pqPending) \in Nat /\ Total(b.reinj) \in Nat
  BY <1>1, OfferedFinite, FS_CardinalityType, TotalType DEF IsLedger
<1>4. \A place, why : Lost(B, place, why) \in Nat /\ Seen(B, place, why) \in Nat
  BY <1>1, CountType DEF Lost, Seen
<1> QED
  BY <1>2, <1>3, <1>4 DEF Numeric

\* A copy moves to another place.
LEMMA MovedParts ==
  ASSUME NEW sc, NEW B, NEW b, BooksInv(sc, B, b), NEW c \in DOMAIN B, ~c.got, c.place # "gone",
         NEW n \in CopySpace, n.key = c.key, ~n.got, Proper(sc, n), n.why \notin {"recovered", "delivered"},
         c.spent > 0 => n.spent > 0,
         NEW a, IsLedger(a), Elsewhere(a, b, c.key), a.flowMonitor.tx = b.flowMonitor.tx, a.rxSeq = b.rxSeq,
         sc.arm = "adaptive" /\ c.key \in DOMAIN b.fate => c.key \in DOMAIN a.fate,
         \A clean \in BOOLEAN : (clean => ~Marked(n)) /\ Agrees(sc, b, c, clean) => Agrees(sc, a, n, clean),
         NEW A, A = Put(Take(B, c), n)
  PROVE  /\ Typed(sc, A, a) /\ Structure(A) /\ Agreement(sc, A, a)
         /\ n.why # "skipped" /\ a.reinjSkip = b.reinjSkip => Skips(sc, A, a)
         /\ Moves(B, A, c, n) /\ \A d \in DOMAIN A : d \in DOMAIN B \/ d = n
<1>1. /\ Typed(sc, B, b) /\ Structure(B) /\ Agreement(sc, B, b) /\ Skips(sc, B, b) /\ IsBagOf(B, CopySpace)
      /\ c \in CopySpace /\ Proper(sc, c)
  BY Parts
<1>2. c.why = "none" /\ n.got = c.got
  BY <1>1, CopyFields DEF Proper
<1>3. Keeps(B, A, c.key, {n}) /\ Moves(B, A, c, n)
  BY <1>1, <1>2, BecomesKeeps
<1>4. Delivered(a) = Delivered(b)
  BY DEF Delivered
<1>5. Fits(sc, a, c.key, {n})
  BY DEF Fits
<1>6. Typed(sc, A, a)
  BY <1>1, <1>3, <1>4, <1>5, TypedMoves
<1>7. Agreement(sc, A, a)
  BY <1>1, <1>3, AgreementMoves DEF Keeps
<1>8. ASSUME n.why # "skipped", a.reinjSkip = b.reinjSkip PROVE Skips(sc, A, a)
  <2>1. \A K : c \notin SkippedOf(K) /\ n \notin SkippedOf(K)
    BY <1>2, <1>8 DEF SkippedOf
  <2>2. \A K : Weight(A, SkippedOf(K)) = Weight(B, SkippedOf(K))
    BY <1>1, <1>3, <2>1, CountType DEF Moves, One
  <2> QED
    BY <1>1, <1>4, <1>8, <2>2, SkipsKept
<1> QED
  BY <1>3, <1>6, <1>7, <1>8 DEF Keeps

\* A frame arrives: o stays with the sender until the acknowledgement, n goes on.
LEMMA ArrivedParts ==
  ASSUME NEW sc, NEW B, NEW b, BooksInv(sc, B, b), NEW c \in DOMAIN B, ~c.got, c.place = "air",
         NEW o \in CopySpace, o.key = c.key, o.got, o.spent = c.spent, o.why = c.why, o.place = c.place,
         NEW n \in CopySpace, n.key = c.key, ~n.got, Proper(sc, n), n.why \notin {"recovered", "skipped"}, n.spent = c.spent,
         NEW a, IsLedger(a), Elsewhere(a, b, c.key), a.flowMonitor.tx = b.flowMonitor.tx,
         a.reinjSkip = b.reinjSkip, sc.arm = "adaptive" /\ c.key \in DOMAIN b.fate => c.key \in DOMAIN a.fate,
         c.key \in Delivered(b) \/ n.why = "delivered" => c.key \in Delivered(a),
         \A clean \in BOOLEAN : (clean => ~Marked(n)) /\ Agrees(sc, b, c, clean) => Agrees(sc, a, n, clean),
         NEW A, A = Put(Put(Take(B, c), o), n)
  PROVE  /\ Typed(sc, A, a) /\ Structure(A) /\ Agreement(sc, A, a) /\ Skips(sc, A, a)
         /\ Splits(B, A, c, o, n) /\ \A d \in DOMAIN A : d \in DOMAIN B \/ d \in {o, n}
<1>1. /\ Typed(sc, B, b) /\ Structure(B) /\ Agreement(sc, B, b) /\ Skips(sc, B, b) /\ IsBagOf(B, CopySpace)
      /\ c \in CopySpace /\ Proper(sc, c)
  BY Parts
<1>2. c.why = "none" /\ o.why = "none" /\ Proper(sc, o)
  BY <1>1, CopyFields DEF Proper
<1>3. Keeps(B, A, c.key, {o, n}) /\ Splits(B, A, c, o, n)
  BY <1>1, <1>2, ArrivalKeeps
<1>4. \A x \in Delivered(b) : x \in Delivered(a)
  BY DEF Elsewhere
<1>5. Fits(sc, a, c.key, {o, n})
  BY <1>2 DEF Fits
<1>6. Typed(sc, A, a)
  BY <1>1, <1>3, <1>5, TypedMoves
<1>7. Agreement(sc, A, a)
  BY <1>1, <1>3, AgreementMoves DEF Keeps
<1>8. Skips(sc, A, a)
  <2>1. \A K : c \notin SkippedOf(K) /\ o \notin SkippedOf(K) /\ n \notin SkippedOf(K)
    BY <1>2 DEF SkippedOf
  <2>2. \A K : Weight(A, SkippedOf(K)) = Weight(B, SkippedOf(K))
    BY <1>1, <1>3, <2>1, CountType DEF Splits, One
  <2> QED
    BY <1>1, <1>4, <2>2, SkipsKept
<1> QED
  BY <1>3, <1>6, <1>7, <1>8 DEF Keeps

\* A packet leaves a queue for a neighbour.
LEMMA ReleaseInv ==
  ASSUME NEW sc, NEW B, NEW b, BooksInv(sc, B, b), NEW c \in DOMAIN B, c.place = "queue",
         NEW n \in CopySpace, n.key = c.key, n.at = c.at, n.place = "air", ~n.got, n.why = c.why,
         n.path = c.path, n.spent = c.spent
  PROVE  BooksInv(sc, Put(Take(B, c), n), Sent(b, c))
<1> DEFINE A == Put(Take(B, c), n)
           a == Sent(b, c)
           k == c.key
<1>1. /\ Typed(sc, B, b) /\ Agreement(sc, B, b) /\ Closes(sc, b) /\ Counts(sc, B, b)
      /\ IsLedger(b) /\ b.on = AskedBy(sc.arm) /\ c \in CopySpace /\ Proper(sc, c)
  BY Parts
<1>2. c.why = "none" /\ ~c.got /\ Proper(sc, n)
  BY <1>1, CopyFields DEF Proper
<1>3. /\ IsLedger(a) /\ Elsewhere(a, b, k)
      /\ Same(a, b, {"hopTx", "routePending", "reinj", "fate", "pqPending"})
      /\ a.hopTx = b.hopTx + 1
      /\ a.routePending = Set(b.routePending, k, Append(Lookup(b.routePending, k, <<>>), c.at))
      /\ Events(a.reinj) = Events(b.reinj)
      /\ Marks(a, b, k, "Tx")
      /\ a.pqPending = IF "pendingQueue" \in b.on THEN b.pqPending \ {k} ELSE b.pqPending
  BY <1>1, SentIs
<1> HIDE DEF a
<1>4. /\ a.on = b.on /\ a.rxSeq = b.rxSeq /\ a.routeRx = b.routeRx /\ a.reinjSkip = b.reinjSkip
      /\ a.hopRx = b.hopRx /\ a.acked = b.acked /\ a.macDrops = b.macDrops /\ a.pqEcb = b.pqEcb
      /\ a.flowMonitor = b.flowMonitor /\ a.adaptiveReinj = b.adaptiveReinj /\ a.adaptiveArpReinj = b.adaptiveArpReinj
  BY <1>3 DEF Same, Fields, Counters
<1>5. \A clean \in BOOLEAN : (clean => ~Marked(n)) /\ Agrees(sc, b, c, clean) => Agrees(sc, a, n, clean)
  <2>1. Follows(b, c) => Follows(a, n)
    BY <1>2, <1>3, <1>4 DEF Follows, Set
  <2>2. sc.arm = "adaptive" => a.fate[k].last = "Tx"
    BY <1>1, <1>3 DEF AskedBy, Marks
  <2>3. Delivered(a) = Delivered(b)
    BY <1>4 DEF Delivered
  <2> QED
    BY <1>2, <1>3, <1>4, <2>1, <2>2, <2>3 DEF Agrees, Whereabouts
<1>6. k \in DOMAIN b.fate => k \in DOMAIN a.fate
  BY <1>3 DEF Marks
<1>7. /\ Typed(sc, A, a) /\ Structure(A) /\ Agreement(sc, A, a) /\ Skips(sc, A, a)
      /\ Moves(B, A, c, n) /\ \A d \in DOMAIN A : d \in DOMAIN B \/ d = n
  BY <1>2, <1>3, <1>4, <1>5, <1>6, MovedParts
<1> HIDE DEF A
<1>8. Received(a) = Received(b) /\ Total(a.reinj) = Total(b.reinj)
  BY <1>3, <1>4, SameEvents DEF Received
<1>n. Numeric(B, b) /\ Numeric(A, a)
  BY <1>1, <1>7, Numbers
<1>9. Closes(sc, a)
  <2> SUFFICES ASSUME ~Restores(sc) PROVE Closes(sc, a)
    BY DEF Closes
  <2>1. "pendingQueue" \in b.on /\ k \in b.pqPending /\ IsFiniteSet(b.pqPending)
    BY <1>1, <1>2, PendingIs, OfferedFinite
  <2>2. Cardinality(a.pqPending) = Cardinality(b.pqPending) - 1
    BY <1>3, <2>1, FS_RemoveElement
  <2>3. Closes(sc, b) /\ a.hopTx = b.hopTx + 1
    BY <1>1, <1>3
  <2> QED
    BY <1>4, <1>8, <1>n, <2>2, <2>3 DEF Closes, Numeric
<1>10. Counts(sc, A, a)
  <2>1. /\ Lost(A, "air", "none") = Lost(B, "air", "none") + 1
        /\ Lost(A, "gone", "mac") = Lost(B, "gone", "mac") /\ Lost(A, "gone", "skipped") = Lost(B, "gone", "skipped")
        /\ Lost(A, "gone", "queue") = Lost(B, "gone", "queue") /\ Lost(A, "gone", "arp") = Lost(B, "gone", "arp")
        /\ Seen(A, "air", "none") = Seen(B, "air", "none")
        /\ Seen(A, "gone", "mac") = Seen(B, "gone", "mac") /\ Seen(A, "gone", "skipped") = Seen(B, "gone", "skipped")
        /\ Seen(A, "gone", "recovered") = Seen(B, "gone", "recovered")
    <3>1. \A S : Weight(B, S) \in Nat
      BY <1>1, CountType DEF Typed
    <3> QED
      BY <1>1, <1>2, <1>7, <3>1 DEF Moves, One, Lost, Seen, LostIn, SeenIn
  <2>2. sc.arm # "adaptive" => \A d \in DOMAIN A : d.spent > 0 => Total(a.reinj) > 0
    BY <1>1, <1>7, <1>8 DEF Counts
  <2>3. a.hopTx = b.hopTx + 1
    BY <1>3
  <2>4. Sums(B, b) => Sums(A, a)
    BY <1>4, <1>8, <1>n, <2>1, <2>3 DEF Sums, Numeric
  <2> QED
    BY <1>1, <1>4, <1>8, <2>2, <2>4 DEF Counts
<1> QED
  BY <1>7, <1>9, <1>10 DEF BooksInv, A, a

\* A packet is lost and no hook is told.
LEMMA SilentInv ==
  ASSUME NEW sc, NEW b, NEW B, BooksInv(sc, B, b), NEW c \in DOMAIN B, ~c.got, sc.arm # "adaptive",
         NEW n \in CopySpace, n.key = c.key, n.place = "gone", ~n.got, n.spent = c.spent,
         (c.place = "queue" /\ n.why = "shed") \/ (c.place = "air" /\ n.why = "arp")
  PROVE  BooksInv(sc, Put(Take(B, c), n), b)
<1> DEFINE A == Put(Take(B, c), n)
<1>1. /\ Typed(sc, B, b) /\ Closes(sc, b) /\ Counts(sc, B, b) /\ IsLedger(b) /\ c \in CopySpace /\ Proper(sc, c)
  BY Parts
<1>2. c.why = "none" /\ Proper(sc, n) /\ c.place # "gone" /\ n.why \notin {"recovered", "skipped", "delivered"}
  BY <1>1, CopyFields DEF Proper
<1>3. Elsewhere(b, b, c.key)
  BY DEF Elsewhere
<1>4. \A clean \in BOOLEAN : (clean => ~Marked(n)) /\ Agrees(sc, b, c, clean) => Agrees(sc, b, n, clean)
  BY <1>2 DEF Agrees, Follows
<1>5. /\ Typed(sc, A, b) /\ Structure(A) /\ Agreement(sc, A, b) /\ Skips(sc, A, b)
      /\ Moves(B, A, c, n) /\ \A d \in DOMAIN A : d \in DOMAIN B \/ d = n
  BY <1>1, <1>2, <1>3, <1>4, MovedParts
<1> HIDE DEF A
<1>6. Numeric(B, b) /\ Numeric(A, b)
  BY <1>1, <1>5, Numbers
<1>7. \A S : Weight(B, S) \in Nat
  BY <1>1, CountType DEF Typed
<1>8. /\ Lost(A, "gone", "mac") = Lost(B, "gone", "mac") /\ Lost(A, "gone", "skipped") = Lost(B, "gone", "skipped")
      /\ Lost(A, "gone", "queue") = Lost(B, "gone", "queue")
      /\ Seen(A, "air", "none") = Seen(B, "air", "none")
      /\ Seen(A, "gone", "mac") = Seen(B, "gone", "mac") /\ Seen(A, "gone", "skipped") = Seen(B, "gone", "skipped")
      /\ Seen(A, "gone", "recovered") = Seen(B, "gone", "recovered")
  BY <1>1, <1>2, <1>5, <1>7 DEF Moves, One, Lost, Seen, LostIn, SeenIn
<1>9. Counts(sc, A, b)
  <2>1. \A d \in DOMAIN A : d.spent > 0 => Total(b.reinj) > 0
    BY <1>1, <1>5 DEF Counts
  <2>2. ASSUME Sums(A, b) PROVE Counts(sc, A, b)
    BY <1>1, <2>1, <2>2 DEF Counts
  <2>3. CASE n.why = "shed"
    <3>1. Lost(A, "air", "none") = Lost(B, "air", "none") /\ Lost(A, "gone", "arp") = Lost(B, "gone", "arp")
      BY <1>1, <1>2, <1>5, <1>7, <2>3 DEF Moves, One, Lost, LostIn
    <3>2. Sums(B, b) => Sums(A, b)
      BY <1>6, <1>8, <3>1 DEF Sums, Numeric
    <3> QED
      BY <1>1, <2>2, <3>2 DEF Counts
  <2>4. CASE n.why = "arp"
    <3>1. Lost(B, "air", "none") = Lost(A, "air", "none") + 1 /\ Lost(A, "gone", "arp") = Lost(B, "gone", "arp") + 1
      BY <1>1, <1>2, <1>5, <1>7, <2>4 DEF Moves, One, Lost, LostIn
    <3>2. Lost(B, "air", "none") + Lost(B, "gone", "arp") = Lost(A, "air", "none") + Lost(A, "gone", "arp")
      BY <1>6, <3>1 DEF Numeric
    <3>3. Sums(B, b) => Sums(A, b)
      <4> SUFFICES ASSUME Sums(B, b) PROVE Sums(A, b)
        OBVIOUS
      <4>1. b.hopTx = b.hopRx + Lost(A, "air", "none") + Lost(A, "gone", "mac")
                 + Lost(A, "gone", "skipped")
                 + (Total(b.reinj) - Seen(A, "gone", "recovered"))
                 + Lost(A, "gone", "queue") + Lost(A, "gone", "arp")
        BY <1>6, <1>8, <3>2 DEF Sums, Numeric
      <4> QED
        BY <1>8, <4>1 DEF Sums
    <3> QED
      BY <1>1, <2>2, <3>3 DEF Counts
  <2> QED
    BY <2>3, <2>4
<1> QED
  BY <1>1, <1>5, <1>9 DEF BooksInv, A

\* A packet is shed as a route error.
LEMMA ShedInv ==
  ASSUME NEW sc, NEW b, NEW B, BooksInv(sc, B, b), NEW c \in DOMAIN B, c.place = "queue",
         NEW n \in CopySpace, n.key = c.key, n.place = "gone", ~n.got, n.spent = c.spent, n.why = "route"
  PROVE  BooksInv(sc, Put(Take(B, c), n), L3Drop(b, c.key, "route"))
<1> DEFINE A == Put(Take(B, c), n)
           a == L3Drop(b, c.key, "route")
           k == c.key
<1>1. /\ Typed(sc, B, b) /\ Agreement(sc, B, b) /\ Closes(sc, b) /\ Counts(sc, B, b)
      /\ IsLedger(b) /\ b.on = AskedBy(sc.arm) /\ c \in CopySpace /\ Proper(sc, c)
  BY Parts
<1>2. c.why = "none" /\ ~c.got /\ Proper(sc, n) /\ c.place # "gone" /\ n.why \notin {"recovered", "skipped", "delivered"}
  BY <1>1, CopyFields DEF Proper
<1>3. /\ IsLedger(a) /\ Elsewhere(a, b, k)
      /\ Same(a, b, {"reinj", "fate", "pqPending", "pqEcb", "flowMonitor"})
      /\ OneDrop(a, b, "route")
      /\ Events(a.reinj) = Events(b.reinj)
      /\ Marks(a, b, k, FateOf("route"))
      /\ Untracked(a, b, k)
  BY <1>1, L3DropIs, ElsewhereL3Drop
<1> HIDE DEF a
<1>4. /\ a.on = b.on /\ a.rxSeq = b.rxSeq /\ a.routeRx = b.routeRx /\ a.reinjSkip = b.reinjSkip
      /\ a.hopTx = b.hopTx /\ a.hopRx = b.hopRx /\ a.acked = b.acked /\ a.macDrops = b.macDrops
      /\ a.adaptiveReinj = b.adaptiveReinj /\ a.adaptiveArpReinj = b.adaptiveArpReinj
  BY <1>3 DEF Same, Fields, Counters
<1>5. /\ a.flowMonitor.tx = b.flowMonitor.tx /\ a.flowMonitor.route = b.flowMonitor.route + 1
      /\ a.flowMonitor.ttl = b.flowMonitor.ttl /\ a.flowMonitor.queue = b.flowMonitor.queue
  BY <1>3 DEF OneDrop
<1>6. \A clean \in BOOLEAN : (clean => ~Marked(n)) /\ Agrees(sc, b, c, clean) => Agrees(sc, a, n, clean)
  <2>1. sc.arm = "adaptive" => a.fate[k].last = "Route"
    BY <1>1, <1>3 DEF AskedBy, Marks, FateOf
  <2> QED
    BY <2>1 DEF Agrees, Follows, Whereabouts
<1>7. k \in DOMAIN b.fate => k \in DOMAIN a.fate
  BY <1>3 DEF Marks
<1>8. /\ Typed(sc, A, a) /\ Structure(A) /\ Agreement(sc, A, a) /\ Skips(sc, A, a)
      /\ Moves(B, A, c, n) /\ \A d \in DOMAIN A : d \in DOMAIN B \/ d = n
  <2>1. IsLedger(a) /\ Elsewhere(a, b, k)
    BY <1>3
  <2> QED
    BY <1>2, <1>4, <1>5, <1>6, <1>7, <2>1, MovedParts
<1> HIDE DEF A
<1>9. Received(a) = Received(b) /\ Total(a.reinj) = Total(b.reinj)
  BY <1>3, <1>4, SameEvents DEF Received
<1>10. Numeric(B, b) /\ Numeric(A, a)
  BY <1>1, <1>8, Numbers
<1>11. Closes(sc, a)
  <2> SUFFICES ASSUME ~Restores(sc) PROVE Closes(sc, a)
    BY DEF Closes
  <2>1. "pendingQueue" \in b.on /\ k \in b.pqPending /\ IsFiniteSet(b.pqPending)
    BY <1>1, <1>2, PendingIs, OfferedFinite
  <2>2. Cardinality(a.pqPending) = Cardinality(b.pqPending) - 1 /\ a.pqEcb = b.pqEcb + 1
    BY <1>3, <2>1, FS_RemoveElement DEF Untracked
  <2>3. Closes(sc, b)
    BY <1>1
  <2> QED
    BY <1>4, <1>5, <1>9, <1>10, <2>2, <2>3 DEF Closes, Numeric
<1>12. Counts(sc, A, a)
  <2>1. /\ Lost(A, "air", "none") = Lost(B, "air", "none")
        /\ Lost(A, "gone", "mac") = Lost(B, "gone", "mac") /\ Lost(A, "gone", "skipped") = Lost(B, "gone", "skipped")
        /\ Lost(A, "gone", "queue") = Lost(B, "gone", "queue") /\ Lost(A, "gone", "arp") = Lost(B, "gone", "arp")
        /\ Seen(A, "air", "none") = Seen(B, "air", "none")
        /\ Seen(A, "gone", "mac") = Seen(B, "gone", "mac") /\ Seen(A, "gone", "skipped") = Seen(B, "gone", "skipped")
        /\ Seen(A, "gone", "recovered") = Seen(B, "gone", "recovered")
    <3>1. \A S : Weight(B, S) \in Nat
      BY <1>1, CountType DEF Typed
    <3> QED
      BY <1>1, <1>2, <1>8, <3>1 DEF Moves, One, Lost, Seen, LostIn, SeenIn
  <2>2. sc.arm # "adaptive" => \A d \in DOMAIN A : d.spent > 0 => Total(a.reinj) > 0
    BY <1>1, <1>8, <1>9 DEF Counts
  <2>3. Sums(B, b) => Sums(A, a)
    BY <1>4, <1>5, <1>9, <1>10, <2>1 DEF Sums, Numeric
  <2> QED
    BY <1>1, <1>4, <1>9, <2>2, <2>3 DEF Counts
<1> QED
  BY <1>8, <1>11, <1>12 DEF BooksInv, A, a

\* FlowMonitor counts a drop at a device queue.
LEMMA QueueIs ==
  ASSUME NEW b, IsLedger(b)
  PROVE  LET a == [b EXCEPT !.flowMonitor.queue = @ + 1]
         IN /\ IsLedger(a) /\ Same(a, b, {"flowMonitor"})
            /\ a.flowMonitor.tx = b.flowMonitor.tx /\ a.flowMonitor.route = b.flowMonitor.route
            /\ a.flowMonitor.ttl = b.flowMonitor.ttl /\ a.flowMonitor.queue = b.flowMonitor.queue + 1
<1> DEFINE m == [b.flowMonitor EXCEPT !.queue = b.flowMonitor.queue + 1]
           a == [b EXCEPT !.flowMonitor = m]
<1>1. b.flowMonitor \in Flow /\ DOMAIN b = Fields /\ "flowMonitor" \in Fields
  BY DEF IsLedger, Fields
<1>2. /\ m \in Flow /\ m.tx = b.flowMonitor.tx /\ m.route = b.flowMonitor.route
      /\ m.ttl = b.flowMonitor.ttl /\ m.queue = b.flowMonitor.queue + 1
  BY <1>1 DEF Flow
<1>3. a = [b EXCEPT !.flowMonitor.queue = @ + 1]
  BY <1>1
<1> HIDE DEF m
<1>4. IsLedger(a) /\ Same(a, b, {"flowMonitor"}) /\ a.flowMonitor = m
  BY <1>2, FlowMonitorIs
<1> HIDE DEF a
<1> QED
  BY <1>2, <1>3, <1>4

\* A device queue refuses the frame.
LEMMA QueueDropInv ==
  ASSUME NEW sc, NEW B, NEW b, BooksInv(sc, B, b), NEW c \in DOMAIN B, c.place = "air", ~c.got,
         NEW n \in CopySpace, n.key = c.key, n.place = "gone", ~n.got, n.spent = c.spent, n.why = "queue"
  PROVE  BooksInv(sc, Put(Take(B, c), n), [b EXCEPT !.flowMonitor.queue = @ + 1])
<1> DEFINE A == Put(Take(B, c), n)
           a == [b EXCEPT !.flowMonitor.queue = @ + 1]
           k == c.key
<1>1. /\ Typed(sc, B, b) /\ Closes(sc, b) /\ Counts(sc, B, b)
      /\ IsLedger(b) /\ b.on = AskedBy(sc.arm) /\ c \in CopySpace /\ Proper(sc, c)
  BY Parts
<1>2. c.why = "none" /\ Proper(sc, n) /\ c.place # "gone" /\ n.why \notin {"recovered", "skipped", "delivered"}
  BY <1>1, CopyFields DEF Proper
<1>3. /\ IsLedger(a) /\ Same(a, b, {"flowMonitor"})
      /\ a.flowMonitor.tx = b.flowMonitor.tx /\ a.flowMonitor.route = b.flowMonitor.route
      /\ a.flowMonitor.ttl = b.flowMonitor.ttl /\ a.flowMonitor.queue = b.flowMonitor.queue + 1
  BY <1>1, QueueIs
<1> HIDE DEF a
<1>4. /\ a.on = b.on /\ a.rxSeq = b.rxSeq /\ a.routeRx = b.routeRx /\ a.reinjSkip = b.reinjSkip
      /\ a.hopTx = b.hopTx /\ a.hopRx = b.hopRx /\ a.acked = b.acked /\ a.macDrops = b.macDrops
      /\ a.reinj = b.reinj /\ a.fate = b.fate /\ a.pqPending = b.pqPending /\ a.pqEcb = b.pqEcb
      /\ a.adaptiveReinj = b.adaptiveReinj /\ a.adaptiveArpReinj = b.adaptiveArpReinj
  BY <1>3 DEF Same, Fields, Counters
<1>5. Elsewhere(a, b, k)
  BY <1>3, ElsewhereCounters
<1>6. \A clean \in BOOLEAN : (clean => ~Marked(n)) /\ Agrees(sc, b, c, clean) => Agrees(sc, a, n, clean)
  <2>1. Delivered(a) = Delivered(b)
    BY <1>4 DEF Delivered
  <2>2. Whereabouts(n) = "Tx" /\ Whereabouts(c) = "Tx"
    BY <1>2 DEF Whereabouts
  <2> QED
    BY <1>4, <2>1, <2>2 DEF Agrees, Follows
<1>7. /\ Typed(sc, A, a) /\ Structure(A) /\ Agreement(sc, A, a) /\ Skips(sc, A, a)
      /\ Moves(B, A, c, n) /\ \A d \in DOMAIN A : d \in DOMAIN B \/ d = n
  BY <1>2, <1>3, <1>4, <1>5, <1>6, MovedParts
<1> HIDE DEF A
<1>8. Numeric(B, b) /\ Numeric(A, a)
  BY <1>1, <1>7, Numbers
<1>9. Closes(sc, a)
  BY <1>1, <1>3, <1>4, ClosesKept
<1>10. Counts(sc, A, a)
  <2>1. \A S : Weight(B, S) \in Nat
    BY <1>1, CountType DEF Typed
  <2>2. /\ Lost(B, "air", "none") = Lost(A, "air", "none") + 1
        /\ Lost(A, "gone", "mac") = Lost(B, "gone", "mac")
        /\ Lost(A, "gone", "skipped") = Lost(B, "gone", "skipped")
        /\ Lost(A, "gone", "queue") = Lost(B, "gone", "queue") + 1
        /\ Lost(A, "gone", "arp") = Lost(B, "gone", "arp")
        /\ Seen(A, "air", "none") = Seen(B, "air", "none")
        /\ Seen(A, "gone", "mac") = Seen(B, "gone", "mac")
        /\ Seen(A, "gone", "skipped") = Seen(B, "gone", "skipped")
        /\ Seen(A, "gone", "recovered") = Seen(B, "gone", "recovered")
    BY <1>1, <1>2, <1>7, <2>1 DEF Moves, One, Lost, Seen, LostIn, SeenIn
  <2>3. Sums(B, b) => Sums(A, a)
    BY <1>3, <1>4, <1>8, <2>2 DEF Sums, Numeric
  <2>4. sc.arm # "adaptive" => \A d \in DOMAIN A : d.spent > 0 => Total(a.reinj) > 0
    BY <1>1, <1>4, <1>7 DEF Counts
  <2> QED
    BY <1>1, <1>4, <2>3, <2>4 DEF Counts
<1> QED
  BY <1>7, <1>9, <1>10 DEF BooksInv, A, a

\* The MAC loses a frame for good.
LEMMA GaveUpParts ==
  ASSUME NEW sc, NEW B, NEW b, BooksInv(sc, B, b), NEW c \in DOMAIN B, c.place = "air", sc.arm # "adaptive",
         NEW n \in CopySpace, n.key = c.key, n.place = "gone", n.got = c.got, n.spent = c.spent,
         n.why \in {"mac", "skipped"}, Proper(sc, n),
         NEW a, IsLedger(a), Elsewhere(a, b, c.key), a.flowMonitor.tx = b.flowMonitor.tx, a.rxSeq = b.rxSeq,
         a.on = b.on, a.pqPending = b.pqPending, a.routePending = b.routePending, a.routeRx = b.routeRx,
         a.fate = b.fate,
         NEW A, A = Put(Take(B, c), n)
  PROVE  /\ Typed(sc, A, a) /\ Structure(A) /\ Agreement(sc, A, a)
         /\ n.why # "skipped" /\ a.reinjSkip = b.reinjSkip => Skips(sc, A, a)
         /\ Moves(B, A, c, n) /\ \A d \in DOMAIN A : d \in DOMAIN B \/ d = n
<1>1. /\ Typed(sc, B, b) /\ Structure(B) /\ Agreement(sc, B, b) /\ Skips(sc, B, b) /\ IsBagOf(B, CopySpace)
      /\ c \in CopySpace /\ Proper(sc, c)
  BY Parts
<1>2. c.why = "none" /\ n.why \notin {"recovered", "delivered"} /\ (c.spent > 0 => n.spent > 0) /\ c.place # "gone"
  BY <1>1, CopyFields DEF Proper
<1>3. CASE ~c.got
  <2>1. \A clean \in BOOLEAN : (clean => ~Marked(n)) /\ Agrees(sc, b, c, clean) => Agrees(sc, a, n, clean)
    BY <1>2 DEF Agrees, Follows
  <2> QED
    BY <1>2, <1>3, <2>1, MovedParts
<1>4. CASE c.got
  <2>1. Keeps(B, A, c.key, {n}) /\ Moves(B, A, c, n)
    BY <1>1, <1>2, BecomesKeeps
  <2>2. Delivered(a) = Delivered(b)
    BY DEF Delivered
  <2>3. Fits(sc, a, c.key, {n})
    BY <1>2 DEF Fits
  <2>4. Typed(sc, A, a)
    BY <1>1, <2>1, <2>2, <2>3, TypedMoves
  <2>5. Agreement(sc, A, a)
    BY <1>1, <1>4, <2>1, AgreementStays DEF Keeps
  <2>6. ASSUME n.why # "skipped", a.reinjSkip = b.reinjSkip PROVE Skips(sc, A, a)
    <3>1. \A K : c \notin SkippedOf(K) /\ n \notin SkippedOf(K)
      BY <1>2, <2>6 DEF SkippedOf
    <3>2. \A K : Weight(A, SkippedOf(K)) = Weight(B, SkippedOf(K))
      BY <1>1, <2>1, <3>1, CountType DEF Moves, One
    <3> QED
      BY <1>1, <2>2, <2>6, <3>2, SkipsKept
  <2> QED
    BY <2>1, <2>4, <2>5, <2>6 DEF Keeps
<1> QED
  BY <1>1, <1>3, <1>4, CopyFields

\* The arms that recover nothing.
LEMMA MacInv ==
  ASSUME NEW sc, NEW B, NEW b, BooksInv(sc, B, b), NEW c \in DOMAIN B, c.place = "air", ~Restores(sc),
         NEW n \in CopySpace, n.key = c.key, n.place = "gone", n.got = c.got, n.spent = c.spent, n.why = "mac"
  PROVE  BooksInv(sc, Put(Take(B, c), n), CountMacDataDrop(b, c.key))
<1> DEFINE A == Put(Take(B, c), n)
           a == CountMacDataDrop(b, c.key)
           k == c.key
<1>1. /\ Typed(sc, B, b) /\ Closes(sc, b) /\ Counts(sc, B, b)
      /\ IsLedger(b) /\ b.on = AskedBy(sc.arm) /\ c \in CopySpace /\ Proper(sc, c)
  BY Parts
<1>2. c.why = "none" /\ Proper(sc, n) /\ sc.arm # "adaptive" /\ "fate" \notin b.on
  BY <1>1, CopyFields DEF Proper, Restores, AskedBy
<1>3. IsLedger(a) /\ Same(a, b, {"macDrops", "fate"}) /\ a.macDrops = b.macDrops + 1 /\ Marks(a, b, k, "Mac")
  BY <1>1, MacDropIs
<1> HIDE DEF a
<1>4. /\ a.on = b.on /\ a.rxSeq = b.rxSeq /\ a.routeRx = b.routeRx /\ a.routePending = b.routePending
      /\ a.reinjSkip = b.reinjSkip /\ a.flowMonitor = b.flowMonitor
      /\ a.hopTx = b.hopTx /\ a.hopRx = b.hopRx /\ a.acked = b.acked
      /\ a.reinj = b.reinj /\ a.pqPending = b.pqPending /\ a.pqEcb = b.pqEcb
      /\ a.adaptiveReinj = b.adaptiveReinj /\ a.adaptiveArpReinj = b.adaptiveArpReinj
  BY <1>3 DEF Same, Fields, Counters
<1>5. Elsewhere(a, b, k) /\ a.fate = b.fate
  <2>1. {"macDrops", "fate"} \subseteq Counters \cup {"flowMonitor", "fate"}
    BY DEF Counters
  <2> QED
    BY <1>2, <1>3, <2>1, ElsewhereMarks DEF Marks
<1>6. /\ Typed(sc, A, a) /\ Structure(A) /\ Agreement(sc, A, a) /\ Skips(sc, A, a)
      /\ Moves(B, A, c, n) /\ \A d \in DOMAIN A : d \in DOMAIN B \/ d = n
  BY <1>2, <1>3, <1>4, <1>5, GaveUpParts
<1> HIDE DEF A
<1>7. Numeric(B, b) /\ Numeric(A, a)
  BY <1>1, <1>6, Numbers
<1>8. Closes(sc, a)
  BY <1>1, <1>4, ClosesKept
<1>9. \A S : Weight(B, S) \in Nat
  BY <1>1, CountType DEF Typed
<1>10. Sums(B, b) => Sums(A, a)
  <2>1. CASE ~c.got
    <3>1. /\ Lost(B, "air", "none") = Lost(A, "air", "none") + 1
          /\ Lost(A, "gone", "mac") = Lost(B, "gone", "mac") + 1
          /\ Lost(A, "gone", "skipped") = Lost(B, "gone", "skipped")
          /\ Lost(A, "gone", "queue") = Lost(B, "gone", "queue")
          /\ Lost(A, "gone", "arp") = Lost(B, "gone", "arp")
          /\ Seen(A, "air", "none") = Seen(B, "air", "none")
          /\ Seen(A, "gone", "mac") = Seen(B, "gone", "mac")
          /\ Seen(A, "gone", "skipped") = Seen(B, "gone", "skipped")
          /\ Seen(A, "gone", "recovered") = Seen(B, "gone", "recovered")
      BY <1>1, <1>2, <1>6, <1>9, <2>1 DEF Moves, One, Lost, Seen, LostIn, SeenIn
    <3>2. a.macDrops = b.macDrops + 1
      BY <1>3
    <3> QED
      BY <1>4, <1>7, <3>1, <3>2 DEF Sums, Numeric
  <2>2. CASE c.got
    <3>1. /\ Lost(A, "air", "none") = Lost(B, "air", "none")
          /\ Lost(A, "gone", "mac") = Lost(B, "gone", "mac")
          /\ Lost(A, "gone", "skipped") = Lost(B, "gone", "skipped")
          /\ Lost(A, "gone", "queue") = Lost(B, "gone", "queue")
          /\ Lost(A, "gone", "arp") = Lost(B, "gone", "arp")
          /\ Seen(B, "air", "none") = Seen(A, "air", "none") + 1
          /\ Seen(A, "gone", "mac") = Seen(B, "gone", "mac") + 1
          /\ Seen(A, "gone", "skipped") = Seen(B, "gone", "skipped")
          /\ Seen(A, "gone", "recovered") = Seen(B, "gone", "recovered")
      BY <1>1, <1>2, <1>6, <1>9, <2>2, n.got DEF Moves, One, Lost, Seen, LostIn, SeenIn
    <3>2. a.macDrops = b.macDrops + 1
      BY <1>3
    <3> QED
      BY <1>4, <1>7, <3>1, <3>2 DEF Sums, Numeric
  <2> QED
    BY <1>1, <2>1, <2>2, CopyFields
<1>11. Counts(sc, A, a)
  <2>1. \A d \in DOMAIN A : d.spent > 0 => Total(a.reinj) > 0
    BY <1>1, <1>2, <1>4, <1>6 DEF Counts
  <2> QED
    BY <1>1, <1>4, <1>10, <2>1 DEF Counts
<1> QED
  BY <1>6, <1>8, <1>11 DEF BooksInv, A, a

\* The sinks count what they were delivered.
LEMMA RxCountIs ==
  ASSUME NEW b, b.rxSeq \in Seq(Keys), NEW k
  PROVE  RxCount(b, k) \in Nat /\ (RxCount(b, k) >= 1 <=> k \in Delivered(b))
<1> DEFINE S == {i \in 1 .. Len(b.rxSeq) : b.rxSeq[i] = k}
<1>1. DOMAIN b.rxSeq = 1 .. Len(b.rxSeq) /\ Len(b.rxSeq) \in Nat
  OBVIOUS
<1>2. IsFiniteSet(S)
  <2>1. IsFiniteSet(1 .. Len(b.rxSeq))
    BY <1>1, FS_Interval
  <2> QED
    BY <2>1, FS_Subset
<1>3. RxCount(b, k) = Cardinality(S)
  BY <1>1 DEF RxCount
<1>4. Cardinality(S) \in Nat /\ (Cardinality(S) = 0 <=> S = {})
  BY <1>2, FS_CardinalityType, FS_EmptySet
<1>5. k \in Delivered(b) <=> S # {}
  BY <1>1 DEF Delivered, ToSet
<1> QED
  BY <1>3, <1>4, <1>5

\* The cap on re-injections gives a packet up, and books it once.
LEMMA SkipsUp ==
  ASSUME NEW sc, NEW B, NEW b, Typed(sc, B, b), Skips(sc, B, b), NEW A, NEW a, IsLedger(a), a.rxSeq = b.rxSeq,
         NEW c, c.why = "none", NEW n \in CopySpace, n.why = "skipped", Moves(B, A, c, n),
         NEW k, k = n.key,
         \A x : x \in DOMAIN a.reinjSkip <=> x \in DOMAIN b.reinjSkip \/ x = k,
         Events(a.reinjSkip)[k] = (IF k \in DOMAIN b.reinjSkip THEN Events(b.reinjSkip)[k] ELSE 0) + 1,
         \A x \in DOMAIN b.reinjSkip : x # k =>
            a.reinjSkip[x] = b.reinjSkip[x] /\ Events(a.reinjSkip)[x] = Events(b.reinjSkip)[x],
         k \notin DOMAIN b.reinjSkip =>
            "rxAtFirstSkip" \in DOMAIN a.reinjSkip[k] /\ a.reinjSkip[k].rxAtFirstSkip = RxCount(b, k),
         k \in DOMAIN b.reinjSkip /\ "rxAtFirstSkip" \in DOMAIN b.reinjSkip[k] =>
            "rxAtFirstSkip" \in DOMAIN a.reinjSkip[k] /\ a.reinjSkip[k].rxAtFirstSkip = b.reinjSkip[k].rxAtFirstSkip
  PROVE  Skips(sc, A, a)
<1> SUFFICES ASSUME sc.arm # "adaptive" PROVE Skips(sc, A, a)
  BY DEF Skips
<1>1. IsLedger(b) /\ IsFiniteSet(DOMAIN b.reinjSkip) /\ IsBagOf(B, CopySpace)
  BY OfferedFinite DEF Typed
<1>2. IsTally(b.reinjSkip) /\ IsTally(a.reinjSkip) /\ b.rxSeq \in Seq(Keys)
  BY <1>1 DEF IsLedger
<1>3. \A K : Weight(Events(a.reinjSkip), K) = Weight(Events(b.reinjSkip), K) + One(k \in K)
  BY <1>1, <1>2, TallyTotals
<1>4. ASSUME NEW K PROVE Weight(Events(a.reinjSkip), K) = Weight(A, SkippedOf(K))
  <2>1. Weight(Events(b.reinjSkip), K) = Weight(B, SkippedOf(K)) /\ Weight(B, SkippedOf(K)) \in Nat
    BY <1>1, CountType DEF Skips
  <2>2. c \notin SkippedOf(K) /\ (n \in SkippedOf(K) <=> k \in K)
    BY DEF SkippedOf
  <2>3. Weight(A, SkippedOf(K)) = Weight(B, SkippedOf(K)) + One(k \in K)
    BY <2>1, <2>2 DEF Moves, One
  <2> QED
    BY <1>3, <2>1, <2>3
<1>5. ASSUME NEW x \in DOMAIN a.reinjSkip
      PROVE  /\ "rxAtFirstSkip" \in DOMAIN a.reinjSkip[x]
             /\ a.reinjSkip[x].rxAtFirstSkip >= 1 => x \in Delivered(a)
  <2>1. Delivered(a) = Delivered(b)
    BY DEF Delivered
  <2>2. CASE x \in DOMAIN b.reinjSkip
    <3>1. "rxAtFirstSkip" \in DOMAIN b.reinjSkip[x] /\ (b.reinjSkip[x].rxAtFirstSkip >= 1 => x \in Delivered(b))
      BY <2>2 DEF Skips
    <3> QED
      BY <2>1, <2>2, <3>1
  <2>3. CASE x \notin DOMAIN b.reinjSkip
    <3>1. x = k
      BY <2>3
    <3> QED
      BY <1>2, <2>1, <2>3, <3>1, RxCountIs
  <2> QED
    BY <2>2, <2>3
<1> QED
  BY <1>4, <1>5 DEF Skips

\* The cap on re-injections gives a packet up: the skip is booked as often as copies are skipped.
LEMMA SkipInv ==
  ASSUME NEW sc, NEW B, NEW b, BooksInv(sc, B, b), NEW c \in DOMAIN B, c.place = "air", sc.arm = "anthocnet", c.spent > 0,
         NEW n \in CopySpace, n.key = c.key, n.place = "gone", n.got = c.got, n.spent = c.spent, n.why = "skipped"
  PROVE  BooksInv(sc, Put(Take(B, c), n), CountMacReinjectSkip(CountMacDataDrop(b, c.key), c.key))
<1> DEFINE A == Put(Take(B, c), n)
           a == CountMacReinjectSkip(CountMacDataDrop(b, c.key), c.key)
           k == c.key
<1>1. /\ Typed(sc, B, b) /\ Skips(sc, B, b) /\ Counts(sc, B, b)
      /\ IsLedger(b) /\ b.on = AskedBy(sc.arm) /\ c \in CopySpace /\ Proper(sc, c)
  BY Parts
<1>2. c.why = "none" /\ Proper(sc, n) /\ "fate" \notin b.on
  BY <1>1, CopyFields DEF Proper, Restores, AskedBy
<1>3. /\ IsLedger(a) /\ Elsewhere(a, b, k)
      /\ Same(a, b, {"macDrops", "fate", "reinjSkip"})
      /\ a.macDrops = b.macDrops + 1
      /\ Marks(a, b, k, "Mac")
      /\ \A x : x \in DOMAIN a.reinjSkip <=> x \in DOMAIN b.reinjSkip \/ x = k
      /\ Events(a.reinjSkip)[k] = (IF k \in DOMAIN b.reinjSkip THEN Events(b.reinjSkip)[k] ELSE 0) + 1
      /\ \A x \in DOMAIN b.reinjSkip : x # k =>
           a.reinjSkip[x] = b.reinjSkip[x] /\ Events(a.reinjSkip)[x] = Events(b.reinjSkip)[x]
      /\ k \notin DOMAIN b.reinjSkip =>
           "rxAtFirstSkip" \in DOMAIN a.reinjSkip[k] /\ a.reinjSkip[k].rxAtFirstSkip = RxCount(b, k)
      /\ k \in DOMAIN b.reinjSkip /\ "rxAtFirstSkip" \in DOMAIN b.reinjSkip[k] =>
           "rxAtFirstSkip" \in DOMAIN a.reinjSkip[k] /\ a.reinjSkip[k].rxAtFirstSkip = b.reinjSkip[k].rxAtFirstSkip
  BY <1>1, MacSkipIs
<1> HIDE DEF a
<1>4. /\ a.on = b.on /\ a.rxSeq = b.rxSeq /\ a.routeRx = b.routeRx /\ a.routePending = b.routePending
      /\ a.flowMonitor = b.flowMonitor
      /\ a.hopTx = b.hopTx /\ a.hopRx = b.hopRx /\ a.acked = b.acked
      /\ a.reinj = b.reinj /\ a.pqPending = b.pqPending
      /\ a.adaptiveReinj = b.adaptiveReinj /\ a.adaptiveArpReinj = b.adaptiveArpReinj
  BY <1>3 DEF Same, Fields, Counters
<1>5. a.fate = b.fate /\ a.flowMonitor.tx = b.flowMonitor.tx
  BY <1>2, <1>3, <1>4 DEF Marks
<1>6. IsLedger(a) /\ Elsewhere(a, b, k) /\ a.macDrops = b.macDrops + 1
  BY <1>3
<1>7. /\ Typed(sc, A, a) /\ Structure(A) /\ Agreement(sc, A, a)
      /\ Moves(B, A, c, n) /\ \A d \in DOMAIN A : d \in DOMAIN B \/ d = n
  BY <1>2, <1>4, <1>5, <1>6, GaveUpParts
<1> HIDE DEF A
<1>8. Skips(sc, A, a)
  BY <1>1, <1>2, <1>3, <1>4, <1>7, SkipsUp
<1>9. Numeric(B, b) /\ Numeric(A, a)
  BY <1>1, <1>7, Numbers
<1>10. Closes(sc, a)
  BY DEF Closes, Restores
<1>11. \A S : Weight(B, S) \in Nat
  BY <1>1, CountType DEF Typed
<1>12. Sums(B, b) => Sums(A, a)
  <2>1. CASE ~c.got
    <3>1. /\ Lost(B, "air", "none") = Lost(A, "air", "none") + 1
          /\ Lost(A, "gone", "mac") = Lost(B, "gone", "mac")
          /\ Lost(A, "gone", "skipped") = Lost(B, "gone", "skipped") + 1
          /\ Lost(A, "gone", "queue") = Lost(B, "gone", "queue")
          /\ Lost(A, "gone", "arp") = Lost(B, "gone", "arp")
          /\ Seen(A, "air", "none") = Seen(B, "air", "none")
          /\ Seen(A, "gone", "mac") = Seen(B, "gone", "mac")
          /\ Seen(A, "gone", "skipped") = Seen(B, "gone", "skipped")
          /\ Seen(A, "gone", "recovered") = Seen(B, "gone", "recovered")
      BY <1>1, <1>2, <1>7, <1>11, <2>1 DEF Moves, One, Lost, Seen, LostIn, SeenIn
    <3> QED
      BY <1>4, <1>6, <1>9, <3>1 DEF Sums, Numeric
  <2>2. CASE c.got
    <3>1. /\ Lost(A, "air", "none") = Lost(B, "air", "none")
          /\ Lost(A, "gone", "mac") = Lost(B, "gone", "mac")
          /\ Lost(A, "gone", "skipped") = Lost(B, "gone", "skipped")
          /\ Lost(A, "gone", "queue") = Lost(B, "gone", "queue")
          /\ Lost(A, "gone", "arp") = Lost(B, "gone", "arp")
          /\ Seen(B, "air", "none") = Seen(A, "air", "none") + 1
          /\ Seen(A, "gone", "mac") = Seen(B, "gone", "mac")
          /\ Seen(A, "gone", "skipped") = Seen(B, "gone", "skipped") + 1
          /\ Seen(A, "gone", "recovered") = Seen(B, "gone", "recovered")
      BY <1>1, <1>2, <1>7, <1>11, <2>2, n.got DEF Moves, One, Lost, Seen, LostIn, SeenIn
    <3> QED
      BY <1>4, <1>6, <1>9, <3>1 DEF Sums, Numeric
  <2> QED
    BY <1>1, <2>1, <2>2, CopyFields
<1>13. Counts(sc, A, a)
  <2>1. \A d \in DOMAIN A : d.spent > 0 => Total(a.reinj) > 0
    BY <1>1, <1>4, <1>7 DEF Counts
  <2> QED
    BY <1>1, <1>4, <1>12, <2>1 DEF Counts
<1> QED
  BY <1>7, <1>8, <1>10, <1>13 DEF BooksInv, A, a

\* A frame that was received is sent again: its packet is in two places from now on.
LEMMA AgainParts ==
  ASSUME NEW sc, NEW B, NEW b, BooksInv(sc, B, b), NEW c \in DOMAIN B, c.place = "air", c.got, Restores(sc),
         NEW o, o = Gone(c, "recovered"),
         NEW n \in CopySpace, n.key = c.key, ~n.got, n.place = "queue", n.why = "none",
         NEW a, IsLedger(a), Elsewhere(a, b, c.key), a.flowMonitor.tx = b.flowMonitor.tx, a.rxSeq = b.rxSeq,
         a.reinjSkip = b.reinjSkip, sc.arm = "adaptive" /\ c.key \in DOMAIN b.fate => c.key \in DOMAIN a.fate,
         NEW A, A = Put(Put(Take(B, c), o), n)
  PROVE  /\ Typed(sc, A, a) /\ Structure(A) /\ Agreement(sc, A, a) /\ Skips(sc, A, a)
         /\ Splits(B, A, c, o, n) /\ \A d \in DOMAIN A : d \in DOMAIN B \/ d \in {o, n}
<1>1. /\ Typed(sc, B, b) /\ Structure(B) /\ Agreement(sc, B, b) /\ Skips(sc, B, b) /\ IsBagOf(B, CopySpace)
      /\ c \in CopySpace /\ Proper(sc, c) /\ sc.arm # "olsr"
  BY Parts DEF Restores
<1>2. c.why = "none" /\ "recovered" \in Whys
  BY <1>1, CopyFields DEF Proper, Whys
<1>3. /\ o \in CopySpace /\ o.key = c.key /\ o.place = "gone" /\ o.got = c.got /\ o.why = "recovered"
      /\ o.spent = c.spent
  BY <1>1, <1>2, GoneIs
<1>4. Keeps(B, A, c.key, {o, n}) /\ Splits(B, A, c, o, n)
  BY <1>1, <1>2, AgainKeeps
<1>5. Delivered(a) = Delivered(b)
  BY DEF Delivered
<1>6. Fits(sc, a, c.key, {o, n})
  BY <1>1, <1>3 DEF Fits, Proper
<1>7. Typed(sc, A, a)
  BY <1>1, <1>4, <1>5, <1>6, TypedMoves
<1>8. Agreement(sc, A, a)
  <2>1. ~Single(A, c.key)
    BY <1>3, <1>4 DEF Keeps, Single
  <2> QED
    BY <1>1, <1>4, <2>1, AgreementKept DEF Keeps
<1>9. Skips(sc, A, a)
  <2>1. \A K : c \notin SkippedOf(K) /\ o \notin SkippedOf(K) /\ n \notin SkippedOf(K)
    BY <1>2, <1>3 DEF SkippedOf
  <2>2. \A K : Weight(A, SkippedOf(K)) = Weight(B, SkippedOf(K))
    BY <1>1, <1>4, <2>1, CountType DEF Splits, One
  <2> QED
    BY <1>1, <1>5, <2>2, SkipsKept
<1> QED
  BY <1>4, <1>7, <1>8, <1>9 DEF Keeps

\* The bag after a frame's packet went back into the queue of its sender.
Requeued(B, c) ==
  LET new == [Held(c.key, c.at) EXCEPT !.path = c.path, !.spent = c.spent + 1]
  IN IF c.got THEN Put(Put(Take(B, c), Gone(c, "recovered")), new) ELSE Put(Take(B, c), new)

\* A frame that the MAC gave up goes back into the queue of its sender, be it received or not.
LEMMA ReinjectInv ==
  ASSUME NEW sc, NEW B, NEW b, BooksInv(sc, B, b), NEW c \in DOMAIN B, c.place = "air", sc.arm = "anthocnet"
  PROVE  BooksInv(sc, Requeued(B, c), CountMacReinject(CountMacDataDrop(b, c.key), c.key))
<1> DEFINE n == [Held(c.key, c.at) EXCEPT !.path = c.path, !.spent = c.spent + 1]
           o == Gone(c, "recovered")
           A == Requeued(B, c)
           a == CountMacReinject(CountMacDataDrop(b, c.key), c.key)
           k == c.key
<1>1. /\ Typed(sc, B, b) /\ Counts(sc, B, b)
      /\ IsLedger(b) /\ b.on = AskedBy(sc.arm) /\ c \in CopySpace /\ Proper(sc, c) /\ Restores(sc)
  BY Parts DEF Restores
<1>2. /\ n \in CopySpace /\ n.key = c.key /\ n.place = "queue" /\ ~n.got /\ n.why = "none" /\ n.spent = c.spent + 1
  BY <1>1, RequeuedIs
<1>3. A = IF c.got THEN Put(Put(Take(B, c), o), n) ELSE Put(Take(B, c), n)
  BY DEF Requeued
<1> HIDE DEF n, A
<1>4. /\ c.why = "none" /\ c.place # "gone" /\ Proper(sc, n) /\ "pendingQueue" \notin b.on /\ Marked(n)
      /\ c.spent \in Nat /\ n.spent > 0 /\ "recovered" \in Whys
  BY <1>1, <1>2, CopyFields DEF Proper, Restores, AskedBy, Marked, Whys
<1>5. /\ IsLedger(a) /\ Elsewhere(a, b, k)
      /\ Same(a, b, {"macDrops", "fate", "reinj", "reinjOfDelivered"})
      /\ a.macDrops = b.macDrops + 1
      /\ \A x : x \in DOMAIN a.reinj <=> x \in DOMAIN b.reinj \/ x = k
      /\ Events(a.reinj)[k] = (IF k \in DOMAIN b.reinj THEN Events(b.reinj)[k] ELSE 0) + 1
      /\ \A x \in DOMAIN b.reinj : x # k => Events(a.reinj)[x] = Events(b.reinj)[x]
  BY <1>1, MacReinjectIs
<1> HIDE DEF a
<1>6. /\ a.on = b.on /\ a.rxSeq = b.rxSeq /\ a.reinjSkip = b.reinjSkip
      /\ a.flowMonitor = b.flowMonitor
      /\ a.hopTx = b.hopTx /\ a.hopRx = b.hopRx /\ a.acked = b.acked
      /\ a.adaptiveReinj = b.adaptiveReinj /\ a.adaptiveArpReinj = b.adaptiveArpReinj
  BY <1>5 DEF Same, Fields, Counters
<1>7. IsLedger(a) /\ Elsewhere(a, b, k) /\ a.macDrops = b.macDrops + 1 /\ a.flowMonitor.tx = b.flowMonitor.tx
  BY <1>5, <1>6
<1>8. Total(a.reinj) = Total(b.reinj) + 1 /\ Total(b.reinj) \in Nat
  <2>1. IsTally(b.reinj) /\ IsTally(a.reinj) /\ IsFiniteSet(DOMAIN b.reinj)
    BY <1>1, <1>7, OfferedFinite DEF IsLedger
  <2> QED
    BY <1>5, <2>1, TallyTotals, TotalType
<1>9. Closes(sc, a)
  BY <1>1 DEF Closes
<1>10. \A S : Weight(B, S) \in Nat
  BY <1>1, CountType DEF Typed
<1>11. CASE ~c.got
  <2>1. \A clean \in BOOLEAN : (clean => ~Marked(n)) /\ Agrees(sc, b, c, clean) => Agrees(sc, a, n, clean)
    BY <1>4, <1>6 DEF Agrees
  <2>2. /\ Typed(sc, A, a) /\ Structure(A) /\ Agreement(sc, A, a) /\ Skips(sc, A, a)
        /\ Moves(B, A, c, n) /\ \A d \in DOMAIN A : d \in DOMAIN B \/ d = n
    BY <1>2, <1>3, <1>4, <1>6, <1>7, <1>11, <2>1, MovedParts
  <2>3. Numeric(B, b) /\ Numeric(A, a)
    BY <1>1, <2>2, Numbers
  <2>4. /\ Lost(B, "air", "none") = Lost(A, "air", "none") + 1
        /\ Lost(A, "gone", "mac") = Lost(B, "gone", "mac")
        /\ Lost(A, "gone", "skipped") = Lost(B, "gone", "skipped")
        /\ Lost(A, "gone", "queue") = Lost(B, "gone", "queue")
        /\ Lost(A, "gone", "arp") = Lost(B, "gone", "arp")
        /\ Seen(A, "air", "none") = Seen(B, "air", "none")
        /\ Seen(A, "gone", "mac") = Seen(B, "gone", "mac")
        /\ Seen(A, "gone", "skipped") = Seen(B, "gone", "skipped")
        /\ Seen(A, "gone", "recovered") = Seen(B, "gone", "recovered")
    BY <1>1, <1>2, <1>4, <2>2, <1>10, <1>11 DEF Moves, One, Lost, Seen, LostIn, SeenIn
  <2>5. Sums(B, b) => Sums(A, a)
    BY <1>6, <1>7, <1>8, <2>3, <2>4 DEF Sums, Numeric
  <2>6. Counts(sc, A, a)
    BY <1>1, <1>6, <1>8, <2>5 DEF Counts
  <2> QED
    BY <1>9, <2>2, <2>6 DEF BooksInv, A, a
<1>12. CASE c.got
  <2>1. /\ Typed(sc, A, a) /\ Structure(A) /\ Agreement(sc, A, a) /\ Skips(sc, A, a)
        /\ Splits(B, A, c, o, n) /\ \A d \in DOMAIN A : d \in DOMAIN B \/ d \in {o, n}
    BY <1>1, <1>2, <1>3, <1>4, <1>6, <1>7, <1>12, AgainParts
  <2>2. /\ o \in CopySpace /\ o.place = "gone" /\ o.got /\ o.why = "recovered"
    BY <1>1, <1>4, <1>12, GoneIs
  <2> HIDE DEF o
  <2>3. Numeric(B, b) /\ Numeric(A, a)
    BY <1>1, <2>1, Numbers
  <2>4. /\ Lost(A, "air", "none") = Lost(B, "air", "none")
        /\ Lost(A, "gone", "mac") = Lost(B, "gone", "mac")
        /\ Lost(A, "gone", "skipped") = Lost(B, "gone", "skipped")
        /\ Lost(A, "gone", "queue") = Lost(B, "gone", "queue")
        /\ Lost(A, "gone", "arp") = Lost(B, "gone", "arp")
        /\ Seen(B, "air", "none") = Seen(A, "air", "none") + 1
        /\ Seen(A, "gone", "mac") = Seen(B, "gone", "mac")
        /\ Seen(A, "gone", "skipped") = Seen(B, "gone", "skipped")
        /\ Seen(A, "gone", "recovered") = Seen(B, "gone", "recovered") + 1
    BY <1>1, <1>2, <1>4, <2>1, <2>2, <1>10, <1>12 DEF Splits, One, Lost, Seen, LostIn, SeenIn
  <2>5. Sums(B, b) => Sums(A, a)
    BY <1>6, <1>7, <1>8, <2>3, <2>4 DEF Sums, Numeric
  <2>6. Counts(sc, A, a)
    BY <1>1, <1>6, <1>8, <2>5 DEF Counts
  <2> QED
    BY <1>9, <2>1, <2>6 DEF BooksInv, A, a
<1> QED
  BY <1>1, <1>11, <1>12, CopyFields

\* The adaptive baselines put back what the MAC gives up and what ARP cannot resolve.
LEMMA AdaptiveInv ==
  ASSUME NEW sc, NEW B, NEW b, BooksInv(sc, B, b), NEW c \in DOMAIN B, c.place = "air", sc.arm = "adaptive",
         NEW a, IsLedger(a), NEW F, F = {"macDrops", "adaptiveReinj", "adaptiveArpReinj", "fate", "recovered"},
         Same(a, b, F), Marks(a, b, c.key, "AtNode")
  PROVE  BooksInv(sc, Requeued(B, c), a)
<1> DEFINE n == [Held(c.key, c.at) EXCEPT !.path = c.path, !.spent = c.spent + 1]
           o == Gone(c, "recovered")
           A == Requeued(B, c)
           k == c.key
<1>1. /\ Typed(sc, B, b) /\ IsLedger(b) /\ b.on = AskedBy(sc.arm) /\ c \in CopySpace /\ Proper(sc, c) /\ Restores(sc)
  BY Parts DEF Restores
<1>2. /\ n \in CopySpace /\ n.key = c.key /\ n.place = "queue" /\ ~n.got /\ n.why = "none" /\ n.spent = c.spent + 1
  BY <1>1, RequeuedIs
<1>3. A = IF c.got THEN Put(Put(Take(B, c), o), n) ELSE Put(Take(B, c), n)
  BY DEF Requeued
<1> HIDE DEF n, A
<1>4. /\ c.why = "none" /\ c.place # "gone" /\ Proper(sc, n) /\ "pendingQueue" \notin b.on /\ Marked(n)
      /\ c.spent \in Nat /\ n.spent > 0 /\ "fate" \in b.on
  BY <1>1, <1>2, CopyFields DEF Proper, Restores, AskedBy, Marked
<1>5. /\ a.on = b.on /\ a.rxSeq = b.rxSeq /\ a.reinjSkip = b.reinjSkip /\ a.flowMonitor = b.flowMonitor
  BY DEF Same, Fields, Counters
<1>6. Elsewhere(a, b, k) /\ a.flowMonitor.tx = b.flowMonitor.tx
  <2>1. F \subseteq Counters \cup {"flowMonitor", "fate"}
    BY DEF Counters
  <2> QED
    BY <1>5, <2>1, ElsewhereMarks
<1>7. k \in DOMAIN a.fate /\ a.fate[k].last = "AtNode" /\ Delivered(a) = Delivered(b)
  BY <1>4, <1>5 DEF Marks, Delivered
<1>8. Closes(sc, a) /\ Counts(sc, A, a)
  BY <1>1 DEF Closes, Counts
<1>9. CASE ~c.got
  <2>1. \A clean \in BOOLEAN : (clean => ~Marked(n)) /\ Agrees(sc, b, c, clean) => Agrees(sc, a, n, clean)
    <3>1. Whereabouts(n) = "AtNode"
      BY <1>2 DEF Whereabouts
    <3> QED
      BY <1>2, <1>4, <1>5, <1>7, <3>1 DEF Agrees
  <2>2. /\ Typed(sc, A, a) /\ Structure(A) /\ Agreement(sc, A, a) /\ Skips(sc, A, a)
    BY <1>2, <1>3, <1>4, <1>5, <1>6, <1>7, <1>9, <2>1, MovedParts
  <2> QED
    BY <1>8, <2>2 DEF BooksInv, A
<1>10. CASE c.got
  <2>1. /\ Typed(sc, A, a) /\ Structure(A) /\ Agreement(sc, A, a) /\ Skips(sc, A, a)
    BY <1>1, <1>2, <1>3, <1>4, <1>5, <1>6, <1>7, <1>10, AgainParts
  <2> QED
    BY <1>8, <2>1 DEF BooksInv, A
<1> QED
  BY <1>1, <1>9, <1>10, CopyFields

\* A frame that was received counts as seen, and no longer as under way.
LEMMA ArrivedCounts ==
  ASSUME NEW B, IsBagOf(B, CopySpace), NEW A, NEW c \in CopySpace, c.place = "air", ~c.got, c.why = "none",
         NEW o \in CopySpace, o.place = "air", o.got, o.why = "none",
         NEW n \in CopySpace, n.place # "air", ~n.got, n.why \in {"none", "route", "ttl", "delivered"},
         Splits(B, A, c, o, n)
  PROVE  /\ Lost(B, "air", "none") = Lost(A, "air", "none") + 1
         /\ Lost(A, "gone", "mac") = Lost(B, "gone", "mac")
         /\ Lost(A, "gone", "skipped") = Lost(B, "gone", "skipped")
         /\ Lost(A, "gone", "queue") = Lost(B, "gone", "queue")
         /\ Lost(A, "gone", "arp") = Lost(B, "gone", "arp")
         /\ Seen(A, "air", "none") = Seen(B, "air", "none") + 1
         /\ Seen(A, "gone", "mac") = Seen(B, "gone", "mac")
         /\ Seen(A, "gone", "skipped") = Seen(B, "gone", "skipped")
         /\ Seen(A, "gone", "recovered") = Seen(B, "gone", "recovered")
<1>1. \A S : Weight(B, S) \in Nat
  BY CountType
<1>2. ASSUME NEW S, c \notin S, o \notin S, n \notin S PROVE Weight(A, S) = Weight(B, S)
  BY <1>1, <1>2 DEF Splits, One
<1>3. \A place, why : place = "gone" => o \notin SeenIn(place, why) /\ c \notin SeenIn(place, why) /\ n \notin SeenIn(place, why)
  BY DEF SeenIn
<1>4. \A why \in {"mac", "skipped", "queue", "arp"} :
        o \notin LostIn("gone", why) /\ c \notin LostIn("gone", why) /\ n \notin LostIn("gone", why)
  BY DEF LostIn
<1>5. Weight(B, LostIn("air", "none")) = Weight(A, LostIn("air", "none")) + 1
  <2>1. c \in LostIn("air", "none") /\ o \notin LostIn("air", "none") /\ n \notin LostIn("air", "none")
    BY DEF LostIn
  <2> QED
    BY <1>1, <2>1 DEF Splits, One
<1>6. Weight(A, SeenIn("air", "none")) = Weight(B, SeenIn("air", "none")) + 1
  <2>1. c \notin SeenIn("air", "none") /\ o \in SeenIn("air", "none") /\ n \notin SeenIn("air", "none")
    BY DEF SeenIn
  <2> QED
    BY <1>1, <2>1 DEF Splits, One
<1> QED
  BY <1>2, <1>3, <1>4, <1>5, <1>6 DEF Lost, Seen

\* A frame reaches the sink.
LEMMA ReachInv ==
  ASSUME NEW sc, NEW B, NEW b, BooksInv(sc, B, b), NEW c \in DOMAIN B, c.place = "air", ~c.got
  PROVE  BooksInv(sc, Put(Put(Take(B, c), [c EXCEPT !.got = TRUE]), Gone(Passed(c), "delivered")),
                  Deliver(CountDataHopRx(b, c.key), c.key))
<1> DEFINE k == c.key
           o == [c EXCEPT !.got = TRUE]
           p == Passed(c)
           n == Gone(p, "delivered")
           a == Deliver(CountDataHopRx(b, c.key), c.key)
           A == Put(Put(Take(B, c), o), n)
<1>1. /\ Typed(sc, B, b) /\ Agreement(sc, B, b) /\ Closes(sc, b) /\ Counts(sc, B, b)
      /\ IsLedger(b) /\ b.on = AskedBy(sc.arm) /\ c \in CopySpace /\ Proper(sc, c) /\ sc.arm \in Arms
  BY Parts
<1>2. c.why = "none" /\ k \in Keys
  BY <1>1, CopyFields DEF Proper
<1>3. /\ o \in CopySpace /\ o.key = k /\ o.place = "air" /\ o.got /\ o.why = "none" /\ o.spent = c.spent
  BY <1>1, <1>2, GotIs
<1>4. /\ p \in CopySpace /\ p.key = k /\ p.at = c.to /\ p.place = "air" /\ ~p.got /\ p.why = "none"
      /\ p.path = Append(c.path, c.at) /\ p.spent = c.spent
  BY <1>1, <1>2, PassedIs
<1> HIDE DEF o, p
<1>5. /\ n \in CopySpace /\ n.key = k /\ n.place = "gone" /\ ~n.got /\ n.why = "delivered"
      /\ n.path = Append(c.path, c.at) /\ n.spent = c.spent /\ Proper(sc, n)
  <2>1. "delivered" \in Whys
    BY DEF Whys
  <2>2. /\ n \in CopySpace /\ n.key = k /\ n.place = "gone" /\ ~n.got /\ n.why = "delivered"
        /\ n.path = Append(c.path, c.at) /\ n.spent = c.spent
    BY <1>4, <2>1, GoneIs
  <2> QED
    BY <1>1, <2>2 DEF Proper
<1> HIDE DEF n
<1>6. /\ IsLedger(a) /\ Elsewhere(a, b, k)
      /\ Same(a, b, {"hopRx", "reinj", "fate", "rxSeq", "routePending", "routeRx"})
      /\ a.hopRx = b.hopRx + 1
      /\ Events(a.reinj) = Events(b.reinj)
      /\ Marks(a, b, k, "AtNode")
      /\ a.rxSeq = Append(b.rxSeq, k)
      /\ a.routeRx = IF k \in DOMAIN b.routePending /\ k \notin DOMAIN b.routeRx
                     THEN Set(b.routeRx, k, b.routePending[k]) ELSE b.routeRx
      /\ \A x : x \in Delivered(a) <=> x \in Delivered(b) \/ x = k
  BY <1>1, <1>2, ReachIs
<1> HIDE DEF a
<1>7. /\ a.on = b.on /\ a.reinjSkip = b.reinjSkip /\ a.hopTx = b.hopTx /\ a.acked = b.acked /\ a.macDrops = b.macDrops
      /\ a.pqPending = b.pqPending /\ a.pqEcb = b.pqEcb /\ a.flowMonitor = b.flowMonitor
      /\ a.adaptiveReinj = b.adaptiveReinj /\ a.adaptiveArpReinj = b.adaptiveArpReinj
  BY <1>6 DEF Same, Fields, Counters
<1>8. Received(a) = Received(b) + 1 /\ Total(a.reinj) = Total(b.reinj) /\ a.hopRx = b.hopRx + 1
  <2>1. b.rxSeq \in Seq(Keys)
    BY <1>1 DEF IsLedger
  <2>2. Len(a.rxSeq) = Len(b.rxSeq) + 1
    BY <1>2, <1>6, <2>1
  <2> QED
    BY <1>6, <2>2, SameEvents DEF Received
<1>9. \A clean \in BOOLEAN : (clean => ~Marked(n)) /\ Agrees(sc, b, c, clean) => Agrees(sc, a, n, clean)
  <2>1. Follows(b, c) => Follows(a, n)
    BY <1>2, <1>5, <1>6 DEF Follows, Set
  <2> QED
    BY <1>5, <1>6, <2>1 DEF Agrees
<1>10. /\ IsLedger(a) /\ Elsewhere(a, b, k) /\ a.flowMonitor.tx = b.flowMonitor.tx /\ k \in Delivered(a)
       /\ k \in DOMAIN b.fate => k \in DOMAIN a.fate
  BY <1>6, <1>7 DEF Marks
<1>11. /\ Typed(sc, A, a) /\ Structure(A) /\ Agreement(sc, A, a) /\ Skips(sc, A, a)
      /\ Splits(B, A, c, o, n) /\ \A d \in DOMAIN A : d \in DOMAIN B \/ d \in {o, n}
  BY <1>2, <1>3, <1>5, <1>7, <1>9, <1>10, ArrivedParts
<1> HIDE DEF A
<1>12. Numeric(B, b) /\ Numeric(A, a)
  BY <1>1, <1>11, Numbers
<1>13. Closes(sc, a)
  BY <1>1, <1>7, <1>8, <1>12 DEF Closes, Numeric
<1>14. \A S : Weight(B, S) \in Nat
  BY <1>1, CountType DEF Typed
<1>15. /\ Lost(B, "air", "none") = Lost(A, "air", "none") + 1
       /\ Lost(A, "gone", "mac") = Lost(B, "gone", "mac")
       /\ Lost(A, "gone", "skipped") = Lost(B, "gone", "skipped")
       /\ Lost(A, "gone", "queue") = Lost(B, "gone", "queue")
       /\ Lost(A, "gone", "arp") = Lost(B, "gone", "arp")
       /\ Seen(A, "air", "none") = Seen(B, "air", "none") + 1
       /\ Seen(A, "gone", "mac") = Seen(B, "gone", "mac")
       /\ Seen(A, "gone", "skipped") = Seen(B, "gone", "skipped")
       /\ Seen(A, "gone", "recovered") = Seen(B, "gone", "recovered")
  BY <1>1, <1>2, <1>3, <1>5, <1>11, ArrivedCounts DEF Typed
<1>16. Sums(B, b) => Sums(A, a)
  BY <1>7, <1>8, <1>12, <1>15 DEF Sums, Numeric
<1>17. Counts(sc, A, a)
  <2>1. sc.arm # "adaptive" => \A d \in DOMAIN A : d.spent > 0 => Total(a.reinj) > 0
    BY <1>1, <1>3, <1>5, <1>7, <1>8, <1>11 DEF Counts
  <2> QED
    BY <1>1, <1>7, <1>8, <1>16, <2>1 DEF Counts
<1> QED
  BY <1>11, <1>13, <1>17 DEF BooksInv, A, o, p, n, a

\* A frame is sent on.
LEMMA ForwardInv ==
  ASSUME NEW sc, NEW B, NEW b, BooksInv(sc, B, b), NEW c \in DOMAIN B, c.place = "air", ~c.got, NEW m \in Stations
  PROVE  BooksInv(sc, Put(Put(Take(B, c), [c EXCEPT !.got = TRUE]), OnAir(Passed(c), m)),
                  Sent(CountDataHopRx(b, c.key), Passed(c)))
<1> DEFINE k == c.key
           o == [c EXCEPT !.got = TRUE]
           p == Passed(c)
           n == OnAir(p, m)
           a == Sent(CountDataHopRx(b, p.key), p)
           A == Put(Put(Take(B, c), o), n)
<1>1. /\ Typed(sc, B, b) /\ Agreement(sc, B, b) /\ Closes(sc, b) /\ Counts(sc, B, b)
      /\ IsLedger(b) /\ b.on = AskedBy(sc.arm) /\ c \in CopySpace /\ Proper(sc, c) /\ sc.arm \in Arms
  BY Parts
<1>2. c.why = "none" /\ k \in Keys
  BY <1>1, CopyFields DEF Proper
<1>3. /\ o \in CopySpace /\ o.key = k /\ o.place = "air" /\ o.got /\ o.why = "none" /\ o.spent = c.spent
  BY <1>1, <1>2, GotIs
<1>4. /\ p \in CopySpace /\ p.key = k /\ p.at = c.to /\ p.place = "air" /\ ~p.got /\ p.why = "none"
      /\ p.path = Append(c.path, c.at) /\ p.spent = c.spent
  BY <1>1, <1>2, PassedIs
<1> HIDE DEF o, p
<1>5. /\ n \in CopySpace /\ n.key = k /\ n.at = c.to /\ n.place = "air" /\ ~n.got /\ n.why = "none"
      /\ n.path = Append(c.path, c.at) /\ n.spent = c.spent /\ Proper(sc, n)
  <2>1. /\ n \in CopySpace /\ n.key = k /\ n.at = c.to /\ n.place = "air" /\ ~n.got /\ n.why = "none"
        /\ n.path = Append(c.path, c.at) /\ n.spent = c.spent
    BY <1>4, OnAirIs
  <2> QED
    BY <1>1, <2>1 DEF Proper
<1> HIDE DEF n
<1>6. /\ IsLedger(a) /\ Elsewhere(a, b, k)
      /\ Same(a, b, {"hopRx", "hopTx", "routePending", "reinj", "fate", "pqPending"})
      /\ a.hopRx = b.hopRx + 1 /\ a.hopTx = b.hopTx + 1
      /\ a.routePending = Set(b.routePending, k, Append(Lookup(b.routePending, k, <<>>), c.to))
      /\ Events(a.reinj) = Events(b.reinj)
      /\ Marks(a, b, k, "Tx")
      /\ a.pqPending = IF "pendingQueue" \in b.on THEN b.pqPending \ {k} ELSE b.pqPending
  <2>1. /\ IsLedger(a) /\ Elsewhere(a, b, p.key)
        /\ Same(a, b, {"hopRx", "hopTx", "routePending", "reinj", "fate", "pqPending"})
        /\ a.hopRx = b.hopRx + 1 /\ a.hopTx = b.hopTx + 1
        /\ a.routePending = Set(b.routePending, p.key, Append(Lookup(b.routePending, p.key, <<>>), p.at))
        /\ Events(a.reinj) = Events(b.reinj)
        /\ Marks(a, b, p.key, "Tx")
        /\ a.pqPending = IF "pendingQueue" \in b.on THEN b.pqPending \ {p.key} ELSE b.pqPending
    BY <1>1, ForwardIs
  <2> HIDE DEF a
  <2> QED
    BY <1>4, <2>1
<1>e. a = Sent(CountDataHopRx(b, k), p)
  BY <1>4
<1> HIDE DEF a
<1>7. /\ a.on = b.on /\ a.reinjSkip = b.reinjSkip /\ a.rxSeq = b.rxSeq /\ a.acked = b.acked /\ a.macDrops = b.macDrops
      /\ a.pqEcb = b.pqEcb /\ a.flowMonitor = b.flowMonitor /\ a.routeRx = b.routeRx
      /\ a.adaptiveReinj = b.adaptiveReinj /\ a.adaptiveArpReinj = b.adaptiveArpReinj
  BY <1>6 DEF Same, Fields, Counters
<1>8. /\ Received(a) = Received(b) /\ Total(a.reinj) = Total(b.reinj)
      /\ a.hopRx = b.hopRx + 1 /\ a.hopTx = b.hopTx + 1
  BY <1>6, <1>7, SameEvents DEF Received
<1>9. \A clean \in BOOLEAN : (clean => ~Marked(n)) /\ Agrees(sc, b, c, clean) => Agrees(sc, a, n, clean)
  <2>1. Follows(b, c) => Follows(a, n)
    BY <1>2, <1>5, <1>6, <1>7 DEF Follows, Set, Lookup
  <2>2. sc.arm = "adaptive" => a.fate[k].last = "Tx"
    BY <1>1, <1>6 DEF AskedBy, Marks
  <2>3. Whereabouts(n) = "Tx"
    BY <1>5 DEF Whereabouts
  <2>4. Delivered(a) = Delivered(b)
    BY <1>7 DEF Delivered
  <2> QED
    BY <1>5, <1>6, <1>7, <2>1, <2>2, <2>3, <2>4 DEF Agrees
<1>10. /\ IsLedger(a) /\ Elsewhere(a, b, k) /\ a.flowMonitor.tx = b.flowMonitor.tx /\ Delivered(a) = Delivered(b)
       /\ k \in DOMAIN b.fate => k \in DOMAIN a.fate
  BY <1>6, <1>7 DEF Marks, Delivered
<1>11. /\ Typed(sc, A, a) /\ Structure(A) /\ Agreement(sc, A, a) /\ Skips(sc, A, a)
      /\ Splits(B, A, c, o, n) /\ \A d \in DOMAIN A : d \in DOMAIN B \/ d \in {o, n}
  BY <1>2, <1>3, <1>5, <1>7, <1>9, <1>10, ArrivedParts
<1> HIDE DEF A
<1>12. Numeric(B, b) /\ Numeric(A, a)
  BY <1>1, <1>11, Numbers
<1>13. Closes(sc, a)
  <2> SUFFICES ASSUME ~Restores(sc) PROVE Closes(sc, a)
    BY DEF Closes
  <2>1. a.pqPending = b.pqPending
    BY <1>1, <1>6, PendingIs
  <2> QED
    BY <1>1, <1>7, <1>8, <1>12, <2>1 DEF Closes, Numeric
<1>14. \A S : Weight(B, S) \in Nat
  BY <1>1, CountType DEF Typed
<1>15. /\ Lost(A, "air", "none") = Lost(B, "air", "none")
       /\ Lost(A, "gone", "mac") = Lost(B, "gone", "mac")
       /\ Lost(A, "gone", "skipped") = Lost(B, "gone", "skipped")
       /\ Lost(A, "gone", "queue") = Lost(B, "gone", "queue")
       /\ Lost(A, "gone", "arp") = Lost(B, "gone", "arp")
       /\ Seen(A, "air", "none") = Seen(B, "air", "none") + 1
       /\ Seen(A, "gone", "mac") = Seen(B, "gone", "mac")
       /\ Seen(A, "gone", "skipped") = Seen(B, "gone", "skipped")
       /\ Seen(A, "gone", "recovered") = Seen(B, "gone", "recovered")
  <2>1. /\ Lost(A, "air", "none") = Lost(B, "air", "none")
        /\ Lost(A, "gone", "mac") = Lost(B, "gone", "mac")
        /\ Lost(A, "gone", "skipped") = Lost(B, "gone", "skipped")
        /\ Lost(A, "gone", "queue") = Lost(B, "gone", "queue")
        /\ Lost(A, "gone", "arp") = Lost(B, "gone", "arp")
    BY <1>1, <1>2, <1>3, <1>5, <1>11, <1>14 DEF Splits, One, Lost, LostIn
  <2>2. /\ Seen(A, "air", "none") = Seen(B, "air", "none") + 1
        /\ Seen(A, "gone", "mac") = Seen(B, "gone", "mac")
        /\ Seen(A, "gone", "skipped") = Seen(B, "gone", "skipped")
        /\ Seen(A, "gone", "recovered") = Seen(B, "gone", "recovered")
    <3>1. /\ o \in SeenIn("air", "none") /\ o \notin SeenIn("gone", "mac")
          /\ o \notin SeenIn("gone", "skipped") /\ o \notin SeenIn("gone", "recovered")
      BY <1>1, <1>2, <1>3, <1>5 DEF SeenIn
    <3>2. \A place, why : c \notin SeenIn(place, why) /\ n \notin SeenIn(place, why)
      BY <1>2, <1>5 DEF SeenIn
    <3> QED
      BY <1>11, <1>14, <3>1, <3>2 DEF Splits, One, Seen
  <2> QED
    BY <2>1, <2>2
<1>16. Sums(B, b) => Sums(A, a)
  BY <1>7, <1>8, <1>12, <1>15 DEF Sums, Numeric
<1>17. Counts(sc, A, a)
  <2>1. sc.arm # "adaptive" => \A d \in DOMAIN A : d.spent > 0 => Total(a.reinj) > 0
    BY <1>1, <1>3, <1>5, <1>7, <1>8, <1>11 DEF Counts
  <2> QED
    BY <1>1, <1>7, <1>8, <1>16, <2>1 DEF Counts
<1> QED
  BY <1>11, <1>13, <1>17, <1>e DEF BooksInv, A, o, p, n

\* A frame is held, by an arm that recovers what it could not send.
LEMMA HoldInv ==
  ASSUME NEW sc, NEW B, NEW b, BooksInv(sc, B, b), NEW c \in DOMAIN B, c.place = "air", ~c.got, Restores(sc)
  PROVE  BooksInv(sc, Put(Put(Take(B, c), [c EXCEPT !.got = TRUE]), [Passed(c) EXCEPT !.place = "queue"]),
                  CountDataHopRx(b, c.key))
<1> DEFINE k == c.key
           o == [c EXCEPT !.got = TRUE]
           p == Passed(c)
           n == [p EXCEPT !.place = "queue"]
           a == CountDataHopRx(b, c.key)
           A == Put(Put(Take(B, c), o), n)
<1>1. /\ Typed(sc, B, b) /\ Agreement(sc, B, b) /\ Closes(sc, b) /\ Counts(sc, B, b)
      /\ IsLedger(b) /\ b.on = AskedBy(sc.arm) /\ c \in CopySpace /\ Proper(sc, c) /\ sc.arm \in Arms
  BY Parts
<1>2. c.why = "none" /\ k \in Keys
  BY <1>1, CopyFields DEF Proper
<1>3. /\ o \in CopySpace /\ o.key = k /\ o.place = "air" /\ o.got /\ o.why = "none" /\ o.spent = c.spent
  BY <1>1, <1>2, GotIs
<1>4. /\ p \in CopySpace /\ p.key = k /\ p.at = c.to /\ p.place = "air" /\ ~p.got /\ p.why = "none"
      /\ p.path = Append(c.path, c.at) /\ p.spent = c.spent
  BY <1>1, <1>2, PassedIs
<1> HIDE DEF o, p
<1>5. /\ n \in CopySpace /\ n.key = k /\ n.place = "queue" /\ ~n.got /\ n.why = "none"
      /\ n.path = Append(c.path, c.at) /\ n.spent = c.spent /\ Proper(sc, n)
  <2>1. /\ n \in CopySpace /\ n.key = k /\ n.place = "queue" /\ ~n.got /\ n.why = "none"
        /\ n.path = Append(c.path, c.at) /\ n.spent = c.spent
    BY <1>4, QueuedIs
  <2> QED
    BY <1>1, <2>1 DEF Proper, Restores
<1> HIDE DEF n
<1>6. /\ IsLedger(a) /\ Elsewhere(a, b, k)
      /\ Same(a, b, {"hopRx", "reinj", "fate"})
      /\ a.hopRx = b.hopRx + 1
      /\ Events(a.reinj) = Events(b.reinj)
      /\ Marks(a, b, k, "AtNode")
  BY <1>1, HopRxIs, ElsewhereHopRx
<1> HIDE DEF a
<1>7. /\ a.on = b.on /\ a.reinjSkip = b.reinjSkip /\ a.rxSeq = b.rxSeq /\ a.acked = b.acked /\ a.macDrops = b.macDrops
      /\ a.hopTx = b.hopTx /\ a.flowMonitor = b.flowMonitor /\ a.routeRx = b.routeRx /\ a.routePending = b.routePending
      /\ a.adaptiveReinj = b.adaptiveReinj /\ a.adaptiveArpReinj = b.adaptiveArpReinj
  BY <1>6 DEF Same, Fields, Counters
<1>8. Total(a.reinj) = Total(b.reinj) /\ a.hopRx = b.hopRx + 1
  BY <1>6, SameEvents
<1>9. \A clean \in BOOLEAN : (clean => ~Marked(n)) /\ Agrees(sc, b, c, clean) => Agrees(sc, a, n, clean)
  <2>1. Follows(b, c) => Follows(a, n)
    BY <1>2, <1>5, <1>7 DEF Follows, Lookup
  <2>2. sc.arm = "adaptive" => a.fate[k].last = "AtNode"
    BY <1>1, <1>6 DEF AskedBy, Marks
  <2>3. Whereabouts(n) = "AtNode" /\ "pendingQueue" \notin a.on
    BY <1>1, <1>5, <1>7 DEF Whereabouts, AskedBy, Restores
  <2>4. Delivered(a) = Delivered(b)
    BY <1>7 DEF Delivered
  <2> QED
    BY <1>5, <2>1, <2>2, <2>3, <2>4 DEF Agrees
<1>10. /\ IsLedger(a) /\ Elsewhere(a, b, k) /\ a.flowMonitor.tx = b.flowMonitor.tx /\ Delivered(a) = Delivered(b)
       /\ k \in DOMAIN b.fate => k \in DOMAIN a.fate
  BY <1>6, <1>7 DEF Marks, Delivered
<1>11. /\ Typed(sc, A, a) /\ Structure(A) /\ Agreement(sc, A, a) /\ Skips(sc, A, a)
      /\ Splits(B, A, c, o, n) /\ \A d \in DOMAIN A : d \in DOMAIN B \/ d \in {o, n}
  BY <1>2, <1>3, <1>5, <1>7, <1>9, <1>10, ArrivedParts
<1> HIDE DEF A
<1>12. Numeric(B, b) /\ Numeric(A, a)
  BY <1>1, <1>11, Numbers
<1>13. Closes(sc, a)
  BY DEF Closes
<1>14. \A S : Weight(B, S) \in Nat
  BY <1>1, CountType DEF Typed
<1>15. /\ Lost(B, "air", "none") = Lost(A, "air", "none") + 1
       /\ Lost(A, "gone", "mac") = Lost(B, "gone", "mac")
       /\ Lost(A, "gone", "skipped") = Lost(B, "gone", "skipped")
       /\ Lost(A, "gone", "queue") = Lost(B, "gone", "queue")
       /\ Lost(A, "gone", "arp") = Lost(B, "gone", "arp")
       /\ Seen(A, "air", "none") = Seen(B, "air", "none") + 1
       /\ Seen(A, "gone", "mac") = Seen(B, "gone", "mac")
       /\ Seen(A, "gone", "skipped") = Seen(B, "gone", "skipped")
       /\ Seen(A, "gone", "recovered") = Seen(B, "gone", "recovered")
  BY <1>1, <1>2, <1>3, <1>5, <1>11, ArrivedCounts DEF Typed
<1>16. Sums(B, b) => Sums(A, a)
  BY <1>7, <1>8, <1>12, <1>15 DEF Sums, Numeric
<1>17. Counts(sc, A, a)
  <2>1. sc.arm # "adaptive" => \A d \in DOMAIN A : d.spent > 0 => Total(a.reinj) > 0
    BY <1>1, <1>3, <1>5, <1>7, <1>8, <1>11 DEF Counts
  <2> QED
    BY <1>1, <1>7, <1>8, <1>16, <2>1 DEF Counts
<1> QED
  BY <1>11, <1>13, <1>17 DEF BooksInv, A, o, p, n, a

\* A frame is refused: no route, or too many hops.
LEMMA RefuseInv ==
  ASSUME NEW sc, NEW B, NEW b, BooksInv(sc, B, b), NEW c \in DOMAIN B, c.place = "air", ~c.got,
         NEW reason \in {"route", "ttl"}
  PROVE  BooksInv(sc, Put(Put(Take(B, c), [c EXCEPT !.got = TRUE]), Gone(Passed(c), reason)),
                  L3Drop(CountDataHopRx(b, c.key), c.key, reason))
<1> DEFINE k == c.key
           o == [c EXCEPT !.got = TRUE]
           p == Passed(c)
           n == Gone(p, reason)
           a == L3Drop(CountDataHopRx(b, c.key), c.key, reason)
           A == Put(Put(Take(B, c), o), n)
<1>1. /\ Typed(sc, B, b) /\ Agreement(sc, B, b) /\ Closes(sc, b) /\ Counts(sc, B, b)
      /\ IsLedger(b) /\ b.on = AskedBy(sc.arm) /\ c \in CopySpace /\ Proper(sc, c) /\ sc.arm \in Arms
  BY Parts
<1>2. c.why = "none" /\ k \in Keys
  BY <1>1, CopyFields DEF Proper
<1>3. /\ o \in CopySpace /\ o.key = k /\ o.place = "air" /\ o.got /\ o.why = "none" /\ o.spent = c.spent
  BY <1>1, <1>2, GotIs
<1>4. /\ p \in CopySpace /\ p.key = k /\ p.at = c.to /\ p.place = "air" /\ ~p.got /\ p.why = "none"
      /\ p.path = Append(c.path, c.at) /\ p.spent = c.spent
  BY <1>1, <1>2, PassedIs
<1> HIDE DEF o, p
<1>5. /\ n \in CopySpace /\ n.key = k /\ n.place = "gone" /\ ~n.got /\ n.why = reason
      /\ n.path = Append(c.path, c.at) /\ n.spent = c.spent /\ Proper(sc, n)
      /\ n.why \notin {"recovered", "skipped", "delivered"}
  <2>1. reason \in Whys
    BY DEF Whys
  <2>2. /\ n \in CopySpace /\ n.key = k /\ n.place = "gone" /\ ~n.got /\ n.why = reason
        /\ n.path = Append(c.path, c.at) /\ n.spent = c.spent
    BY <1>4, <2>1, GoneIs
  <2> QED
    BY <1>1, <2>2 DEF Proper
<1> HIDE DEF n
<1>6. /\ IsLedger(a) /\ Elsewhere(a, b, k)
      /\ Same(a, b, {"hopRx", "reinj", "fate", "pqPending", "pqEcb", "flowMonitor"})
      /\ a.hopRx = b.hopRx + 1
      /\ OneDrop(a, b, reason)
      /\ Events(a.reinj) = Events(b.reinj)
      /\ Marks(a, b, k, FateOf(reason))
      /\ Untracked(a, b, k)
  BY <1>1, RefusedIs
<1> HIDE DEF a
<1>7. /\ a.on = b.on /\ a.reinjSkip = b.reinjSkip /\ a.rxSeq = b.rxSeq /\ a.acked = b.acked /\ a.macDrops = b.macDrops
      /\ a.hopTx = b.hopTx /\ a.routeRx = b.routeRx
      /\ a.adaptiveReinj = b.adaptiveReinj /\ a.adaptiveArpReinj = b.adaptiveArpReinj
  BY <1>6 DEF Same, Fields, Counters
<1>8. /\ a.flowMonitor.tx = b.flowMonitor.tx /\ a.flowMonitor.queue = b.flowMonitor.queue
      /\ reason = "route" => a.flowMonitor.route = b.flowMonitor.route + 1 /\ a.flowMonitor.ttl = b.flowMonitor.ttl
      /\ reason = "ttl" => a.flowMonitor.ttl = b.flowMonitor.ttl + 1 /\ a.flowMonitor.route = b.flowMonitor.route
      /\ Received(a) = Received(b) /\ Total(a.reinj) = Total(b.reinj) /\ a.hopRx = b.hopRx + 1
  <2>2. /\ a.flowMonitor.tx = b.flowMonitor.tx /\ a.flowMonitor.queue = b.flowMonitor.queue
        /\ reason = "route" => a.flowMonitor.route = b.flowMonitor.route + 1 /\ a.flowMonitor.ttl = b.flowMonitor.ttl
        /\ reason = "ttl" => a.flowMonitor.ttl = b.flowMonitor.ttl + 1 /\ a.flowMonitor.route = b.flowMonitor.route
    BY <1>6 DEF OneDrop
  <2> QED
    BY <1>6, <1>7, <2>2, SameEvents DEF Received
<1>9. \A clean \in BOOLEAN : (clean => ~Marked(n)) /\ Agrees(sc, b, c, clean) => Agrees(sc, a, n, clean)
  <2>1. sc.arm = "adaptive" => a.fate[k].last = FateOf(reason)
    BY <1>1, <1>6 DEF AskedBy, Marks
  <2>2. Whereabouts(n) = FateOf(reason)
    BY <1>5 DEF Whereabouts, FateOf
  <2> QED
    BY <1>5, <2>1, <2>2 DEF Agrees, Follows
<1>10. /\ IsLedger(a) /\ Elsewhere(a, b, k) /\ Delivered(a) = Delivered(b)
       /\ k \in DOMAIN b.fate => k \in DOMAIN a.fate
  BY <1>6, <1>7 DEF Marks, Delivered
<1>11. /\ Typed(sc, A, a) /\ Structure(A) /\ Agreement(sc, A, a) /\ Skips(sc, A, a)
      /\ Splits(B, A, c, o, n) /\ \A d \in DOMAIN A : d \in DOMAIN B \/ d \in {o, n}
  BY <1>2, <1>3, <1>5, <1>7, <1>8, <1>9, <1>10, ArrivedParts
<1> HIDE DEF A
<1>12. Numeric(B, b) /\ Numeric(A, a)
  BY <1>1, <1>11, Numbers
<1>13. Closes(sc, a)
  <2> SUFFICES ASSUME ~Restores(sc) PROVE Closes(sc, a)
    BY DEF Closes
  <2>1. a.pqPending = b.pqPending /\ a.pqEcb = b.pqEcb
    BY <1>1, <1>6, PendingIs DEF Untracked
  <2> QED
    BY <1>1, <1>7, <1>8, <1>12, <2>1 DEF Closes, Numeric
<1>14. \A S : Weight(B, S) \in Nat
  BY <1>1, CountType DEF Typed
<1>15. /\ Lost(B, "air", "none") = Lost(A, "air", "none") + 1
       /\ Lost(A, "gone", "mac") = Lost(B, "gone", "mac")
       /\ Lost(A, "gone", "skipped") = Lost(B, "gone", "skipped")
       /\ Lost(A, "gone", "queue") = Lost(B, "gone", "queue")
       /\ Lost(A, "gone", "arp") = Lost(B, "gone", "arp")
       /\ Seen(A, "air", "none") = Seen(B, "air", "none") + 1
       /\ Seen(A, "gone", "mac") = Seen(B, "gone", "mac")
       /\ Seen(A, "gone", "skipped") = Seen(B, "gone", "skipped")
       /\ Seen(A, "gone", "recovered") = Seen(B, "gone", "recovered")
  BY <1>1, <1>2, <1>3, <1>5, <1>11, ArrivedCounts DEF Typed
<1>16. Sums(B, b) => Sums(A, a)
  BY <1>7, <1>8, <1>12, <1>15 DEF Sums, Numeric
<1>17. Counts(sc, A, a)
  <2>1. sc.arm # "adaptive" => \A d \in DOMAIN A : d.spent > 0 => Total(a.reinj) > 0
    BY <1>1, <1>3, <1>5, <1>7, <1>8, <1>11 DEF Counts
  <2> QED
    BY <1>1, <1>7, <1>8, <1>16, <2>1 DEF Counts
<1> QED
  BY <1>11, <1>13, <1>17 DEF BooksInv, A, o, p, n, a

\* An acknowledgement arrives.
LEMMA AckInv ==
  ASSUME NEW sc, NEW B, NEW b, BooksInv(sc, B, b), NEW c \in DOMAIN B, c.place = "air", c.got
  PROVE  BooksInv(sc, Take(B, c), CountAckedDataHop(b, c.key))
<1> DEFINE A == Take(B, c)
           a == CountAckedDataHop(b, c.key)
           k == c.key
<1>1. /\ Typed(sc, B, b) /\ Structure(B) /\ Agreement(sc, B, b) /\ Closes(sc, b) /\ Counts(sc, B, b) /\ Skips(sc, B, b)
      /\ IsBagOf(B, CopySpace) /\ IsLedger(b) /\ c \in CopySpace /\ Proper(sc, c)
  BY Parts
<1>2. c.why = "none"
  BY <1>1, CopyFields DEF Proper
<1>3. Keeps(B, A, k, {}) /\ Leaves(B, A, c)
  BY <1>1, <1>2, AckKeeps
<1>4. IsLedger(a) /\ Same(a, b, {"acked"}) /\ a.acked = b.acked + 1
  BY <1>1, AckedIs
<1> HIDE DEF a, A
<1>5. /\ a.on = b.on /\ a.rxSeq = b.rxSeq /\ a.routeRx = b.routeRx /\ a.routePending = b.routePending
      /\ a.fate = b.fate /\ a.reinj = b.reinj /\ a.reinjSkip = b.reinjSkip
      /\ a.hopTx = b.hopTx /\ a.hopRx = b.hopRx /\ a.macDrops = b.macDrops
      /\ a.pqPending = b.pqPending /\ a.pqEcb = b.pqEcb /\ a.flowMonitor = b.flowMonitor
      /\ a.adaptiveReinj = b.adaptiveReinj /\ a.adaptiveArpReinj = b.adaptiveArpReinj
  BY <1>4 DEF Same, Fields, Counters
<1>6. Elsewhere(a, b, k)
  BY <1>4, ElsewhereCounters DEF Counters
<1>7. Delivered(a) = Delivered(b) /\ Fits(sc, a, k, {})
  BY <1>5 DEF Delivered, Fits
<1>8. Typed(sc, A, a)
  BY <1>1, <1>3, <1>4, <1>5, <1>6, <1>7, TypedMoves
<1>9. Agreement(sc, A, a)
  BY <1>1, <1>3, <1>5, AgreementStays DEF Keeps
<1>10. Skips(sc, A, a)
  <2>1. \A K : c \notin SkippedOf(K)
    BY <1>2 DEF SkippedOf
  <2>2. \A K : Weight(A, SkippedOf(K)) = Weight(B, SkippedOf(K))
    BY <1>1, <1>3, <2>1, CountType DEF Leaves, One
  <2> QED
    BY <1>1, <1>5, <1>7, <2>2, SkipsKept
<1>11. Numeric(B, b) /\ Numeric(A, a)
  BY <1>1, <1>8, Numbers
<1>12. Closes(sc, a)
  BY <1>1, <1>5, ClosesKept
<1>13. \A S : Weight(B, S) \in Nat
  BY <1>1, CountType
<1>14. /\ Lost(A, "air", "none") = Lost(B, "air", "none")
       /\ Lost(A, "gone", "mac") = Lost(B, "gone", "mac")
       /\ Lost(A, "gone", "skipped") = Lost(B, "gone", "skipped")
       /\ Lost(A, "gone", "queue") = Lost(B, "gone", "queue")
       /\ Lost(A, "gone", "arp") = Lost(B, "gone", "arp")
       /\ Seen(B, "air", "none") = Seen(A, "air", "none") + 1
       /\ Seen(A, "gone", "mac") = Seen(B, "gone", "mac")
       /\ Seen(A, "gone", "skipped") = Seen(B, "gone", "skipped")
       /\ Seen(A, "gone", "recovered") = Seen(B, "gone", "recovered")
  BY <1>1, <1>2, <1>3, <1>13 DEF Leaves, One, Lost, Seen, LostIn, SeenIn
<1>15. Sums(B, b) => Sums(A, a)
  BY <1>4, <1>5, <1>11, <1>14 DEF Sums, Numeric
<1>16. Counts(sc, A, a)
  <2>1. sc.arm # "adaptive" => \A d \in DOMAIN A : d.spent > 0 => Total(a.reinj) > 0
    BY <1>1, <1>3, <1>5 DEF Counts, Keeps
  <2> QED
    BY <1>1, <1>5, <1>15, <2>1 DEF Counts
<1> QED
  BY <1>3, <1>8, <1>9, <1>10, <1>12, <1>16 DEF BooksInv, Keeps, A, a

-----------------------------------------------------------------------------
(* The steps of the source *)

\* The key of the next packet.
NextOf(b) == <<Source, b.flowMonitor.tx + 1>>

\* The parts of the invariant that every packet offered keeps.
LEMMA BornParts ==
  ASSUME NEW sc, NEW B, NEW b, BooksInv(sc, B, b), NEW k, k = NextOf(b),
         NEW n \in CopySpace, n.key = k, ~n.got, n.spent = 0, n.why \in {"none", "route"}, Proper(sc, n),
         NEW a, IsLedger(a), Elsewhere(a, b, k), a.flowMonitor.tx = b.flowMonitor.tx + 1, a.rxSeq = b.rxSeq,
         a.reinjSkip = b.reinjSkip, sc.arm = "adaptive" => k \in DOMAIN a.fate, \A clean \in BOOLEAN : Agrees(sc, a, n, clean),
         NEW A, A = Put(B, n)
  PROVE  /\ Typed(sc, A, a) /\ Structure(A) /\ Agreement(sc, A, a) /\ Skips(sc, A, a)
         /\ Joins(B, A, n) /\ \A d \in DOMAIN A : d \in DOMAIN B \/ d = n
<1>1. /\ Typed(sc, B, b) /\ Structure(B) /\ Agreement(sc, B, b) /\ Skips(sc, B, b) /\ IsBagOf(B, CopySpace)
  BY DEF BooksInv, Typed
<1>2. b.flowMonitor.tx \in Nat
  BY <1>1, OfferedFinite
<1>3. k \notin Offered(b) /\ \A x : x \in Offered(a) <=> x \in Offered(b) \/ x = k
  BY <1>2 DEF Offered, NextOf
<1>4. \A d \in DOMAIN B : d.key # k
  BY <1>1, <1>3 DEF Typed
<1>5. Keeps(B, A, k, {n}) /\ Joins(B, A, n)
  BY <1>1, <1>4, BornKeeps
<1>6. Delivered(a) = Delivered(b)
  BY DEF Delivered
<1>7. Fits(sc, a, k, {n})
  BY DEF Fits
<1>8. Typed(sc, A, a)
  BY <1>1, <1>3, <1>5, <1>6, <1>7, TypedKept
<1>9. Agreement(sc, A, a)
  <2>1. ASSUME NEW d \in DOMAIN A, d.key = k PROVE Agrees(sc, a, d, Clean(A, k))
    <3>1. d = n
      BY <1>4, <1>5, <2>1 DEF Keeps
    <3> QED
      BY <3>1 DEF Agrees
  <2> QED
    BY <1>1, <1>5, <2>1, AgreementKept DEF Keeps
<1>10. Skips(sc, A, a)
  <2>1. \A K : n \notin SkippedOf(K)
    BY DEF SkippedOf
  <2>2. \A K : Weight(A, SkippedOf(K)) = Weight(B, SkippedOf(K))
    BY <1>1, <1>5, <2>1, CountType DEF Joins, One
  <2> QED
    BY <1>1, <1>6, <2>2, SkipsKept
<1> QED
  BY <1>5, <1>8, <1>9, <1>10 DEF Keeps

\* The books know nothing of the next packet.
LEMMA NextIsNew ==
  ASSUME NEW sc, NEW B, NEW b, BooksInv(sc, B, b), NEW k, k = NextOf(b)
  PROVE  /\ Typed(sc, B, b) /\ Closes(sc, b) /\ Counts(sc, B, b) /\ IsLedger(b) /\ b.on = AskedBy(sc.arm) /\ sc.arm \in Arms
         /\ k \in Keys /\ Source \in Stations
         /\ k \notin DOMAIN b.routePending /\ k \notin DOMAIN b.routeRx /\ k \notin b.pqPending
<1>1. Typed(sc, B, b) /\ Closes(sc, b) /\ Counts(sc, B, b) /\ b.flowMonitor.tx \in Nat
  BY OfferedFinite DEF BooksInv
<1>2. k \notin Offered(b) /\ k \in Keys
  BY <1>1 DEF Offered, NextOf, Keys
<1>3. Source \in Stations
  BY DEF Stations
<1> QED
  BY <1>1, <1>2, <1>3, BenchAssumption DEF Typed

\* A packet is sent at once.
LEMMA SendInv ==
  ASSUME NEW sc, NEW B, NEW b, BooksInv(sc, B, b), NEW m \in Stations, NEW k, k = NextOf(b)
  PROVE  BooksInv(sc, Put(B, OnAir(Held(k, Source), m)), CountDataHopTx(CountFateSend(b, k), k, Source))
<1> DEFINE n == OnAir(Held(k, Source), m)
           A == Put(B, n)
           a == CountDataHopTx(CountFateSend(b, k), k, Source)
<1>1. /\ Typed(sc, B, b) /\ Closes(sc, b) /\ Counts(sc, B, b) /\ IsLedger(b) /\ b.on = AskedBy(sc.arm)
      /\ k \in Keys /\ Source \in Stations
      /\ k \notin DOMAIN b.routePending /\ k \notin DOMAIN b.routeRx /\ k \notin b.pqPending
  BY NextIsNew
<1>2. /\ n \in CopySpace /\ n.key = k /\ n.at = Source /\ n.place = "air" /\ ~n.got /\ n.why = "none"
      /\ n.path = <<>> /\ n.spent = 0 /\ Proper(sc, n)
  <2> DEFINE h == Held(k, Source)
  <2>1. /\ h \in CopySpace /\ h.key = k /\ h.at = Source /\ h.why = "none" /\ h.path = <<>> /\ h.spent = 0
    BY <1>1, HeldIs
  <2> HIDE DEF h
  <2>2. LET e == OnAir(h, m)
        IN /\ e \in CopySpace /\ e.key = k /\ e.at = Source /\ e.place = "air" /\ ~e.got /\ e.why = "none"
           /\ e.path = <<>> /\ e.spent = 0
    BY <2>1, OnAirIs
  <2> QED
    BY <2>2 DEF Proper, h
<1> HIDE DEF n
<1>3. /\ IsLedger(a) /\ Elsewhere(a, b, k)
      /\ Same(a, b, {"hopTx", "routePending", "reinj", "fate", "flowMonitor"})
      /\ a.hopTx = b.hopTx + 1
      /\ a.flowMonitor = [b.flowMonitor EXCEPT !.tx = @ + 1]
      /\ a.routePending = Set(b.routePending, k, Append(Lookup(b.routePending, k, <<>>), Source))
      /\ Events(a.reinj) = Events(b.reinj)
      /\ Marks(a, b, k, "Tx")
  BY <1>1, FirstTxIs
<1> HIDE DEF a
<1>4. /\ a.on = b.on /\ a.reinjSkip = b.reinjSkip /\ a.rxSeq = b.rxSeq /\ a.acked = b.acked /\ a.macDrops = b.macDrops
      /\ a.hopRx = b.hopRx /\ a.routeRx = b.routeRx /\ a.pqPending = b.pqPending /\ a.pqEcb = b.pqEcb
      /\ a.adaptiveReinj = b.adaptiveReinj /\ a.adaptiveArpReinj = b.adaptiveArpReinj
  BY <1>3 DEF Same, Fields, Counters
<1>5. /\ a.flowMonitor.tx = b.flowMonitor.tx + 1 /\ a.flowMonitor.route = b.flowMonitor.route
      /\ a.flowMonitor.ttl = b.flowMonitor.ttl /\ a.flowMonitor.queue = b.flowMonitor.queue
      /\ Received(a) = Received(b) /\ Total(a.reinj) = Total(b.reinj) /\ a.hopTx = b.hopTx + 1
  <2>1. b.flowMonitor \in Flow
    BY <1>1 DEF IsLedger
  <2>2. /\ a.flowMonitor.tx = b.flowMonitor.tx + 1 /\ a.flowMonitor.route = b.flowMonitor.route
        /\ a.flowMonitor.ttl = b.flowMonitor.ttl /\ a.flowMonitor.queue = b.flowMonitor.queue
    BY <1>3, <2>1 DEF Flow
  <2> QED
    BY <1>3, <1>4, <2>2, SameEvents DEF Received
<1>6. IsLedger(a) /\ Elsewhere(a, b, k) /\ (sc.arm = "adaptive" => k \in DOMAIN a.fate) /\ (\A clean \in BOOLEAN : Agrees(sc, a, n, clean))
  <2>1. sc.arm = "adaptive" => k \in DOMAIN a.fate /\ a.fate[k].last = "Tx"
    BY <1>1, <1>3 DEF AskedBy, Marks
  <2>2. Whereabouts(n) = "Tx"
    BY <1>2 DEF Whereabouts
  <2>3. Follows(a, n)
    BY <1>1, <1>2, <1>3, <1>4 DEF Follows, Set, Lookup
  <2> QED
    BY <1>1, <1>2, <1>3, <1>4, <2>1, <2>2, <2>3 DEF Agrees
<1>7. /\ Typed(sc, A, a) /\ Structure(A) /\ Agreement(sc, A, a) /\ Skips(sc, A, a)
      /\ Joins(B, A, n) /\ \A d \in DOMAIN A : d \in DOMAIN B \/ d = n
  <2>1. /\ n \in CopySpace /\ n.key = k /\ ~n.got /\ n.spent = 0 /\ n.why \in {"none", "route"} /\ Proper(sc, n)
        /\ a.flowMonitor.tx = b.flowMonitor.tx + 1 /\ a.rxSeq = b.rxSeq /\ a.reinjSkip = b.reinjSkip
    BY <1>2, <1>4, <1>5
  <2> QED
    BY <1>6, <2>1, BornParts
<1> HIDE DEF A
<1>8. Numeric(B, b) /\ Numeric(A, a)
  <2>1. Typed(sc, B, b)
    BY <1>1
  <2> QED
    BY <1>7, <2>1, Numbers
<1>9. \A S : Weight(B, S) \in Nat
  BY <1>1, CountType DEF Typed
<1>10. /\ Lost(A, "air", "none") = Lost(B, "air", "none") + 1
       /\ Lost(A, "gone", "mac") = Lost(B, "gone", "mac")
       /\ Lost(A, "gone", "skipped") = Lost(B, "gone", "skipped")
       /\ Lost(A, "gone", "queue") = Lost(B, "gone", "queue")
       /\ Lost(A, "gone", "arp") = Lost(B, "gone", "arp")
       /\ Seen(A, "air", "none") = Seen(B, "air", "none")
       /\ Seen(A, "gone", "mac") = Seen(B, "gone", "mac")
       /\ Seen(A, "gone", "skipped") = Seen(B, "gone", "skipped")
       /\ Seen(A, "gone", "recovered") = Seen(B, "gone", "recovered")
  BY <1>2, <1>7, <1>9 DEF Joins, One, Lost, Seen, LostIn, SeenIn
<1>11. Sums(B, b) => Sums(A, a)
  <2>1. /\ a.hopRx = b.hopRx /\ a.acked = b.acked /\ a.macDrops = b.macDrops
        /\ a.flowMonitor.queue = b.flowMonitor.queue /\ Total(a.reinj) = Total(b.reinj)
    BY <1>4, <1>5
  <2>2. a.hopTx = b.hopTx + 1
    BY <1>4, <1>5
  <2> QED
    BY <1>8, <1>10, <2>1, <2>2 DEF Sums, Numeric
<1>12. Counts(sc, A, a)
  <2>1. sc.arm # "adaptive" => \A d \in DOMAIN A : d.spent > 0 => Total(a.reinj) > 0
    BY <1>1, <1>2, <1>5, <1>7 DEF Counts
  <2> QED
    BY <1>1, <1>4, <1>5, <1>11, <2>1 DEF Counts
<1>13. Closes(sc, a)
  <2>1. /\ a.flowMonitor.tx = b.flowMonitor.tx + 1 /\ a.hopRx = b.hopRx /\ a.hopTx = b.hopTx + 1 /\ Received(a) = Received(b)
        /\ a.flowMonitor.route = b.flowMonitor.route /\ a.flowMonitor.ttl = b.flowMonitor.ttl
        /\ a.pqPending = b.pqPending /\ a.pqEcb = b.pqEcb
    BY <1>4, <1>5
  <2>2. Closes(sc, b)
    BY <1>1
  <2> QED
    BY <1>8, <2>1, <2>2 DEF Closes, Numeric
<1> QED
  BY <1>7, <1>12, <1>13 DEF BooksInv, A, n, a

\* A packet is held at its source until there is a route.
LEMMA DeferInv ==
  ASSUME NEW sc, NEW B, NEW b, BooksInv(sc, B, b), sc.arm # "olsr", NEW k, k = NextOf(b)
  PROVE  BooksInv(sc, Put(B, Held(k, Source)), PqTrackTx(CountFateSend(b, k), k, TRUE))
<1> DEFINE n == Held(k, Source)
           A == Put(B, n)
           a == PqTrackTx(CountFateSend(b, k), k, TRUE)
<1>1. /\ Typed(sc, B, b) /\ Closes(sc, b) /\ Counts(sc, B, b) /\ IsLedger(b) /\ b.on = AskedBy(sc.arm) /\ sc.arm \in Arms
      /\ k \in Keys /\ Source \in Stations
      /\ k \notin DOMAIN b.routePending /\ k \notin DOMAIN b.routeRx /\ k \notin b.pqPending
  BY NextIsNew
<1>2. /\ n \in CopySpace /\ n.key = k /\ n.at = Source /\ n.place = "queue" /\ ~n.got /\ n.why = "none"
      /\ n.path = <<>> /\ n.spent = 0 /\ Proper(sc, n)
  <2>1. /\ n \in CopySpace /\ n.key = k /\ n.at = Source /\ n.place = "queue" /\ ~n.got /\ n.why = "none"
        /\ n.path = <<>> /\ n.spent = 0
    BY <1>1, HeldIs
  <2> QED
    BY <2>1 DEF Proper
<1> HIDE DEF n
<1>3. /\ IsLedger(a) /\ Elsewhere(a, b, k)
      /\ Same(a, b, {"fate", "flowMonitor", "pqPending"})
      /\ a.flowMonitor = [b.flowMonitor EXCEPT !.tx = @ + 1]
      /\ a.pqPending = IF "pendingQueue" \in b.on THEN b.pqPending \cup {k} ELSE b.pqPending
      /\ Marks(a, b, k, "AtNode")
  BY <1>1, DeferIs
<1> HIDE DEF a
<1>4. /\ a.on = b.on /\ a.reinjSkip = b.reinjSkip /\ a.rxSeq = b.rxSeq /\ a.acked = b.acked /\ a.macDrops = b.macDrops
      /\ a.hopTx = b.hopTx /\ a.hopRx = b.hopRx /\ a.routeRx = b.routeRx /\ a.routePending = b.routePending
      /\ a.pqEcb = b.pqEcb /\ a.reinj = b.reinj
      /\ a.adaptiveReinj = b.adaptiveReinj /\ a.adaptiveArpReinj = b.adaptiveArpReinj
  BY <1>3 DEF Same, Fields, Counters
<1>5. /\ a.flowMonitor.tx = b.flowMonitor.tx + 1 /\ a.flowMonitor.route = b.flowMonitor.route
      /\ a.flowMonitor.ttl = b.flowMonitor.ttl /\ a.flowMonitor.queue = b.flowMonitor.queue
      /\ Received(a) = Received(b) /\ Total(a.reinj) = Total(b.reinj)
  <2>1. b.flowMonitor \in Flow
    BY <1>1 DEF IsLedger
  <2>2. /\ a.flowMonitor.tx = b.flowMonitor.tx + 1 /\ a.flowMonitor.route = b.flowMonitor.route
        /\ a.flowMonitor.ttl = b.flowMonitor.ttl /\ a.flowMonitor.queue = b.flowMonitor.queue
    BY <1>3, <2>1 DEF Flow
  <2> QED
    BY <1>4, <2>2 DEF Received
<1>6. IsLedger(a) /\ Elsewhere(a, b, k) /\ (sc.arm = "adaptive" => k \in DOMAIN a.fate) /\ (\A clean \in BOOLEAN : Agrees(sc, a, n, clean))
  <2>1. sc.arm = "adaptive" => k \in DOMAIN a.fate /\ a.fate[k].last = "AtNode"
    BY <1>1, <1>3 DEF AskedBy, Marks
  <2>2. Whereabouts(n) = "AtNode"
    BY <1>2 DEF Whereabouts
  <2>3. Follows(a, n)
    BY <1>1, <1>2, <1>4 DEF Follows, Lookup
  <2> QED
    BY <1>1, <1>2, <1>3, <1>4, <2>1, <2>2, <2>3 DEF Agrees
<1>7. /\ Typed(sc, A, a) /\ Structure(A) /\ Agreement(sc, A, a) /\ Skips(sc, A, a)
      /\ Joins(B, A, n) /\ \A d \in DOMAIN A : d \in DOMAIN B \/ d = n
  <2>1. /\ n \in CopySpace /\ n.key = k /\ ~n.got /\ n.spent = 0 /\ n.why \in {"none", "route"} /\ Proper(sc, n)
        /\ a.flowMonitor.tx = b.flowMonitor.tx + 1 /\ a.rxSeq = b.rxSeq /\ a.reinjSkip = b.reinjSkip
    BY <1>2, <1>4, <1>5
  <2> QED
    BY <1>6, <2>1, BornParts
<1> HIDE DEF A
<1>8. Numeric(B, b) /\ Numeric(A, a)
  <2>1. Typed(sc, B, b)
    BY <1>1
  <2> QED
    BY <1>7, <2>1, Numbers
<1>9. \A S : Weight(B, S) \in Nat
  BY <1>1, CountType DEF Typed
<1>10. /\ Lost(A, "air", "none") = Lost(B, "air", "none")
       /\ Lost(A, "gone", "mac") = Lost(B, "gone", "mac")
       /\ Lost(A, "gone", "skipped") = Lost(B, "gone", "skipped")
       /\ Lost(A, "gone", "queue") = Lost(B, "gone", "queue")
       /\ Lost(A, "gone", "arp") = Lost(B, "gone", "arp")
       /\ Seen(A, "air", "none") = Seen(B, "air", "none")
       /\ Seen(A, "gone", "mac") = Seen(B, "gone", "mac")
       /\ Seen(A, "gone", "skipped") = Seen(B, "gone", "skipped")
       /\ Seen(A, "gone", "recovered") = Seen(B, "gone", "recovered")
  BY <1>2, <1>7, <1>9 DEF Joins, One, Lost, Seen, LostIn, SeenIn
<1>11. Sums(B, b) => Sums(A, a)
  <2>1. /\ a.hopRx = b.hopRx /\ a.acked = b.acked /\ a.macDrops = b.macDrops
        /\ a.flowMonitor.queue = b.flowMonitor.queue /\ Total(a.reinj) = Total(b.reinj)
    BY <1>4, <1>5
  <2>2. a.hopTx = b.hopTx
    BY <1>4, <1>5
  <2> QED
    BY <1>8, <1>10, <2>1, <2>2 DEF Sums, Numeric
<1>12. Counts(sc, A, a)
  <2>1. sc.arm # "adaptive" => \A d \in DOMAIN A : d.spent > 0 => Total(a.reinj) > 0
    BY <1>1, <1>2, <1>5, <1>7 DEF Counts
  <2> QED
    BY <1>1, <1>4, <1>5, <1>11, <2>1 DEF Counts
<1>13. Closes(sc, a)
  <2> SUFFICES ASSUME ~Restores(sc) PROVE Closes(sc, a)
    BY DEF Closes
  <2>1. "pendingQueue" \in b.on
    BY <1>1 DEF Arms, AskedBy, Restores
  <2>2. Cardinality(a.pqPending) = Cardinality(b.pqPending) + 1
    BY <1>1, <1>3, <2>1, OfferedFinite, FS_AddElement
  <2>3. /\ a.flowMonitor.tx = b.flowMonitor.tx + 1 /\ a.hopRx = b.hopRx /\ a.hopTx = b.hopTx /\ Received(a) = Received(b)
        /\ a.flowMonitor.route = b.flowMonitor.route /\ a.flowMonitor.ttl = b.flowMonitor.ttl /\ a.pqEcb = b.pqEcb
    BY <1>4, <1>5
  <2>4. Closes(sc, b)
    BY <1>1
  <2> QED
    BY <1>8, <2>2, <2>3, <2>4 DEF Closes, Numeric
<1> QED
  BY <1>7, <1>12, <1>13 DEF BooksInv, A, n, a

\* FlowMonitor counts a packet that is refused where it is offered.
LEMMA OfferIs ==
  ASSUME NEW b, IsLedger(b)
  PROVE  LET a == [b EXCEPT !.flowMonitor.tx = @ + 1, !.flowMonitor.route = @ + 1]
         IN /\ IsLedger(a) /\ Same(a, b, {"flowMonitor"})
            /\ a.flowMonitor.tx = b.flowMonitor.tx + 1 /\ a.flowMonitor.route = b.flowMonitor.route + 1
            /\ a.flowMonitor.ttl = b.flowMonitor.ttl /\ a.flowMonitor.queue = b.flowMonitor.queue
<1> DEFINE u == [b.flowMonitor EXCEPT !.tx = b.flowMonitor.tx + 1]
           m == [u EXCEPT !.route = b.flowMonitor.route + 1]
           a == [b EXCEPT !.flowMonitor = m]
<1>1. b.flowMonitor \in Flow /\ DOMAIN b = Fields /\ "flowMonitor" \in Fields
  BY DEF IsLedger, Fields
<1>2. /\ u \in Flow /\ u.tx = b.flowMonitor.tx + 1 /\ u.route = b.flowMonitor.route
      /\ u.ttl = b.flowMonitor.ttl /\ u.queue = b.flowMonitor.queue
  BY <1>1 DEF Flow
<1>3. a = [b EXCEPT !.flowMonitor.tx = @ + 1, !.flowMonitor.route = @ + 1]
  BY <1>1
<1> HIDE DEF u
<1>4. /\ m \in Flow /\ m.tx = b.flowMonitor.tx + 1 /\ m.route = b.flowMonitor.route + 1
      /\ m.ttl = b.flowMonitor.ttl /\ m.queue = b.flowMonitor.queue
  BY <1>1, <1>2 DEF Flow
<1> HIDE DEF m
<1>5. IsLedger(a) /\ Same(a, b, {"flowMonitor"}) /\ a.flowMonitor = m
  BY <1>4, FlowMonitorIs
<1> HIDE DEF a
<1> QED
  BY <1>3, <1>4, <1>5

\* A packet is refused at its source.
LEMMA OfferInv ==
  ASSUME NEW sc, NEW B, NEW b, BooksInv(sc, B, b), sc.arm = "olsr", NEW k, k = NextOf(b)
  PROVE  BooksInv(sc, Put(B, Gone(Held(k, Source), "route")),
                  [b EXCEPT !.flowMonitor.tx = @ + 1, !.flowMonitor.route = @ + 1])
<1> DEFINE n == Gone(Held(k, Source), "route")
           A == Put(B, n)
           a == [b EXCEPT !.flowMonitor.tx = @ + 1, !.flowMonitor.route = @ + 1]
<1>1. /\ Typed(sc, B, b) /\ Closes(sc, b) /\ Counts(sc, B, b) /\ IsLedger(b) /\ b.on = AskedBy(sc.arm)
      /\ k \in Keys /\ Source \in Stations
  BY NextIsNew
<1>2. /\ n \in CopySpace /\ n.key = k /\ n.place = "gone" /\ ~n.got /\ n.why = "route" /\ n.spent = 0 /\ Proper(sc, n)
  <2> DEFINE h == Held(k, Source)
  <2>1. h \in CopySpace /\ h.key = k /\ ~h.got /\ h.spent = 0 /\ "route" \in Whys
    BY <1>1, HeldIs DEF Whys
  <2> HIDE DEF h
  <2>2. LET e == Gone(h, "route")
        IN e \in CopySpace /\ e.key = k /\ e.place = "gone" /\ ~e.got /\ e.why = "route" /\ e.spent = 0
    BY <2>1, GoneIs
  <2> QED
    BY <2>2 DEF Proper, h
<1> HIDE DEF n
<1>3. /\ IsLedger(a) /\ Same(a, b, {"flowMonitor"})
      /\ a.flowMonitor.tx = b.flowMonitor.tx + 1 /\ a.flowMonitor.route = b.flowMonitor.route + 1
      /\ a.flowMonitor.ttl = b.flowMonitor.ttl /\ a.flowMonitor.queue = b.flowMonitor.queue
  BY <1>1, OfferIs
<1> HIDE DEF a
<1>4. /\ a.on = b.on /\ a.reinjSkip = b.reinjSkip /\ a.rxSeq = b.rxSeq /\ a.acked = b.acked /\ a.macDrops = b.macDrops
      /\ a.hopTx = b.hopTx /\ a.hopRx = b.hopRx /\ a.pqPending = b.pqPending /\ a.pqEcb = b.pqEcb /\ a.reinj = b.reinj
      /\ a.adaptiveReinj = b.adaptiveReinj /\ a.adaptiveArpReinj = b.adaptiveArpReinj
  BY <1>3 DEF Same, Fields, Counters
<1>5. /\ a.flowMonitor.tx = b.flowMonitor.tx + 1 /\ a.flowMonitor.route = b.flowMonitor.route + 1
      /\ a.flowMonitor.ttl = b.flowMonitor.ttl /\ a.flowMonitor.queue = b.flowMonitor.queue
      /\ Received(a) = Received(b) /\ Total(a.reinj) = Total(b.reinj)
  BY <1>3, <1>4 DEF Received
<1>6. IsLedger(a) /\ Elsewhere(a, b, k) /\ (\A clean \in BOOLEAN : Agrees(sc, a, n, clean))
  BY <1>2, <1>3, ElsewhereCounters DEF Agrees, Follows
<1>7. /\ Typed(sc, A, a) /\ Structure(A) /\ Agreement(sc, A, a) /\ Skips(sc, A, a)
      /\ Joins(B, A, n) /\ \A d \in DOMAIN A : d \in DOMAIN B \/ d = n
  <2>1. /\ n \in CopySpace /\ n.key = k /\ ~n.got /\ n.spent = 0 /\ n.why \in {"none", "route"} /\ Proper(sc, n)
        /\ a.flowMonitor.tx = b.flowMonitor.tx + 1 /\ a.rxSeq = b.rxSeq /\ a.reinjSkip = b.reinjSkip
    BY <1>2, <1>4, <1>5
  <2> QED
    BY <1>6, <2>1, BornParts
<1> HIDE DEF A
<1>8. Numeric(B, b) /\ Numeric(A, a)
  <2>1. Typed(sc, B, b)
    BY <1>1
  <2> QED
    BY <1>7, <2>1, Numbers
<1>9. \A S : Weight(B, S) \in Nat
  BY <1>1, CountType DEF Typed
<1>10. /\ Lost(A, "air", "none") = Lost(B, "air", "none")
       /\ Lost(A, "gone", "mac") = Lost(B, "gone", "mac")
       /\ Lost(A, "gone", "skipped") = Lost(B, "gone", "skipped")
       /\ Lost(A, "gone", "queue") = Lost(B, "gone", "queue")
       /\ Lost(A, "gone", "arp") = Lost(B, "gone", "arp")
       /\ Seen(A, "air", "none") = Seen(B, "air", "none")
       /\ Seen(A, "gone", "mac") = Seen(B, "gone", "mac")
       /\ Seen(A, "gone", "skipped") = Seen(B, "gone", "skipped")
       /\ Seen(A, "gone", "recovered") = Seen(B, "gone", "recovered")
  BY <1>2, <1>7, <1>9 DEF Joins, One, Lost, Seen, LostIn, SeenIn
<1>11. Sums(B, b) => Sums(A, a)
  <2>1. /\ a.hopRx = b.hopRx /\ a.acked = b.acked /\ a.macDrops = b.macDrops
        /\ a.flowMonitor.queue = b.flowMonitor.queue /\ Total(a.reinj) = Total(b.reinj)
    BY <1>4, <1>5
  <2>2. a.hopTx = b.hopTx
    BY <1>4, <1>5
  <2> QED
    BY <1>8, <1>10, <2>1, <2>2 DEF Sums, Numeric
<1>12. Counts(sc, A, a)
  <2>1. sc.arm # "adaptive" => \A d \in DOMAIN A : d.spent > 0 => Total(a.reinj) > 0
    BY <1>1, <1>2, <1>5, <1>7 DEF Counts
  <2> QED
    BY <1>1, <1>4, <1>5, <1>11, <2>1 DEF Counts
<1>13. Closes(sc, a)
  <2>1. /\ a.flowMonitor.tx = b.flowMonitor.tx + 1 /\ a.hopRx = b.hopRx /\ a.hopTx = b.hopTx /\ Received(a) = Received(b)
        /\ a.flowMonitor.route = b.flowMonitor.route + 1 /\ a.flowMonitor.ttl = b.flowMonitor.ttl
        /\ a.pqPending = b.pqPending /\ a.pqEcb = b.pqEcb
    BY <1>4, <1>5
  <2>2. Closes(sc, b)
    BY <1>1
  <2> QED
    BY <1>8, <2>1, <2>2 DEF Closes, Numeric
<1> QED
  BY <1>7, <1>12, <1>13 DEF BooksInv, A, n, a

-----------------------------------------------------------------------------
(* The invariant is inductive *)

\* A run starts with no packets and empty books, whatever the run before it left.
LEMMA StartInv ==
  ASSUME NEW sc \in Scenarios, NEW b, IsLedger(b) \/ b = NewBooks
  PROVE  BooksInv(sc, EmptyBag, RunOne(b, sc.arm))
<1> DEFINE a == RunOne(b, sc.arm)
           B == EmptyBag
<1>1. a = [NewBooks EXCEPT !.on = AskedBy(sc.arm)]
  BY RunIs
<1> HIDE DEF a
<1>2. /\ DOMAIN a = Fields /\ a.on = AskedBy(sc.arm) /\ \A f \in Counters : a[f] = 0
      /\ a.rxSeq = <<>> /\ a.routePending = <<>> /\ a.routeRx = <<>> /\ a.reinj = <<>> /\ a.reinjSkip = <<>> /\ a.fate = <<>>
      /\ a.pqPending = {} /\ a.flowMonitor = [tx |-> 0, route |-> 0, ttl |-> 0, queue |-> 0]
  BY <1>1 DEF NewBooks, Fields, Counters
<1>3. /\ a.hopTx = 0 /\ a.hopRx = 0 /\ a.acked = 0 /\ a.macDrops = 0 /\ a.pqEcb = 0
      /\ a.adaptiveReinj = 0 /\ a.adaptiveArpReinj = 0
      /\ a.flowMonitor.tx = 0 /\ a.flowMonitor.route = 0 /\ a.flowMonitor.ttl = 0 /\ a.flowMonitor.queue = 0
  BY <1>2 DEF Counters
<1>4. IsLedger(a)
  BY <1>2 DEF IsLedger, IsTally, Flow
<1>5. DOMAIN B = {} /\ IsBagOf(B, CopySpace)
  <2>1. DOMAIN B = {} /\ B \in [{} -> Nat \ {0}]
    BY DEF EmptyBag, SetToBag
  <2> QED
    BY <2>1, FS_EmptySet DEF IsBagOf
<1> HIDE DEF B
<1>6. Offered(a) = {} /\ Delivered(a) = {}
  BY <1>2, <1>3 DEF Offered, Delivered, ToSet
<1>7. Typed(sc, B, a)
  BY <1>2, <1>4, <1>5, <1>6 DEF Typed
<1>8. \A S : Weight(B, S) = 0 /\ Weight(Events(<<>>), S) = 0
  <2>1. DOMAIN Events(<<>>) = {}
    BY DEF Events
  <2> QED
    BY <1>5, <2>1, WeightNone
<1>9. Structure(B)
  BY <1>5, <1>8 DEF Structure
<1>10. Agreement(sc, B, a)
  BY <1>5 DEF Agreement
<1>11. Closes(sc, a)
  <2>1. Received(a) = 0 /\ Cardinality(a.pqPending) = 0
    BY <1>2, FS_EmptySet DEF Received
  <2> QED
    BY <1>3, <2>1 DEF Closes
<1>12. Counts(sc, B, a)
  <2>1. Total(a.reinj) = 0
    BY <1>2, <1>8 DEF Total
  <2>2. \A place, why : Lost(B, place, why) = 0 /\ Seen(B, place, why) = 0
    BY <1>8 DEF Lost, Seen
  <2> QED
    BY <1>3, <1>5, <2>1, <2>2 DEF Counts, Sums
<1>13. Skips(sc, B, a)
  BY <1>2, <1>8 DEF Skips
<1> QED
  BY <1>7, <1>9, <1>10, <1>11, <1>12, <1>13 DEF BooksInv, a, B

\* A next hop is a node of some scenario.
LEMMA HopIsStation ==
  ASSUME scenario \in Scenarios, NEW n, NEW m \in Hops(n)
  PROVE  m \in Stations
BY DEF Hops, Stations

\* The first run starts within the invariant.
LEMMA BooksInvInit ==
  ASSUME Init
  PROVE  BooksInv(scenario, copies, books)
BY StartInv DEF Init

\* Every step keeps it.
LEMMA BooksInvNext ==
  ASSUME BooksInv(scenario, copies, books), [Next]_vars
  PROVE  BooksInv(scenario', copies', books')
<1> DEFINE sc == scenario
           B == copies
           b == books
<1>1. Typed(sc, B, b) /\ sc \in Scenarios /\ IsLedger(b) /\ sc.arm \in Arms
  BY BenchAssumption DEF BooksInv, Typed
<1>2. (Defers <=> sc.arm # "olsr") /\ (Recovers <=> Restores(sc)) /\ NextKey = NextOf(b) /\ Copies = DOMAIN B
  BY DEF Defers, Recovers, Restores, NextKey, NextOf, Copies, BagToSet
<1>3. CASE UNCHANGED vars
  BY <1>3 DEF vars
<1>4. ASSUME NEW m \in Hops(Source), SendAtOnce(m) PROVE BooksInv(scenario', copies', books')
  <2>1. /\ scenario' = sc /\ copies' = Put(B, OnAir(Held(NextKey, Source), m))
        /\ books' = CountDataHopTx(CountFateSend(b, NextKey), NextKey, Source)
    BY <1>4 DEF SendAtOnce, Born, Put
  <2>2. m \in Stations
    BY <1>1, HopIsStation
  <2> QED
    BY <1>2, <2>1, <2>2, SendInv
<1>5. ASSUME SendDeferred PROVE BooksInv(scenario', copies', books')
  <2>1. /\ scenario' = sc /\ copies' = Put(B, Held(NextKey, Source)) /\ Defers
        /\ books' = PqTrackTx(CountFateSend(b, NextKey), NextKey, TRUE)
    BY <1>5 DEF SendDeferred, Born, Put
  <2> QED
    BY <1>2, <2>1, DeferInv
<1>6. ASSUME Refuse PROVE BooksInv(scenario', copies', books')
  <2>1. /\ scenario' = sc /\ copies' = Put(B, Gone(Held(NextKey, Source), "route")) /\ ~Defers
        /\ books' = [b EXCEPT !.flowMonitor.tx = @ + 1, !.flowMonitor.route = @ + 1]
    BY <1>6 DEF Refuse, Born, Put
  <2> QED
    BY <1>2, <2>1, OfferInv
<1>7. ASSUME NextRun PROVE BooksInv(scenario', copies', books')
  <2>1. PICK s \in Scenarios : scenario' = s /\ copies' = EmptyBag /\ books' = RunOne(b, s.arm)
    BY <1>7 DEF NextRun, Start
  <2> QED
    BY <1>1, <2>1, StartInv
<1>8. ASSUME NEW c \in DOMAIN B PROVE c \in CopySpace /\ Proper(sc, c) /\ (c.place # "gone" => c.why = "none")
  BY <1>1, Parts DEF Proper
<1>9. ASSUME NEW c \in DOMAIN B, Shed(c) PROVE BooksInv(scenario', copies', books')
  <2>1. c.place = "queue" /\ scenario' = sc /\ c \in CopySpace /\ ~c.got /\ {"shed", "route"} \subseteq Whys
    BY <1>8, <1>9 DEF Shed, Proper, Whys
  <2>2. CASE sc.arm = "dsdv"
    <3>1. copies' = Put(Take(B, c), Gone(c, "shed")) /\ books' = b
      BY <1>9, <2>2 DEF Shed, Becomes, Put, Take
    <3> DEFINE n == Gone(c, "shed")
    <3>2. n \in CopySpace /\ n.key = c.key /\ n.place = "gone" /\ ~n.got /\ n.spent = c.spent /\ n.why = "shed"
      BY <2>1, GoneIs
    <3> HIDE DEF n
    <3>3. BooksInv(sc, Put(Take(B, c), n), b)
      BY <2>1, <2>2, <3>2, SilentInv
    <3> QED
      BY <2>1, <3>1, <3>3 DEF n
  <2>3. CASE sc.arm # "dsdv"
    <3>1. copies' = Put(Take(B, c), Gone(c, "route")) /\ books' = L3Drop(b, c.key, "route")
      BY <1>9, <2>3 DEF Shed, Becomes, Put, Take
    <3> DEFINE n == Gone(c, "route")
    <3>2. n \in CopySpace /\ n.key = c.key /\ n.place = "gone" /\ ~n.got /\ n.spent = c.spent /\ n.why = "route"
      BY <2>1, GoneIs
    <3> HIDE DEF n
    <3>3. BooksInv(sc, Put(Take(B, c), n), L3Drop(b, c.key, "route"))
      BY <2>1, <3>2, ShedInv
    <3> QED
      BY <2>1, <3>1, <3>3 DEF n
  <2> QED
    BY <2>2, <2>3
<1>10. ASSUME NEW c \in DOMAIN B, Reach(c) PROVE BooksInv(scenario', copies', books')
  <2>1. /\ c.place = "air" /\ ~c.got /\ scenario' = sc
        /\ copies' = Put(Put(Take(B, c), [c EXCEPT !.got = TRUE]), Gone(Passed(c), "delivered"))
        /\ books' = Deliver(CountDataHopRx(b, c.key), c.key)
    BY <1>10 DEF Reach, Arrives, BecomesAnd, Put, Take
  <2> QED
    BY <2>1, ReachInv
<1>11. ASSUME NEW c \in DOMAIN B, Relay(c) PROVE BooksInv(scenario', copies', books')
  <2>1. c.place = "air" /\ ~c.got /\ scenario' = sc
    BY <1>11 DEF Relay, Arrives
  <2>2. \/ \E m \in Hops(Passed(c).at) :
             /\ copies' = Put(Put(Take(B, c), [c EXCEPT !.got = TRUE]), OnAir(Passed(c), m))
             /\ books' = Sent(CountDataHopRx(b, c.key), Passed(c))
        \/ /\ Recovers
           /\ copies' = Put(Put(Take(B, c), [c EXCEPT !.got = TRUE]), [Passed(c) EXCEPT !.place = "queue"])
           /\ books' = CountDataHopRx(b, c.key)
        \/ \E reason \in {"route", "ttl"} :
             /\ copies' = Put(Put(Take(B, c), [c EXCEPT !.got = TRUE]), Gone(Passed(c), reason))
             /\ books' = L3Drop(CountDataHopRx(b, c.key), c.key, reason)
    BY <1>11 DEF Relay, BecomesAnd, Put, Take
  <2>3. ASSUME NEW m \in Hops(Passed(c).at) PROVE m \in Stations
    BY <1>1, HopIsStation
  <2> QED
    BY <1>2, <2>1, <2>2, <2>3, ForwardInv, HoldInv, RefuseInv
<1>12. ASSUME NEW c \in DOMAIN B, Ack(c) PROVE BooksInv(scenario', copies', books')
  <2>1. c.place = "air" /\ c.got /\ scenario' = sc /\ copies' = Take(B, c) /\ books' = CountAckedDataHop(b, c.key)
    BY <1>12 DEF Ack, Take
  <2> QED
    BY <2>1, AckInv
<1>13. ASSUME NEW c \in DOMAIN B, RetryLimit(c) PROVE BooksInv(scenario', copies', books')
  <2>1. c.place = "air" /\ scenario' = sc /\ c \in CopySpace /\ {"mac", "skipped"} \subseteq Whys
    BY <1>8, <1>13 DEF RetryLimit, Whys
  <2>2. CASE ~Restores(sc)
    <3>1. copies' = Put(Take(B, c), Gone(c, "mac")) /\ books' = CountMacDataDrop(b, c.key)
      BY <1>2, <1>13, <2>2 DEF RetryLimit, Becomes, Put, Take, Restores
    <3> DEFINE n == Gone(c, "mac")
    <3>2. n \in CopySpace /\ n.key = c.key /\ n.place = "gone" /\ n.got = c.got /\ n.spent = c.spent /\ n.why = "mac"
      BY <2>1, GoneIs
    <3> HIDE DEF n
    <3>3. BooksInv(sc, Put(Take(B, c), n), CountMacDataDrop(b, c.key))
      BY <2>1, <2>2, <3>2, MacInv
    <3> QED
      BY <2>1, <3>1, <3>3 DEF n
  <2>3. CASE sc.arm = "anthocnet" /\ sc.cap # 0 /\ c.spent >= sc.cap
    <3>1. copies' = Put(Take(B, c), Gone(c, "skipped")) /\ books' = CountMacReinjectSkip(CountMacDataDrop(b, c.key), c.key)
      BY <1>2, <1>13, <2>3 DEF RetryLimit, Becomes, Put, Take, Restores
    <3> DEFINE n == Gone(c, "skipped")
    <3>2. n \in CopySpace /\ n.key = c.key /\ n.place = "gone" /\ n.got = c.got /\ n.spent = c.spent /\ n.why = "skipped"
      BY <2>1, GoneIs
    <3> HIDE DEF n
    <3>3. c.spent > 0
      BY <1>1, <2>1, <2>3, CopyFields, BenchAssumption
    <3>4. BooksInv(sc, Put(Take(B, c), n), CountMacReinjectSkip(CountMacDataDrop(b, c.key), c.key))
      BY <2>1, <2>3, <3>2, <3>3, SkipInv
    <3> QED
      BY <2>1, <3>1, <3>4 DEF n
  <2>4. CASE sc.arm = "anthocnet" /\ ~(sc.cap # 0 /\ c.spent >= sc.cap)
    <3>1. copies' = Requeued(B, c) /\ books' = CountMacReinject(CountMacDataDrop(b, c.key), c.key)
      BY <1>2, <1>13, <2>4 DEF RetryLimit, Requeue, Requeued, Becomes, BecomesAnd, Put, Take, Restores
    <3> QED
      BY <2>1, <2>4, <3>1, ReinjectInv
  <2>5. CASE sc.arm = "adaptive"
    <3>1. copies' = Requeued(B, c) /\ books' = CountAdaptiveReinject(CountMacDataDrop(b, c.key), c.key)
      BY <1>2, <1>13, <2>5 DEF RetryLimit, Requeue, Requeued, Becomes, BecomesAnd, Put, Take, Restores
    <3> DEFINE a == CountAdaptiveReinject(CountMacDataDrop(b, c.key), c.key)
               F == {"macDrops", "adaptiveReinj", "adaptiveArpReinj", "fate", "recovered"}
    <3>2. IsLedger(a) /\ Same(a, b, F) /\ Marks(a, b, c.key, "AtNode")
      BY <1>1, MacAdaptiveIs
    <3> HIDE DEF a
    <3>3. BooksInv(sc, Requeued(B, c), a)
      BY <2>1, <2>5, <3>2, AdaptiveInv
    <3> QED
      BY <2>1, <3>1, <3>3 DEF a
  <2> QED
    BY <2>2, <2>3, <2>4, <2>5 DEF Restores
<1>14. ASSUME NEW c \in DOMAIN B, QueueDrop(c) PROVE BooksInv(scenario', copies', books')
  <2>1. /\ c.place = "air" /\ ~c.got /\ scenario' = sc /\ c \in CopySpace /\ "queue" \in Whys
        /\ copies' = Put(Take(B, c), Gone(c, "queue")) /\ books' = [b EXCEPT !.flowMonitor.queue = @ + 1]
    BY <1>8, <1>14 DEF QueueDrop, Arrives, Becomes, Put, Take, Whys
  <2> DEFINE n == Gone(c, "queue")
             a == [b EXCEPT !.flowMonitor.queue = @ + 1]
  <2>2. n \in CopySpace /\ n.key = c.key /\ n.place = "gone" /\ ~n.got /\ n.spent = c.spent /\ n.why = "queue"
    BY <2>1, GoneIs
  <2> HIDE DEF n
  <2>3. BooksInv(sc, Put(Take(B, c), n), a)
    BY <2>1, <2>2, QueueDropInv
  <2> QED
    BY <2>1, <2>3 DEF n
<1>15. ASSUME NEW c \in DOMAIN B, ArpDrop(c) PROVE BooksInv(scenario', copies', books')
  <2>1. c.place = "air" /\ ~c.got /\ scenario' = sc /\ c \in CopySpace /\ "arp" \in Whys
    BY <1>8, <1>15 DEF ArpDrop, Arrives, Whys
  <2>2. CASE sc.arm = "adaptive"
    <3>1. copies' = Requeued(B, c) /\ books' = CountAdaptiveArpReinject(b, c.key)
      BY <1>15, <2>2 DEF ArpDrop, Requeue, Requeued, Becomes, BecomesAnd, Put, Take
    <3> DEFINE a == CountAdaptiveArpReinject(b, c.key)
               F == {"macDrops", "adaptiveReinj", "adaptiveArpReinj", "fate", "recovered"}
    <3>2. IsLedger(a) /\ Same(a, b, F) /\ Marks(a, b, c.key, "AtNode")
      <4>1. /\ IsLedger(a) /\ Marks(a, b, c.key, "AtNode")
            /\ Same(a, b, {"adaptiveReinj", "adaptiveArpReinj", "fate", "recovered"})
        BY <1>1, AdaptiveIs
      <4> QED
        BY <4>1 DEF Same
    <3> HIDE DEF a
    <3>3. BooksInv(sc, Requeued(B, c), a)
      BY <2>1, <2>2, <3>2, AdaptiveInv
    <3> QED
      BY <2>1, <3>1, <3>3 DEF a
  <2>3. CASE sc.arm # "adaptive"
    <3>1. copies' = Put(Take(B, c), Gone(c, "arp")) /\ books' = b
      BY <1>15, <2>3 DEF ArpDrop, Becomes, Put, Take
    <3> DEFINE n == Gone(c, "arp")
    <3>2. n \in CopySpace /\ n.key = c.key /\ n.place = "gone" /\ ~n.got /\ n.spent = c.spent /\ n.why = "arp"
      BY <2>1, GoneIs
    <3> HIDE DEF n
    <3>3. BooksInv(sc, Put(Take(B, c), n), b)
      BY <2>1, <2>3, <3>2, SilentInv
    <3> QED
      BY <2>1, <3>1, <3>3 DEF n
  <2> QED
    BY <2>2, <2>3
<1>16. ASSUME NEW c \in DOMAIN B, NEW m \in Hops(c.at), Release(c, m) PROVE BooksInv(scenario', copies', books')
  <2>1. /\ c.place = "queue" /\ scenario' = sc /\ c \in CopySpace /\ m \in Stations
        /\ copies' = Put(Take(B, c), OnAir(c, m)) /\ books' = Sent(b, c)
    BY <1>1, <1>8, <1>16, HopIsStation DEF Release, Becomes, Put, Take
  <2> DEFINE n == OnAir(c, m)
  <2>2. /\ n \in CopySpace /\ n.key = c.key /\ n.at = c.at /\ n.place = "air" /\ ~n.got /\ n.why = c.why
        /\ n.path = c.path /\ n.spent = c.spent
    BY <2>1, OnAirIs
  <2> HIDE DEF n
  <2>3. BooksInv(sc, Put(Take(B, c), n), Sent(b, c))
    BY <2>1, <2>2, ReleaseInv
  <2> QED
    BY <2>1, <2>3 DEF n
<1> QED
  BY <1>2, <1>3, <1>4, <1>5, <1>6, <1>7, <1>9, <1>10, <1>11, <1>12, <1>13, <1>14, <1>15, <1>16 DEF Next

\* The invariant holds in every state.
LEMMA BooksInvAlways == Spec => []BooksInv(scenario, copies, books)
<1>1. Init => BooksInv(scenario, copies, books)
  BY BooksInvInit
<1>2. BooksInv(scenario, copies, books) /\ [Next]_vars => BooksInv(scenario, copies, books)'
  BY BooksInvNext
<1> QED
  BY <1>1, <1>2, PTL DEF Spec

-----------------------------------------------------------------------------
(* What follows from it *)

\* The counts of the report are weights of the bag and of the events booked.
LEMMA CountOfIs ==
  ASSUME NEW S \in SUBSET DOMAIN copies
  PROVE  CountOf(S) = Weight(copies, S)
<1>1. S \cap DOMAIN copies = S
  OBVIOUS
<1> QED
  BY <1>1 DEF CountOf, Weight

\* The same of the events of a book.
LEMMA EventsOfIs ==
  ASSUME NEW book, NEW S \in SUBSET DOMAIN book
  PROVE  EventsOf(S, book) = Weight(Events(book), S)
<1>1. S \cap DOMAIN Events(book) = S /\ \A k \in S : Events(book)[k] = book[k].events
  BY DEF Events
<1>2. UNION {{k} \X (1 .. book[k].events) : k \in S} = UNION {{k} \X (1 .. Events(book)[k]) : k \in S \cap DOMAIN Events(book)}
  BY <1>1
<1> QED
  BY <1>2 DEF EventsOf, Weight

\* Only members count.
LEMMA InDomain ==
  ASSUME NEW w, NEW S, NEW T, S \cap DOMAIN w = T \cap DOMAIN w
  PROVE  Weight(w, S) = Weight(w, T)
BY DEF Weight

\* The keys offered are as many as the packets sent.
LEMMA OfferedIs ==
  ASSUME NEW b, IsLedger(b)
  PROVE  IsFiniteSet(Offered(b)) /\ Cardinality(Offered(b)) = b.flowMonitor.tx
<1> DEFINE n == b.flowMonitor.tx
<1>1. n \in Nat
  BY DEF IsLedger, Flow
<1> HIDE DEF n
<1>2. IsFiniteSet(1 .. n) /\ Cardinality(1 .. n) = n
  BY <1>1, UptoIs
<1>3. IsFiniteSet({Source}) /\ Cardinality({Source}) = 1
  BY FS_Singleton
<1>4. IsFiniteSet({Source} \X (1 .. n)) /\ Cardinality({Source} \X (1 .. n)) = 1 * n
  BY <1>2, <1>3, FS_Product
<1>5. 1 * n = n
  BY <1>1
<1> QED
  BY <1>4, <1>5 DEF Offered, n

\* The columns of an arm whose report does not come from the fates.
LEMMA ColumnsAre ==
  ASSUME NEW sc, NEW B, NEW b, Typed(sc, B, b), Counts(sc, B, b), sc.arm # "adaptive", sc.arm \in Arms
  PROVE  /\ Columns(b) = EventColumns(b)
         /\ Reinjected(b) = Total(b.reinj)
<1>1. b.on = AskedBy(sc.arm) /\ IsLedger(b)
  BY DEF Typed
<1>2. "fate" \notin b.on
  BY <1>1 DEF AskedBy, Arms
<1>3. Columns(b) = EventColumns(b)
  BY <1>2 DEF Columns
<1>4. CASE sc.arm = "anthocnet"
  <2>1. "reinjection" \in b.on
    BY <1>1, <1>4 DEF AskedBy
  <2>2. EventsOf(DOMAIN b.reinj, b.reinj) = Total(b.reinj)
    BY EventsOfIs DEF Total
  <2> QED
    BY <1>3, <2>1, <2>2 DEF Reinjected
<1>5. CASE sc.arm # "anthocnet"
  <2>1. "reinjection" \notin b.on
    BY <1>1, <1>5 DEF AskedBy, Arms
  <2>2. b.adaptiveReinj = 0 /\ Total(b.reinj) = 0
    BY <1>5 DEF Counts
  <2> QED
    BY <1>3, <2>1, <2>2 DEF Reinjected
<1> QED
  BY <1>4, <1>5

\* What the report takes as lost by the MAC.
LEMMA MacLostIs ==
  ASSUME NEW B, NEW b, Sums(B, b), Numeric(B, b)
  PROVE  /\ MacLost(b) = Minus(Lost(B, "gone", "mac") + Lost(B, "gone", "skipped") + Total(b.reinj),
                               Seen(B, "air", "none") + Seen(B, "gone", "recovered"))
         /\ MacLost(b) \in Nat
<1> DEFINE u == Seen(B, "air", "none") + Seen(B, "gone", "mac") + Seen(B, "gone", "skipped") + Seen(B, "gone", "recovered")
           x == Lost(B, "gone", "mac") + Lost(B, "gone", "skipped") + Total(b.reinj)
           y == Seen(B, "air", "none") + Seen(B, "gone", "recovered")
           z == Seen(B, "gone", "mac") + Seen(B, "gone", "skipped")
<1>1. x \in Nat /\ y \in Nat /\ z \in Nat /\ u = y + z
  BY DEF Numeric
<1>2. b.macDrops = x + z /\ b.hopRx = b.acked + u
  BY DEF Sums, Numeric
<1>3. UnackedRx(b) = y + z
  <2>1. b.hopRx \in Nat /\ b.acked \in Nat
    BY DEF Numeric
  <2> HIDE DEF u, x, y, z
  <2> QED
    BY <1>1, <1>2, <2>1 DEF UnackedRx, Minus
<1>4. MacLost(b) = Minus(x + z, y + z)
  BY <1>2, <1>3 DEF MacLost
<1>5. Minus(x + z, y + z) = Minus(x, y) /\ Minus(x, y) \in Nat
  <2> HIDE DEF u, x, y, z
  <2> QED
    BY <1>1 DEF Minus
<1> QED
  BY <1>4, <1>5

\* The books of an arm that recovers nothing close: what BenchRun calls BooksClose.
LEMMA ClosingBooks ==
  ASSUME BooksInv(scenario, copies, books)
  PROVE  BooksClose
<1> SUFFICES ASSUME ~Duplicates
             PROVE  LET r == Columns(books)
                    IN books.flowMonitor.tx = Len(books.rxSeq) + r.route + r.ttl + r.queue + r.mac + r.chan
  BY DEF BooksClose
<1> DEFINE b == books
           rx == Received(b)
           pq == Cardinality(b.pqPending)
           mac == MacLost(b)
<1>1. Typed(scenario, copies, b) /\ Closes(scenario, b) /\ Counts(scenario, copies, b) /\ scenario.arm \in Arms
  BY BenchAssumption DEF BooksInv, Typed
<1>2. scenario.arm # "adaptive" /\ scenario.arm # "anthocnet" /\ ~Restores(scenario)
  BY DEF Duplicates, Recovers, Restores
<1>3. Columns(b) = EventColumns(b) /\ Reinjected(b) = 0 /\ b.adaptiveArpReinj = 0 /\ Sums(copies, b)
  BY <1>1, <1>2, ColumnsAre DEF Counts
<1>4. Numeric(copies, b)
  BY <1>1, Numbers
<1>5. mac \in Nat
  BY <1>3, <1>4, MacLostIs
<1>6. /\ b.flowMonitor.tx + b.hopRx = b.hopTx + rx + b.flowMonitor.route + b.flowMonitor.ttl + pq
      /\ b.pqEcb <= b.flowMonitor.route
  BY <1>1, <1>2 DEF Closes
<1> DEFINE r == EventColumns(b)
<1>7. /\ r.route = Minus(b.flowMonitor.route, b.pqEcb) /\ r.ttl = b.flowMonitor.ttl
      /\ r.queue = b.flowMonitor.queue + pq + b.pqEcb
      /\ r.mac = (IF Reinjected(b) > 0 THEN MacTerminalCapAware(b) ELSE mac)
      /\ r.chan = HopLoss(b) - mac - b.flowMonitor.queue - b.adaptiveArpReinj
  BY DEF EventColumns
<1> HIDE DEF r, mac, pq, rx
<1>8. /\ rx \in Nat /\ pq \in Nat /\ b.hopTx \in Nat /\ b.hopRx \in Nat /\ b.pqEcb \in Nat
      /\ b.flowMonitor.tx \in Nat /\ b.flowMonitor.route \in Nat /\ b.flowMonitor.ttl \in Nat /\ b.flowMonitor.queue \in Nat
  BY <1>4 DEF Numeric, rx, pq
<1>9. r.route = b.flowMonitor.route - b.pqEcb
  BY <1>6, <1>7, <1>8 DEF Minus
<1>10. r.mac = mac
  BY <1>3, <1>7
<1>11. r.chan = (b.hopTx - b.hopRx) - mac - b.flowMonitor.queue
  BY <1>3, <1>5, <1>7, <1>8 DEF HopLoss
<1>12. b.flowMonitor.tx = rx + r.route + r.ttl + r.queue + r.mac + r.chan
  <2>1. r.queue + r.mac + r.chan = pq + b.pqEcb + (b.hopTx - b.hopRx)
    BY <1>5, <1>7, <1>8, <1>10, <1>11
  <2>2. r.route + r.ttl = (b.flowMonitor.route + b.flowMonitor.ttl) - b.pqEcb
    BY <1>7, <1>8, <1>9
  <2>3. /\ r.queue \in Int /\ r.mac \in Int /\ r.chan \in Int /\ r.route \in Int /\ r.ttl \in Int
    BY <1>5, <1>7, <1>8, <1>9, <1>10, <1>11
  <2>4. rx + r.route + r.ttl + r.queue + r.mac + r.chan = rx + (r.route + r.ttl) + (r.queue + r.mac + r.chan)
    BY <1>8, <2>3
  <2> QED
    BY <1>6, <1>8, <2>1, <2>2, <2>4
<1> QED
  BY <1>3, <1>12 DEF r, rx, Received

\* The MAC column is what the MAC lost for good: what BenchRun calls MacColumnIsTerminal.
LEMMA TerminalColumn ==
  ASSUME BooksInv(scenario, copies, books)
  PROVE  MacColumnIsTerminal
<1> DEFINE b == books
           B == copies
<1> SUFFICES ASSUME scenario.arm # "adaptive"
             PROVE  /\ Columns(b).chan >= 0
                    /\ OnTheAir = {} =>
                         Columns(b).mac =
                           IF Reinjected(b) = 0 THEN CountOf({c \in Copies : c.why = "mac" /\ ~c.got})
                           ELSE CountOf({c \in Copies : c.why = "skipped" /\ c.key \notin Delivered(b)})
  BY DEF MacColumnIsTerminal
<1>1. /\ Typed(scenario, B, b) /\ Counts(scenario, B, b) /\ Skips(scenario, B, b) /\ scenario.arm \in Arms
      /\ IsBagOf(B, CopySpace) /\ IsLedger(b)
  BY BenchAssumption DEF BooksInv, Typed
<1>2. Columns(b) = EventColumns(b) /\ Reinjected(b) = Total(b.reinj) /\ b.adaptiveArpReinj = 0 /\ Sums(B, b)
  BY <1>1, ColumnsAre DEF Counts
<1>3. Numeric(B, b)
  BY <1>1, Numbers
<1>4. /\ MacLost(b) = Minus(Lost(B, "gone", "mac") + Lost(B, "gone", "skipped") + Total(b.reinj),
                            Seen(B, "air", "none") + Seen(B, "gone", "recovered"))
      /\ MacLost(b) \in Nat
  BY <1>2, <1>3, MacLostIs
<1>5. /\ Columns(b).mac = (IF Total(b.reinj) > 0 THEN MacTerminalCapAware(b) ELSE MacLost(b))
      /\ Columns(b).chan = HopLoss(b) - MacLost(b) - b.flowMonitor.queue - 0
  BY <1>2 DEF EventColumns
<1>6. Columns(b).chan >= 0
  <2> DEFINE lost == Lost(B, "gone", "mac") + Lost(B, "gone", "skipped") + Total(b.reinj)
             back == Seen(B, "air", "none") + Seen(B, "gone", "recovered")
  <2>1. lost \in Nat /\ back \in Nat
    BY <1>3 DEF Numeric
  <2>2. Columns(b).chan = (Lost(B, "air", "none") + Lost(B, "gone", "arp"))
                            + ((lost - Seen(B, "gone", "recovered")) - MacLost(b))
    BY <1>2, <1>3, <1>4, <1>5 DEF HopLoss, Sums, Numeric
  <2>3. Seen(B, "gone", "recovered") <= lost /\ Seen(B, "gone", "recovered") <= back
    BY <1>2, <1>3 DEF Sums, Numeric
  <2>4. MacLost(b) = Minus(lost, back)
    BY <1>4
  <2> HIDE DEF lost, back
  <2>5. (lost - Seen(B, "gone", "recovered")) - MacLost(b) >= 0
    BY <1>3, <2>1, <2>3, <2>4 DEF Minus, Numeric
  <2> QED
    BY <1>3, <1>4, <2>1, <2>2, <2>5 DEF Numeric
<1>7. ASSUME OnTheAir = {}, Total(b.reinj) = 0
      PROVE  Columns(b).mac = CountOf({c \in Copies : c.why = "mac" /\ ~c.got})
  <2>1. Seen(B, "air", "none") = 0
    <3>1. SeenIn("air", "none") \cap DOMAIN B = {}
      BY <1>7 DEF OnTheAir, Copies, BagToSet, SeenIn
    <3> QED
      BY <3>1, WeightNone DEF Seen
  <2>2. Lost(B, "gone", "skipped") = 0
    <3>1. \A c \in DOMAIN B : c \in CopySpace /\ Proper(scenario, c) /\ ~(c.spent > 0)
      BY <1>1, <1>3, <1>7 DEF Counts, Typed, IsBagOf, Numeric
    <3>2. LostIn("gone", "skipped") \cap DOMAIN B = {}
      BY <3>1 DEF LostIn, Proper
    <3> QED
      BY <3>2, WeightNone DEF Lost
  <2>3. Seen(B, "gone", "recovered") = 0
    BY <1>2, <1>3, <1>7 DEF Sums, Numeric
  <2>4. Columns(b).mac = Lost(B, "gone", "mac")
    BY <1>3, <1>4, <1>5, <1>7, <2>1, <2>2, <2>3 DEF Minus, Numeric
  <2>5. {c \in Copies : c.why = "mac" /\ ~c.got} = LostIn("gone", "mac") \cap DOMAIN B
    BY <1>1, CopyFields DEF Copies, BagToSet, LostIn, Typed, IsBagOf, Proper
  <2>6. Weight(B, LostIn("gone", "mac") \cap DOMAIN B) = Weight(B, LostIn("gone", "mac"))
    BY InDomain
  <2> QED
    BY <2>4, <2>5, <2>6, CountOfIs DEF Lost
<1>8. ASSUME OnTheAir = {}, Total(b.reinj) # 0
      PROVE  Columns(b).mac = CountOf({c \in Copies : c.why = "skipped" /\ c.key \notin Delivered(b)})
  <2>1. scenario.arm = "anthocnet"
    BY <1>1, <1>8 DEF Counts
  <2>2. Lost(B, "gone", "mac") = 0 /\ Seen(B, "gone", "mac") = 0
    <3>1. \A c \in DOMAIN B : c.why # "mac"
      BY <1>1, <2>1 DEF Typed, Proper, Restores
    <3>2. LostIn("gone", "mac") \cap DOMAIN B = {} /\ SeenIn("gone", "mac") \cap DOMAIN B = {}
      BY <3>1 DEF LostIn, SeenIn
    <3> QED
      BY <3>2, WeightNone DEF Lost, Seen
  <2> DEFINE all == SkippedOf(Keys)
             got == SkippedOf(Delivered(b))
             rest == {c \in Copies : c.why = "skipped" /\ c.key \notin Delivered(b)}
  <2>3. Lost(B, "gone", "skipped") + Seen(B, "gone", "skipped") = Weight(B, all)
    <3>1. LostIn("gone", "skipped") \cap SeenIn("gone", "skipped") = {}
      BY DEF LostIn, SeenIn
    <3>2. Weight(B, LostIn("gone", "skipped") \cup SeenIn("gone", "skipped"))
            = Lost(B, "gone", "skipped") + Seen(B, "gone", "skipped")
      BY <1>1, <3>1, WeightUnion DEF Lost, Seen, IsBagOf
    <3>3. (LostIn("gone", "skipped") \cup SeenIn("gone", "skipped")) \cap DOMAIN B = all \cap DOMAIN B
      BY <1>1, CopyFields DEF LostIn, SeenIn, SkippedOf, Typed, Proper
    <3> QED
      BY <3>2, <3>3, InDomain
  <2>4. Weight(B, all) = Weight(B, got) + Weight(B, rest)
    <3>1. got \cap rest = {}
      BY DEF SkippedOf
    <3>2. Weight(B, got \cup rest) = Weight(B, got) + Weight(B, rest)
      BY <1>1, <3>1, WeightUnion DEF IsBagOf
    <3>3. (got \cup rest) \cap DOMAIN B = all \cap DOMAIN B
      BY <1>1, CopyFields DEF SkippedOf, Copies, BagToSet, IsBagOf
    <3> QED
      BY <3>2, <3>3, InDomain
  <2>5. SkipsDelivEvents(b) = Weight(B, got)
    <3> DEFINE K == {k \in DOMAIN b.reinjSkip : b.reinjSkip[k].rxAtFirstSkip >= 1 \/ RxCount(b, k) >= 1}
    <3>1. K = Delivered(b) \cap DOMAIN b.reinjSkip
      BY <1>1, RxCountIs DEF Skips, IsLedger
    <3>2. DOMAIN Events(b.reinjSkip) = DOMAIN b.reinjSkip
      BY DEF Events
    <3>3. EventsOf(K, b.reinjSkip) = Weight(Events(b.reinjSkip), K)
      BY EventsOfIs
    <3>4. Weight(Events(b.reinjSkip), K) = Weight(Events(b.reinjSkip), Delivered(b))
      BY <3>1, <3>2, InDomain
    <3>5. Weight(Events(b.reinjSkip), Delivered(b)) = Weight(B, got)
      BY <1>1 DEF Skips
    <3> QED
      BY <3>3, <3>4, <3>5 DEF SkipsDelivEvents
  <2>6. b.macDrops = Weight(B, got) + Weight(B, rest) + Total(b.reinj)
    BY <1>2, <1>3, <2>2, <2>3, <2>4 DEF Sums, Numeric
  <2>7. Weight(B, got) \in Nat /\ Weight(B, rest) \in Nat /\ Total(b.reinj) \in Nat
    BY <1>1, <1>3, CountType DEF Numeric
  <2>8. CountOf(rest) = Weight(B, rest)
    BY CountOfIs DEF Copies, BagToSet
  <2> HIDE DEF all, got, rest
  <2>9. MacTerminalCapAware(b) = Weight(B, rest)
    BY <1>2, <2>5, <2>6, <2>7 DEF MacTerminalCapAware, Minus
  <2>10. Columns(b).mac = Weight(B, rest)
    BY <1>5, <1>8, <2>7, <2>9
  <2> QED
    BY <2>8, <2>10 DEF rest
<1> QED
  BY <1>2, <1>6, <1>7, <1>8

\* The books follow the copies: what BenchRun calls BooksFollowCopies.
LEMMA FollowingBooks ==
  ASSUME BooksInv(scenario, copies, books)
  PROVE  BooksFollowCopies
<1> DEFINE b == books
           B == copies
<1>1. /\ Typed(scenario, B, b) /\ Agreement(scenario, B, b) /\ Copies = DOMAIN B /\ IsLedger(b)
  BY DEF BooksInv, Typed, Copies, BagToSet
<1>2. ASSUME NEW c \in Copies, c.why = "delivered", \A d \in Copies : d.key = c.key => d.why # "recovered" /\ d.spent = 0
      PROVE  b.routeRx[c.key] = c.path
  <2>1. Single(B, c.key) /\ Clean(B, c.key) /\ ~c.got
    BY <1>1, <1>2 DEF Single, Clean, Marked, Typed, Proper
  <2>2. Agrees(scenario, b, c, Clean(B, c.key))
    BY <1>1, <2>1 DEF Agreement
  <2> QED
    BY <1>2, <2>1, <2>2 DEF Agrees, Follows
<1>3. ASSUME scenario.arm = "adaptive" PROVE Unseen(b) = 0
  <2>1. DOMAIN b.fate = Offered(b) /\ Delivered(b) \subseteq Offered(b)
    BY <1>1, <1>3 DEF Typed
  <2>2. IsFiniteSet(Offered(b)) /\ Cardinality(Offered(b)) = b.flowMonitor.tx
    BY <1>1, OfferedIs
  <2> DEFINE D == Delivered(b)
             O == Offered(b)
  <2> HIDE DEF D, O
  <2>3. IsFiniteSet(D) /\ IsFiniteSet(O \ D) /\ D \cap (O \ D) = {} /\ O = D \cup (O \ D)
    BY <2>1, <2>2, FS_Subset DEF D, O
  <2>4. Cardinality(D \cap (O \ D)) = 0 /\ Cardinality(D) \in Nat /\ Cardinality(O \ D) \in Nat
    BY <2>3, FS_EmptySet, FS_CardinalityType
  <2>5. Cardinality(D \cup (O \ D)) = Cardinality(D) + Cardinality(O \ D) - Cardinality(D \cap (O \ D))
    BY <2>3, FS_Union
  <2>6. b.flowMonitor.tx = Cardinality(D) + Cardinality(O \ D)
    <3>1. Cardinality(O) = b.flowMonitor.tx
      BY <2>2 DEF O
    <3>2. Cardinality(O) = Cardinality(D) + Cardinality(O \ D) - 0
      BY <2>3, <2>4, <2>5
    <3> QED
      BY <2>4, <3>1, <3>2
  <2>7. Unseen(b) = b.flowMonitor.tx - Cardinality(D) - Cardinality(O \ D)
    BY <2>1 DEF Unseen, D, O
  <2> QED
    BY <2>4, <2>6, <2>7
<1>4. ASSUME scenario.arm = "adaptive", NEW c \in Copies, ~c.got, c.key \notin Delivered(b),
             \A d \in Copies : d.key = c.key => d.why # "recovered"
      PROVE  b.fate[c.key].last = Whereabouts(c)
  <2>1. Agrees(scenario, b, c, Clean(B, c.key))
    BY <1>1, <1>4 DEF Agreement, Single
  <2> QED
    BY <1>4, <2>1 DEF Agrees
<1> QED
  BY <1>2, <1>3, <1>4 DEF BooksFollowCopies

\* In every state of every run the report of an arm that recovers nothing accounts for
\* each packet offered once: delivered, or in one column of drop causes (PrintMetrics).
THEOREM BooksCloseAlways == Spec => []BooksClose
BY BooksInvAlways, ClosingBooks, PTL

\* In every state the channel column is not negative, and once the air is quiet the MAC
\* column is what the MAC lost for good, whatever was received, acknowledged, re-injected or
\* skipped before (MacLost, MacTerminalCapAware).
THEOREM MacColumnIsTerminalAlways == Spec => []MacColumnIsTerminal
BY BooksInvAlways, TerminalColumn, PTL

\* In every state the path booked for a packet that was never recovered is the one its copy
\* took, and the fate booked for an undelivered packet is where it is (CountDeliveredHops,
\* FateMark).
THEOREM BooksFollowCopiesAlways == Spec => []BooksFollowCopies
BY BooksInvAlways, FollowingBooks, PTL

\* Reordering is measured as it is defined: what BenchRun calls ReorderingAsDefined.
LEMMA ReorderingMeasured ==
  ASSUME books.rxSeq \in Seq(Keys)
  PROVE  ReorderingAsDefined
<1> DEFINE arr == Arrivals
<1>1. arr \in Seq(Nat)
  <2>1. \A i \in 1 .. Len(books.rxSeq) : books.rxSeq[i] \in Keys /\ books.rxSeq[i][2] \in Nat
    BY DEF Keys
  <2> QED
    BY <2>1 DEF Arrivals
<1> HIDE DEF arr
<1>2. DOMAIN arr = 1 .. Len(arr) /\ Len(arr) \in Nat
  BY <1>1
<1>3. IsReordered(arr) = {i \in DOMAIN arr : arr[i] < NextExp(arr, i)}
  BY <1>1, ReorderedIs
<1>4. ASSUME NEW i \in IsReordered(arr), {j \in 1 .. i - 1 : arr[j] > arr[i]} # {}
      PROVE  Extent(arr, i) = i - Min({j \in 1 .. i - 1 : arr[j] > arr[i]})
  BY <1>1, <1>2, <1>3, <1>4, ExtentIs
<1>5. ASSUME NEW i \in IsReordered(arr), {j \in 1 .. i - 1 : arr[j] > arr[i]} = {}
      PROVE  Extent(arr, i) = 0 /\ Repeats(arr, i)
  BY <1>1, <1>5, ExtentNone
<1>6. BufMax(arr) = Max({0} \cup {Cardinality(HeldBack(arr, i)) : i \in DOMAIN arr})
  <2>1. \A i \in DOMAIN arr : Occupancy(arr, i) = Cardinality(HeldBack(arr, i))
    BY <1>1, OccupancyIs
  <2>2. {Occupancy(arr, i) : i \in DOMAIN arr} = {Cardinality(HeldBack(arr, i)) : i \in DOMAIN arr}
    BY <2>1
  <2> QED
    BY <2>2 DEF BufMax
<1> QED
  BY <1>3, <1>4, <1>5, <1>6 DEF ReorderingAsDefined, arr

\* In every state, whatever arrived in whatever order and however often, what is reordered
\* and by how much is as RFC 4737 has it, by 0 only for a second copy of the largest number
\* so far; and the buffer holds what waits for a smaller number, every second copy and
\* whatever is above one (ComputeReorder).
THEOREM ReorderingAsDefinedAlways == Spec => []ReorderingAsDefined
<1>1. BooksInv(scenario, copies, books) => ReorderingAsDefined
  <2>1. BooksInv(scenario, copies, books) => books.rxSeq \in Seq(Keys)
    BY DEF BooksInv, Typed, IsLedger
  <2> QED
    BY <2>1, ReorderingMeasured
<1> QED
  BY <1>1, BooksInvAlways, PTL
================================================================================
